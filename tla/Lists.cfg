\* Nothing is asked once the bounds on ranks, removals and what the user does are
\* reached.
CONSTANTS
  Tasks = {1, 2, 3}
  Early = {1, 2}
  Slots = {r1, r2}
  Clients <- RankClients
  Unit = 2
  Threshold = 2
  Lowest = 1
  Highest = 3
  NoRank = NoRank
  NoTask = NoTask
  Requests = {r1, r2}
  Mixes <- ListMixes
  Projects = {p1}
  Numbers = {1, 2, 3, 4}
  Groups = {1, 2}
  Limit = 2
  Old = {1, 2, 3}
  MaxRemovals = 1
  Cards = {1, 2, 3}
  Under = {2}
  Unmade = {3}
  Scope <- Scopes
  Columns = {"todo", "done"}
  First = "todo"
  PerPage = 2
  MaxActs = 2
  Tabs = {1, 2}
  MaxPairs = 3
  MaxAttempts = 1
SPECIFICATION ListsSpec
    
PROPERTY DropsInPlace
SYMMETRY ListsSymmetry
CHECK_DEADLOCK FALSE
