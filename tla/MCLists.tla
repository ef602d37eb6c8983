------------------------------ MODULE MCLists ------------------------------
(***************************************************************************)
(* What a browser shows: the pages of a task list and the ranks that       *)
(* dragging its rows changes, as the server keeps them, what a tab holds   *)
(* of the tasks, and the session its calls are made in.  The four share no *)
(* state: a behaviour works one of them, and the others stay as they begin.*)
(***************************************************************************)
EXTENDS TaskRanks, TaskPages, TaskView, SessionClient, TLC

\* One request after the other does what a does, or two at once do a and b.
Both(a, b) == {m \in [Requests -> {a, b}] : {m[r] : r \in Requests} = {a, b}}

Walks == Both({"walk"}, PageOps \ {"walk"})

Ranking == {[r \in Requests |-> {"rank"}]}

\* Per view: what two calls under way at once are for.
Edits == {"update", "status", "assign", "bulk", "delete", "bulkdelete", "create"}
SubtaskEdits == {"subupdate", "subdelete", "subcreate", "update"}
ViewMixes ==
  [list |-> Both({"list", "open"}, Edits) \union Both({"list", "panel"}, SubtaskEdits)
             \union Both({"open"}, {"subupdate", "subdelete"}),
   gantt |-> Both({"chart", "drag"}, {}) \union Both({"drag"}, {"chart", "list"}),
   groups |-> Both({"groups", "turn"}, {"groups", "turn", "delete"}),
   kanban |-> Both({"board", "more"}, {"board", "more", "create"})]
Screens == UNION {ViewMixes[v] : v \in DOMAIN ViewMixes}
Scopes == [project |-> {1, 2}, sprint |-> {2, 3}, workspace |-> {1, 2, 3}]

CallMixes ==
  Both({"call"}, {"call", "ages"})
  \union Both({"call"}, {"ages", "elsewhere"})
  \union Both({"call"}, {"logout", "login"})
  \union Both({"call"}, {"logout", "ages"})
  \union Both({"reload"}, {"call", "ages"})

ListMixes == Walks \union Ranking \union Screens \union CallMixes

AllOps == {"create", "bulk", "batch", "reorder"}
OneAtATime == {{AllOps, {}}}
Together == {{{"reorder"}}, {{"create"}, {"reorder"}}}

\* One request asks for everything, two reorder, or one creates and one reorders.
RankClients ==
  UNION {{c \in [Slots -> s] : s = {c[r] : r \in Slots}} : s \in OneAtATime \union Together}

\* The parts a behaviour does not work begin in one way.
ListsInit ==
  /\ HandlersInit
  /\ PagesInit /\ ~row[1].plain
  /\ mix \notin Walks => \A t \in Old : row[t].group = 1 /\ ~row[t].plain
  /\ Init
  /\ mix \notin Ranking => top = {} /\ \A r \in Slots : asked[r] = {"reorder"}
  /\ ViewInit
  /\ IF mix \in Screens THEN mix \in ViewMixes[shown.view]
     ELSE shown.query.site = "sprint" /\ shown.view = "list" /\ \A t \in Cards : card[t].live
  /\ SessionInit /\ \E r \in Requests : tab[r] = 1
  /\ mix \notin CallMixes => \A r \in Requests : tab[r] = 1

ListsNext ==
  \/ /\ \/ mix \in Walks /\ (\E r \in Requests : PageStep(r)) /\ UNCHANGED <<viewVars, sessionVars>>
        \/ mix \in Screens /\ ((\E r \in Requests : ViewStep(r)) \/ CloseTask) /\ UNCHANGED <<pageVars, sessionVars>>
        \/ mix \in CallMixes /\ (\E r \in Requests : SessionStep(r)) /\ UNCHANGED <<pageVars, viewVars>>
     /\ UNCHANGED <<mix, vars>>
  \/ mix \in Ranking /\ Next /\ UNCHANGED <<handlerVars, pageVars, viewVars, sessionVars>>

listsVars == <<vars, handlerVars, pageVars, viewVars, sessionVars>>
ListsSpec == ListsInit /\ [][ListsNext]_listsVars

ListsSymmetry == Permutations(Requests)
=============================================================================
