----------------------------- MODULE TaskRanks -----------------------------
(***************************************************************************)
(* The order of the tasks of one scope and view: TaskRanksService, with    *)
(* the creations of TasksService and the imports that seed ranks.  A       *)
(* reorder is a chain of queries, seed what has no rank, look at the       *)
(* neighbours, write, and renumber when ranks got too close, and the       *)
(* chains of several people interleave.                                    *)
(*                                                                         *)
(* Ranks are floats in the code.  Here 1.0 is Unit and the closeness       *)
(* threshold is Threshold; a rank halfway between two others is written    *)
(* only where the scale has it.  Tasks are numbers, in the order of ids.   *)
(***************************************************************************)
EXTENDS Integers, FiniteSets

CONSTANTS
  Tasks,
  Early,        \* tasks that may be there from before there were ranks
  Slots,        \* for requests handled at one time
  Clients,      \* the ways to share "create", "bulk", "batch" and "reorder" among the requests: each
                \* gives the operations that may be asked as each request
  Unit, Threshold,
  Lowest, Highest,  \* bounds: ranks stay within so many units below and above 0
  NoRank, NoTask

ASSUME RanksAssumption ==
  /\ Tasks \subseteq Nat /\ IsFiniteSet(Tasks) /\ Early \subseteq Tasks
  /\ Clients \subseteq [Slots -> SUBSET {"create", "bulk", "batch", "reorder"}]
  /\ Unit \in Nat /\ Threshold \in 1 .. Unit
  /\ Lowest \in Nat /\ Highest \in Nat /\ Highest >= Cardinality(Tasks)
  /\ NoRank \notin Int /\ NoTask \notin Int

VARIABLES
  top,      \* the top-level tasks of the scope
  rank,     \* their rows in task_ranks
  busy,     \* the requests in progress
  asked     \* the operations the clients ask, fixed throughout

vars == <<top, rank, busy, asked>>

Ranks == -(Unit * Lowest) .. Unit * Highest
Numberings(S) == {f \in [S -> 1 .. Cardinality(S)] : \A s, t \in S : f[s] = f[t] => s = t}
WithRank == {t \in top : rank[t] # NoRank}
MaxRank == IF WithRank = {} THEN 0
           ELSE CHOOSE m \in Ranks : /\ \E t \in WithRank : rank[t] = m
                                     /\ \A t \in WithRank : rank[t] <= m
Precedes(ranks, s, t) == ranks[s] < ranks[t] \/ (ranks[s] = ranks[t] /\ s < t)
Before(s, t) == Precedes(rank, s, t)

\* clean: nobody else wrote a rank since the request began.
Free == [step |-> "idle", op |-> "reorder", who |-> {}, task |-> NoTask, after |-> NoTask,
         before |-> NoTask, base |-> 0, a |-> NoRank, b |-> NoRank, order |-> <<>>,
         clean |-> TRUE]

Init ==
  /\ top \in SUBSET Early
  /\ rank = [t \in Tasks |-> NoRank]
  /\ busy = [r \in Slots |-> Free]
  /\ asked \in Clients

Doing(r, step) == busy[r].step = step
GoTo(r, q) == busy' = [busy EXCEPT ![r] = q] /\ UNCHANGED <<top, rank>>

\* A write of ranks by r, which goes on as q.
Wrote(r, q) ==
  busy' = [s \in Slots |-> IF s = r THEN q
                           ELSE IF busy[s].step = "idle" THEN Free
                           ELSE [busy[s] EXCEPT !.clean = FALSE]]

-----------------------------------------------------------------------------
\* seedForTask, seedForTasksBatch: the highest rank, then the rows.  Only
\* creations in the same project wait for each other.

AskCreate(r) ==
  /\ Doing(r, "idle")
  /\ \E op \in asked[r] \ {"reorder"}, who \in SUBSET (Tasks \ top) \ {{}} :
       /\ op = "create" => Cardinality(who) = 1
       /\ \A q \in Slots : busy[q].step # "idle" => who \intersect busy[q].who = {}
       /\ GoTo(r, [Free EXCEPT !.step = "rows", !.op = op, !.who = who, !.base = MaxRank])

\* The commit makes the tasks visible with their ranks.  bulkCreate seeds its
\* tasks in parallel: each one's query for the highest rank comes before the
\* first row is written, and all get the same rank.
Create(r) ==
  /\ Doing(r, "rows")
  /\ LET who == busy[r].who IN
       \E f \in IF busy[r].op = "bulk" THEN {[t \in who |-> 1]} ELSE Numberings(who) :
         /\ \A t \in who : busy[r].base + f[t] * Unit \in Ranks
         /\ rank' = [t \in Tasks |-> IF t \in who THEN busy[r].base + f[t] * Unit ELSE rank[t]]
         /\ top' = top \union who
  /\ Wrote(r, Free)

-----------------------------------------------------------------------------
\* reorder

AskReorder(r) ==
  /\ "reorder" \in asked[r] /\ Doing(r, "idle")
  /\ \E t \in top, a, b \in top \union {NoTask} :
       /\ t \notin {a, b}
       /\ a # NoTask => a # b
       /\ GoTo(r, [Free EXCEPT !.step = "unranked", !.task = t, !.after = a, !.before = b])

FindUnranked(r) ==
  /\ Doing(r, "unranked")
  /\ LET none == top \ WithRank IN
       GoTo(r, [busy[r] EXCEPT !.who = none, !.step = IF none = {} THEN "neighbours" ELSE "max"])

FindMax(r) ==
  /\ Doing(r, "max")
  /\ GoTo(r, [busy[r] EXCEPT !.base = MaxRank, !.step = "seed"])

SeedMoved(r) ==                                                         \* mutant
  /\ Doing(r, "seed")
  /\ LET none == busy[r].who \intersect {busy[r].task} IN
       /\ \A t \in none : busy[r].base + Unit \in Ranks
       /\ rank' = [t \in Tasks |-> IF t \in none THEN busy[r].base + Unit ELSE rank[t]]
  /\ Wrote(r, [busy[r] EXCEPT !.who = {}, !.base = 0, !.step = "neighbours"])
  /\ UNCHANGED top

\* createMany with skipDuplicates: below all that were there, in some order.
Seed(r) ==
  /\ Doing(r, "seed")
  /\ \E f \in Numberings(busy[r].who) :
       /\ \A t \in busy[r].who : busy[r].base + f[t] * Unit \in Ranks
       /\ rank' = [t \in Tasks |-> IF t \in busy[r].who /\ rank[t] = NoRank
                                     THEN busy[r].base + f[t] * Unit ELSE rank[t]]
  /\ Wrote(r, [busy[r] EXCEPT !.who = {}, !.base = 0, !.step = "neighbours"])
  /\ UNCHANGED top

RankOf(t) == IF t = NoTask THEN NoRank ELSE rank[t]

\* getNeighborRanks: one or both of the neighbours named.
FindNeighbours(r) ==
  /\ Doing(r, "neighbours")
  /\ LET a == RankOf(busy[r].after)
         b == RankOf(busy[r].before)
     IN GoTo(r, [busy[r] EXCEPT !.a = a, !.b = b,
                 !.step = IF (a = NoRank) # (b = NoRank) THEN "adjacent" ELSE "write"])

\* The highest rank below x and the lowest above it.
Below(x) == {n \in Ranks : \E t \in WithRank : rank[t] = n /\ n < x}
Above(x) == {n \in Ranks : \E t \in WithRank : rank[t] = n /\ n > x}
Closest(x, S) ==
  IF S = {} THEN NoRank ELSE CHOOSE n \in S : \A m \in S : (n < x => m <= n) /\ (n > x => m >= n)
Farthest(x, S) ==                                                       \* mutant
  IF S = {} THEN NoRank ELSE CHOOSE n \in S : \A m \in S : (n < x => m >= n) /\ (n > x => m <= n)

FindFarthest(r) ==                                                      \* mutant
  /\ Doing(r, "adjacent")
  /\ LET a == busy[r].a
         b == busy[r].b
     IN GoTo(r, [busy[r] EXCEPT !.step = "write",
                 !.a = IF a = NoRank THEN Farthest(b, Below(b)) ELSE a,
                 !.b = IF b = NoRank THEN Farthest(a, Above(a)) ELSE b])

FindAdjacent(r) ==
  /\ Doing(r, "adjacent")
  /\ LET a == busy[r].a
         b == busy[r].b
     IN GoTo(r, [busy[r] EXCEPT !.step = "write",
                 !.a = IF a = NoRank THEN Closest(b, Below(b)) ELSE a,
                 !.b = IF b = NoRank THEN Closest(a, Above(a)) ELSE b])

computeRank(a, b) ==
  CASE a = NoRank /\ b = NoRank -> Unit
    [] a = NoRank /\ b # NoRank -> b - Unit
    [] a # NoRank /\ b = NoRank -> a + Unit
    [] OTHER -> (a + b) \div 2

Close(x, y) == IF x > y THEN x - y < Threshold ELSE y - x < Threshold
needsRebalance(a, b, x) == (a # NoRank /\ Close(a, x)) \/ (b # NoRank /\ Close(b, x))

Write(r) ==
  /\ Doing(r, "write")
  /\ LET x == computeRank(busy[r].a, busy[r].b) IN
       /\ x # NoRank => x \in Ranks
       /\ NoRank \notin {busy[r].a, busy[r].b} => (busy[r].a + busy[r].b) % 2 = 0
       /\ rank' = [rank EXCEPT ![busy[r].task] = x]
       /\ Wrote(r, IF needsRebalance(busy[r].a, busy[r].b, x)
                   THEN [busy[r] EXCEPT !.step = "order", !.a = NoRank, !.b = NoRank]
                   ELSE Free)
  /\ UNCHANGED top

\* rebalance: the place of every row, by rank and then by id.
ReadOrder(r) ==
  /\ Doing(r, "order")
  /\ GoTo(r, [busy[r] EXCEPT !.step = "renumber",
              !.order = [t \in WithRank |-> Cardinality({s \in WithRank : Before(s, t)}) + 1]])

Renumber(r) ==
  /\ Doing(r, "renumber")
  /\ LET place == busy[r].order IN
       rank' = [t \in Tasks |-> IF t \in DOMAIN place THEN place[t] * Unit ELSE rank[t]]
  /\ Wrote(r, Free)
  /\ UNCHANGED top

-----------------------------------------------------------------------------
Step(r) ==
  \/ AskCreate(r) \/ Create(r) \/ AskReorder(r) \/ FindUnranked(r) \/ FindMax(r) \/ Seed(r)
  \/ FindNeighbours(r) \/ FindAdjacent(r) \/ Write(r) \/ ReadOrder(r) \/ Renumber(r)

Next == (\E r \in Slots : Step(r)) /\ UNCHANGED asked

Spec == Init /\ [][Next]_vars

-----------------------------------------------------------------------------
TypeOK ==
  /\ top \subseteq Tasks
  /\ \A t \in Tasks : rank[t] \in Ranks \union {NoRank}
  /\ \A t \in Tasks \ Early : t \in top <=> rank[t] # NoRank
  /\ \A r \in Slots : busy[r].who \subseteq Tasks /\ busy[r].base \in Ranks
                        /\ DOMAIN busy[r].order \subseteq top

\* "EVERY task belonging to the given scope" has a rank before the neighbours
\* of a reorder are looked up, whoever else creates tasks or seeds ranks.
SeededBeforeReorder ==
  \A r \in Slots : busy[r].step \in {"neighbours", "adjacent", "write"} => top = WithRank

\* Dropped next to one task, a task that nobody else moved anything around lands
\* on that side of it with nothing in between.
DroppedNextTo ==
  [][ \A r \in Slots :
        /\ busy[r].step = "write" /\ busy'[r].step # "write" /\ busy[r].clean
        => LET x == busy[r].task
               a == busy[r].after
               b == busy[r].before
               Others == WithRank \ {x}
           IN /\ a # NoTask /\ b = NoTask =>
                   /\ rank'[x] > rank[a]
                   /\ \A t \in Others : ~(rank[a] < rank[t] /\ rank[t] < rank'[x])
              /\ a = NoTask /\ b # NoTask =>
                   /\ rank'[x] < rank[b]
                   /\ \A t \in Others : ~(rank'[x] < rank[t] /\ rank[t] < rank[b]) ]_vars

\* A reorder that nobody interrupts leaves its task apart from the neighbours it
\* was given, so that the next drop between them finds room.
RoomAfterwards ==
  [][ \A r \in Slots :
        /\ busy[r].step \in {"write", "renumber"} /\ busy'[r].step = "idle" /\ busy[r].clean
        => \A n \in {busy[r].after, busy[r].before} \ {NoTask} :
             ~Close(rank'[n], rank'[busy[r].task]) ]_vars

\* Renumbering keeps the order, unless ranks were written since it was read.
RenumberKeepsOrder ==
  [][ \A r \in Slots :
        /\ busy[r].step = "renumber" /\ busy'[r].step = "idle" /\ busy[r].clean
        => \A s, t \in WithRank : Before(s, t) => rank'[s] < rank'[t] ]_vars

\* A drop is where it was dropped, has room there, and disturbs no other order.
DropsInPlace == DroppedNextTo /\ RoomAfterwards /\ RenumberKeepsOrder
=============================================================================
