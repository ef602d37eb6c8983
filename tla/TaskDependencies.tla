-------------------------- MODULE TaskDependencies --------------------------
(***************************************************************************)
(* TaskDependenciesService.  A request is a sequence of database queries:  *)
(* a create (or each element of a bulk create) looks its tasks up, looks   *)
(* for an existing row, walks the graph with one query per task to find    *)
(* out whether the new edge closes a cycle, and inserts; an update reads   *)
(* its row, walks, and writes the fields it was given.  No transaction     *)
(* spans these queries, so any number of requests interleave between them. *)
(*                                                                         *)
(* A row of task_dependencies is identified by its current pair (the table *)
(* has a unique constraint on it); row[r] follows the row a request holds  *)
(* by its id when another request rewrites or deletes it.                  *)
(***************************************************************************)
EXTENDS DependencyGraph, Sequences, Naturals

CONSTANTS
  Requests,    \* requests that can be in progress at once
  MaxBulk,     \* bound on the elements of one bulk create
  NoTask,      \* a field an update leaves out
  NoEdge       \* no pair / a row that is gone

ASSUME MaxBulkAssumption == MaxBulk \in Nat
ASSUME RequestsAssumption == Requests # {}
ASSUME NoTaskAssumption == NoTask \notin Tasks
ASSUME NoEdgeAssumption == NoEdge \notin Tasks \X Tasks

VARIABLES
  pc,        \* the next query of each request
  todo,      \* the pairs a create has still to process
  edge,      \* the pair under validation
  row,       \* update and remove: the row that findOne returned
  patch,     \* update: the fields of the request body
  visited,   \* validateNoCycles: the set `visited`
  stack,     \* validateNoCycles: the dependencies still to try, per recursive call
  window,    \* history: kinds of graph writes by others since validation began
  raced      \* history: an edge was written although another had been in between

reqVars == <<pc, todo, edge, row, patch, visited, stack>>
vars == <<tasks, deps, reqVars, window, raced>>

Patches == (Tasks \union {NoTask}) \X (Tasks \union {NoTask})

\* The row an update writes: the fields it was given, the others as they are.
Merge(e, p) == <<IF p[1] = NoTask THEN e[1] ELSE p[1],
                 IF p[2] = NoTask THEN e[2] ELSE p[2]>>

BlockedBy(t) == {b \in Tasks : <<b, t>> \in deps}                       \* mutant
BlockingEither(t) == {b \in Tasks : {<<t, b>>, <<b, t>>} \cap deps # {}} \* mutant

\* The where clause of the walk's query: the tasks that t depends on.
Blocking(t) == {b \in Tasks : <<t, b>> \in deps}

Exist(e) == e[1] \in tasks /\ e[2] \in tasks

Bodies == UNION {[1 .. n -> Edges] : n \in 1 .. MaxBulk}

Init ==
  /\ GraphInit
  /\ pc = [r \in Requests |-> "idle"]
  /\ todo = [r \in Requests |-> <<>>]
  /\ edge = [r \in Requests |-> NoEdge]
  /\ row = [r \in Requests |-> NoEdge]
  /\ patch = [r \in Requests |-> <<NoTask, NoTask>>]
  /\ visited = [r \in Requests |-> {}]
  /\ stack = [r \in Requests |-> <<>>]
  /\ window = [r \in Requests |-> {}]
  /\ raced = FALSE

-----------------------------------------------------------------------------
\* Request r is answered.  createBulk logs a failure and goes on with the next.
Answer(r) ==
  /\ todo' = [todo EXCEPT ![r] = IF @ = <<>> THEN @ ELSE Tail(@)]
  /\ pc' = [pc EXCEPT ![r] = IF Len(todo[r]) > 1 THEN "lookup" ELSE "idle"]
  /\ edge' = [edge EXCEPT ![r] = NoEdge]
  /\ patch' = [patch EXCEPT ![r] = <<NoTask, NoTask>>]
  /\ visited' = [visited EXCEPT ![r] = {}]
  /\ stack' = [stack EXCEPT ![r] = <<>>]

Validating(q) == pc[q] \in {"walk", "write"}

\* A write to the graph of the given kind, as the others validating see it.
Wrote(r, kind) ==
  window' = [q \in Requests |->
               IF q = r \/ ~Validating(q) THEN {} ELSE window[q] \union {kind}]

Unread(r) == window' = [window EXCEPT ![r] = {}]

\* validateNoCycles(e[1], e[2]): existsPath is called for the blocking task.
BeginWalk(r, e) ==
  /\ pc' = [pc EXCEPT ![r] = "walk"]
  /\ edge' = [edge EXCEPT ![r] = e]
  /\ visited' = [visited EXCEPT ![r] = {}]
  /\ stack' = [stack EXCEPT ![r] = <<{e[2]}>>]
  /\ window' = [window EXCEPT ![r] = {}]

-----------------------------------------------------------------------------
\* create, createBulk

StartCreate(r) ==
  /\ pc[r] = "idle"
  /\ \E es \in Bodies : todo' = [todo EXCEPT ![r] = es]
  /\ pc' = [pc EXCEPT ![r] = "lookup"]
  /\ UNCHANGED <<tasks, deps, edge, row, patch, visited, stack, window, raced>>

\* The self-dependency checks and findTaskByIdOrSlug of both tasks.
Lookup(r) ==
  /\ pc[r] = "lookup"
  /\ LET e == Head(todo[r]) IN
       \/ /\ e[1] = e[2] \/ ~Exist(e)
          /\ Answer(r)
       \/ /\ e[1] # e[2] /\ Exist(e)
          /\ pc' = [pc EXCEPT ![r] = "exists"]
          /\ UNCHANGED <<todo, edge, patch, visited, stack>>
  /\ UNCHANGED <<tasks, deps, row, window, raced>>

\* findUnique on the pair; a new pair goes on to validateNoCycles.
CheckExisting(r) ==
  /\ pc[r] = "exists"
  /\ LET e == Head(todo[r]) IN
       \/ /\ e \in deps
          /\ Answer(r)
          /\ UNCHANGED window
       \/ /\ e \notin deps
          /\ BeginWalk(r, e)
          /\ UNCHANGED <<todo, patch>>
  /\ UNCHANGED <<tasks, deps, row, raced>>

\* prisma.taskDependency.create: unique constraint and foreign keys hold.
CommitCreate(r) ==
  /\ pc[r] = "write" /\ todo[r] # <<>>
  /\ \/ /\ edge[r] \notin deps /\ Exist(edge[r])
        /\ deps' = deps \union {edge[r]}
        /\ raced' = (raced \/ "insert" \in window[r])
        /\ Wrote(r, "insert")
        /\ Answer(r)
     \/ /\ edge[r] \in deps \/ ~Exist(edge[r])
        /\ Answer(r)
        /\ Unread(r)
        /\ UNCHANGED <<deps, raced>>
  /\ UNCHANGED <<tasks, row>>

-----------------------------------------------------------------------------
\* validateNoCycles: one query per task that the walk reaches

\* existsPath(c, dependent) for an untried dependency c of the current call.
Descend(r) ==
  /\ pc[r] = "walk" /\ stack[r] # <<>>
  /\ \E c \in Head(stack[r]) \ visited[r] :
       /\ c # edge[r][1]
       /\ visited' = [visited EXCEPT ![r] = @ \union {c}]
       /\ stack' = [stack EXCEPT ![r] = <<Blocking(c)>> \o @]
  /\ UNCHANGED <<tasks, deps, pc, todo, edge, row, patch, window, raced>>

\* existsPath(c, dependent) with c = dependent: true, up to the first caller.
FoundPath(r) ==
  /\ pc[r] = "walk" /\ stack[r] # <<>>
  /\ edge[r][1] \in Head(stack[r]) \ visited[r]
  /\ Answer(r)
  /\ row' = [row EXCEPT ![r] = NoEdge]
  /\ Unread(r)
  /\ UNCHANGED <<tasks, deps, raced>>

\* mutant: the answer of the first nested call is taken for the whole walk
ReturnFirst(r) ==
  /\ pc[r] = "walk" /\ stack[r] # <<>>
  /\ Head(stack[r]) \subseteq visited[r]
  /\ stack' = [stack EXCEPT ![r] = <<>>]
  /\ pc' = [pc EXCEPT ![r] = "write"]
  /\ UNCHANGED <<tasks, deps, todo, edge, row, patch, visited, window, raced>>

\* mutant: no answer for a task without dependencies
ReturnNonEmpty(r) ==
  /\ pc[r] = "walk" /\ stack[r] # <<>>
  /\ Head(stack[r]) \subseteq visited[r] /\ Head(stack[r]) # {}
  /\ stack' = [stack EXCEPT ![r] = Tail(@)]
  /\ pc' = [pc EXCEPT ![r] = IF Len(stack[r]) = 1 THEN "write" ELSE "walk"]
  /\ UNCHANGED <<tasks, deps, todo, edge, row, patch, visited, window, raced>>

\* existsPath returns false: every dependency of this call has been tried.
Return(r) ==
  /\ pc[r] = "walk" /\ stack[r] # <<>>
  /\ Head(stack[r]) \subseteq visited[r]
  /\ stack' = [stack EXCEPT ![r] = Tail(@)]
  /\ pc' = [pc EXCEPT ![r] = IF Len(stack[r]) = 1 THEN "write" ELSE "walk"]
  /\ UNCHANGED <<tasks, deps, todo, edge, row, patch, visited, window, raced>>

-----------------------------------------------------------------------------
\* update

\* findOne, then the self-dependency check on the pair the update would give.
StartUpdate(r) ==
  /\ pc[r] = "idle"
  /\ \E e \in deps, p \in Patches :
       /\ p # <<NoTask, NoTask>>
       /\ Merge(e, p)[1] # Merge(e, p)[2]
       /\ row' = [row EXCEPT ![r] = e]
       /\ patch' = [patch EXCEPT ![r] = p]
       /\ BeginWalk(r, Merge(e, p))
  /\ UNCHANGED <<tasks, deps, todo, raced>>

\* The database accepts the update: the row is there, the new pair is not
\* another row's (unique constraint) and its tasks exist (foreign keys).
Updatable(r) ==
  /\ row[r] # NoEdge
  /\ LET new == Merge(row[r], patch[r]) IN new \notin deps \ {row[r]} /\ Exist(new)

\* prisma.taskDependency.update where id: only the given fields are written.
CommitUpdate(r) ==
  /\ pc[r] = "write" /\ todo[r] = <<>>
  /\ \/ /\ Updatable(r)
        /\ LET new == Merge(row[r], patch[r]) IN
             /\ deps' = (deps \ {row[r]}) \union {new}
             /\ row' = [q \in Requests |-> IF q = r THEN NoEdge
                                           ELSE IF row[q] = row[r] THEN new ELSE row[q]]
        /\ raced' = (raced \/ "insert" \in window[r])
        /\ Wrote(r, "insert")
        /\ Answer(r)
     \/ /\ ~Updatable(r)
        /\ row' = [row EXCEPT ![r] = NoEdge]
        /\ Unread(r)
        /\ Answer(r)
        /\ UNCHANGED <<deps, raced>>
  /\ UNCHANGED tasks

-----------------------------------------------------------------------------
\* remove, removeByTasks

\* findOne, or findUnique on the pair: the row to delete is now known by its id.
StartRemove(r) ==
  /\ pc[r] = "idle"
  /\ \E e \in deps : row' = [row EXCEPT ![r] = e]
  /\ pc' = [pc EXCEPT ![r] = "delete"]
  /\ UNCHANGED <<tasks, deps, todo, edge, patch, visited, stack, window, raced>>

CommitRemove(r) ==
  /\ pc[r] = "delete"
  /\ deps' = deps \ {row[r]}
  /\ row' = [q \in Requests |-> IF row[q] = row[r] THEN NoEdge ELSE row[q]]
  /\ Wrote(r, "delete")
  /\ Answer(r)
  /\ UNCHANGED <<tasks, raced>>

\* mutant: the rows stay when their task goes
DeleteTaskOnly(t) ==
  /\ t \in tasks
  /\ tasks' = tasks \ {t}
  /\ UNCHANGED <<deps, reqVars, window, raced>>

\* A task is deleted elsewhere; its dependencies go with it (onDelete: Cascade).
DeleteTask(t) ==
  /\ t \in tasks
  /\ tasks' = tasks \ {t}
  /\ deps' = {e \in deps : t \notin {e[1], e[2]}}
  /\ row' = [q \in Requests |-> IF row[q] \in deps' THEN row[q] ELSE NoEdge]
  /\ window' = [q \in Requests |->
                  IF Validating(q) THEN window[q] \union {"delete"} ELSE {}]
  /\ UNCHANGED <<pc, todo, edge, patch, visited, stack, raced>>

-----------------------------------------------------------------------------
Step(r) ==
  \/ Lookup(r) \/ CheckExisting(r) \/ CommitCreate(r)
  \/ Descend(r) \/ FoundPath(r) \/ Return(r)
  \/ CommitUpdate(r) \/ CommitRemove(r)

Next ==
  \/ \E r \in Requests : StartCreate(r) \/ StartUpdate(r) \/ StartRemove(r) \/ Step(r)
  \/ \E t \in Tasks : DeleteTask(t)

Spec == Init /\ [][Next]_vars

\* Every query in progress is answered: the database and the event loop go on.
FairSpec == Spec /\ \A r \in Requests : WF_vars(Step(r))

-----------------------------------------------------------------------------
TypeOK ==
  /\ GraphTypeOK
  /\ pc \in [Requests -> {"idle", "lookup", "exists", "walk", "write", "delete"}]
  /\ todo \in [Requests -> Seq(Edges)]
  /\ edge \in [Requests -> Edges \union {NoEdge}]
  /\ row \in [Requests -> deps \union {NoEdge}]
  /\ patch \in [Requests -> Patches]
  /\ visited \in [Requests -> SUBSET Tasks]
  /\ stack \in [Requests -> Seq(SUBSET Tasks)]
  /\ window \in [Requests -> SUBSET {"insert", "delete"}]
  /\ raced \in BOOLEAN

\* The tasks some recursive call has still to try.
Pending(s) == UNION {s[i] : i \in DOMAIN s}

WalkCovers(r) ==
  /\ edge[r][1] \notin visited[r]
  /\ \A e \in deps : e[1] \in visited[r] => e[2] \in visited[r] \union Pending(stack[r])

(* validateNoCycles at work: as long as no edge is written by another      *)
(* request, every dependency of a visited task is visited or still to be   *)
(* tried, so that a walk that ends has seen everything the blocking task   *)
(* depends on, and has not seen the dependent task.                        *)
WalkCoversDependencies ==
  \A r \in Requests : Validating(r) /\ "insert" \notin window[r] => WalkCovers(r)

(* The dependency graph is acyclic (validateNoCycles, create, update), as  *)
(* long as no edge was written on a validation that another write overtook. *)
AcyclicUnlessRaced == ~raced => Acyclic(deps)

(* "Invalid dependency (circular or self-dependency)" is answered 400, so  *)
(* the graph is acyclic whatever requests are in progress.                 *)
AlwaysAcyclic == Acyclic(deps)

\* Request r is refused as circular: its walk ends without a write to come.
NowCircular(r) == pc[r] = "walk" /\ ~Validating(r)'

(* A create refused as circular, when nobody wrote in between, really      *)
(* would have closed a cycle: the blocking task reaches the dependent one. *)
CircularCreateJustified ==
  [][\A r \in Requests :
       NowCircular(r) /\ window[r] = {} /\ todo[r] # <<>>
         => Reaches(deps, edge[r][2], edge[r][1])]_vars

(* Every request is answered: the walk ends even when others add edges.    *)
RequestsAnswered == \A r \in Requests : pc[r] # "idle" ~> pc[r] = "idle"

(* The service implements the promise of DependencyGraph: one edge more    *)
(* only if it closes no cycle, one edge replaced or removed, or a task gone *)
(* with its edges, up to the first write that another request overtook.    *)
Graph == INSTANCE DependencyGraph
KeepsGraphAcyclic ==
  /\ Graph!GraphInit
  /\ [][UNCHANGED Graph!graphVars \/ raced' \/ Graph!GraphNext]_Graph!graphVars
=============================================================================
