-------------------------- MODULE DependencyGraph --------------------------
(***************************************************************************)
(* What the task dependency API promises: the relation "dependent task     *)
(* waits for blocking task" never contains a cycle, because an edge is     *)
(* added, or replaced by another, only when the result is still acyclic.   *)
(* TaskDependencies is the implementation.                                 *)
(***************************************************************************)
EXTENDS FiniteSets

CONSTANTS Tasks

ASSUME DependencyGraphTasksAssumption == Tasks # {}

VARIABLES
  tasks,   \* the tasks that exist
  deps     \* pairs <<dependent, blocking>>, both in tasks

graphVars == <<tasks, deps>>

Edges == Tasks \X Tasks

\* Every nonempty set of tasks has a member that depends on none of the set:
\* on a finite graph this says that there is no cycle (self-loops included).
Acyclic(E) ==
  \A S \in SUBSET Tasks : S # {} => \E x \in S : \A y \in S : <<x, y>> \notin E

\* S is closed under E: it contains the blocking tasks of its members.
Closed(S, E) == \A x \in S, y \in Tasks : <<x, y>> \in E => y \in S

\* b is reachable from a: it belongs to every closed set that contains a.
Reaches(E, a, b) ==
  \A S \in SUBSET Tasks : a \in S /\ Closed(S, E) => b \in S

GraphTypeOK ==
  /\ tasks \subseteq Tasks
  /\ deps \subseteq tasks \X tasks

GraphInit == tasks = Tasks /\ deps = {}

Insert ==
  \E e \in (tasks \X tasks) \ deps :
    /\ deps' = deps \union {e}
    /\ Acyclic(deps')
    /\ UNCHANGED tasks

Replace ==
  \E old \in deps, new \in tasks \X tasks :
    /\ deps' = (deps \ {old}) \union {new}
    /\ Acyclic(deps')
    /\ UNCHANGED tasks

Remove ==
  \E e \in deps : deps' = deps \ {e} /\ UNCHANGED tasks

RemoveTask ==
  \E t \in tasks :
    /\ tasks' = tasks \ {t}
    /\ deps' = {e \in deps : t \notin {e[1], e[2]}}

GraphNext == Insert \/ Replace \/ Remove \/ RemoveTask

GraphSpec == GraphInit /\ [][GraphNext]_graphVars
=============================================================================
