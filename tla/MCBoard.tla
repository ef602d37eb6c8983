------------------------------ MODULE MCBoard ------------------------------
(***************************************************************************)
(* The workflows, tasks and sprints of a project on the server, or what a  *)
(* browser tab keeps of the places around the tasks.  The two share no     *)
(* state: a behaviour works one, and the other stays as it begins.         *)
(***************************************************************************)
EXTENDS TaskEdits, Sprints, Directory, TLC

CONSTANTS f1, p1

Seeded == <<"todo", "done">>
FirstSprint == [p \in Projects |-> f1]

\* One request after the other does what a does, or two at once do a and b.
Both(a, b) == {m \in [Requests -> {a, b}] : {m[r] : r \in Requests} = {a, b}}

Columns == Both({"createStatus", "removeStatus", "restoreStatus", "positions", "statusFromProject"}, {})
Shifts == Both({"removeStatus", "createStatus"}, {"removeStatus", "positions"})
Flows == Both({"createWorkflow", "makeDefault", "clearDefault"}, {"makeDefault", "createWorkflow"})
Removals == Both({"createWorkflow", "switchWorkflow", "removeWorkflow"}, {"createTask"})
Stamps == Both({"createTask", "updateTask"}, {"updateStatus"})
Bulk == Both({"bulkCreate", "bulkStatus"}, {"createWorkflow", "switchWorkflow"})
Assigns == Both({"bulkCreate"}, {"bulkAssign"})
           \union Both({"createTask", "bulkAssign"}, {"createTask"})
Deletes == Both({"createTask", "bulkDelete", "bulkAssign"}, {"removeTask"})
Starts == Both({"createSprint", "startSprint", "updateSprint"}, {"startSprint", "removeSprint"})
Reads == Both({"readSprints", "createSprint"}, {"readSprints", "removeSprint"})
Planning == Both(SprintOps, {})

ProjectMixes == Columns \union Shifts \union Flows \union Removals \union Stamps \union Bulk
                \union Assigns \union Deletes \union Starts \union Reads \union Planning
DirectoryMixes ==
  Both({"list"}, DirectoryOps) \union Both({"find", "archive"}, {"update", "delete", "archive"})
BoardMixes == ProjectMixes \union DirectoryMixes

BoardInit ==
  /\ HandlersInit /\ TaskInit /\ SprintInit
  /\ DirectoryInit /\ kept.org = 1 /\ place[1].org = 1
  /\ IF mix \in DirectoryMixes
     THEN TRUE
     ELSE kept.kind = "members" /\ kept.current = Nothing /\ \A i \in Places : ~place[i].live /\ place[i].org = 1

ProjectStep(r) == \/ TaskStep(r) /\ UNCHANGED sprint
                  \/ SprintStep(r) /\ UNCHANGED <<flowVars, task>>
BoardNext ==
  /\ \/ mix \notin DirectoryMixes /\ (\E r \in Requests : ProjectStep(r)) /\ UNCHANGED directoryVars
     \/ mix \in DirectoryMixes /\ ((\E r \in Requests : DirectoryStep(r)) \/ Select)
        /\ UNCHANGED <<flowVars, task, sprint>>
  /\ UNCHANGED mix
BoardSpec == BoardInit /\ [][BoardNext]_<<boardVars, sprint, directoryVars>>
\* The types of the three tables of a board.
BoardTypeOK == FlowTypeOK /\ TaskTypeOK /\ SprintTypeOK
BoardSymmetry == Permutations(Requests) \union Permutations(Tasks)
=============================================================================
