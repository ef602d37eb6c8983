------------------------------ MODULE TaskEdits ------------------------------
(***************************************************************************)
(* The mutators of TasksService over the workflows: creation, update,      *)
(* removal and the three bulk operations.  A status belongs to a workflow, *)
(* yet nothing ties a task's status to the workflow of its project; a task *)
(* carries a completion stamp that every change of status rewrites from    *)
(* the category it read.  Whether a caller may change a task is answered   *)
(* either way whenever the code asks; the fields without a say in the      *)
(* properties (title, dates, sprint, numbers, ranks) are left out.         *)
(***************************************************************************)
EXTENDS Workflows

CONSTANTS Tasks, Users, NoTarget

ASSUME TasksAssumption == Projects # {} /\ NoTarget \notin Statuses

VARIABLE task   \* the tasks table: project, status, completion stamp, assignees

boardVars == <<mix, req, flow, stat, uses, task>>

TaskOps == {"createTask", "bulkCreate", "updateTask", "removeTask",
            "bulkDelete", "bulkStatus", "bulkAssign"}

Live == {t \in Tasks : task[t].state = "live"}
TasksIn(w) == {t \in Live : stat[task[t].status].flow = w}

NoTask == [state |-> "none", prj |-> CHOOSE p \in Projects : TRUE,
           status |-> CHOOSE s \in Statuses : TRUE, stamped |-> FALSE, who |-> {}]

TaskInit == FlowInit /\ task = [t \in Tasks |-> NoTask]

Without(ts) == [t \in Tasks |-> IF t \in ts THEN [NoTask EXCEPT !.state = "gone"] ELSE task[t]]

-----------------------------------------------------------------------------
\* The rows of n new tasks; a status whose row is gone by now refuses them all.
Insert(r, n) ==
  LET h == req[r].with IN
    \/ /\ Known(h.status)
       /\ \E new \in SUBSET {t \in Tasks : task[t].state = "none"} :
            /\ Cardinality(new) = n
            /\ task' = [t \in Tasks |->
                          IF t \in new THEN [state |-> "live", prj |-> h.prj, status |-> h.status,
                                             stamped |-> FALSE, who |-> h.who]
                          ELSE task[t]]
       /\ Commit(r)
    \/ ~Known(h.status) /\ Answer(r) /\ UNCHANGED task

AskCreateTask(r) ==
  \E p \in Projects, s \in Statuses, who \in SUBSET Users :
    /\ Known(s)
    /\ Ask(r, "createTask", "insert", [prj |-> p, status |-> s, who |-> who])
    /\ UNCHANGED <<flowVars, task>>

CreateTask(r) == At(r, "createTask", "insert") /\ Insert(r, 1) /\ UNCHANGED flowVars

\* bulkCreate looks at the status first, and creates its tasks in one transaction.
AskBulkCreate(r) ==
  \E p \in Projects, s \in Statuses :
    /\ Known(s)
    /\ Ask(r, "bulkCreate", "insert", [prj |-> p, status |-> s, who |-> {}])
    /\ UNCHANGED <<flowVars, task>>

BulkCreate(r) == At(r, "bulkCreate", "insert") /\ Insert(r, 2) /\ UNCHANGED flowVars

\* update: the status is looked up first, and the stamp follows its category.
Patch(field, to, done) == [field |-> field, to |-> to, done |-> done]
ToStatusOnly == {Patch("status", s, FALSE) : s \in {x \in Statuses : Known(x)}}  \* mutant
ToStatus == {Patch("status", s, stat[s].done) : s \in {x \in Statuses : Known(x)}}
Patches == ToStatus \union {Patch("who", who, FALSE) : who \in SUBSET Users}
           \union {Patch("prj", p, FALSE) : p \in Projects}

Edited(row, patch) ==
  CASE patch.field = "status" -> [row EXCEPT !.status = patch.to, !.stamped = patch.done]
    [] patch.field = "who"    -> [row EXCEPT !.who = patch.to]
    [] patch.field = "prj"    -> [row EXCEPT !.prj = patch.to]

AskUpdateTask(r) ==
  \E t \in Live, patch \in Patches :
    /\ Ask(r, "updateTask", "write", [id |-> t, patch |-> patch])
    /\ UNCHANGED <<flowVars, task>>

UpdateTask(r) ==
  /\ At(r, "updateTask", "write")
  /\ LET h == req[r].with
         row == Edited(task[h.id], h.patch)
     IN \/ h.id \in Live /\ Known(row.status) /\ task' = [task EXCEPT ![h.id] = row] /\ Commit(r)
        \/ ~(h.id \in Live /\ Known(row.status)) /\ Answer(r) /\ UNCHANGED task
  /\ UNCHANGED flowVars

AskRemoveTask(r) ==
  \E t \in Live : Ask(r, "removeTask", "write", t) /\ UNCHANGED <<flowVars, task>>

RemoveTask(r) ==
  /\ At(r, "removeTask", "write")
  /\ IF req[r].with \in Live THEN task' = Without({req[r].with}) /\ Commit(r)
                             ELSE Answer(r) /\ UNCHANGED task
  /\ UNCHANGED flowVars

-----------------------------------------------------------------------------
\* A selection names tasks (less the excluded ones), or everything in a project
\* but the excluded ones.  What was named and not found has failed.
Selection(named, excluded, p) ==
  (IF named = {} THEN {t \in Live : task[t].prj = p} ELSE named \intersect Live) \ excluded

Chosen(named, todo, asked) ==
  [named |-> named, todo |-> todo, failed |-> named \ todo, did |-> {}, asked |-> asked]

AskBulkDelete(r) ==
  \E named, excluded \in SUBSET Tasks, p \in Projects :
    /\ Ask(r, "bulkDelete", "check", Chosen(named, Selection(named, excluded, p), {}))
    /\ UNCHANGED <<flowVars, task>>

\* Access is asked for each task; one that is gone has failed.
CheckDelete(r) ==
  /\ At(r, "bulkDelete", "check")
  /\ LET h == req[r].with IN
       \E may \in SUBSET (h.todo \intersect Live) :
         GoOn(r, IF may = {} THEN "reply" ELSE "write",
              [h EXCEPT !.todo = may, !.failed = @ \union (h.todo \ may)])
  /\ UNCHANGED <<flowVars, task>>

BulkDelete(r) ==
  /\ At(r, "bulkDelete", "write")
  /\ task' = Without(req[r].with.todo \intersect Live)
  /\ CommitAnd(r, "reply", [req[r].with EXCEPT !.did = @ \union req[r].with.todo, !.todo = {}])
  /\ UNCHANGED flowVars

-----------------------------------------------------------------------------
\* The statuses bulkUpdateTasksStatus may put a task into, with the category it
\* read: the one asked for, or the one of its name in the workflow of the task's
\* project; unless one is named, any of those that are DONE.
TargetsByName(t, target) ==                                              \* mutant
  LET name == IF target = NoTarget THEN "" ELSE stat[target].name IN
  {[id |-> s, done |-> stat[s].done] : s \in {x \in Statuses : Known(x) /\ stat[x].name = name}}

Targets(t, target) ==
  LET rows == Rows(uses[task[t].prj])
      found == IF target = NoTarget THEN {s \in rows : stat[s].done}
               ELSE IF target \in rows THEN {target}
               ELSE {s \in rows : stat[s].name = stat[target].name}
  IN {[id |-> s, done |-> stat[s].done] : s \in found}

AskBulkStatus(r) ==
  \E named, excluded \in SUBSET Tasks, p \in Projects, target \in Statuses \union {NoTarget} :
    /\ target # NoTarget => Known(target)
    /\ LET todo == Selection(named, excluded, p) IN
         Ask(r, "bulkStatus", IF todo = {} THEN "reply" ELSE "next",
             Chosen(named, todo, [t \in todo |-> Targets(t, target)]))
    /\ UNCHANGED <<flowVars, task>>

\* One task after the other; whatever goes wrong with one is listed.
NextStatus(r) ==
  /\ At(r, "bulkStatus", "next")
  /\ LET h == req[r].with
         after(t) == IF h.todo = {t} THEN "reply" ELSE "next"
     IN \/ \E t \in h.todo : \E to \in h.asked[t] :
             /\ t \in Live /\ Known(to.id)
             /\ task' = [task EXCEPT ![t].status = to.id, ![t].stamped = to.done]
             /\ CommitAnd(r, after(t), [h EXCEPT !.todo = @ \ {t}, !.did = @ \union {t}])
        \/ \E t \in h.todo :
             /\ GoOn(r, after(t), [h EXCEPT !.todo = @ \ {t}, !.failed = @ \union {t}])
             /\ UNCHANGED task
  /\ UNCHANGED flowVars

-----------------------------------------------------------------------------
AskBulkAssign(r) ==
  \E named, excluded \in SUBSET Tasks, p \in Projects, who \in SUBSET Users :
    /\ Ask(r, "bulkAssign", "check", Chosen(named, Selection(named, excluded, p), who))
    /\ UNCHANGED <<flowVars, task>>

\* All are asked at once: one that is gone refuses the whole request.
CheckAssign(r) ==
  /\ At(r, "bulkAssign", "check")
  /\ LET h == req[r].with IN
       \/ \E may \in SUBSET h.todo :
            /\ h.todo \subseteq Live
            /\ GoOn(r, IF may = {} THEN "reply" ELSE "clear",
                    [h EXCEPT !.todo = may, !.failed = @ \union (h.todo \ may)])
       \/ ~(h.todo \subseteq Live) /\ Answer(r)
  /\ UNCHANGED <<flowVars, task>>

ClearAssignees(r) ==
  /\ At(r, "bulkAssign", "clear")
  /\ LET h == req[r].with IN
       /\ task' = [t \in Tasks |-> IF t \in h.todo \intersect Live THEN [task[t] EXCEPT !.who = {}]
                                                                  ELSE task[t]]
       /\ CommitAnd(r, IF h.asked = {} THEN "reply" ELSE "assign",
                    IF h.asked = {} THEN [h EXCEPT !.did = h.todo, !.todo = {}] ELSE h)
  /\ UNCHANGED flowVars

\* createMany stores all the rows or none: a task that is gone, or an assignee
\* somebody else added, refuses it, and the assignees stay cleared.
Assign(r) ==
  /\ At(r, "bulkAssign", "assign")
  /\ LET h == req[r].with IN
       IF \A t \in h.todo : t \in Live /\ task[t].who \intersect h.asked = {}
         THEN /\ task' = [t \in Tasks |-> IF t \in h.todo THEN [task[t] EXCEPT !.who = @ \union h.asked]
                                                          ELSE task[t]]
              /\ CommitAnd(r, "reply", [h EXCEPT !.did = h.todo, !.todo = {}])
         ELSE Answer(r) /\ UNCHANGED task
  /\ UNCHANGED flowVars

Reply(r) == req[r].step = "reply" /\ Answer(r) /\ UNCHANGED <<flowVars, task>>

-----------------------------------------------------------------------------
\* Deleting a workflow deletes its statuses, and the tasks that are in them.
DeleteWorkflow(r) ==
  /\ RemoveWorkflow(r)
  /\ task' = IF flow' = flow THEN task ELSE Without(TasksIn(req[r].with))

Uncounted(w) == {}                                                       \* mutant
\* What remove counts of the tasks.
Counted(w) == TasksIn(w)

TaskStep(r) ==
  \/ (FlowStep(r) \/ \E w \in Workflows : Counted(w) = {} /\ AskRemoveWorkflow(r, w)) /\ UNCHANGED task
  \/ DeleteWorkflow(r)
  \/ AskCreateTask(r) \/ CreateTask(r) \/ AskBulkCreate(r) \/ BulkCreate(r)
  \/ AskUpdateTask(r) \/ UpdateTask(r)
  \/ AskRemoveTask(r) \/ RemoveTask(r)
  \/ AskBulkDelete(r) \/ CheckDelete(r) \/ BulkDelete(r)
  \/ AskBulkStatus(r) \/ NextStatus(r)
  \/ AskBulkAssign(r) \/ CheckAssign(r) \/ ClearAssignees(r) \/ Assign(r) \/ Reply(r)

TaskSpec == HandlersInit /\ TaskInit /\ [][\E r \in Requests : TaskStep(r) /\ UNCHANGED mix]_boardVars

-----------------------------------------------------------------------------
TaskTypeOK ==
  \A t \in Tasks : /\ task[t].state \in {"none", "live", "gone"}
                   /\ t \in Live => Known(task[t].status)
                   /\ task[t].prj \in Projects /\ task[t].who \subseteq Users

\* remove deletes no task with the workflow ("refuse while anything does"),
\* unless one was put into it between the count and the delete.
DeletesNoTask ==
  [][ \A r \in Requests :
        At(r, "removeWorkflow", "write") /\ Moves(r)
        /\ Alone(r, {"createTask", "bulkCreate", "updateTask",
                      "bulkStatus"})
        => task' = task ]_boardVars

\* Whoever changes a task's status leaves a stamp that agrees with the category
\* of the status, unless the category was edited since it was read.
StampFollowsStatus ==
  [][ \A r \in Requests, t \in Live :
        /\ req[r].op \in {"updateTask", "bulkStatus"} /\ Moves(r)
        /\ task'[t].status # task[t].status
        /\ Alone(r, {"updateStatus", "createStatus"})
        => task'[t].stamped = stat[task'[t].status].done ]_boardVars

\* A bulk change of status keeps every task in the workflow of its project,
\* unless the project or the task was given another one since it was read.
BulkStaysInWorkflow ==
  [][ \A r \in Requests, t \in Live :
        /\ At(r, "bulkStatus", "next") /\ Moves(r)
        /\ task'[t] # task[t]
        /\ Alone(r, {"switchWorkflow", "updateTask"})
        => stat[task'[t].status].flow = uses[task[t].prj] ]_boardVars

\* The answer of a bulk request accounts for every task it named, once.
BulkAnswersEach ==
  [][ \A r \in Requests :
        LET h == req[r].with IN
        req[r].step = "reply" /\ Moves(r)
        => h.named \subseteq h.failed \union h.did /\ h.failed \intersect h.did = {} ]_boardVars

\* A bulk assignment leaves exactly the assignees asked for on every task it was
\* allowed to change, unless another request assigned or deleted one of them
\* between its statements.
AssignedAsAsked ==
  [][ \A r \in Requests :
        /\ At(r, "bulkAssign", "assign") /\ req'[r].step # "assign"
        /\ Alone(r, {"updateTask", "bulkAssign", "removeTask", "bulkDelete", "removeWorkflow"})
        => \A t \in req[r].with.todo : task'[t].who = req[r].with.asked ]_boardVars

\* A bulk edit does to every task named what was asked, or says that it did not.
BulkEditsAsAsked == BulkStaysInWorkflow /\ BulkAnswersEach /\ AssignedAsAsked
=============================================================================
