------------------------------ MODULE Workflows ------------------------------
(***************************************************************************)
(* WorkflowsService and TaskStatusesService for one organization.  A       *)
(* workflow owns statuses; a status has a position among them and is       *)
(* soft-deleted: its row, with its name and position, stays.  Making a     *)
(* workflow the default is a transaction at the default isolation level    *)
(* (read committed): the statement that clears the others sees the rows    *)
(* that were the default when it started.  Access checks are left out.     *)
(***************************************************************************)
EXTENDS Handlers, Sequences

CONSTANTS
  Workflows, Statuses,
  Names,          \* names of statuses
  DefaultNames,   \* the statuses of a new workflow, a sequence of names
  DoneNames,      \* the names created with the category DONE
  Home            \* the organization's first workflow

ASSUME WorkflowsAssumption ==
  /\ Home \in Workflows
  /\ DefaultNames \in Seq(Names) /\ DefaultNames # <<>>
  /\ IsFiniteSet(Statuses) /\ Len(DefaultNames) <= Cardinality(Statuses)

VARIABLES
  flow,   \* the workflows table
  stat,   \* the task_statuses table
  uses    \* the workflow of each project

flowVars == <<flow, stat, uses>>

FlowOps == {"createWorkflow", "makeDefault", "clearDefault", "removeWorkflow", "switchWorkflow"}
StatusOps == {"createStatus", "statusFromProject", "updateStatus", "positions",
              "removeStatus", "restoreStatus"}

Known(s) == stat[s].state \in {"live", "deleted"}
Rows(w) == {s \in Statuses : Known(s) /\ stat[s].flow = w}
Shown(w) == {s \in Rows(w) : stat[s].state = "live"}
Named(w, n) == {s \in Rows(w) : stat[s].name = n}
Unused == {s \in Statuses : stat[s].state = "none"}
Defaults == {w \in Workflows : flow[w].state = "live" /\ flow[w].default}

NoStatus == [state |-> "none", flow |-> Home, name |-> DefaultNames[1], done |-> FALSE, pos |-> 0]
NewStatus(w, n, done, pos) == [state |-> "live", flow |-> w, name |-> n, done |-> done, pos |-> pos]

\* The rows of a new workflow's statuses, among those of ids.
Seeds(ids) == CHOOSE f \in [1..Len(DefaultNames) -> ids] :
                \A m, n \in DOMAIN f : f[m] = f[n] => m = n
WithSeeds(table, w, ids) ==
  LET f == Seeds(ids) IN
  [s \in Statuses |->
     IF \E n \in DOMAIN f : f[n] = s
       THEN LET n == CHOOSE n \in DOMAIN f : f[n] = s
            IN NewStatus(w, DefaultNames[n], DefaultNames[n] \in DoneNames, n)
       ELSE table[s]]

FlowInit ==
  /\ flow = [w \in Workflows |-> [state |-> IF w = Home THEN "live" ELSE "none",
                                  default |-> w = Home]]
  /\ stat = WithSeeds([s \in Statuses |-> NoStatus], Home, Statuses)
  /\ uses = [p \in Projects |-> Home]

-----------------------------------------------------------------------------
\* create

AskCreateWorkflow(r) ==
  \E w \in Workflows, asDefault \in BOOLEAN :
    /\ flow[w].state = "none" /\ Cardinality(Unused) >= Len(DefaultNames)
    /\ Ask(r, "createWorkflow", "write",
           [w |-> w, default |-> asDefault, clear |-> IF asDefault THEN Defaults ELSE {}])
    /\ UNCHANGED flowVars

CreateWorkflow(r) ==
  /\ At(r, "createWorkflow", "write")
  /\ LET h == req[r].with IN
       /\ flow[h.w].state = "none" /\ Cardinality(Unused) >= Len(DefaultNames)
       /\ flow' = [w \in Workflows |->
                     IF w = h.w THEN [state |-> "live", default |-> h.default]
                     ELSE IF w \in h.clear THEN [flow[w] EXCEPT !.default = FALSE] ELSE flow[w]]
       /\ stat' = WithSeeds(stat, h.w, Unused)
  /\ Commit(r)
  /\ UNCHANGED uses

\* makeWorkflowDefault, and update with isDefault

AskMakeDefault(r) ==
  \E w \in Workflows :
    /\ flow[w].state = "live"
    /\ Ask(r, "makeDefault", "write", [w |-> w, clear |-> Defaults])
    /\ UNCHANGED flowVars

MakeDefaultOnly(r) ==                                                    \* mutant
  /\ At(r, "makeDefault", "write")
  /\ flow[req[r].with.w].state = "live"
  /\ flow' = [flow EXCEPT ![req[r].with.w].default = TRUE]
  /\ Commit(r)
  /\ UNCHANGED <<stat, uses>>

MakeDefault(r) ==
  /\ At(r, "makeDefault", "write")
  /\ LET h == req[r].with IN
       \/ /\ flow[h.w].state = "live"
          /\ flow' = [w \in Workflows |->
                        IF w = h.w THEN [flow[w] EXCEPT !.default = TRUE]
                        ELSE IF w \in h.clear THEN [flow[w] EXCEPT !.default = FALSE]
                        ELSE flow[w]]
          /\ Commit(r)
       \/ flow[h.w].state # "live" /\ Answer(r) /\ UNCHANGED flow
  /\ UNCHANGED <<stat, uses>>

ClearDefault(r) ==
  \E w \in Workflows :
    /\ flow[w].state = "live" /\ Once(r, "clearDefault")
    /\ flow' = [flow EXCEPT ![w].default = FALSE]
    /\ UNCHANGED <<stat, uses>>

\* remove: counts what depends on workflow w (tasks: see TaskEdits), then
\* deletes it; the database refuses while a project points at it and takes the
\* statuses along.
AskRemoveWorkflow(r, w) ==
  /\ flow[w].state = "live" /\ \A p \in Projects : uses[p] # w
  /\ Ask(r, "removeWorkflow", "write", w)
  /\ UNCHANGED flowVars

RemoveWorkflowOnly(r) ==                                                 \* mutant
  /\ At(r, "removeWorkflow", "write")
  /\ flow' = [flow EXCEPT ![req[r].with] = [state |-> "gone", default |-> FALSE]]
  /\ Commit(r)
  /\ UNCHANGED <<stat, uses>>

RemoveWorkflow(r) ==
  /\ At(r, "removeWorkflow", "write")
  /\ LET w == req[r].with IN
       IF flow[w].state = "live" /\ \A p \in Projects : uses[p] # w
         THEN /\ flow' = [flow EXCEPT ![w] = [state |-> "gone", default |-> FALSE]]
              /\ stat' = [s \in Statuses |-> IF s \in Rows(w) THEN [stat[s] EXCEPT !.state = "gone"]
                                                             ELSE stat[s]]
              /\ Commit(r)
         ELSE Answer(r) /\ UNCHANGED <<flow, stat>>
  /\ UNCHANGED uses

\* ProjectsService.update with a workflowId: the tasks stay in their statuses.
SwitchWorkflow(r) ==
  \E p \in Projects, w \in Workflows :
    /\ flow[w].state = "live" /\ Once(r, "switchWorkflow")
    /\ uses' = [uses EXCEPT ![p] = w]
    /\ UNCHANGED <<flow, stat>>

-----------------------------------------------------------------------------
\* A status is stored unless another of its workflow has the name.
Fits(s, row) ==
  /\ flow[row.flow].state = "live"
  /\ Named(row.flow, row.name) \subseteq {s}

Store(r, s, row) ==
  \/ /\ Fits(s, row)
     /\ stat' = [stat EXCEPT ![s] = row]
     /\ Commit(r)
  \/ ~Fits(s, row) /\ Answer(r) /\ UNCHANGED stat

\* The position of a new status: after as many as the workflow ever had.
NextPosition(w) == Cardinality(Rows(w)) + 1

AskCreateStatus(r) ==
  \E w \in Workflows, n \in Names :
    /\ flow[w].state = "live" /\ Unused # {}
    /\ LET deleted == {s \in Named(w, n) : stat[s].state = "deleted"} IN
         Ask(r, "createStatus", IF deleted = {} THEN "insert" ELSE "revive",
             IF deleted = {} THEN NewStatus(w, n, n \in DoneNames, NextPosition(w))
             ELSE LET s == CHOOSE s \in deleted : TRUE
                  IN [id |-> s, row |-> [stat[s] EXCEPT !.state = "live"]])
    /\ UNCHANGED flowVars

AskStatusFromProject(r) ==
  \E p \in Projects, n \in Names :
    /\ Unused # {}
    /\ Ask(r, "statusFromProject", "insert",
           NewStatus(uses[p], n, FALSE, Cardinality(Rows(uses[p]))))
    /\ UNCHANGED flowVars

InsertStatus(r) ==
  /\ req[r].op \in {"createStatus", "statusFromProject"} /\ req[r].step = "insert"
  /\ Unused # {}
  /\ Store(r, CHOOSE s \in Unused : TRUE, req[r].with)
  /\ UNCHANGED <<flow, uses>>

\* create, of a name that was deleted: the row as it was read is written back.
ReviveStatus(r) ==
  /\ At(r, "createStatus", "revive")
  /\ LET h == req[r].with IN
       IF Known(h.id) THEN Store(r, h.id, h.row) ELSE Answer(r) /\ UNCHANGED stat
  /\ UNCHANGED <<flow, uses>>

\* update: a name or a category, the fields the client edits.
Patched(s) ==
  {[stat[s] EXCEPT !.name = n] : n \in Names} \union {[stat[s] EXCEPT !.done = ~@]}

UpdateStatus(r) ==
  \E s \in Statuses :
    /\ Known(s)
    /\ \E row \in Patched(s) :
         /\ Fits(s, row) /\ row # stat[s]
         /\ stat' = [stat EXCEPT ![s] = row]
    /\ Once(r, "updateStatus")
    /\ UNCHANGED <<flow, uses>>

\* updatePositions: the client numbers the statuses it shows from 1.
UpdatePositions(r) ==
  \E w \in Workflows :
    /\ Shown(w) # {}
    /\ \E f \in [Shown(w) -> 1..Cardinality(Shown(w))] :
         /\ \A a, b \in Shown(w) : f[a] = f[b] => a = b
         /\ stat' = [s \in Statuses |-> IF s \in Shown(w) THEN [stat[s] EXCEPT !.pos = f[s]]
                                                         ELSE stat[s]]
    /\ Once(r, "positions")
    /\ UNCHANGED <<flow, uses>>

AskRemoveStatus(r) ==
  \E s \in Statuses :
    /\ stat[s].state = "live"
    /\ Ask(r, "removeStatus", "write", [id |-> s, flow |-> stat[s].flow, pos |-> stat[s].pos])
    /\ UNCHANGED flowVars

ShiftedBelow(w, pos) ==                                                  \* mutant
  [s \in Statuses |-> IF s \in Rows(w) /\ stat[s].pos < pos THEN [stat[s] EXCEPT !.pos = @ - 1]
                                                           ELSE stat[s]]

Shifted(w, pos) ==
  [s \in Statuses |-> IF s \in Rows(w) /\ stat[s].pos > pos THEN [stat[s] EXCEPT !.pos = @ - 1]
                                                           ELSE stat[s]]

\* remove: by the position read before the transaction, deleted or not by now.
RemoveStatus(r) ==
  /\ At(r, "removeStatus", "write")
  /\ LET h == req[r].with IN
       IF Known(h.id)
         THEN /\ stat' = [Shifted(h.flow, h.pos) EXCEPT ![h.id].state = "deleted"]
              /\ Commit(r)
         ELSE Answer(r) /\ UNCHANGED stat
  /\ UNCHANGED <<flow, uses>>

AskRestoreStatus(r) ==
  \E s \in Statuses :
    /\ stat[s].state = "deleted"
    /\ {x \in Named(stat[s].flow, stat[s].name) : stat[x].state = "live"} = {}
    /\ Ask(r, "restoreStatus", "write", s)
    /\ UNCHANGED flowVars

RestoreStatus(r) ==
  /\ At(r, "restoreStatus", "write")
  /\ IF Known(req[r].with)
       THEN stat' = [stat EXCEPT ![req[r].with].state = "live"] /\ Commit(r)
       ELSE Answer(r) /\ UNCHANGED stat
  /\ UNCHANGED <<flow, uses>>

-----------------------------------------------------------------------------
\* Every step but the two of a workflow's removal, which reaches the tasks.
FlowStep(r) ==
  \/ AskCreateWorkflow(r) \/ CreateWorkflow(r) \/ AskMakeDefault(r) \/ MakeDefault(r)
  \/ ClearDefault(r) \/ SwitchWorkflow(r)
  \/ AskCreateStatus(r) \/ AskStatusFromProject(r) \/ InsertStatus(r) \/ ReviveStatus(r)
  \/ UpdateStatus(r) \/ UpdatePositions(r) \/ AskRemoveStatus(r) \/ RemoveStatus(r)
  \/ AskRestoreStatus(r) \/ RestoreStatus(r)

-----------------------------------------------------------------------------
FlowTypeOK ==
  /\ \A w \in Workflows : flow[w].default => flow[w].state = "live"
  /\ \A s \in Statuses : /\ stat[s].state \in {"none", "live", "deleted", "gone"}
                         /\ Known(s) => flow[stat[s].flow].state = "live"
                         /\ stat[s].pos \in 0..(Cardinality(Statuses) + 1)
  /\ \A p \in Projects : flow[uses[p]].state = "live"

\* Making a workflow the default (makeWorkflowDefault, and create and update
\* with isDefault) leaves exactly that one, however many there were, unless
\* another request named a default in the meantime.
OneDefault ==
  [][ \A r \in Requests :
        /\ At(r, "makeDefault", "write") /\ Moves(r) /\ flow[req[r].with.w].state = "live"
        /\ Alone(r, {"makeDefault", "createWorkflow"})
        => {w \in Workflows : flow'[w].default} = {req[r].with.w} ]_<<flow, stat, req>>

\* A status created in a workflow comes after all that are shown, whatever was
\* deleted, restored and reordered before, unless another was inserted since
\* its position was counted.
NewStatusLast ==
  [][ \A r \in Requests, s \in Statuses :
        /\ At(r, "createStatus", "insert") /\ Moves(r)
        /\ stat[s].state = "none" /\ stat'[s].state = "live"
        /\ Alone(r, {"createStatus", "statusFromProject", "createWorkflow"})
        => \A x \in Shown(stat'[s].flow) : stat[x].pos < stat'[s].pos ]_<<flow, stat, req>>

\* Removing a status from a workflow whose statuses are numbered without gaps
\* leaves no gap and no two in one place, unless another request renumbered,
\* revived or removed one since the position was read.
RemovalClosesGap ==
  [][ \A r \in Requests :
        LET w == req[r].with.flow
            before == {stat[s].pos : s \in Shown(w)}
            left == Shown(w) \ {req[r].with.id}
        IN /\ At(r, "removeStatus", "write") /\ Moves(r)
           /\ before = 1..Cardinality(Shown(w))
           /\ Alone(r, {"removeStatus", "positions", "createStatus", "restoreStatus"})
           => {stat'[s].pos : s \in left} = 1..Cardinality(left) ]_<<flow, stat, req>>

\* The columns of a board stay in one order, without gaps.
ColumnsInOrder == NewStatusLast /\ RemovalClosesGap
=============================================================================
