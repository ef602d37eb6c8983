------------------------------ MODULE Handlers ------------------------------
(***************************************************************************)
(* The requests the server handles at one time.  A handler runs from one   *)
(* await to the next: what it read before an await is kept in its record   *)
(* and may be stale when it is used.  Each database statement, or          *)
(* transaction, is one step.  A behaviour picks the operations each        *)
(* request slot may serve (a mix), so that one run covers several          *)
(* combinations of clients.                                                *)
(***************************************************************************)
EXTENDS FiniteSets, Integers

CONSTANTS Requests,   \* slots for requests handled at one time
          Mixes,      \* the functions from Requests to sets of operations
          Projects    \* the projects they are about

VARIABLES
  mix,   \* the operations each slot serves
  req    \* per slot: the operation, where it stands, what it read, and ...

handlerVars == <<mix, req>>

NoData == [none |-> 0]
Idle == [op |-> "idle", step |-> "", with |-> NoData, over |-> {}]
Active(r) == req[r].op # "idle"

HandlersInit == mix \in Mixes /\ req = [r \in Requests |-> Idle]

-----------------------------------------------------------------------------
\* Slot r takes up an operation, with what its first reads returned.
Ask(r, op, step, with) ==
  /\ ~Active(r) /\ op \in mix[r]
  /\ req' = [req EXCEPT ![r] = [op |-> op, step |-> step, with |-> with, over |-> {}]]

At(r, op, step) == req[r].op = op /\ req[r].step = step

GoOn(r, step, with) == req' = [req EXCEPT ![r].step = step, ![r].with = with]

Answer(r) == req' = [req EXCEPT ![r] = Idle]

\* ... the operations of others that wrote since it began (over).
Overtaken(r, op) ==
  [q \in Requests |-> IF q # r /\ Active(q) THEN [req[q] EXCEPT !.over = @ \union {op}]
                                            ELSE req[q]]

\* A write that ends the request, one that does not, and a whole request in one
\* statement.
Commit(r) == req' = [Overtaken(r, req[r].op) EXCEPT ![r] = Idle]

CommitAnd(r, step, with) ==
  req' = [Overtaken(r, req[r].op) EXCEPT ![r].step = step, ![r].with = with]

Once(r, op) == ~Active(r) /\ op \in mix[r] /\ req' = Overtaken(r, op)

\* This is a step of slot r; and none of ops has overtaken what it does.
Moves(r) == req'[r].step # req[r].step \/ req'[r].with # req[r].with
Alone(r, ops) == req[r].over \intersect ops = {}
=============================================================================
