-------------------------- MODULE MCRecurringTasks --------------------------
(* A behaviour is one of RecurringTasks or one of RecurrenceDates. *)
EXTENDS RecurringTasks, RecurrenceDates, TLC

Never == {[type |-> "NEVER", n |-> 0]}
Every == {[type |-> "NEVER", n |-> 0], [type |-> "AFTER", n |-> 2], [type |-> "ON_DATE", n |-> 2]}

\* Two complete and change; two complete, add and stop; or one changes what the
\* other adds and stops.
Shares == {{{"complete", "update"}}, {{"complete", "add", "stop"}}, {{"update"}, {"add", "stop"}}}
Mixes == UNION {{c \in [Requests -> s] : s = {c[r] : r \in Requests}} : s \in Shares}
Completions == {[r \in Requests |-> {"complete"}]}
Symmetry == Permutations(Requests)

-----------------------------------------------------------------------------
\* Every day from 1 December 2023 to 31 March 2024, a leap year's February.
Winter == 335 .. 456

Plain(types, days, day, month) ==
  [type : types, interval : 1 .. 3, days : days, day : day, month : month]

All ==
  Plain({"DAILY", "CUSTOM"}, {{}}, {Absent}, {Absent})
    \union Plain({"WEEKLY"}, {{}, {0}, {6}, {1, 3, 5}, {0, 6}, 0 .. 6}, {Absent}, {Absent})
    \union Plain({"MONTHLY", "QUARTERLY"}, {{}}, {Absent, 1, 15, 29, 30, 31}, {Absent})
    \union Plain({"YEARLY"}, {{}}, {Absent, 1, 29, 31}, {Absent, 1, 2, 12})

NoRule == [type |-> "none", interval |-> 1]
NoDates == rule = NoRule /\ first = 1 /\ date = 1 /\ count = MaxSteps
NoOne == [r \in Requests |-> {}]
Either == Mixes \union {NoOne}

SchedulesInit == \/ Init /\ NoDates /\ asked # NoOne
                 \/ DatesInit /\ Init /\ asked = NoOne /\ config.end.type = "NEVER"
SchedulesNext == \/ asked # NoOne /\ Next /\ UNCHANGED dateVars
                 \/ Occur /\ UNCHANGED vars
SchedulesSpec == SchedulesInit /\ [][SchedulesNext]_<<vars, dateVars>>
=============================================================================
