------------------------ MODULE RecurringTasks_proofs ------------------------
(***************************************************************************)
(* For any requests, recurrences and days, and with crashes at any step:   *)
(* the count follows the instances, the cron job makes none twice and none *)
(* too many, and the mark on the task follows the configuration, but for   *)
(* the overlaps that "raced", "late" and "torn" record.                    *)
(*                                                                         *)
(* And for any rule, first date and number of occurrences, on a calendar   *)
(* without end: the dates are the interval apart, a short month skips      *)
(* nothing, and a weekly rule takes the next of its days.                  *)
(***************************************************************************)
EXTENDS RecurringTasks, RecurrenceDates, FiniteSetTheorems, WellFoundedInduction, TLAPS

\* An AFTER_OCCURRENCES recurrence that has had its occurrences.
Ended(c) == c.end.type = "AFTER" /\ c.end.n > 0 /\ c.count >= c.end.n

\* Nothing is generated from a configuration that had ended when it was read,
\* the cron job goes on for a date that has no instance yet, and a recurrence
\* that is added begins active, with the task as its first occurrence.
ReadingsOK ==
  /\ cron.step \in {"find", "number", "insert"} => ~Ended(cron.seen) /\ cron.seen.next \in Dates
  /\ cron.step \in {"number", "insert"} /\ ~cron.late => made[cron.seen.next] = 0
  /\ \A r \in Requests : req[r].step = "create" => ~Ended(req[r].seen)
  /\ \A r \in Requests : req[r].step = "addConfig" => req[r].new.active /\ req[r].new.count = 1

\* At most one of the cron job and the requests has a count to write for the
\* configuration, and it read the count that is there.
CountOK ==
  ~raced /\ config # NoConfig =>
    /\ CronAdvancing(config) => Advancing(config) = {} /\ cron.seen.count = config.count
    /\ \A q, p \in Advancing(config) : q = p
    /\ \A q \in Advancing(config) : req[q].seen.count = config.count
    /\ config.count = IF CronAdvancing(config) \/ Advancing(config) # {} THEN born ELSE born + 1

\* Who has changed the configuration and not yet the mark: nobody, exactly one
\* request or the cron job, or several, of which the first will find the others.
Marking == {q \in Requests : req[q].step \in {"mark", "unmark"}}
Active == config # NoConfig /\ config.active
Several ==
  \/ cron.step = "unmark" /\ Marking # {}
  \/ \E p, q \in Marking : p # q
MarkOK ==
  \/ torn \/ Several
  \/ cron.step = "unmark" /\ ~Active
  \/ /\ cron.step # "unmark"
     /\ \/ Marking = {} /\ (recurring <=> Active)
        \/ \E r \in Requests :
             /\ Marking = {r}
             /\ req[r].step = "unmark" => config = NoConfig
             /\ req[r].step = "mark" =>
                  /\ ~recurring /\ Active
                  /\ \A q \in Requests : req[q].step = "delete" => req[q].seen.id # config.id

IInv == TypeOK /\ ReadingsOK /\ CountOK /\ MarkOK

CronSteps == {"idle", "check", "deactivate", "unmark", "find", "number", "insert", "advance"}
RequestSteps == {"idle", "create", "advance", "addConfig", "mark", "update", "delete", "unmark"}
RequestOps == {"complete", "add", "update", "stop"}
CronType == [step : CronSteps, seen : Configurations, tries : 1 .. 3, overtaken : BOOLEAN,
             late : BOOLEAN]
RequestType == [step : RequestSteps, op : RequestOps, seen : Configurations,
                new : Configurations]

-----------------------------------------------------------------------------
LEMMA Types ==
  TypeOK <=>
    /\ today \in 0 .. MaxDay /\ recurring \in BOOLEAN /\ created \in Nat \ {0}
    /\ config \in Configurations /\ (config # NoConfig => config.id # 0)
    /\ made \in [Dates -> Nat]
    /\ cron \in CronType /\ req \in [Requests -> RequestType]
    /\ born \in Nat /\ raced \in BOOLEAN /\ torn \in BOOLEAN
BY DEF TypeOK, CronType, RequestType, CronSteps, RequestSteps, RequestOps

LEMMA NoConfigType ==
  ASSUME created \in Nat
  PROVE  NoConfig \in Configurations
BY DEF NoConfig, Configurations

LEMMA NewConfigType ==
  ASSUME created \in Nat, NEW id \in 0 .. created, NEW i \in Intervals, NEW e \in Ends
  PROVE  /\ NewConfig(id, i, e) \in Configurations
         /\ NewConfig(id, i, e).id = id /\ NewConfig(id, i, e).active
         /\ NewConfig(id, i, e).count = 1
<1>1. Due + i \in Nat /\ i \in Nat
  BY RecurringAssumption
<1> QED
  BY <1>1 DEF NewConfig, Configurations

LEMMA RestType ==
  ASSUME created \in Nat
  PROVE  Sleeping \in CronType /\ Idle \in RequestType
BY NoConfigType DEF Sleeping, Idle, CronType, RequestType, CronSteps, RequestSteps, RequestOps

LEMMA EndType ==
  ASSUME NEW c \in Configurations
  PROVE  c.end.n \in Nat /\ c.end.type \in {"NEVER", "AFTER", "ON_DATE"}
BY RecurringAssumption DEF Configurations, NoConfig

LEMMA NotComplete ==
  ASSUME NEW c \in Configurations, ~isRecurrenceComplete(c)
  PROVE  ~Ended(c)
BY EndType DEF isRecurrenceComplete, Ended, Configurations

LEMMA InitIInv == Init => IInv
<1> SUFFICES ASSUME Init PROVE IInv
  OBVIOUS
<1>1. created = 1 /\ cron = Sleeping /\ req = [r \in Requests |-> Idle] /\ born = 0
  BY DEF Init
<1>2. PICK i \in Intervals, e \in Ends : config = NewConfig(1, i, e)
  BY DEF Init
<1>3. config \in Configurations /\ config.id = 1 /\ config.active /\ config.count = 1
  BY <1>1, <1>2, NewConfigType
<1>4. config # NoConfig
  BY <1>3 DEF NoConfig
<1>5. TypeOK
  <2>1. made \in [Dates -> Nat]
    BY DEF Init
  <2>2. today \in 0 .. MaxDay
    BY RecurringAssumption DEF Init
  <2>3. cron \in CronType /\ req \in [Requests -> RequestType]
    BY <1>1, RestType
  <2>4. recurring \in BOOLEAN /\ raced \in BOOLEAN /\ torn \in BOOLEAN
    BY DEF Init
  <2> QED
    BY <1>1, <1>3, <2>1, <2>2, <2>3, <2>4, Types
<1>6. cron.step = "idle" /\ \A r \in Requests : req[r].step = "idle"
  BY <1>1 DEF Sleeping, Idle
<1>7. ReadingsOK
  BY <1>6 DEF ReadingsOK
<1>8. CountOK
  BY <1>1, <1>3, <1>6 DEF CountOK, CronAdvancing, Advancing
<1>9. MarkOK
  BY <1>3, <1>4, <1>6 DEF MarkOK, Marking, Active, Init
<1> QED
  BY <1>5, <1>7, <1>8, <1>9 DEF IInv

-----------------------------------------------------------------------------
\* What a step leaves alone of each part of the invariant.
LEMMA CountFrame ==
  ASSUME CountOK, born' = born, raced \in BOOLEAN, raced' \in BOOLEAN, raced => raced',
         config' # NoConfig => config # NoConfig,
         config'.id = config.id, config'.count = config.count,
         \A r \in Requests : req'[r].step = "advance" <=> req[r].step = "advance",
         \A r \in Requests : req[r].step = "advance" => req'[r].seen = req[r].seen,
         cron'.step = "advance" <=> cron.step = "advance",
         cron.step = "advance" => cron'.seen = cron.seen
  PROVE  CountOK'
<1>1. Advancing(config)' = Advancing(config) /\ CronAdvancing(config)' = CronAdvancing(config)
  BY DEF Advancing, CronAdvancing
<1> QED
  BY <1>1 DEF CountOK, Advancing, CronAdvancing

LEMMA MarkFrame ==
  ASSUME MarkOK, torn' = torn, recurring' = recurring, Active' = Active,
         config'.id = config.id, config = NoConfig => config' = NoConfig,
         \A r \in Requests : \/ req'[r].step = req[r].step
                            \/ {req[r].step, req'[r].step}
                                 \intersect {"mark", "unmark", "delete"} = {},
         \A r \in Requests : req'[r].step = "delete" => req'[r].seen = req[r].seen,
         cron'.step = "unmark" <=> cron.step = "unmark"
  PROVE  MarkOK'
<1>1. Marking' = Marking
  BY DEF Marking
<1>2. \A r \in Marking : req'[r].step = req[r].step
  BY DEF Marking
<1>3. \A r \in Requests : req'[r].step = "delete" => req[r].step = "delete"
  OBVIOUS
<1>4. Several' = Several
  BY <1>1 DEF Several
<1>5. CASE torn \/ Several \/ (cron.step = "unmark" /\ ~Active)
  BY <1>4, <1>5 DEF MarkOK
<1>6. CASE cron.step # "unmark" /\ Marking = {} /\ (recurring <=> Active)
  BY <1>1, <1>6 DEF MarkOK
<1>7. ASSUME NEW r \in Requests, Marking = {r}, cron.step # "unmark",
             req[r].step = "unmark" => config = NoConfig,
             req[r].step = "mark" =>
               /\ ~recurring /\ Active
               /\ \A q \in Requests : req[q].step = "delete" => req[q].seen.id # config.id
      PROVE  MarkOK'
  BY <1>1, <1>2, <1>3, <1>7 DEF MarkOK
<1> QED
  BY <1>5, <1>6, <1>7 DEF MarkOK

-----------------------------------------------------------------------------
\* The cron job's steps between its writes.
LEMMA CronMoves ==
  ASSUME IInv, cron' \in CronType, today' \in 0 .. MaxDay, ReadingsOK',
         UNCHANGED <<recurring, config, created, made, req, born, raced, torn>>,
         {cron.step, cron'.step} \intersect {"unmark", "advance"} = {}
  PROVE  IInv'
<1>1. TypeOK'
  <2>1. Configurations' = Configurations
    BY DEF Configurations
  <2> QED
    BY <2>1, Types DEF IInv, TypeOK, CronType, CronSteps
<1>2. CountOK'
  BY CountFrame DEF IInv, TypeOK
<1>3. MarkOK'
  BY MarkFrame DEF IInv, Active
<1> QED
  BY <1>1, <1>2, <1>3 DEF IInv

LEMMA CronIs == ASSUME IInv PROVE cron \in CronType /\ config \in Configurations
BY Types DEF IInv

LEMMA MidnightKeepsIInv == ASSUME IInv, Midnight PROVE IInv'
<1>1. cron \in CronType /\ config \in Configurations /\ Sleeping \in CronType
  BY CronIs, RestType DEF IInv, TypeOK
<1>2. cron' \in CronType /\ cron'.step \in {"idle", "check"}
  BY <1>1 DEF Midnight, CronType, Sleeping, CronSteps
<1>3. today' \in 0 .. MaxDay
  BY RecurringAssumption DEF Midnight, IInv, TypeOK
<1>4. ReadingsOK'
  BY <1>2 DEF Midnight, ReadingsOK, IInv
<1> QED
  BY <1>2, <1>3, <1>4, CronMoves DEF Midnight

LEMMA CronCheckKeepsIInv == ASSUME IInv, CronCheck PROVE IInv'
<1>1. cron \in CronType /\ Sleeping \in CronType /\ cron.seen \in Configurations
  BY CronIs, RestType DEF IInv, TypeOK, CronType
<1>2. cron' \in CronType /\ cron'.step \in {"idle", "deactivate", "find"}
  BY <1>1 DEF CronCheck, Run, Sleep, CronType, Sleeping, CronSteps
<1>3. cron'.step = "find" => ~Ended(cron.seen) /\ cron.seen.next \in Dates /\ cron'.seen = cron.seen
  <2> SUFFICES ASSUME cron'.step = "find"
               PROVE  ~Ended(cron.seen) /\ cron.seen.next \in Dates /\ cron'.seen = cron.seen
    OBVIOUS
  <2>1. /\ ~isRecurrenceComplete(cron.seen) /\ shouldGenerateNextInstance(cron.seen.next)
        /\ cron' = [cron EXCEPT !.step = "find"]
    BY <1>1 DEF CronCheck, Run, Sleep, Sleeping, CronType
  <2>2. cron.seen.next \in Nat /\ today \in 0 .. MaxDay
    BY <1>1 DEF Configurations, IInv, TypeOK
  <2>3. cron.seen.next \in Dates
    BY <2>1, <2>2, RecurringAssumption DEF shouldGenerateNextInstance, Dates
  <2> QED
    BY <1>1, <2>1, <2>3, NotComplete DEF CronType
<1>4. ReadingsOK'
  BY <1>2, <1>3 DEF CronCheck, ReadingsOK, IInv, Ended
<1>5. today' \in 0 .. MaxDay
  BY DEF CronCheck, IInv, TypeOK
<1> QED
  BY <1>2, <1>4, <1>5, CronMoves DEF CronCheck

LEMMA CronFindKeepsIInv == ASSUME IInv, CronFind PROVE IInv'
<1>1. cron \in CronType /\ Sleeping \in CronType
  BY CronIs, RestType DEF IInv, TypeOK
<1>2. cron' \in CronType /\ cron'.step \in {"idle", "number"}
  BY <1>1 DEF CronFind, Sleep, CronType, Sleeping, CronSteps
<1>3. cron'.step = "number" => /\ cron'.seen = cron.seen /\ made[cron.seen.next] = 0
                               /\ ~Ended(cron.seen) /\ cron.seen.next \in Dates
  <2> SUFFICES ASSUME cron'.step = "number"
               PROVE  /\ cron'.seen = cron.seen /\ made[cron.seen.next] = 0
                      /\ ~Ended(cron.seen) /\ cron.seen.next \in Dates
    OBVIOUS
  <2>1. ~(made[cron.seen.next] > 0) /\ cron' = [cron EXCEPT !.step = "number", !.late = FALSE]
    BY DEF CronFind, Sleep, Sleeping
  <2>2. ~Ended(cron.seen) /\ cron.seen.next \in Dates /\ made \in [Dates -> Nat]
    BY DEF CronFind, IInv, ReadingsOK, TypeOK
  <2> QED
    BY <1>1, <2>1, <2>2 DEF CronType
<1>4. ReadingsOK'
  BY <1>2, <1>3 DEF CronFind, ReadingsOK, IInv, Ended
<1>5. today' \in 0 .. MaxDay
  BY DEF CronFind, IInv, TypeOK
<1> QED
  BY <1>2, <1>4, <1>5, CronMoves DEF CronFind

LEMMA CronNumberKeepsIInv == ASSUME IInv, CronNumber PROVE IInv'
<1>1. cron \in CronType
  BY CronIs
<1>2. cron' \in CronType /\ cron'.step = "insert" /\ cron'.seen = cron.seen /\ cron'.late = cron.late
  BY <1>1 DEF CronNumber, CronType, CronSteps
<1>3. ReadingsOK'
  BY <1>2 DEF CronNumber, ReadingsOK, IInv, Ended
<1>4. today' \in 0 .. MaxDay
  BY DEF CronNumber, IInv, TypeOK
<1> QED
  BY <1>2, <1>3, <1>4, CronMoves DEF CronNumber

LEMMA CronConflictKeepsIInv == ASSUME IInv, CronConflict PROVE IInv'
<1>1. cron \in CronType /\ Sleeping \in CronType
  BY CronIs, RestType DEF IInv, TypeOK
<1>2. /\ cron' \in CronType /\ cron'.step \in {"idle", "number"}
      /\ cron'.step = "number" => cron'.seen = cron.seen /\ cron'.late = cron.late
  <2>1. CASE cron.tries > 1
    <3>1. cron' = [cron EXCEPT !.step = "number", !.tries = @ - 1]
      BY <2>1 DEF CronConflict
    <3>2. cron.tries - 1 \in 1 .. 3
      BY <1>1, <2>1 DEF CronType
    <3> QED
      BY <1>1, <3>1, <3>2 DEF CronType, CronSteps
  <2>2. CASE ~(cron.tries > 1)
    <3>1. cron' = Sleeping
      BY <2>2 DEF CronConflict, Sleep
    <3>2. Sleeping.step = "idle"
      BY DEF Sleeping
    <3> QED
      BY <1>1, <3>1, <3>2
  <2> QED
    BY <2>1, <2>2
<1>3. ReadingsOK'
  BY <1>2 DEF CronConflict, ReadingsOK, IInv, Ended
<1>4. today' \in 0 .. MaxDay
  BY DEF CronConflict, IInv, TypeOK
<1> QED
  BY <1>2, <1>3, <1>4, CronMoves DEF CronConflict

LEMMA OtherTaskKeepsIInv == ASSUME IInv, OtherTask PROVE IInv'
<1>1. cron \in CronType
  BY CronIs
<1>2. cron' \in CronType /\ cron'.step = "insert" /\ cron'.seen = cron.seen /\ cron'.late = cron.late
  BY <1>1 DEF OtherTask, CronType
<1>3. ReadingsOK'
  BY <1>2 DEF OtherTask, ReadingsOK, IInv, Ended
<1>4. today' \in 0 .. MaxDay
  BY DEF OtherTask, IInv, TypeOK
<1> QED
  BY <1>2, <1>3, <1>4, CronMoves DEF OtherTask

-----------------------------------------------------------------------------
\* The cron job's writes.
LEMMA CronDeactivateKeepsIInv == ASSUME IInv, CronDeactivate PROVE IInv'
<1>1. /\ cron \in CronType /\ Sleeping \in CronType /\ config \in Configurations
      /\ Configurations' = Configurations
  BY CronIs, RestType DEF IInv, TypeOK, CronDeactivate, Configurations
<1>2. CASE ~Stored(cron.seen) /\ Sleep /\ UNCHANGED config
  <2>1. cron' \in CronType /\ cron'.step = "idle"
    BY <1>1, <1>2 DEF Sleep, Sleeping
  <2>2. ReadingsOK'
    BY <2>1 DEF CronDeactivate, ReadingsOK, IInv
  <2>3. today' \in 0 .. MaxDay
    BY DEF CronDeactivate, IInv, TypeOK
  <2> QED
    BY <1>2, <2>1, <2>2, <2>3, CronMoves DEF CronDeactivate
<1>3. CASE Stored(cron.seen) /\ config' = [config EXCEPT !.active = FALSE] /\ Run("unmark")
  <2>1. cron' \in CronType /\ cron'.step = "unmark"
    BY <1>1, <1>3 DEF Run, CronType, CronSteps
  <2>2. /\ config' \in Configurations /\ config'.id = config.id /\ config'.count = config.count
        /\ ~config'.active /\ config # NoConfig
    BY <1>1, <1>3 DEF Configurations, Stored
  <2>3. config' # NoConfig /\ config'.id # 0
    BY <2>2 DEF NoConfig, IInv, TypeOK
  <2>4. TypeOK'
    BY <1>1, <2>1, <2>2, <2>3, Types DEF IInv, CronDeactivate, TypeOK, CronType, CronSteps
  <2>5. ReadingsOK'
    BY <2>1 DEF CronDeactivate, ReadingsOK, IInv
  <2>6. CountOK'
    BY <2>1, <2>2, CountFrame DEF CronDeactivate, IInv, TypeOK
  <2>7. MarkOK'
    BY <2>1, <2>2 DEF MarkOK, Active
  <2> QED
    BY <2>4, <2>5, <2>6, <2>7 DEF IInv
<1> QED
  BY <1>2, <1>3 DEF CronDeactivate

LEMMA CronUnmarkKeepsIInv == ASSUME IInv, CronUnmark PROVE IInv'
<1>1. cron' \in CronType /\ cron'.step = "idle" /\ Configurations' = Configurations
  BY RestType DEF IInv, TypeOK, CronUnmark, Sleep, Sleeping, Configurations
<1>2. TypeOK'
  BY <1>1, Types DEF IInv, CronUnmark, TypeOK, CronType, CronSteps
<1>3. ReadingsOK'
  BY <1>1 DEF CronUnmark, ReadingsOK, IInv
<1>4. CountOK'
  BY <1>1, CountFrame DEF CronUnmark, IInv, TypeOK
<1>5. MarkOK'
  <2>1. CASE torn \/ Marking # {}
    BY <2>1 DEF CronUnmark, Marking, MarkOK
  <2>2. CASE ~torn /\ Marking = {}
    <3>1. ~Active
      BY <2>2 DEF CronUnmark, IInv, MarkOK, Several
    <3>2. Marking' = {} /\ ~Active' /\ recurring' = FALSE /\ cron'.step # "unmark"
      BY <1>1, <2>2, <3>1 DEF CronUnmark, Marking, Active
    <3> QED
      BY <3>2 DEF MarkOK
  <2> QED
    BY <2>1, <2>2
<1> QED
  BY <1>2, <1>3, <1>4, <1>5 DEF IInv

LEMMA CronInsertKeepsIInv == ASSUME IInv, CronInsert PROVE IInv'
<1> DEFINE c == cron.seen
<1>1. /\ cron \in CronType /\ made \in [Dates -> Nat] /\ c.next \in Dates /\ c \in Configurations
      /\ Configurations' = Configurations /\ born \in Nat /\ config \in Configurations
  BY CronIs DEF IInv, TypeOK, CronType, CronInsert, Generate, Configurations
<1>2. /\ cron' \in CronType /\ cron'.step = "advance" /\ cron'.seen = c
  BY <1>1 DEF CronInsert, Run, CronType, CronSteps
<1>3. TypeOK'
  <2>1. made' \in [Dates -> Nat] /\ born' \in Nat /\ raced' \in BOOLEAN
    BY <1>1 DEF CronInsert, Generate, IInv, TypeOK
  <2> QED
    BY <1>1, <1>2, <2>1, Types DEF IInv, CronInsert, TypeOK, CronType, CronSteps
<1>4. ReadingsOK'
  BY <1>2 DEF CronInsert, ReadingsOK, IInv
<1>5. CountOK'
  <2> SUFFICES ASSUME ~raced', config # NoConfig PROVE CountOK'
    BY DEF CountOK, CronInsert
  <2>1. ~raced /\ Advancing(c) = {} /\ (Stored(c) => config.count = c.count)
    BY DEF CronInsert, Generate
  <2>2. ~CronAdvancing(config) /\ (Advancing(config))' = Advancing(config)
    BY DEF CronInsert, CronAdvancing, Advancing
  <2>3. CASE Stored(c)
    <3>1. Advancing(config) = {} /\ config.count = born + 1 /\ born' = born + 1
      BY <2>1, <2>2, <2>3 DEF IInv, CountOK, Stored, Advancing, CronInsert, Generate
    <3>2. (CronAdvancing(config))'
      BY <1>2, <2>3 DEF CronAdvancing, Stored, CronInsert
    <3> QED
      BY <1>2, <2>1, <2>2, <2>3, <3>1, <3>2 DEF CountOK, CronInsert
  <2>4. CASE ~Stored(c)
    <3>1. ~(CronAdvancing(config))' /\ born' = born
      BY <1>2, <2>4 DEF CronAdvancing, Stored, CronInsert, Generate
    <3> QED
      BY <1>2, <2>1, <2>2, <3>1 DEF CountOK, CronInsert, IInv, Advancing
  <2> QED
    BY <2>3, <2>4
<1>6. MarkOK'
  BY <1>2, MarkFrame DEF IInv, Active, CronInsert
<1> QED
  BY <1>3, <1>4, <1>5, <1>6 DEF IInv

LEMMA CronAdvanceKeepsIInv == ASSUME IInv, CronAdvance PROVE IInv'
<1> DEFINE c == cron.seen
<1>1. /\ cron \in CronType /\ c \in Configurations
      /\ Configurations' = Configurations /\ config \in Configurations
  BY CronIs DEF IInv, TypeOK, CronType, CronAdvance, Configurations
<1>2. cron' \in CronType /\ cron'.step = "idle"
  BY RestType DEF IInv, TypeOK, CronAdvance, Sleep, Sleeping
<1>3. /\ config' \in Configurations /\ config'.id = config.id /\ config'.active = config.active
      /\ config' = NoConfig <=> config = NoConfig
      /\ Stored(c) => config'.count = c.count + 1
      /\ ~Stored(c) => config' = config
  <2>1. CASE ~Stored(c)
    BY <1>1, <2>1 DEF CronAdvance
  <2>2. CASE Stored(c)
    <3>1. config' = [config EXCEPT !.count = c.count + 1, !.next = c.next + c.interval]
      BY <2>2 DEF CronAdvance, nextOccurrence
    <3>2. c.count + 1 \in Nat /\ c.next + c.interval \in Nat
      BY <1>1 DEF Configurations
    <3>3. /\ config' \in Configurations /\ config'.id = config.id /\ config'.active = config.active
          /\ config'.count = c.count + 1
      BY <1>1, <3>1, <3>2 DEF Configurations
    <3>4. config # NoConfig /\ config' # NoConfig
      BY <2>2, <3>3 DEF Stored, NoConfig, IInv, TypeOK
    <3> QED
      BY <2>2, <3>3, <3>4
  <2> QED
    BY <2>1, <2>2
<1>4. TypeOK'
  BY <1>1, <1>2, <1>3, Types DEF IInv, CronAdvance, TypeOK, CronType, CronSteps
<1>5. ReadingsOK'
  BY <1>2 DEF CronAdvance, ReadingsOK, IInv
<1>6. CountOK'
  <2> SUFFICES ASSUME ~raced, config # NoConfig PROVE CountOK'
    BY <1>3 DEF CountOK, CronAdvance
  <2>1. ~(CronAdvancing(config))' /\ (Advancing(config))' = Advancing(config) /\ born' = born
        /\ UNCHANGED req
    BY <1>2, <1>3 DEF CronAdvancing, Advancing, CronAdvance
  <2>2. CASE Stored(c)
    <3>1. CronAdvancing(config)
      BY <2>2 DEF CronAdvance, CronAdvancing, Stored
    <3>2. Advancing(config) = {} /\ c.count = config.count /\ config.count = born
      BY <3>1 DEF IInv, CountOK
    <3> QED
      BY <1>3, <2>1, <2>2, <3>2 DEF CountOK
  <2>3. CASE ~Stored(c)
    <3>1. ~CronAdvancing(config) /\ config' = config
      BY <1>3, <2>3 DEF CronAdvancing, Stored
    <3> QED
      BY <2>1, <3>1 DEF CountOK, IInv, CronAdvance
  <2> QED
    BY <2>2, <2>3
<1>7. MarkOK'
  BY <1>2, <1>3, MarkFrame DEF IInv, Active, CronAdvance
<1> QED
  BY <1>4, <1>5, <1>6, <1>7 DEF IInv

-----------------------------------------------------------------------------
\* The requests.
LEMMA ReqIs ==
  ASSUME IInv, NEW r \in Requests
  PROVE  /\ req \in [Requests -> RequestType] /\ req[r] \in RequestType
         /\ req[r].seen \in Configurations /\ req[r].new \in Configurations
         /\ config \in Configurations /\ Idle \in RequestType
BY Types, RestType DEF IInv, TypeOK, RequestType

\* A step of r alone that changes neither the configuration nor what is counted.
LEMMA RequestMoves ==
  ASSUME IInv, NEW r \in Requests, req' \in [Requests -> RequestType],
         \A q \in Requests \ {r} : req'[q] = req[q],
         UNCHANGED <<today, recurring, config, created, made, cron, born, raced, torn>>,
         req'[r].step = "create" => ~Ended(req'[r].seen),
         req'[r].step = "addConfig" => req'[r].new.active /\ req'[r].new.count = 1,
         {req[r].step, req'[r].step} \intersect {"mark", "unmark", "advance"} = {},
         req'[r].step # "delete"
  PROVE  IInv'
<1>1. TypeOK'
  <2>1. Configurations' = Configurations
    BY DEF Configurations
  <2> QED
    BY <2>1, Types DEF IInv, TypeOK, RequestType, RequestSteps, RequestOps
<1>2. ReadingsOK'
  <2>1. \A q \in Requests :
          /\ req'[q].step = "create" => ~Ended(req'[q].seen)
          /\ req'[q].step = "addConfig" => req'[q].new.active /\ req'[q].new.count = 1
    BY DEF IInv, ReadingsOK
  <2> QED
    BY <2>1 DEF IInv, ReadingsOK, Ended
<1>3. CountOK'
  BY CountFrame DEF IInv, TypeOK
<1>4. MarkOK'
  <2>1. Marking' = Marking /\ \A q \in Marking : req'[q] = req[q]
    BY DEF Marking
  <2>2. \A q \in Requests : req'[q].step = "delete" => req'[q] = req[q]
    OBVIOUS
  <2>3. Several' = Several /\ Active' = Active
    BY <2>1 DEF Several, Active
  <2>4. CASE torn \/ Several \/ (cron.step = "unmark" /\ ~Active)
    BY <2>3, <2>4 DEF MarkOK
  <2>5. CASE cron.step # "unmark" /\ Marking = {} /\ (recurring <=> Active)
    BY <2>1, <2>3, <2>5 DEF MarkOK
  <2>6. ASSUME NEW p \in Requests, Marking = {p}, cron.step # "unmark",
               req[p].step = "unmark" => config = NoConfig,
               req[p].step = "mark" =>
                 /\ ~recurring /\ Active
                 /\ \A q \in Requests : req[q].step = "delete" => req[q].seen.id # config.id
        PROVE  MarkOK'
    BY <2>1, <2>2, <2>3, <2>6 DEF MarkOK
  <2> QED
    BY <2>4, <2>5, <2>6 DEF MarkOK, IInv
<1> QED
  BY <1>1, <1>2, <1>3, <1>4 DEF IInv

LEMMA BegunRequest ==
  ASSUME IInv, NEW r \in Requests, NEW op \in RequestOps, NEW step \in RequestSteps,
         NEW new \in Configurations, Begin(r, op, step, new)
  PROVE  /\ req' \in [Requests -> RequestType] /\ \A q \in Requests \ {r} : req'[q] = req[q]
         /\ req'[r].step = step /\ req'[r].seen = config /\ req'[r].new = new
         /\ req[r].step = "idle"
<1> DEFINE x == [step |-> step, op |-> op, seen |-> config, new |-> new]
<1>1. x \in RequestType
  BY ReqIs DEF RequestType
<1>2. req' = [req EXCEPT ![r] = x] /\ req \in [Requests -> RequestType]
  BY ReqIs DEF Begin
<1>3. req' \in [Requests -> RequestType] /\ req'[r] = x /\ \A q \in Requests \ {r} : req'[q] = req[q]
  BY <1>1, <1>2
<1> QED
  BY <1>3 DEF Begin

LEMMA AskKeepsIInv ==
  ASSUME IInv, NEW r \in Requests, AskComplete(r) \/ AskAdd(r) \/ AskUpdate(r)
  PROVE  IInv'
<1>1. /\ NoConfig \in Configurations /\ config \in Configurations
      /\ \A i \in Intervals, e \in Ends, id \in 0 .. created :
           LET n == NewConfig(id, i, e) IN n \in Configurations /\ n.active /\ n.count = 1
      /\ 0 \in 0 .. created /\ config.id \in 0 .. created
  BY NoConfigType, NewConfigType, CronIs DEF IInv, TypeOK, Configurations
<1>2. CASE AskComplete(r)
  <2>1. ~Ended(config) /\ Begin(r, "complete", "create", NoConfig)
    BY <1>1, <1>2, NotComplete DEF AskComplete
  <2>2. /\ req' \in [Requests -> RequestType] /\ \A q \in Requests \ {r} : req'[q] = req[q]
        /\ req'[r].step = "create" /\ req'[r].seen = config /\ req[r].step = "idle"
    BY <1>1, <2>1, BegunRequest DEF RequestOps, RequestSteps
  <2> QED
    BY <2>1, <2>2, RequestMoves DEF Begin
<1>3. ASSUME NEW new \in Configurations, NEW op \in {"add", "update"},
             NEW step \in {"addConfig", "update"}, Begin(r, op, step, new),
             new.active, new.count = 1
      PROVE  IInv'
  <2>1. /\ req' \in [Requests -> RequestType] /\ \A q \in Requests \ {r} : req'[q] = req[q]
        /\ req'[r].step = step /\ req'[r].new = new /\ req[r].step = "idle"
    BY <1>3, BegunRequest DEF RequestOps, RequestSteps
  <2> QED
    BY <1>3, <2>1, RequestMoves DEF Begin
<1>4. CASE AskAdd(r)
  BY <1>1, <1>3, <1>4 DEF AskAdd
<1>5. CASE AskUpdate(r)
  BY <1>1, <1>3, <1>5 DEF AskUpdate
<1> QED
  BY <1>2, <1>4, <1>5

\* A request to stop needs the mark: none can ask while another one's
\* configuration still waits for it.
LEMMA AskStopKeepsIInv ==
  ASSUME IInv, NEW r \in Requests, AskStop(r)
  PROVE  IInv'
<1>1. recurring /\ config # NoConfig /\ Begin(r, "stop", "delete", NoConfig)
  BY DEF AskStop, IsRecurring
<1>2. /\ req' \in [Requests -> RequestType] /\ \A q \in Requests \ {r} : req'[q] = req[q]
      /\ req'[r].step = "delete" /\ req[r].step = "idle"
  BY <1>1, NoConfigType, BegunRequest DEF RequestOps, RequestSteps, IInv, TypeOK
<1>3. UNCHANGED <<today, recurring, config, created, made, cron, born, raced, torn>>
  BY <1>1 DEF Begin
<1>4. TypeOK'
  <2>1. Configurations' = Configurations
    BY <1>3 DEF Configurations
  <2> QED
    BY <1>2, <1>3, <2>1, Types DEF IInv, TypeOK, RequestType, RequestSteps, RequestOps
<1>5. ReadingsOK'
  BY <1>2, <1>3 DEF IInv, ReadingsOK, Ended
<1>6. CountOK'
  BY <1>2, <1>3, CountFrame DEF IInv, TypeOK
<1>7. MarkOK'
  <2>1. Marking' = Marking /\ \A q \in Marking : req'[q] = req[q]
    BY <1>2 DEF Marking
  <2>2. Several' = Several /\ Active' = Active
    BY <1>3, <2>1 DEF Several, Active
  <2>3. CASE torn \/ Several \/ (cron.step = "unmark" /\ ~Active)
    BY <1>3, <2>2, <2>3 DEF MarkOK
  <2>4. CASE cron.step # "unmark" /\ Marking = {} /\ (recurring <=> Active)
    BY <1>3, <2>1, <2>2, <2>4 DEF MarkOK
  <2>5. ASSUME NEW p \in Requests, Marking = {p}, cron.step # "unmark",
               req[p].step = "unmark" => config = NoConfig,
               req[p].step = "mark" => ~recurring
        PROVE  FALSE
    <3>1. p \in Marking
      BY <2>5
    <3> QED
      BY <1>1, <2>5, <3>1 DEF Marking
  <2> QED
    BY <2>3, <2>4, <2>5 DEF MarkOK, IInv
<1> QED
  BY <1>4, <1>5, <1>6, <1>7 DEF IInv

LEMMA CompleteCreateKeepsIInv ==
  ASSUME IInv, NEW r \in Requests, CompleteCreate(r)
  PROVE  IInv'
<1> DEFINE c == req[r].seen
           due == nextOccurrence(Due, c)
<1>1. /\ cron \in CronType /\ made \in [Dates -> Nat] /\ c \in Configurations
      /\ Configurations' = Configurations /\ born \in Nat /\ config \in Configurations
      /\ req \in [Requests -> RequestType] /\ req[r] \in RequestType
  BY CronIs, ReqIs DEF IInv, TypeOK, CompleteCreate, Configurations
<1>2. Generate(due, c, CronAdvancing(c) \/ Advancing(c) # {}) /\ req[r].step = "create"
  BY DEF CompleteCreate
<1>3. /\ cron' \in CronType /\ cron'.step = cron.step /\ cron'.seen = cron.seen
      /\ cron'.late = (cron.late \/ due = cron.seen.next)
  BY <1>1 DEF CompleteCreate, CronType
<1>4. /\ req' \in [Requests -> RequestType] /\ req'[r].step = "advance" /\ req'[r].seen = c
      /\ \A q \in Requests \ {r} : req'[q] = req[q]
  BY <1>1 DEF CompleteCreate, Go, RequestType, RequestSteps
<1>5. TypeOK'
  <2>1. made' \in [Dates -> Nat] /\ born' \in Nat /\ raced' \in BOOLEAN
    BY <1>1, <1>2 DEF Generate, IInv, TypeOK
  <2> QED
    BY <1>1, <1>3, <1>4, <2>1, Types DEF IInv, CompleteCreate, TypeOK, CronType, CronSteps,
       RequestType, RequestSteps, RequestOps
<1>6. ReadingsOK'
  <2>1. cron.seen.next \in Dates /\ due # cron.seen.next
        => made'[cron.seen.next] = made[cron.seen.next]
    BY <1>1, <1>2 DEF Generate
  <2> QED
    BY ZenonT(30), <1>3, <1>4, <2>1 DEF IInv, ReadingsOK, Ended
<1>7. CountOK'
  <2> SUFFICES ASSUME ~raced', config # NoConfig PROVE CountOK'
    BY DEF CountOK, CompleteCreate
  <2>1. ~raced /\ Advancing(c) = {} /\ ~CronAdvancing(c) /\ (Stored(c) => config.count = c.count)
    BY <1>2 DEF Generate
  <2>2. (CronAdvancing(config))' = CronAdvancing(config) /\ config' = config
    BY <1>3 DEF CronAdvancing, CompleteCreate
  <2>3. CASE Stored(c)
    <3>1. Advancing(config) = {} /\ ~CronAdvancing(config)
      BY <2>1, <2>3 DEF Stored, Advancing, CronAdvancing
    <3>2. config.count = born + 1 /\ born' = born + 1
      BY <1>2, <2>1, <2>3, <3>1 DEF IInv, CountOK, Generate
    <3>3. (Advancing(config))' = {r}
      BY <1>4, <2>2, <2>3, <3>1 DEF Advancing, Stored
    <3> QED
      BY <1>4, <2>1, <2>2, <2>3, <3>1, <3>2, <3>3 DEF CountOK
  <2>4. CASE ~Stored(c)
    <3>1. (Advancing(config))' = Advancing(config) /\ r \notin Advancing(config) /\ born' = born
      BY <1>2, <1>4, <2>2, <2>4 DEF Advancing, Stored, Generate
    <3>2. \A q \in Advancing(config) : req'[q] = req[q]
      BY <1>4, <3>1 DEF Advancing
    <3> QED
      BY <1>3, <2>1, <2>2, <3>1, <3>2 DEF CountOK, IInv
  <2> QED
    BY <2>3, <2>4
<1>8. MarkOK'
  BY <1>2, <1>3, <1>4, MarkFrame DEF IInv, Active, CompleteCreate
<1> QED
  BY <1>5, <1>6, <1>7, <1>8 DEF IInv

LEMMA CompleteAdvanceKeepsIInv ==
  ASSUME IInv, NEW r \in Requests, CompleteAdvance(r)
  PROVE  IInv'
<1> DEFINE c == req[r].seen
<1>1. /\ c \in Configurations /\ Configurations' = Configurations /\ config \in Configurations
      /\ req \in [Requests -> RequestType]
  BY CronIs, ReqIs DEF IInv, TypeOK, CompleteAdvance, Configurations
<1>2. /\ req' \in [Requests -> RequestType] /\ req'[r].step = "idle"
      /\ \A q \in Requests \ {r} : req'[q] = req[q]
  BY <1>1, ReqIs DEF CompleteAdvance, Answer, Idle
<1>3. /\ config' \in Configurations /\ config'.id = config.id /\ config'.active = config.active
      /\ config' = NoConfig <=> config = NoConfig
      /\ Stored(c) => config'.count = c.count + 1
      /\ ~Stored(c) => config' = config
  <2>1. CASE ~Stored(c)
    BY <1>1, <2>1 DEF CompleteAdvance
  <2>2. CASE Stored(c)
    <3>1. config' = [config EXCEPT !.count = c.count + 1, !.next = Due + c.interval]
      BY <2>2 DEF CompleteAdvance, nextOccurrence
    <3>2. c.count + 1 \in Nat /\ Due + c.interval \in Nat
      BY <1>1, RecurringAssumption DEF Configurations
    <3>3. /\ config' \in Configurations /\ config'.id = config.id /\ config'.active = config.active
          /\ config'.count = c.count + 1
      BY <1>1, <3>1, <3>2 DEF Configurations
    <3>4. config # NoConfig /\ config' # NoConfig
      BY <2>2, <3>3 DEF Stored, NoConfig, IInv, TypeOK
    <3> QED
      BY <2>2, <3>3, <3>4
  <2> QED
    BY <2>1, <2>2
<1>4. TypeOK'
  BY <1>1, <1>2, <1>3, Types DEF IInv, CompleteAdvance, TypeOK, RequestType, RequestSteps, RequestOps
<1>5. ReadingsOK'
  BY <1>2 DEF CompleteAdvance, ReadingsOK, IInv, Ended
<1>6. CountOK'
  <2> SUFFICES ASSUME ~raced, config # NoConfig PROVE CountOK'
    BY <1>3 DEF CountOK, CompleteAdvance
  <2>1. (CronAdvancing(config))' = CronAdvancing(config) /\ UNCHANGED <<cron, born, raced>>
    BY <1>3 DEF CronAdvancing, CompleteAdvance
  <2>2. CASE Stored(c)
    <3>1. r \in Advancing(config)
      BY <2>2 DEF CompleteAdvance, Advancing, Stored
    <3>2. /\ Advancing(config) = {r} /\ c.count = config.count /\ config.count = born
          /\ ~CronAdvancing(config)
      BY <3>1 DEF IInv, CountOK
    <3>3. (Advancing(config))' = {}
      BY <1>2, <1>3, <3>2 DEF Advancing
    <3> QED
      BY <1>3, <2>1, <2>2, <3>2, <3>3 DEF CountOK
  <2>3. CASE ~Stored(c)
    <3>1. r \notin Advancing(config) /\ config' = config
      BY <1>3, <2>3 DEF Advancing, Stored
    <3>2. (Advancing(config))' = Advancing(config) /\ \A q \in Advancing(config) : req'[q] = req[q]
      BY <1>2, <3>1 DEF Advancing
    <3> QED
      BY <2>1, <3>1, <3>2 DEF CountOK, IInv
  <2> QED
    BY <2>2, <2>3
<1>7. MarkOK'
  BY <1>2, <1>3, MarkFrame DEF IInv, Active, CompleteAdvance
<1> QED
  BY <1>4, <1>5, <1>6, <1>7 DEF IInv

LEMMA AnsweredRequest ==
  ASSUME IInv, NEW r \in Requests, Answer(r)
  PROVE  /\ req' \in [Requests -> RequestType] /\ req'[r].step = "idle"
         /\ \A q \in Requests \ {r} : req'[q] = req[q]
BY ReqIs DEF Answer, Idle

LEMMA AddConfigKeepsIInv ==
  ASSUME IInv, NEW r \in Requests, AddConfig(r)
  PROVE  IInv'
<1>1. /\ req \in [Requests -> RequestType] /\ req[r] \in RequestType /\ req[r].new \in Configurations
      /\ created \in Nat \ {0} /\ req[r].step = "addConfig"
  BY ReqIs DEF IInv, TypeOK, AddConfig
<1>2. CASE Answer(r) /\ UNCHANGED <<config, created, born, raced>>
  <2>1. /\ req' \in [Requests -> RequestType] /\ req'[r].step = "idle"
        /\ \A q \in Requests \ {r} : req'[q] = req[q]
    BY <1>2, AnsweredRequest
  <2> QED
    BY <1>1, <1>2, <2>1, RequestMoves DEF AddConfig
<1>3. CASE /\ config = NoConfig /\ created' = created + 1
           /\ config' = [req[r].new EXCEPT !.id = created + 1]
           /\ born' = 0 /\ raced' = FALSE /\ Go(r, "mark")
  <2>1. /\ req' \in [Requests -> RequestType] /\ req'[r].step = "mark"
        /\ \A q \in Requests \ {r} : req'[q] = req[q]
    BY <1>1, <1>3 DEF Go, RequestType, RequestSteps
  <2>2. /\ config' \in Configurations' /\ config'.id = created + 1
        /\ config'.count = req[r].new.count /\ config'.active = req[r].new.active
    BY <1>1, <1>3 DEF Configurations
  <2>3. Configurations \subseteq Configurations'
    BY <1>1, <1>3 DEF Configurations
  <2>4. TypeOK'
    <3>1. cron' \in CronType' /\ req' \in [Requests -> RequestType']
      <4>1. CronType \subseteq CronType' /\ RequestType \subseteq RequestType'
        BY <2>3 DEF CronType, RequestType, CronSteps, RequestSteps, RequestOps
      <4>2. cron' \in CronType
        BY CronIs DEF AddConfig
      <4> QED
        BY <2>1, <4>1, <4>2
    <3>2. config'.id # 0 /\ created' \in Nat \ {0}
      BY <1>1, <1>3, <2>2
    <3> QED
      BY <1>3, <2>2, <3>1, <3>2 DEF IInv, TypeOK, AddConfig, CronType, RequestType, CronSteps,
         RequestSteps, RequestOps
  <2>5. \A q \in Requests : req[q].seen.id \in 0 .. created
    BY DEF IInv, TypeOK, Configurations
  <2>6. cron.seen.id \in 0 .. created
    BY DEF IInv, TypeOK, Configurations
  <2>7. ReadingsOK'
    BY <2>1 DEF IInv, ReadingsOK, AddConfig, Ended
  <2>8. req[r].new.active /\ req[r].new.count = 1
    BY <1>1 DEF IInv, ReadingsOK
  <2>9. CountOK'
    <3>1. config'.id # cron.seen.id /\ \A q \in Requests : config'.id # req[q].seen.id
      BY <1>1, <2>2, <2>5, <2>6
    <3>2. \A q \in Requests : req'[q].step = "advance" => req'[q] = req[q]
      BY <2>1
    <3>3. (Advancing(config))' = {} /\ ~(CronAdvancing(config))'
      BY <3>1, <3>2 DEF Advancing, CronAdvancing, AddConfig
    <3> QED
      BY <1>3, <2>2, <2>8, <3>3 DEF CountOK
  <2>10. MarkOK'
    <3>1. Active' /\ ~Active
      BY <1>3, <2>2, <2>4, <2>8 DEF Active, TypeOK, NoConfig
    <3>2. Marking' = Marking \union {r} /\ r \notin Marking
      BY <1>1, <2>1 DEF Marking
    <3>3. \A q \in Requests : req'[q].step = "delete" => req'[q].seen.id # config'.id
      BY <1>1, <2>1, <2>2, <2>5
    <3>4. cron' = cron /\ torn' = torn /\ recurring' = recurring
      BY DEF AddConfig
    <3>5. CASE torn
      BY <3>4, <3>5 DEF MarkOK
    <3>6. CASE Marking # {} \/ cron.step = "unmark"
      <4>1. Several'
        BY <3>2, <3>4, <3>6 DEF Several
      <4> QED
        BY <4>1 DEF MarkOK
    <3>7. CASE ~torn /\ Marking = {} /\ cron.step # "unmark"
      <4>1. ~recurring
        BY <3>1, <3>7 DEF IInv, MarkOK, Several
      <4> QED
        BY <2>1, <3>1, <3>2, <3>3, <3>4, <3>7, <4>1 DEF MarkOK
    <3> QED
      BY <3>5, <3>6, <3>7
  <2> QED
    BY <2>4, <2>7, <2>9, <2>10 DEF IInv
<1> QED
  BY <1>2, <1>3 DEF AddConfig

LEMMA MarkKeepsIInv ==
  ASSUME IInv, NEW r \in Requests, Mark(r)
  PROVE  IInv'
<1>1. /\ req' \in [Requests -> RequestType] /\ req'[r].step = "idle"
      /\ \A q \in Requests \ {r} : req'[q] = req[q]
  BY AnsweredRequest DEF Mark
<1>2. TypeOK'
  <2>1. Configurations' = Configurations
    BY DEF Mark, Configurations
  <2> QED
    BY <1>1, <2>1, Types DEF IInv, TypeOK, RequestType, RequestSteps, RequestOps, Mark
<1>3. ReadingsOK'
  BY <1>1 DEF IInv, ReadingsOK, Mark, Ended
<1>4. CountOK'
  BY <1>1, CountFrame DEF IInv, TypeOK, Mark
<1>5. MarkOK'
  <2>1. r \in Marking /\ Marking' = Marking \ {r} /\ UNCHANGED <<config, cron>>
    BY <1>1 DEF Marking, Mark
  <2>2. CASE torn \/ Several
    <3>1. torn'
      BY <2>1, <2>2 DEF Mark, Overlaps, Several, Marking
    <3> QED
      BY <3>1 DEF MarkOK
  <2>3. CASE ~torn /\ ~Several
    <3>1. cron.step # "unmark" /\ Marking = {r}
      BY <2>1, <2>3 DEF Several
    <3>2. req[r].step = "mark" => Active
      BY <2>3, <3>1 DEF IInv, MarkOK
    <3>3. req[r].step = "unmark" => config = NoConfig
      BY <2>3, <3>1 DEF IInv, MarkOK
    <3>4. recurring' <=> Active'
      BY <2>1, <3>2, <3>3 DEF Mark, Active
    <3> QED
      BY <2>1, <3>1, <3>4 DEF MarkOK
  <2> QED
    BY <2>2, <2>3
<1> QED
  BY <1>2, <1>3, <1>4, <1>5 DEF IInv

LEMMA UpdateConfigKeepsIInv ==
  ASSUME IInv, NEW r \in Requests, UpdateConfig(r)
  PROVE  IInv'
<1> DEFINE c == req[r].new
<1>1. /\ req' \in [Requests -> RequestType] /\ req'[r].step = "idle"
      /\ \A q \in Requests \ {r} : req'[q] = req[q]
  BY AnsweredRequest DEF UpdateConfig
<1>2. c \in Configurations /\ Configurations' = Configurations /\ config \in Configurations
  BY ReqIs DEF UpdateConfig, Configurations
<1>3. /\ config' \in Configurations /\ config'.id = config.id /\ config'.active = config.active
      /\ config'.count = config.count /\ config' = NoConfig <=> config = NoConfig
  <2>1. CASE ~Stored(c)
    BY <1>2, <2>1 DEF UpdateConfig
  <2>2. CASE Stored(c)
    <3>1. config' = [config EXCEPT !.next = c.next, !.interval = c.interval, !.end = c.end]
      BY <2>2 DEF UpdateConfig
    <3>2. /\ config' \in Configurations /\ config'.id = config.id /\ config'.active = config.active
          /\ config'.count = config.count
      BY <1>2, <3>1 DEF Configurations
    <3>3. config # NoConfig /\ config' # NoConfig
      BY <2>2, <3>2 DEF Stored, NoConfig, IInv, TypeOK
    <3> QED
      BY <2>2, <3>2, <3>3
  <2> QED
    BY <2>1, <2>2
<1>4. TypeOK'
  BY <1>1, <1>2, <1>3, Types DEF IInv, UpdateConfig, TypeOK, RequestType, RequestSteps, RequestOps
<1>5. ReadingsOK'
  BY <1>1 DEF UpdateConfig, ReadingsOK, IInv, Ended
<1>6. CountOK'
  BY <1>1, <1>3, CountFrame DEF IInv, TypeOK, UpdateConfig
<1>7. MarkOK'
  BY <1>1, <1>3, MarkFrame DEF IInv, Active, UpdateConfig
<1> QED
  BY <1>4, <1>5, <1>6, <1>7 DEF IInv

LEMMA StopConfigKeepsIInv ==
  ASSUME IInv, NEW r \in Requests, StopConfig(r)
  PROVE  IInv'
<1>1. req[r].step = "delete" /\ req \in [Requests -> RequestType] /\ req[r] \in RequestType
  BY ReqIs DEF StopConfig
<1>2. Configurations' = Configurations
  BY DEF StopConfig, Configurations
<1>3. CASE ~Stored(req[r].seen) /\ Answer(r) /\ UNCHANGED config
  <2>1. /\ req' \in [Requests -> RequestType] /\ req'[r].step = "idle"
        /\ \A q \in Requests \ {r} : req'[q] = req[q]
    BY <1>3, AnsweredRequest
  <2> QED
    BY <1>1, <1>3, <2>1, RequestMoves DEF StopConfig
<1>4. CASE Stored(req[r].seen) /\ config' = NoConfig /\ Go(r, "unmark")
  <2>1. /\ req' \in [Requests -> RequestType] /\ req'[r].step = "unmark"
        /\ \A q \in Requests \ {r} : req'[q] = req[q]
    BY <1>1, <1>4 DEF Go, RequestType, RequestSteps
  <2>2. TypeOK'
    BY <1>2, <1>4, <2>1, NoConfigType, Types DEF IInv, StopConfig, TypeOK, RequestType,
       RequestSteps, RequestOps
  <2>3. ReadingsOK'
    BY <2>1 DEF IInv, ReadingsOK, StopConfig, Ended
  <2>4. CountOK'
    BY <1>4 DEF CountOK
  <2>5. MarkOK'
    <3>1. Marking' = Marking \union {r} /\ r \notin Marking
      BY <1>1, <2>1 DEF Marking
    <3>2. cron' = cron /\ torn' = torn
      BY DEF StopConfig
    <3>3. CASE Marking # {} \/ cron.step = "unmark"
      <4>1. Several'
        BY <3>1, <3>2, <3>3 DEF Several
      <4> QED
        BY <4>1 DEF MarkOK
    <3>4. CASE Marking = {} /\ cron.step # "unmark"
      BY <1>4, <2>1, <3>1, <3>2, <3>4 DEF MarkOK
    <3> QED
      BY <3>3, <3>4
  <2> QED
    BY <2>2, <2>3, <2>4, <2>5 DEF IInv
<1> QED
  BY <1>3, <1>4 DEF StopConfig

LEMMA CrashKeepsIInv == ASSUME IInv, Crash PROVE IInv'
<1>1. /\ req' = [r \in Requests |-> Idle] /\ cron' = Sleeping
      /\ UNCHANGED <<today, recurring, config, created, made, born>>
  BY DEF Crash, Sleep
<1>2. cron'.step = "idle" /\ \A r \in Requests : req'[r].step = "idle"
  BY <1>1 DEF Sleeping, Idle
<1>3. TypeOK'
  <2>1. Configurations' = Configurations
    BY <1>1 DEF Configurations
  <2>2. cron' \in CronType /\ req' \in [Requests -> RequestType]
    BY <1>1, RestType DEF IInv, TypeOK
  <2>3. raced' \in BOOLEAN /\ torn' \in BOOLEAN
    BY DEF Crash, IInv, TypeOK
  <2> QED
    BY <1>1, <2>1, <2>2, <2>3, Types DEF IInv, TypeOK, RequestType, RequestSteps, RequestOps,
       CronType, CronSteps
<1>4. ReadingsOK'
  BY <1>2 DEF ReadingsOK
<1>5. CountOK'
  <2> SUFFICES ASSUME ~raced', config' # NoConfig PROVE CountOK'
    BY DEF CountOK
  <2>1. ~raced /\ ~CronAdvancing(config) /\ Advancing(config) = {}
    BY DEF Crash
  <2>2. config.count = born + 1
    BY <1>1, <2>1 DEF IInv, CountOK
  <2>3. ~(CronAdvancing(config))' /\ (Advancing(config))' = {}
    BY <1>2 DEF CronAdvancing, Advancing
  <2> QED
    BY <1>1, <2>2, <2>3 DEF CountOK
<1>6. MarkOK'
  <2>1. Marking' = {}
    BY <1>2 DEF Marking
  <2>2. CASE torn \/ cron.step = "unmark" \/ Marking # {}
    <3>1. torn'
      BY <2>2 DEF Crash, Marking
    <3> QED
      BY <3>1 DEF MarkOK
  <2>3. CASE ~torn /\ cron.step # "unmark" /\ Marking = {}
    <3>1. recurring <=> Active
      BY <2>3 DEF IInv, MarkOK, Several
    <3> QED
      BY <1>1, <1>2, <2>1, <3>1 DEF MarkOK, Active
  <2> QED
    BY <2>2, <2>3
<1> QED
  BY <1>3, <1>4, <1>5, <1>6 DEF IInv

LEMMA NextKeepsIInv == IInv /\ [Next]_vars => IInv'
<1> SUFFICES ASSUME IInv, [Next]_vars PROVE IInv'
  OBVIOUS
<1>1. CASE CronStep
  BY <1>1, CronCheckKeepsIInv, CronDeactivateKeepsIInv, CronUnmarkKeepsIInv, CronFindKeepsIInv,
     CronNumberKeepsIInv, CronInsertKeepsIInv, CronConflictKeepsIInv, CronAdvanceKeepsIInv
     DEF CronStep
<1>2. CASE Midnight \/ OtherTask \/ Crash
  BY <1>2, MidnightKeepsIInv, OtherTaskKeepsIInv, CrashKeepsIInv
<1>3. ASSUME NEW r \in Requests, Ask(r) PROVE IInv'
  BY <1>3, AskKeepsIInv, AskStopKeepsIInv DEF Ask
<1>4. ASSUME NEW r \in Requests, Step(r) PROVE IInv'
  BY <1>4, CompleteCreateKeepsIInv, CompleteAdvanceKeepsIInv, AddConfigKeepsIInv, MarkKeepsIInv,
     UpdateConfigKeepsIInv, StopConfigKeepsIInv DEF Step
<1>5. CASE UNCHANGED vars
  <2>1. UNCHANGED <<today, recurring, config, created, made, cron, req, born, raced, torn>>
    BY <1>5 DEF vars
  <2>2. TypeOK' /\ ReadingsOK'
    BY <2>1 DEF IInv, TypeOK, Configurations, ReadingsOK
  <2>3. CountOK'
    BY <2>1, CountFrame DEF IInv, TypeOK
  <2>4. MarkOK'
    BY <2>1, MarkFrame DEF IInv, Active
  <2> QED
    BY <2>2, <2>3, <2>4 DEF IInv
<1> QED
  BY <1>1, <1>2, <1>3, <1>4, <1>5 DEF Next

-----------------------------------------------------------------------------
(* Every variable keeps its type, and every reading is of a configuration  *)
(* that has been created.                                                  *)
THEOREM TypeCorrect == Spec => []TypeOK
<1>1. IInv => TypeOK
  BY DEF IInv
<1> QED
  BY <1>1, InitIInv, NextKeepsIInv, PTL DEF Spec

(* currentOccurrence follows the instances generated, through any overlap  *)
(* of the cron job, completions, changes and crashes that does not race.   *)
THEOREM CountCorrect == Spec => []CountTracksInstances
<1>1. IInv => CountTracksInstances
  <2> SUFFICES ASSUME IInv, ~raced, config # NoConfig
               PROVE  config.count + Cardinality(Advancing(config))
                        + (IF CronAdvancing(config) THEN 1 ELSE 0) = born + 1
    BY DEF CountTracksInstances
  <2>1. config.count \in Nat /\ born \in Nat
    BY DEF IInv, TypeOK, Configurations
  <2>2. CASE Advancing(config) = {}
    <3>1. Cardinality(Advancing(config)) = 0
      BY <2>2, FS_EmptySet
    <3> QED
      BY <2>1, <2>2, <3>1 DEF IInv, CountOK
  <2>3. ASSUME NEW r \in Advancing(config)
        PROVE  config.count + Cardinality(Advancing(config))
                 + (IF CronAdvancing(config) THEN 1 ELSE 0) = born + 1
    <3>1. Advancing(config) = {r} /\ ~CronAdvancing(config) /\ config.count = born
      BY DEF IInv, CountOK
    <3>2. Cardinality(Advancing(config)) = 1
      BY <3>1, FS_Singleton
    <3> QED
      BY <2>1, <3>1, <3>2
  <2> QED
    BY <2>2, <2>3
<1> QED
  BY <1>1, InitIInv, NextKeepsIInv, PTL DEF Spec

(* When nothing is in progress the task is marked recurring exactly if it  *)
(* has an active configuration, unless two of the writes that pair them    *)
(* overlapped or a crash fell between.                                     *)
THEOREM MarkCorrect == Spec => []MarkMatchesConfig
<1>1. IInv => MarkMatchesConfig
  <2> SUFFICES ASSUME IInv, Quiet, ~torn PROVE recurring <=> Active
    BY DEF MarkMatchesConfig, Active
  <2>1. Marking = {} /\ cron.step = "idle"
    BY DEF Quiet, Marking
  <2> QED
    BY <2>1 DEF IInv, MarkOK, Several
<1> QED
  BY <1>1, InitIInv, NextKeepsIInv, PTL DEF Spec

-----------------------------------------------------------------------------

\* Only CronInsert and CompleteCreate generate an instance.
LEMMA CronGenerates ==
  ASSUME IInv, [Next]_vars, cron.step = "insert", cron'.step = "advance"
  PROVE  CronInsert
<1>1. req \in [Requests -> RequestType] /\ cron \in CronType
  BY Types DEF IInv
<1>2. CASE CronStep
  <2>1. /\ ~CronCheck /\ ~CronDeactivate /\ ~CronUnmark
        /\ ~CronFind /\ ~CronNumber /\ ~CronAdvance
    BY Zenon DEF CronCheck, CronDeactivate, CronUnmark, CronFind, CronNumber, CronAdvance
  <2>2. ~CronConflict
    <3> SUFFICES ASSUME CronConflict PROVE cron'.step \in {"number", "idle"}
      OBVIOUS
    <3>1. \/ cron' = [cron EXCEPT !.step = "number", !.tries = @ - 1]
          \/ cron' = Sleeping
      BY DEF CronConflict, Sleep
    <3>2. CASE cron' = [cron EXCEPT !.step = "number", !.tries = @ - 1]
      BY <1>1, <3>2, Zenon DEF CronType
    <3>3. CASE cron' = Sleeping
      BY <3>3 DEF Sleeping
    <3> QED
      BY <3>1, <3>2, <3>3
  <2> QED
    BY <1>2, <2>1, <2>2 DEF CronStep
<1>3. CASE Midnight \/ OtherTask \/ Crash
  BY <1>1, <1>3 DEF Midnight, OtherTask, Crash, Sleep, Sleeping, CronType
<1>4. ASSUME NEW r \in Requests, Ask(r) \/ Step(r) PROVE cron'.step = "insert"
  BY <1>1, <1>4 DEF Ask, Step, AskComplete, AskAdd, AskUpdate, AskStop, Begin, CompleteCreate,
     CompleteAdvance, AddConfig, Mark, UpdateConfig, StopConfig, CronType
<1>5. CASE UNCHANGED vars
  BY <1>5 DEF vars
<1> QED
  BY <1>2, <1>3, <1>4, <1>5 DEF Next

LEMMA RequestGenerates ==
  ASSUME IInv, [Next]_vars, NEW r \in Requests, req[r].step = "create", req'[r].step = "advance"
  PROVE  CompleteCreate(r)
<1>1. req \in [Requests -> RequestType]
  BY Types DEF IInv
<1>2. CASE CronStep \/ Midnight \/ OtherTask \/ Crash
  BY <1>2 DEF CronStep, CronCheck, CronDeactivate, CronUnmark, CronFind, CronNumber,
     CronInsert, CronConflict, CronAdvance, Midnight, OtherTask, Crash, Idle
<1>3. ASSUME NEW q \in Requests, Ask(q) PROVE FALSE
  BY <1>1, <1>3 DEF Ask, AskComplete, AskAdd, AskUpdate, AskStop, Begin
<1>4. ASSUME NEW q \in Requests, Step(q) PROVE CompleteCreate(r)
  <2>1. CASE q = r
    BY <1>4, <2>1 DEF Step, CompleteCreate, CompleteAdvance, AddConfig, Mark, UpdateConfig,
       StopConfig
  <2>2. CASE q # r
    BY <1>1, <1>4, <2>2 DEF Step, CompleteCreate, CompleteAdvance, AddConfig, Mark, UpdateConfig,
       StopConfig, Go, Answer
  <2> QED
    BY <2>1, <2>2
<1>5. CASE UNCHANGED vars
  BY <1>5 DEF vars
<1> QED
  BY <1>2, <1>3, <1>4, <1>5 DEF Next

\* What is generated is from a configuration that had not ended when it was
\* read and, without a race, is as it was then.
LEMMA GeneratedFrom ==
  ASSUME IInv, [Next]_vars, NEW c \in Generating, ~raced', Stored(c)
  PROVE  /\ ~Ended(c) /\ c \in Configurations /\ ~raced /\ config.count = c.count
         /\ Advancing(config) = {} /\ ~CronAdvancing(config) /\ born' = born + 1
<1>1. req \in [Requests -> RequestType] /\ cron \in CronType
  BY Types DEF IInv
<1>2. config.id = c.id /\ config # NoConfig
  BY DEF Stored
<1>3. Advancing(c) = Advancing(config) /\ CronAdvancing(c) = CronAdvancing(config)
  BY <1>2 DEF Advancing, CronAdvancing
<1>4. CASE cron.step = "insert" /\ cron'.step = "advance" /\ c = cron.seen
  <2>1. CronInsert
    BY <1>4, CronGenerates
  <2>2. Generate(c.next, c, Advancing(c) # {})
    BY <1>4, <2>1 DEF CronInsert
  <2>3. ~raced /\ Advancing(c) = {} /\ config.count = c.count /\ born' = born + 1
    BY <2>2 DEF Generate
  <2>4. ~CronAdvancing(c)
    BY <1>4 DEF CronAdvancing
  <2>5. ~Ended(c) /\ c \in Configurations
    BY <1>1, <1>4 DEF IInv, ReadingsOK, CronType
  <2> QED
    BY <1>3, <2>3, <2>4, <2>5
<1>5. ASSUME NEW r \in Requests, req[r].step = "create", req'[r].step = "advance", c = req[r].seen
      PROVE  /\ ~Ended(c) /\ c \in Configurations /\ ~raced /\ config.count = c.count
             /\ Advancing(config) = {} /\ ~CronAdvancing(config) /\ born' = born + 1
  <2>1. CompleteCreate(r)
    BY <1>5, RequestGenerates
  <2>2. Generate(nextOccurrence(Due, c), c, CronAdvancing(c) \/ Advancing(c) # {})
    BY <1>5, <2>1, Zenon DEF CompleteCreate
  <2>3. /\ ~raced /\ Advancing(c) = {} /\ ~CronAdvancing(c)
        /\ config.count = c.count /\ born' = born + 1
    BY <2>2 DEF Generate
  <2>4. ~Ended(c) /\ c \in Configurations
    BY <1>1, <1>5 DEF IInv, ReadingsOK, RequestType
  <2> QED
    BY <1>3, <2>3, <2>4
<1> QED
  BY <1>4, <1>5 DEF Generating

(* The task and its instances are never more than the occurrences asked    *)
(* for, and the cron job makes no second instance for a date, whatever     *)
(* overlaps, up to the races and late completions the history records.     *)
THEOREM AsDue == Spec => InstancesAsDue
<1>1. IInv /\ [Next]_vars
      => [\A c \in Generating :
            born' > born /\ ~raced' /\ Stored(c) /\ c.end.type = "AFTER" /\ c.end.n > 0
            => born' < c.end.n]_vars
  <2> SUFFICES ASSUME IInv, [Next]_vars, NEW c \in Generating, ~raced', Stored(c),
                      c.end.type = "AFTER", c.end.n > 0
               PROVE  born' < c.end.n
    OBVIOUS
  <2>1. /\ ~Ended(c) /\ c \in Configurations /\ ~raced /\ config.count = c.count
        /\ Advancing(config) = {} /\ ~CronAdvancing(config) /\ born' = born + 1
    BY GeneratedFrom
  <2>2. config.count = born + 1 /\ born \in Nat
    BY <2>1 DEF IInv, CountOK, Stored, TypeOK
  <2>3. c.count < c.end.n
    BY <2>1, <2>2, EndType DEF Ended
  <2> QED
    BY <2>1, <2>2, <2>3
<1>2. IInv /\ [Next]_vars
      => [cron.step = "insert" /\ cron'.step = "advance" /\ made[cron.seen.next] > 0
            => cron.late]_vars
  BY DEF IInv, ReadingsOK
<1>3. Spec => OccurrencesBounded
  BY <1>1, InitIInv, NextKeepsIInv, PTL DEF Spec, OccurrencesBounded
<1>4. Spec => CronNeverDoubles
  BY <1>2, InitIInv, NextKeepsIInv, PTL DEF Spec, CronNeverDoubles
<1> QED
  BY <1>3, <1>4 DEF InstancesAsDue

-----------------------------------------------------------------------------
\* The days of a year.  Before: the days before a month of it; Start: those
\* before the year.
Before(y, m) == Until[m] + (IF m > 1 /\ Leap(y) THEN 1 ELSE 0)
Start(y) == 365 * (y - FirstYear) + Leaps(y) - Leaps(FirstYear)
YearDays(y) == IF Leap(y) THEN 366 ELSE 365

LEMMA FirstYearIs == FirstYear \in Int
BY DEF FirstYear

LEMMA NumberIs == \A y, m, d : Number(y, m, d) = Start(y) + Until[m] + (IF m > 1 /\ Leap(y) THEN 1 ELSE 0) + d
BY DEF Number, Start

LEMMA UntilIs ==
  /\ Until[0] = 0 /\ Until[1] = 31 /\ Until[2] = 59 /\ Until[3] = 90 /\ Until[4] = 120 /\ Until[5] = 151
  /\ Until[6] = 181 /\ Until[7] = 212 /\ Until[8] = 243 /\ Until[9] = 273 /\ Until[10] = 304 /\ Until[11] = 334
BY DEF Until

LEMMA MonthDaysAre ==
  /\ MonthDays[0] = 31 /\ MonthDays[1] = 28 /\ MonthDays[2] = 31 /\ MonthDays[3] = 30
  /\ MonthDays[4] = 31 /\ MonthDays[5] = 30 /\ MonthDays[6] = 31 /\ MonthDays[7] = 31
  /\ MonthDays[8] = 30 /\ MonthDays[9] = 31 /\ MonthDays[10] = 30 /\ MonthDays[11] = 31
BY DEF MonthDays

\* A month begins where the one before it ends, and December ends the year.
LEMMA Months12 ==
  ASSUME NEW y \in Int
  PROVE  /\ Before(y, 0) = 0 /\ Before(y, 11) + 31 = YearDays(y)
         /\ \A m \in 0 .. 11 : Before(y, m) \in Nat /\ getDaysInMonth(y, m) \in 28 .. 31
         /\ \A m \in 0 .. 10 : Before(y, m + 1) = Before(y, m) + getDaysInMonth(y, m)
         /\ getDaysInMonth(y, 11) = 31
<1>1. PICK b \in BOOLEAN : b = Leap(y)
  BY DEF Leap
<1>2. \A m \in 0 .. 11 : /\ Before(y, m) = Until[m] + (IF m > 1 /\ b THEN 1 ELSE 0)
                         /\ getDaysInMonth(y, m) = MonthDays[m] + (IF m = 1 /\ b THEN 1 ELSE 0)
  BY <1>1 DEF Before, getDaysInMonth
<1>3. YearDays(y) = IF b THEN 366 ELSE 365
  BY <1>1 DEF YearDays
<1>4. 0 .. 11 = {0, 1, 2, 3, 4, 5, 6, 7, 8, 9, 10, 11} /\ 0 .. 10 = {0, 1, 2, 3, 4, 5, 6, 7, 8, 9, 10}
  OBVIOUS
<1> QED
  BY <1>2, <1>3, <1>4, UntilIs, MonthDaysAre

LEMMA MonthsApart ==
  ASSUME NEW y \in Int, NEW m \in 0 .. 11, NEW k \in 0 .. 11, m < k
  PROVE  Before(y, k) >= Before(y, m) + getDaysInMonth(y, m)
<1>1. PICK b \in BOOLEAN : b = Leap(y)
  BY DEF Leap
<1>2. \A n \in 0 .. 11 : /\ Before(y, n) = Until[n] + (IF n > 1 /\ b THEN 1 ELSE 0)
                         /\ getDaysInMonth(y, n) = MonthDays[n] + (IF n = 1 /\ b THEN 1 ELSE 0)
  BY <1>1 DEF Before, getDaysInMonth
<1>3. 0 .. 11 = {0, 1, 2, 3, 4, 5, 6, 7, 8, 9, 10, 11}
  OBVIOUS
<1> QED
  BY <1>2, <1>3, UntilIs, MonthDaysAre

\* Every day of a year is in a month.
LEMMA MonthOfDay ==
  ASSUME NEW y \in Int, NEW d \in 1 .. YearDays(y)
  PROVE  \E m \in 0 .. 11 : Before(y, m) + 1 <= d /\ d <= Before(y, m) + getDaysInMonth(y, m)
<1>1. /\ Before(y, 0) = 0 /\ Before(y, 11) + 31 = YearDays(y)
      /\ \A m \in 0 .. 11 : Before(y, m) \in Nat
      /\ \A m \in 0 .. 10 : Before(y, m + 1) = Before(y, m) + getDaysInMonth(y, m)
      /\ getDaysInMonth(y, 11) = 31
  BY Months12
<1>2. d \in Int /\ YearDays(y) \in Int /\ d >= 1 /\ d <= YearDays(y)
  BY DEF YearDays
<1>3. CASE d > Before(y, 11)
  BY <1>1, <1>2, <1>3
<1>4. CASE ~(d > Before(y, 11))
  <2>1. \E m \in 0 .. 10 : d > Before(y, m) /\ ~(d > Before(y, m + 1))
    <3>1. /\ 0 \in 0 .. 11 /\ 1 \in 0 .. 11 /\ 2 \in 0 .. 11 /\ 3 \in 0 .. 11 /\ 4 \in 0 .. 11 /\ 5 \in 0 .. 11
          /\ 6 \in 0 .. 11 /\ 7 \in 0 .. 11 /\ 8 \in 0 .. 11 /\ 9 \in 0 .. 11 /\ 10 \in 0 .. 11 /\ 11 \in 0 .. 11
      OBVIOUS
    <3>2. SUFFICES ASSUME \A m \in 0 .. 10 : d > Before(y, m) => d > Before(y, m + 1) PROVE FALSE
      OBVIOUS
    <3>3. d > Before(y, 0)
      BY <1>1, <1>2
    <3>4. d > Before(y, 1) /\ d > Before(y, 2) /\ d > Before(y, 3)
      BY <3>2, <3>3
    <3>5. d > Before(y, 4) /\ d > Before(y, 5) /\ d > Before(y, 6) /\ d > Before(y, 7)
      BY <3>2, <3>4
    <3>6. d > Before(y, 8) /\ d > Before(y, 9) /\ d > Before(y, 10) /\ d > Before(y, 11)
      BY <3>2, <3>5
    <3> QED
      BY <1>4, <3>6
  <2>2. PICK m \in 0 .. 10 : d > Before(y, m) /\ ~(d > Before(y, m + 1))
    BY <2>1
  <2> QED
    BY <1>1, <1>2, <2>2
<1> QED
  BY <1>3, <1>4

-----------------------------------------------------------------------------
\* The years.
LEMMA LeapsIs == ASSUME NEW y \in Int PROVE Leaps(y) = (y - 1) \div 4 - (y - 1) \div 100 + (y - 1) \div 400
BY DEF Leaps

\* A year adds a leap day if it is a leap year.
LEMMA NextLeaps == ASSUME NEW y \in Int PROVE Leaps(y + 1) = Leaps(y) + (IF Leap(y) THEN 1 ELSE 0)
<1>1. /\ y \div 4 = (y - 1) \div 4 + (IF y % 4 = 0 THEN 1 ELSE 0)
      /\ y \div 100 = (y - 1) \div 100 + (IF y % 100 = 0 THEN 1 ELSE 0)
      /\ y \div 400 = (y - 1) \div 400 + (IF y % 400 = 0 THEN 1 ELSE 0)
  OBVIOUS
<1>2. (y % 400 = 0 => y % 100 = 0) /\ (y % 100 = 0 => y % 4 = 0)
  OBVIOUS
<1>3. Leaps(y + 1) = y \div 4 - y \div 100 + y \div 400
  BY DEF Leaps
<1>4. PICK a, b, c \in Int : a = (y - 1) \div 4 /\ b = (y - 1) \div 100 /\ c = (y - 1) \div 400
  OBVIOUS
<1>5. Leaps(y) = a - b + c
  BY <1>4, LeapsIs
<1>6. CASE y % 400 = 0
  <2>1. Leaps(y + 1) = (a + 1) - (b + 1) + (c + 1) /\ Leap(y)
    BY <1>1, <1>2, <1>3, <1>4, <1>6 DEF Leap
  <2> QED
    BY <1>5, <2>1
<1>7. CASE y % 100 = 0 /\ y % 400 # 0
  <2>1. Leaps(y + 1) = (a + 1) - (b + 1) + c /\ ~Leap(y)
    BY <1>1, <1>2, <1>3, <1>4, <1>7 DEF Leap
  <2> QED
    BY <1>5, <2>1
<1>8. CASE y % 4 = 0 /\ y % 100 # 0
  <2>1. Leaps(y + 1) = (a + 1) - b + c /\ Leap(y)
    BY <1>1, <1>2, <1>3, <1>4, <1>8 DEF Leap
  <2> QED
    BY <1>5, <2>1
<1>9. CASE y % 4 # 0
  <2>1. Leaps(y + 1) = a - b + c /\ ~Leap(y)
    BY <1>1, <1>2, <1>3, <1>4, <1>9 DEF Leap
  <2> QED
    BY <1>5, <2>1
<1> QED
  BY <1>6, <1>7, <1>8, <1>9

LEMMA LeapsGrow == ASSUME NEW y \in Int, NEW z \in Int, y <= z PROVE 0 <= Leaps(z) - Leaps(y) /\ Leaps(z) - Leaps(y) <= z - y
<1>1. PICK a, b \in Int : a = y - 1 /\ b = z - 1 /\ a <= b
  OBVIOUS
<1>2. PICK q \in Int, r \in 0 .. 99 : a = 100 * q + r
  <2>1. a \div 100 \in Int /\ a % 100 \in 0 .. 99 /\ a = 100 * (a \div 100) + (a % 100)
    OBVIOUS
  <2> QED
    BY <2>1
<1>3. PICK p \in Int, s \in 0 .. 99 : b = 100 * p + s
  <2>1. b \div 100 \in Int /\ b % 100 \in 0 .. 99 /\ b = 100 * (b \div 100) + (b % 100)
    OBVIOUS
  <2> QED
    BY <2>1
<1>4. a \div 100 = q /\ a \div 4 = 25 * q + r \div 4 /\ a \div 400 = q \div 4
  BY <1>2
<1>5. b \div 100 = p /\ b \div 4 = 25 * p + s \div 4 /\ b \div 400 = p \div 4
  BY <1>3
<1>6. Leaps(y) = 24 * q + r \div 4 + q \div 4 /\ Leaps(z) = 24 * p + s \div 4 + p \div 4
  BY <1>1, <1>4, <1>5 DEF Leaps
<1>7. q < p \/ (q = p /\ r <= s)
  <2>1. 100 * q + r <= 100 * p + s
    BY <1>1, <1>2, <1>3
  <2>2. r \in Int /\ s \in Int /\ 0 <= r /\ r <= 99 /\ 0 <= s /\ s <= 99
    OBVIOUS
  <2> QED
    BY <2>1, <2>2
<1>8. p \div 4 - q \div 4 >= 0 /\ p \div 4 - q \div 4 <= p - q
  BY <1>7
<1>9. r \div 4 \in 0 .. 24 /\ s \div 4 \in 0 .. 24 /\ (r <= s => r \div 4 <= s \div 4 /\ s \div 4 - r \div 4 <= s - r)
  OBVIOUS
<1>10. PICK x, v \in 0 .. 24, i, j \in Int : x = r \div 4 /\ v = s \div 4 /\ i = q \div 4 /\ j = p \div 4
  BY <1>9
<1>11. Leaps(y) = 24 * q + x + i /\ Leaps(z) = 24 * p + v + j
  BY <1>6, <1>10
<1>12. CASE q < p
  <2>1. 0 <= j - i /\ j - i <= p - q
    BY <1>8, <1>10
  <2>2. z - y = 100 * p + s - (100 * q + r) /\ 1 <= p - q
    BY <1>1, <1>2, <1>3, <1>12
  <2>3. r \in Int /\ s \in Int /\ x \in Int /\ v \in Int /\ 0 <= x /\ x <= 24 /\ 0 <= v /\ v <= 24
        /\ 0 <= r /\ r <= 99 /\ 0 <= s /\ s <= 99
    OBVIOUS
  <2>4. PICK k, l \in Int : k = p - q /\ l = j - i
    OBVIOUS
  <2>5. Leaps(z) - Leaps(y) = 24 * k + v - x + l
    BY <1>11, <2>3, <2>4
  <2>6. z - y = 100 * k + s - r
    BY <2>2, <2>3, <2>4
  <2>7. 1 <= k /\ 0 <= l /\ l <= k
    BY <2>1, <2>2, <2>4
  <2>8. v <= s /\ r - x <= 75
    BY <1>10, <2>3
  <2> QED
    BY <2>3, <2>5, <2>6, <2>7, <2>8
<1>13. CASE q = p /\ r <= s
  <2>1. i = j /\ x <= v /\ v - x <= s - r
    BY <1>9, <1>10, <1>13
  <2>2. z - y = s - r
    BY <1>1, <1>2, <1>3, <1>13
  <2> QED
    BY <1>11, <1>13, <2>1, <2>2
<1> QED
  BY <1>7, <1>12, <1>13

LEMMA YearsFollow ==
  ASSUME NEW y \in Int
  PROVE  Start(y) \in Int /\ Start(y + 1) = Start(y) + YearDays(y)
<1>1. Leaps(y) \in Int /\ Leaps(FirstYear) \in Int
  BY FirstYearIs DEF Leaps
<1> QED
  BY FirstYearIs, <1>1, NextLeaps DEF Start, YearDays

LEMMA YearsApart ==
  ASSUME NEW y \in Int, NEW z \in Int, y < z
  PROVE  Start(z) >= Start(y) + YearDays(y)
<1>1. Leaps(y + 1) \in Int /\ Leaps(z) \in Int /\ Leaps(FirstYear) \in Int
  BY FirstYearIs DEF Leaps
<1>2. y + 1 \in Int /\ y + 1 <= z
  OBVIOUS
<1>3. 0 <= Leaps(z) - Leaps(y + 1)
  BY <1>2, LeapsGrow
<1>4. Start(z) \in Int /\ Start(y + 1) \in Int /\ Start(z) >= Start(y + 1)
  BY FirstYearIs, <1>1, <1>2, <1>3 DEF Start
<1>5. Start(y + 1) = Start(y) + YearDays(y)
  BY YearsFollow
<1> QED
  BY <1>4, <1>5

\* What DateOf looks through holds the year.
LEMMA YearInRange ==
  ASSUME NEW n \in Nat \ {0}, NEW y \in Int, y >= FirstYear, Start(y) < n, n <= Start(y) + YearDays(y)
  PROVE  y \in FirstYear + (n - 1) \div 366 .. FirstYear + (n - 1) \div 365
<1>1. Leaps(y) \in Int /\ Leaps(FirstYear) \in Int
  BY FirstYearIs DEF Leaps
<1>2. 0 <= Leaps(y) - Leaps(FirstYear) /\ Leaps(y) - Leaps(FirstYear) <= y - FirstYear
  BY FirstYearIs, LeapsGrow
<1>3. 365 * (y - FirstYear) <= n - 1 /\ n - 1 < 366 * (y - FirstYear) + 366
  <2>1. PICK l \in Int : l = Leaps(y) - Leaps(FirstYear)
    BY FirstYearIs, <1>1
  <2>2. Start(y) = 365 * (y - FirstYear) + l
    BY FirstYearIs, <1>1, <2>1 DEF Start
  <2>3. YearDays(y) \in 365 .. 366
    BY DEF YearDays
  <2> QED
    BY FirstYearIs, <1>2, <2>1, <2>2, <2>3
<1>4. PICK a \in Nat, k \in Int : a = n - 1 /\ k = y - FirstYear
  BY FirstYearIs
<1>5. 365 * k <= a /\ a < 366 * k + 366
  BY <1>3, <1>4
<1>6. a \div 365 \in Int /\ a < 365 * (a \div 365) + 365
  OBVIOUS
<1>7. a \div 366 \in Int /\ 366 * (a \div 366) <= a
  OBVIOUS
<1>8. k <= a \div 365 /\ a \div 366 <= k
  BY <1>5, <1>6, <1>7
<1>9. FirstYear + a \div 366 <= y /\ y <= FirstYear + a \div 365
  BY FirstYearIs, <1>4, <1>6, <1>7, <1>8
<1> QED
  BY <1>4, <1>6, <1>7, <1>9

-----------------------------------------------------------------------------
\* The date of a day.
Dates12 == [y : Int, m : 0 .. 11, d : 1 .. 31]

LEMMA MonthFacts ==
  \A y \in Int : \A m \in 0 .. 11 :
    Before(y, m) \in Nat /\ getDaysInMonth(y, m) \in Int /\ 28 <= getDaysInMonth(y, m) /\ getDaysInMonth(y, m) <= 31
<1> SUFFICES ASSUME NEW y \in Int, NEW m \in 0 .. 11
             PROVE  /\ Before(y, m) \in Nat /\ getDaysInMonth(y, m) \in Int
                    /\ 28 <= getDaysInMonth(y, m) /\ getDaysInMonth(y, m) <= 31
  OBVIOUS
<1>1. Before(y, m) \in Nat /\ getDaysInMonth(y, m) \in 28 .. 31
  BY Months12
<1> QED
  BY <1>1

LEMMA YearFacts ==
  \A y \in Int : /\ Start(y) \in Int /\ YearDays(y) \in Int /\ 365 <= YearDays(y) /\ YearDays(y) <= 366
                /\ Start(y + 1) = Start(y) + YearDays(y)
<1> SUFFICES ASSUME NEW y \in Int
             PROVE  /\ Start(y) \in Int /\ YearDays(y) \in Int /\ 365 <= YearDays(y) /\ YearDays(y) <= 366
                    /\ Start(y + 1) = Start(y) + YearDays(y)
  OBVIOUS
<1>1. YearDays(y) \in Int /\ 365 <= YearDays(y) /\ YearDays(y) <= 366
  BY DEF YearDays
<1> QED
  BY <1>1, YearsFollow

LEMMA YearEnds ==
  \A y \in Int : Before(y, 0) = 0 /\ Before(y, 11) = YearDays(y) - 31 /\ getDaysInMonth(y, 11) = 31
<1> SUFFICES ASSUME NEW y \in Int
             PROVE  Before(y, 0) = 0 /\ Before(y, 11) = YearDays(y) - 31 /\ getDaysInMonth(y, 11) = 31
  OBVIOUS
<1>1. Before(y, 0) = 0 /\ Before(y, 11) + 31 = YearDays(y) /\ getDaysInMonth(y, 11) = 31
  BY Months12
<1>2. Before(y, 11) \in Nat
  BY MonthFacts
<1> QED
  BY <1>1, <1>2

LEMMA NumberOf ==
  \A y \in Int : \A m \in 0 .. 11 : \A d \in Int :
    Number(y, m, d) = Start(y) + Before(y, m) + d /\ Number(y, m, d) \in Int
<1> SUFFICES ASSUME NEW y \in Int, NEW m \in 0 .. 11, NEW d \in Int
             PROVE  Number(y, m, d) = Start(y) + Before(y, m) + d /\ Number(y, m, d) \in Int
  OBVIOUS
<1>1. Before(y, m) \in Nat /\ Start(y) \in Int
  BY MonthFacts, YearFacts
<1>2. PICK b \in {0, 1} : b = IF m > 1 /\ Leap(y) THEN 1 ELSE 0
  OBVIOUS
<1>3. Until[m] \in Int
  BY UntilIs, 0 .. 11 = {0, 1, 2, 3, 4, 5, 6, 7, 8, 9, 10, 11}
<1>4. Before(y, m) = Until[m] + b
  BY <1>2 DEF Before
<1>5. Number(y, m, d) = Start(y) + Until[m] + b + d
  BY <1>2, NumberIs
<1> QED
  BY <1>1, <1>2, <1>3, <1>4, <1>5

LEMMA MonthInYear ==
  ASSUME NEW y \in Int, NEW m \in 0 .. 11
  PROVE  Before(y, m) + getDaysInMonth(y, m) <= YearDays(y)
<1>1. /\ Before(y, m) \in Nat /\ getDaysInMonth(y, m) \in Int
      /\ Before(y, 11) = YearDays(y) - 31 /\ getDaysInMonth(y, 11) = 31 /\ YearDays(y) \in Int
  <2>1. Before(y, m) \in Nat /\ getDaysInMonth(y, m) \in Int
    BY MonthFacts
  <2> QED
    BY <2>1, YearEnds, YearFacts
<1>2. CASE m = 11
  BY <1>1, <1>2
<1>3. CASE m < 11
  <2>1. Before(y, 11) >= Before(y, m) + getDaysInMonth(y, m)
    BY <1>3, MonthsApart
  <2> QED
    BY <1>1, <2>1
<1> QED
  BY <1>2, <1>3

\* A day lies in one month of one year: DateOf finds it.
LEMMA DateOfNumber ==
  ASSUME NEW y \in Int, y >= FirstYear, NEW m \in 0 .. 11, NEW d \in 1 .. getDaysInMonth(y, m)
  PROVE  DateOf(Number(y, m, d)) = [y |-> y, m |-> m, d |-> d] /\ Number(y, m, d) \in Nat \ {0}
<1>1. PICK n : n = Number(y, m, d)
  OBVIOUS
<1>2. d \in Nat /\ 1 <= d /\ d <= getDaysInMonth(y, m) /\ getDaysInMonth(y, m) \in Int
  <2>1. getDaysInMonth(y, m) \in Int
    BY MonthFacts
  <2> QED
    BY <2>1
<1>3. n = Start(y) + Before(y, m) + d
  <2>1. d \in Int
    BY <1>2
  <2>2. Number(y, m, d) = Start(y) + Before(y, m) + d
    BY <2>1, NumberOf
  <2> QED
    BY <1>1, <2>2, Zenon
<1>4. /\ Start(y) \in Int /\ Before(y, m) \in Nat
      /\ Before(y, 0) = 0 /\ Before(y, 11) = YearDays(y) - 31 /\ getDaysInMonth(y, 11) = 31
      /\ YearDays(y) \in Int /\ 365 <= YearDays(y) /\ YearDays(y) <= 366
  <2>1. Before(y, m) \in Nat
    BY MonthFacts
  <2>2. Start(y) \in Int /\ YearDays(y) \in Int /\ 365 <= YearDays(y) /\ YearDays(y) <= 366
    BY YearFacts
  <2> QED
    BY <2>1, <2>2, YearEnds
<1>5. 0 <= Start(y)
  <2>1. Start(FirstYear) = 0
    <3>1. Leaps(FirstYear) \in Int
      BY FirstYearIs DEF Leaps
    <3> QED
      BY FirstYearIs, <3>1 DEF Start
  <2>2. CASE y = FirstYear
    BY FirstYearIs, <2>1, <2>2
  <2>3. CASE y # FirstYear
    <3>1. Start(y) >= Start(FirstYear) + YearDays(FirstYear)
      BY FirstYearIs, <2>3, YearsApart
    <3> QED
      BY FirstYearIs, <1>4, <2>1, <3>1, YearFacts
  <2> QED
    BY <2>2, <2>3
<1>6. n \in Nat \ {0}
  BY <1>2, <1>3, <1>4, <1>5
<1>7. Before(y, m) + getDaysInMonth(y, m) <= YearDays(y)
  BY MonthInYear
<1>8. Start(y) < n /\ n <= Start(y) + YearDays(y)
  BY <1>2, <1>3, <1>4, <1>7
<1>9. PICK R : R = FirstYear + (n - 1) \div 366 .. FirstYear + (n - 1) \div 365
  OBVIOUS
<1>10. y \in R /\ R \subseteq Int
  BY <1>6, <1>8, <1>9, YearInRange
<1>11. ASSUME NEW z \in Int
       PROVE  Number(z, 0, 1) = Start(z) + 1 /\ Number(z, 11, 31) = Start(z) + YearDays(z)
  <2>1. /\ Before(z, 0) = 0 /\ Before(z, 11) = YearDays(z) - 31 /\ Start(z) \in Int /\ YearDays(z) \in Int
    BY YearEnds, YearFacts
  <2>2. 0 \in 0 .. 11 /\ 11 \in 0 .. 11 /\ 1 \in Int /\ 31 \in Int
    OBVIOUS
  <2>3. Number(z, 0, 1) = Start(z) + Before(z, 0) + 1 /\ Number(z, 11, 31) = Start(z) + Before(z, 11) + 31
    BY <2>2, NumberOf, Zenon
  <2> QED
    BY <2>1, <2>3
<1>12. y = CHOOSE z \in R : Number(z, 0, 1) <= n /\ n <= Number(z, 11, 31)
  <2>1. Number(y, 0, 1) <= n /\ n <= Number(y, 11, 31)
    BY <1>4, <1>6, <1>8, <1>11
  <2>2. ASSUME NEW z \in R, Number(z, 0, 1) <= n, n <= Number(z, 11, 31) PROVE z = y
    <3>1. z \in Int /\ Start(z) < n /\ n <= Start(z) + YearDays(z) /\ Start(z) \in Int /\ YearDays(z) \in Int
      BY <1>6, <1>10, <1>11, <2>2, YearFacts
    <3>2. ~(z < y)
      <4>1. z < y => Start(y) >= Start(z) + YearDays(z)
        BY <3>1, YearsApart
      <4> QED
        BY <1>4, <1>6, <1>8, <3>1, <4>1
    <3>3. ~(y < z)
      <4>1. y < z => Start(z) >= Start(y) + YearDays(y)
        BY <3>1, YearsApart
      <4> QED
        BY <1>4, <1>6, <1>8, <3>1, <4>1
    <3> QED
      BY <3>1, <3>2, <3>3
  <2> QED
    BY <1>10, <2>1, <2>2
<1>13. \A k \in 0 .. 11 :
         Number(y, k, 1) = Start(y) + Before(y, k) + 1
         /\ Number(y, k, getDaysInMonth(y, k)) = Start(y) + Before(y, k) + getDaysInMonth(y, k)
  <2>1. 1 \in Int /\ \A k \in 0 .. 11 : getDaysInMonth(y, k) \in Int
    BY MonthFacts
  <2> QED
    BY <2>1, NumberOf, Zenon
<1>14. m = CHOOSE k \in 0 .. 11 : Number(y, k, 1) <= n /\ n <= Number(y, k, getDaysInMonth(y, k))
  <2>1. Number(y, m, 1) <= n /\ n <= Number(y, m, getDaysInMonth(y, m))
    BY <1>2, <1>3, <1>4, <1>13
  <2>2. ASSUME NEW k \in 0 .. 11, Number(y, k, 1) <= n, n <= Number(y, k, getDaysInMonth(y, k)) PROVE k = m
    <3>1. Before(y, k) \in Nat /\ getDaysInMonth(y, k) \in Int
      BY MonthFacts
    <3>2. Before(y, k) < Before(y, m) + d /\ Before(y, m) + d <= Before(y, k) + getDaysInMonth(y, k)
      BY <1>2, <1>3, <1>4, <1>13, <2>2, <3>1
    <3>3. ~(k < m)
      <4>1. k < m => Before(y, m) >= Before(y, k) + getDaysInMonth(y, k)
        BY MonthsApart
      <4> QED
        BY <1>2, <1>4, <3>1, <3>2, <4>1
    <3>4. ~(m < k)
      <4>1. m < k => Before(y, k) >= Before(y, m) + getDaysInMonth(y, m)
        BY MonthsApart
      <4> QED
        BY <1>2, <1>4, <3>1, <3>2, <4>1
    <3> QED
      BY <3>3, <3>4
  <2> QED
    BY <2>1, <2>2
<1>15. n - Number(y, m, 0) = d
  <2>1. Number(y, m, 0) = Start(y) + Before(y, m) + 0
    BY 0 \in Int, NumberOf, Zenon
  <2> QED
    BY <1>2, <1>3, <1>4, <2>1
<1>16. DateOf(n) = [y |-> y, m |-> m, d |-> d]
  BY <1>9, <1>12, <1>14, <1>15, Zenon DEF DateOf
<1> QED
  BY <1>1, <1>6, <1>16, Zenon

LEMMA LeastNatural ==
  ASSUME NEW S, S \subseteq Nat, S # {}
  PROVE  \E m \in S : \A n \in S : m <= n
<1> DEFINE R == {ss \in Nat \X Nat : ss[1] < ss[2]}
<1>1. IsWellFoundedOn(R, Nat)
  BY NatLessThanWellFounded, Zenon DEF OpToRel
<1>2. PICK m \in S : \A n \in S : ~(<<n, m>> \in R)
  <2> HIDE DEF R
  <2> QED
    BY <1>1, WFMin
<1> SUFFICES ASSUME NEW n \in S, n < m PROVE FALSE
  OBVIOUS
<1>3. <<n, m>> \in R
  OBVIOUS
<1> QED
  BY <1>2, <1>3

\* Every day, from the first one of 2023, has a date.
LEMMA NumberOfDate ==
  ASSUME NEW n \in Nat \ {0}
  PROVE  \E y \in Int, m \in 0 .. 11 :
           y >= FirstYear /\ \E d \in 1 .. getDaysInMonth(y, m) : n = Number(y, m, d)
<1> DEFINE Bad == {k \in Nat : Start(FirstYear + k) + YearDays(FirstYear + k) >= n}
<1>1. \A y \in Int : Start(y) \in Int /\ YearDays(y) \in Int /\ 365 <= YearDays(y)
                      /\ Start(y + 1) = Start(y) + YearDays(y)
  BY YearFacts
<1>2. Start(FirstYear) = 0
  <2>1. Leaps(FirstYear) \in Int
    BY FirstYearIs DEF Leaps
  <2> QED
    BY FirstYearIs, <2>1 DEF Start
<1>3. Bad # {}
  <2>1. 0 <= Leaps(FirstYear + n) - Leaps(FirstYear)
    BY FirstYearIs, LeapsGrow
  <2>2. Leaps(FirstYear + n) \in Int /\ Leaps(FirstYear) \in Int
    BY FirstYearIs DEF Leaps
  <2>3. Start(FirstYear + n) = 365 * n + Leaps(FirstYear + n) - Leaps(FirstYear)
    BY FirstYearIs, <2>2 DEF Start
  <2>4. FirstYear + n \in Int /\ Start(FirstYear + n) >= n
    BY FirstYearIs, <2>1, <2>2, <2>3
  <2>5. Start(FirstYear + n) + YearDays(FirstYear + n) >= n
    BY FirstYearIs, <1>1, <2>4
  <2> QED
    BY <2>5
<1>4. PICK k \in Bad : \A j \in Bad : k <= j
  <2>1. Bad \subseteq Nat
    OBVIOUS
  <2> HIDE DEF Bad
  <2> QED
    BY <1>3, <2>1, LeastNatural
<1>5. PICK y \in Int : y = FirstYear + k /\ k \in Nat
  BY FirstYearIs
<1>6. Start(y) \in Int /\ YearDays(y) \in Int /\ n <= Start(y) + YearDays(y)
  BY <1>1, <1>5
<1>7. Start(y) < n
  <2>1. CASE k = 0
    BY FirstYearIs, <1>2, <1>5, <2>1
  <2>2. CASE k # 0
    <3>1. k - 1 \in Nat /\ k - 1 \notin Bad
      BY <1>4, <1>5, <2>2
    <3>2. PICK x \in Int : x = FirstYear + (k - 1)
      BY FirstYearIs, <3>1
    <3>3. ~(Start(x) + YearDays(x) >= n)
      BY <3>1, <3>2
    <3>5. y = x + 1
      BY FirstYearIs, <1>5, <3>1, <3>2
    <3>4. Start(y) = Start(x) + YearDays(x) /\ Start(x) \in Int /\ YearDays(x) \in Int
      BY <1>1, <3>2, <3>5
    <3> QED
      BY <3>3, <3>4
  <2> QED
    BY <2>1, <2>2
<1>8. PICK e \in 1 .. YearDays(y) : n = Start(y) + e
  <2>1. n - Start(y) \in 1 .. YearDays(y) /\ n = Start(y) + (n - Start(y))
    BY <1>6, <1>7
  <2> QED
    BY <2>1
<1>9. PICK m \in 0 .. 11 : Before(y, m) + 1 <= e /\ e <= Before(y, m) + getDaysInMonth(y, m)
  BY MonthOfDay
<1>10. Before(y, m) \in Nat /\ getDaysInMonth(y, m) \in Int /\ e \in Int
  <2>1. Before(y, m) \in Nat /\ getDaysInMonth(y, m) \in Int
    BY MonthFacts
  <2> QED
    BY <1>6, <2>1
<1>11. PICK d \in 1 .. getDaysInMonth(y, m) : e = Before(y, m) + d
  <2>1. e - Before(y, m) \in 1 .. getDaysInMonth(y, m) /\ e = Before(y, m) + (e - Before(y, m))
    BY <1>9, <1>10
  <2> QED
    BY <2>1
<1>12. n = Number(y, m, d)
  <2>1. d \in Int
    BY <1>10, <1>11
  <2>2. Number(y, m, d) = Start(y) + Before(y, m) + d
    BY <2>1, NumberOf
  <2> QED
    BY <1>6, <1>8, <1>10, <1>11, <2>1, <2>2
<1>13. y >= FirstYear
  BY FirstYearIs, <1>5
<1> QED
  BY <1>12, <1>13

-----------------------------------------------------------------------------
\* Where a step lands.
Lands(n, y, m, d) ==
  /\ y \in Int /\ y >= FirstYear /\ m \in 0 .. 11 /\ d \in Int /\ 1 <= d /\ d <= getDaysInMonth(y, m)
  /\ DateOf(n) = [y |-> y, m |-> m, d |-> d] /\ n = Number(y, m, d)

LEMMA LandsThere ==
  ASSUME NEW y \in Int, NEW m \in 0 .. 11, NEW d \in Int,
         y >= FirstYear, 1 <= d, d <= getDaysInMonth(y, m)
  PROVE  Lands(Number(y, m, d), y, m, d) /\ Number(y, m, d) \in Nat \ {0}
<1>1. getDaysInMonth(y, m) \in Int
  BY MonthFacts
<1>2. d \in 1 .. getDaysInMonth(y, m)
  BY <1>1
<1>3. DateOf(Number(y, m, d)) = [y |-> y, m |-> m, d |-> d] /\ Number(y, m, d) \in Nat \ {0}
  BY <1>2, DateOfNumber
<1> QED
  BY <1>3, Zenon DEF Lands

LEMMA HasDate ==
  ASSUME NEW n \in Nat \ {0}
  PROVE  \E y \in Int, m \in 0 .. 11, d \in Int : Lands(n, y, m, d)
<1>1. PICK y \in Int, m \in 0 .. 11 : y >= FirstYear /\ \E d \in 1 .. getDaysInMonth(y, m) : n = Number(y, m, d)
  BY NumberOfDate
<1>2. PICK d \in 1 .. getDaysInMonth(y, m) : n = Number(y, m, d)
  BY <1>1
<1>3. getDaysInMonth(y, m) \in Int
  BY MonthFacts
<1>4. d \in Int /\ 1 <= d /\ d <= getDaysInMonth(y, m)
  BY <1>3
<1>5. Lands(Number(y, m, d), y, m, d)
  BY <1>1, <1>4, LandsThere
<1> QED
  BY <1>2, <1>4, <1>5, Zenon

\* A later month is later.
LEMMA LaterMonth ==
  ASSUME NEW n, NEW y, NEW m, NEW d, Lands(n, y, m, d),
         NEW o, NEW z, NEW k, NEW e, Lands(o, z, k, e), y < z \/ (y = z /\ m < k)
  PROVE  n < o
<1>1. /\ y \in Int /\ m \in 0 .. 11 /\ d \in Int /\ d <= getDaysInMonth(y, m) /\ n = Number(y, m, d)
      /\ z \in Int /\ k \in 0 .. 11 /\ e \in Int /\ 1 <= e /\ o = Number(z, k, e)
  BY Zenon DEF Lands
<1>2. n = Start(y) + Before(y, m) + d /\ o = Start(z) + Before(z, k) + e
  BY <1>1, NumberOf, Zenon
<1>3. /\ Before(y, m) \in Nat /\ Before(z, k) \in Nat /\ getDaysInMonth(y, m) \in Int
      /\ Start(y) \in Int /\ Start(z) \in Int /\ YearDays(y) \in Int
  <2>1. Before(y, m) \in Nat /\ Before(z, k) \in Nat /\ getDaysInMonth(y, m) \in Int
    BY <1>1, MonthFacts
  <2>2. Start(y) \in Int /\ Start(z) \in Int /\ YearDays(y) \in Int
    BY <1>1, YearFacts
  <2> QED
    BY <2>1, <2>2
<1>4. CASE y < z
  <2>1. Start(z) >= Start(y) + YearDays(y)
    BY <1>1, <1>4, YearsApart
  <2>2. Before(y, m) + getDaysInMonth(y, m) <= YearDays(y)
    BY <1>1, MonthInYear
  <2> QED
    BY <1>1, <1>2, <1>3, <2>1, <2>2
<1>5. CASE y = z /\ m < k
  <2>1. Before(y, k) >= Before(y, m) + getDaysInMonth(y, m)
    BY <1>1, <1>5, MonthsApart
  <2> QED
    BY <1>1, <1>2, <1>3, <1>5, <2>1
<1> QED
  BY <1>4, <1>5

\* What the service accepts as a recurrence.
Rule(c) ==
  /\ c.type \in {"DAILY", "WEEKLY", "MONTHLY", "QUARTERLY", "YEARLY", "CUSTOM"}
  /\ c.interval \in Nat \ {0} /\ c.days \subseteq 0 .. 6 /\ c.day \in 0 .. 31 /\ c.month \in 0 .. 12

LEMMA DayFits ==
  ASSUME NEW n, NEW c, Rule(c), NEW y, NEW m, NEW d, Lands(n, y, m, d), NEW z \in Int, NEW k \in 0 .. 11
  PROVE  /\ DayOf(n, c, z, k) \in Int /\ 1 <= DayOf(n, c, z, k) /\ DayOf(n, c, z, k) <= getDaysInMonth(z, k)
         /\ c.day # Absent => DayOf(n, c, z, k) = Smaller(c.day, getDaysInMonth(z, k))
<1>1. DateOf(n) = [y |-> y, m |-> m, d |-> d] /\ d \in Int /\ 1 <= d
  BY Zenon DEF Lands
<1>2. DateOf(n).d = d
  BY <1>1
<1>3. c.day \in Int /\ (c.day # Absent => 1 <= c.day)
  BY DEF Rule, Absent
<1>4. getDaysInMonth(z, k) \in Int /\ 28 <= getDaysInMonth(z, k)
  BY MonthFacts
<1>5. PICK a \in Int : a = (IF c.day # Absent THEN c.day ELSE DateOf(n).d) /\ 1 <= a
  BY <1>1, <1>2, <1>3
<1>6. DayOf(n, c, z, k) = Smaller(a, getDaysInMonth(z, k))
  BY <1>5, Zenon DEF DayOf
<1>7. Smaller(a, getDaysInMonth(z, k)) \in Int /\ 1 <= Smaller(a, getDaysInMonth(z, k))
      /\ Smaller(a, getDaysInMonth(z, k)) <= getDaysInMonth(z, k)
  BY <1>4, <1>5 DEF Smaller
<1>8. c.day # Absent => a = c.day
  BY <1>5
<1> QED
  BY <1>6, <1>7, <1>8, Zenon

LEMMA MonthsLand ==
  ASSUME NEW n, NEW c, Rule(c), NEW y, NEW m, NEW d, Lands(n, y, m, d), NEW months \in Nat \ {0}
  PROVE  \E z \in Int, k \in 0 .. 11 :
           /\ Lands(Months(n, c, months), z, k, DayOf(n, c, z, k)) /\ Months(n, c, months) \in Nat \ {0}
           /\ 12 * z + k = 12 * y + m + months /\ n < Months(n, c, months)
<1>1. DateOf(n) = [y |-> y, m |-> m, d |-> d] /\ y \in Int /\ y >= FirstYear /\ m \in 0 .. 11
  BY Zenon DEF Lands
<1>2. DateOf(n).y = y /\ DateOf(n).m = m
  BY <1>1
<1>3. PICK total \in Nat \ {0} : total = m + months
  BY <1>1
<1>4. total \div 12 \in Nat /\ total % 12 \in 0 .. 11 /\ total = 12 * (total \div 12) + (total % 12)
  OBVIOUS
<1>5. PICK z \in Int, k \in 0 .. 11 : z = y + total \div 12 /\ k = total % 12
  BY <1>1, <1>4
<1>6. 12 * z + k = 12 * y + m + months /\ z >= y
  BY <1>1, <1>3, <1>4, <1>5
<1>7. Months(n, c, months) = Number(z, k, DayOf(n, c, z, k))
  BY <1>2, <1>3, <1>5, Zenon DEF Months
<1>8. DayOf(n, c, z, k) \in Int /\ 1 <= DayOf(n, c, z, k) /\ DayOf(n, c, z, k) <= getDaysInMonth(z, k)
  BY DayFits, Zenon
<1>9. z >= FirstYear
  BY FirstYearIs, <1>1, <1>6
<1>10. Lands(Months(n, c, months), z, k, DayOf(n, c, z, k)) /\ Months(n, c, months) \in Nat \ {0}
  BY <1>7, <1>8, <1>9, LandsThere, Zenon
<1>11. y < z \/ (y = z /\ m < k)
  BY <1>1, <1>6
<1>12. n < Months(n, c, months)
  BY <1>10, <1>11, LaterMonth
<1> QED
  BY <1>6, <1>10, <1>12, Zenon

LEMMA YearLands ==
  ASSUME NEW n, NEW c, Rule(c), NEW y, NEW m, NEW d, Lands(n, y, m, d)
  PROVE  \E k \in 0 .. 11 :
           /\ Lands(Yearly(n, c), y + c.interval, k, DayOf(n, c, y + c.interval, k)) /\ Yearly(n, c) \in Nat \ {0}
           /\ k = (IF c.month # Absent THEN c.month - 1 ELSE m) /\ n < Yearly(n, c)
<1>1. DateOf(n) = [y |-> y, m |-> m, d |-> d] /\ y \in Int /\ y >= FirstYear /\ m \in 0 .. 11
  BY Zenon DEF Lands
<1>2. DateOf(n).y = y /\ DateOf(n).m = m
  BY <1>1
<1>3. PICK z \in Int : z = y + c.interval /\ y < z
  BY <1>1 DEF Rule
<1>4. PICK k \in 0 .. 11 : k = (IF c.month # Absent THEN c.month - 1 ELSE m)
  BY <1>1 DEF Rule, Absent
<1>5. Yearly(n, c) = Number(z, k, DayOf(n, c, z, k))
  BY <1>2, <1>3, <1>4, Zenon DEF Yearly
<1>6. DayOf(n, c, z, k) \in Int /\ 1 <= DayOf(n, c, z, k) /\ DayOf(n, c, z, k) <= getDaysInMonth(z, k)
  BY DayFits, Zenon
<1>7. z >= FirstYear
  BY FirstYearIs, <1>1, <1>3
<1>8. Lands(Yearly(n, c), z, k, DayOf(n, c, z, k)) /\ Yearly(n, c) \in Nat \ {0}
  BY <1>5, <1>6, <1>7, LandsThere, Zenon
<1>9. n < Yearly(n, c)
  BY <1>3, <1>8, LaterMonth
<1> QED
  BY <1>3, <1>4, <1>8, <1>9, Zenon

-----------------------------------------------------------------------------
\* Days of the week.
LEMMA LeastIs ==
  ASSUME NEW S, S \subseteq Nat
  PROVE  /\ S # {} => Least(S) \in S /\ \A n \in S : Least(S) <= n
         /\ \A m \in S : (\A n \in S : m <= n) => Least(S) = m
<1>1. ASSUME S # {} PROVE Least(S) \in S /\ \A n \in S : Least(S) <= n
  <2>1. \E m \in S : \A n \in S : m <= n
    BY <1>1, LeastNatural
  <2> QED
    BY <2>1, Zenon DEF Least
<1>2. ASSUME NEW m \in S, \A n \in S : m <= n PROVE Least(S) = m
  <2>1. Least(S) \in S /\ Least(S) <= m
    BY <1>1, <1>2
  <2>2. m <= Least(S)
    BY <1>2, <2>1
  <2>3. m \in Nat /\ Least(S) \in Nat
    BY <2>1
  <2> QED
    BY <2>1, <2>2, <2>3
<1> QED
  BY <1>1, <1>2

LEMMA WeekAndDay ==
  ASSUME NEW n \in Nat \ {0}
  PROVE  getDay(n) \in 0 .. 6 /\ Week(n) \in Nat /\ n = 7 * Week(n) + getDay(n) + 1
<1>1. (n - 1) \div 7 \in Nat /\ (n - 1) % 7 \in 0 .. 6 /\ n - 1 = 7 * ((n - 1) \div 7) + ((n - 1) % 7)
  OBVIOUS
<1> QED
  BY <1>1 DEF getDay, Week

LEMMA DayOfWeek ==
  ASSUME NEW w \in Nat, NEW e \in 0 .. 6
  PROVE  getDay(7 * w + e + 1) = e /\ Week(7 * w + e + 1) = w /\ 7 * w + e + 1 \in Nat \ {0}
<1>1. (7 * w + e) % 7 = e /\ (7 * w + e) \div 7 = w
  OBVIOUS
<1>2. 7 * w + e + 1 - 1 = 7 * w + e
  OBVIOUS
<1>3. getDay(7 * w + e + 1) = e /\ Week(7 * w + e + 1) = w
  BY <1>1, <1>2 DEF getDay, Week
<1> QED
  BY <1>3

\* The days that WeeklyIsNext allows.
Allowed(n, c) ==
  {k \in n + 1 .. n + 7 * (c.interval + 1) :
     getDay(k) \in c.days /\ Week(k) \in {Week(n), Week(n) + c.interval}}

\* Weeks and days, in integers.
LEMMA SameWeek ==
  ASSUME NEW n \in Int, NEW o \in Int, NEW w \in Int, NEW t \in Int, NEW l \in Int,
         n = 7 * w + t + 1, o = 7 * w + l + 1
  PROVE  o = n + l - t /\ (n < o => t < l) /\ (t <= l => n <= o)
OBVIOUS

LEMMA WeeksOn ==
  ASSUME NEW n \in Int, NEW o \in Int, NEW w \in Int, NEW i \in Int, NEW t \in Int, NEW l \in Int,
         n = 7 * w + t + 1, o = 7 * (w + i) + l + 1
  PROVE  o = n + (7 - t) + 7 * (i - 1) + l
OBVIOUS

LEMMA WeeklyLands ==
  ASSUME NEW n \in Nat \ {0}, NEW c, Rule(c)
  PROVE  /\ Weekly(n, c) \in Nat \ {0} /\ n < Weekly(n, c)
         /\ c.days # {} => Weekly(n, c) = Least(Allowed(n, c))
<1>1. PICK i \in Nat \ {0} : i = c.interval
  BY DEF Rule
<1>2. PICK t \in 0 .. 6, w \in Nat : t = getDay(n) /\ w = Week(n) /\ n = 7 * w + t + 1
  BY WeekAndDay
<1>13. t \in Int /\ 0 <= t /\ t <= 6
  OBVIOUS
<1>14. n = 7 * w + t + 1 /\ n \in Int /\ w \in Int /\ t \in Int
  BY <1>2
<1>3. PICK D : D = c.days /\ D \subseteq 0 .. 6
  BY DEF Rule
<1>4. PICK L : L = {d \in D : d > t}
  OBVIOUS
<1>5. Weekly(n, c) = IF D = {} THEN n + 7 * i
                     ELSE IF L # {} THEN n + Least(L) - t
                     ELSE n + (7 - t) + 7 * (i - 1) + Least(D)
  BY <1>1, <1>2, <1>3, <1>4, Zenon DEF Weekly
<1>6. PICK A : A = Allowed(n, c)
  OBVIOUS
<1>7. A = {k \in n + 1 .. n + 7 * (i + 1) : getDay(k) \in D /\ (Week(k) = w \/ Week(k) = w + i)}
  BY <1>1, <1>2, <1>3, <1>6 DEF Allowed
<1>8. A \subseteq Nat
  BY <1>7
<1>9. ASSUME NEW k \in A
      PROVE  /\ k \in Nat \ {0} /\ n < k /\ getDay(k) \in D /\ (Week(k) = w \/ Week(k) = w + i)
             /\ getDay(k) \in 0 .. 6 /\ k = 7 * Week(k) + getDay(k) + 1
  <2>1. k \in Nat \ {0} /\ n < k /\ getDay(k) \in D /\ (Week(k) = w \/ Week(k) = w + i)
    BY <1>7
  <2>2. getDay(k) \in 0 .. 6 /\ k = 7 * Week(k) + getDay(k) + 1
    BY <2>1, WeekAndDay
  <2> QED
    BY <2>1, <2>2, Zenon
<1>10. CASE D = {}
  BY <1>1, <1>3, <1>5, <1>10
<1>11. CASE D # {} /\ L # {}
  <2>1. L \subseteq Nat
    BY <1>3, <1>4
  <2>2. PICK l \in L : l = Least(L) /\ \A d \in L : l <= d
    BY <1>11, <2>1, LeastIs
  <2>3. l \in D /\ l \in 0 .. 6 /\ l \in Int /\ l <= 6 /\ t < l
    BY <1>3, <1>4
  <2>4. PICK o \in Nat \ {0} : o = 7 * w + l + 1 /\ n < o /\ o <= n + 7
    BY <1>2, <2>3
  <2>5. Weekly(n, c) = o
    <3>1. Weekly(n, c) = n + l - t
      BY <1>5, <1>11, <2>2
    <3>2. o = n + l - t
      BY <1>14, <2>3, <2>4, SameWeek
    <3> QED
      BY <3>1, <3>2
  <2>6. o \in A
    <3>1. getDay(o) = l /\ Week(o) = w
      BY <2>3, <2>4, DayOfWeek
    <3>2. o \in n + 1 .. n + 7 * (i + 1)
      BY <2>4
    <3> QED
      BY <1>7, <2>3, <3>1, <3>2
  <2>7. ASSUME NEW k \in A PROVE o <= k
    <3>1. /\ k \in Nat \ {0} /\ n < k /\ getDay(k) \in D /\ (Week(k) = w \/ Week(k) = w + i)
          /\ getDay(k) \in 0 .. 6 /\ k = 7 * Week(k) + getDay(k) + 1
      BY <1>9
    <3>2. PICK e \in 0 .. 6 : e = getDay(k)
      BY <3>1
    <3>3. CASE Week(k) = w
      <4>3. k \in Int /\ e \in Int /\ k = 7 * w + e + 1 /\ n < k
        BY <3>1, <3>2, <3>3
      <4>4. t < e
        BY <1>14, <4>3, SameWeek
      <4>1. e \in D /\ t < e
        BY <3>1, <3>2, <4>4
      <4>2. l <= e
        BY <1>4, <2>2, <4>1
      <4> QED
        BY <2>3, <2>4, <3>1, <3>2, <3>3, <4>2
    <3>4. CASE Week(k) = w + i
      BY <2>3, <2>4, <3>1, <3>2, <3>4
    <3> QED
      BY <3>1, <3>3, <3>4
  <2>8. Least(A) = o
    BY <1>8, <2>6, <2>7, LeastIs
  <2> QED
    BY <1>6, <2>4, <2>5, <2>8
<1>12. CASE D # {} /\ L = {}
  <2>1. D \subseteq Nat
    BY <1>3
  <2>2. PICK l \in D : l = Least(D) /\ \A d \in D : l <= d
    BY <1>12, <2>1, LeastIs
  <2>3. l \in 0 .. 6 /\ l \in Int /\ 0 <= l /\ l <= 6
    BY <1>3
  <2>4. PICK v \in Nat : v = w + i
    OBVIOUS
  <2>5. PICK o \in Nat \ {0} : o = 7 * v + l + 1 /\ n < o /\ o <= n + 7 * (i + 1)
    <3>1. 7 * v + l + 1 \in Nat \ {0}
      BY <2>3
    <3>2. 7 * v = 7 * w + 7 * i /\ i >= 1
      BY <2>4
    <3> QED
      BY <1>2, <1>13, <2>3, <3>1, <3>2
  <2>6. Weekly(n, c) = o
    <3>1. Weekly(n, c) = n + (7 - t) + 7 * (i - 1) + l
      BY <1>5, <1>12, <2>2
    <3>2. i \in Int /\ o \in Int /\ l \in Int /\ o = 7 * (w + i) + l + 1
      BY <2>3, <2>4, <2>5
    <3>3. o = n + (7 - t) + 7 * (i - 1) + l
      BY <1>14, <3>2, WeeksOn
    <3> QED
      BY <3>1, <3>3
  <2>7. o \in A
    <3>1. getDay(o) = l /\ Week(o) = v
      BY <2>3, <2>5, DayOfWeek
    <3>2. o \in n + 1 .. n + 7 * (i + 1)
      BY <2>5
    <3> QED
      BY <1>7, <2>4, <3>1, <3>2
  <2>8. ASSUME NEW k \in A PROVE o <= k
    <3>1. /\ k \in Nat \ {0} /\ n < k /\ getDay(k) \in D /\ (Week(k) = w \/ Week(k) = w + i)
          /\ getDay(k) \in 0 .. 6 /\ k = 7 * Week(k) + getDay(k) + 1
      BY <1>9
    <3>2. PICK e \in 0 .. 6 : e = getDay(k)
      BY <3>1
    <3>3. Week(k) # w
      <4>1. Week(k) = w => t < e
        <5>1. k \in Int /\ e \in Int /\ k = 7 * Week(k) + e + 1 /\ n < k
          BY <3>1, <3>2
        <5>2. ASSUME Week(k) = w PROVE k = 7 * w + e + 1
          BY <5>1, <5>2
        <5> QED
          BY <1>14, <5>1, <5>2, SameWeek, Zenon
      <4>2. ~(t < e)
        BY <1>4, <1>12, <3>1, <3>2
      <4> QED
        BY <4>1, <4>2
    <3>4. Week(k) = v /\ l <= e
      BY <2>2, <2>4, <3>1, <3>2, <3>3
    <3> QED
      BY <2>3, <2>5, <3>1, <3>2, <3>4
  <2>9. Least(A) = o
    BY <1>8, <2>7, <2>8, LeastIs
  <2> QED
    BY <1>6, <2>5, <2>6, <2>9
<1> QED
  BY <1>10, <1>11, <1>12

-----------------------------------------------------------------------------
\* Behaviours.
DatesTyped == Rule(rule) /\ first \in Nat \ {0} /\ date \in Nat \ {0} /\ count \in Nat
DatesInv == DatesTyped /\ (count = 0 => date = first) /\ OnTheCalendar

\* The rules that NoMonthSkipped is about, and the months between their dates.
Counted(c) == c.type \in {"MONTHLY", "QUARTERLY"} \/ (c.type = "YEARLY" /\ c.month = Absent)
Between(c) == CASE c.type = "MONTHLY" -> c.interval
                [] c.type = "QUARTERLY" -> 3 * c.interval
                [] OTHER -> 12 * c.interval
OnChosenDay(n, c) ==
  c.day # Absent => DateOf(n).d = Smaller(c.day, getDaysInMonth(DateOf(n).y, DateOf(n).m))

LEMMA Monthwise ==
  ASSUME NEW n, NEW y, NEW m, NEW d, Lands(n, y, m, d)
  PROVE  MonthIndex(n) = 12 * y + m /\ MonthIndex(n) \in Int /\ DateOf(n).y = y /\ DateOf(n).m = m /\ DateOf(n).d = d
<1>1. DateOf(n) = [y |-> y, m |-> m, d |-> d] /\ y \in Int /\ m \in 0 .. 11
  BY Zenon DEF Lands
<1>2. DateOf(n).y = y /\ DateOf(n).m = m /\ DateOf(n).d = d
  BY <1>1
<1> QED
  BY <1>1, <1>2 DEF MonthIndex

\* Recurrences counted in months: so many on, on the day chosen or the last one.
LEMMA MonthsOn ==
  ASSUME NEW n \in Nat \ {0}, NEW c, Rule(c), NEW months \in Nat \ {0}
  PROVE  \E o \in Nat \ {0} :
           /\ o = Months(n, c, months) /\ n < o /\ MonthIndex(o) = MonthIndex(n) + months
           /\ c.day # Absent => DateOf(o).d = Smaller(c.day, getDaysInMonth(DateOf(o).y, DateOf(o).m))
<1>1. PICK y \in Int, m \in 0 .. 11, d \in Int : Lands(n, y, m, d)
  BY HasDate
<1>2. PICK z \in Int, k \in 0 .. 11 :
        /\ Lands(Months(n, c, months), z, k, DayOf(n, c, z, k)) /\ Months(n, c, months) \in Nat \ {0}
        /\ 12 * z + k = 12 * y + m + months /\ n < Months(n, c, months)
  BY <1>1, MonthsLand, Zenon
<1>3. PICK o \in Nat \ {0} : o = Months(n, c, months) /\ Lands(o, z, k, DayOf(n, c, z, k)) /\ n < o
  BY <1>2
<1>4. MonthIndex(n) = 12 * y + m
  BY <1>1, Monthwise
<1>5. MonthIndex(o) = 12 * z + k /\ DateOf(o).y = z /\ DateOf(o).m = k /\ DateOf(o).d = DayOf(n, c, z, k)
  BY <1>3, Monthwise, Zenon
<1>6. c.day # Absent => DayOf(n, c, z, k) = Smaller(c.day, getDaysInMonth(z, k))
  BY <1>1, DayFits, Zenon
<1>7. MonthIndex(o) = MonthIndex(n) + months
  BY <1>2, <1>4, <1>5
<1> QED
  BY <1>3, <1>5, <1>6, <1>7, Zenon

\* ... and those counted in years.
LEMMA YearsOn ==
  ASSUME NEW n \in Nat \ {0}, NEW c, Rule(c)
  PROVE  \E o \in Nat \ {0} :
           /\ o = Yearly(n, c) /\ n < o /\ DateOf(o).y = DateOf(n).y + c.interval /\ DateOf(n).y \in Int
           /\ c.month # Absent => DateOf(o).m = c.month - 1
           /\ c.month = Absent => MonthIndex(o) = MonthIndex(n) + 12 * c.interval
           /\ c.day # Absent => DateOf(o).d = Smaller(c.day, getDaysInMonth(DateOf(o).y, DateOf(o).m))
<1>1. PICK y \in Int, m \in 0 .. 11, d \in Int : Lands(n, y, m, d)
  BY HasDate
<1>2. PICK k \in 0 .. 11 :
        /\ Lands(Yearly(n, c), y + c.interval, k, DayOf(n, c, y + c.interval, k)) /\ Yearly(n, c) \in Nat \ {0}
        /\ k = (IF c.month # Absent THEN c.month - 1 ELSE m) /\ n < Yearly(n, c)
  BY <1>1, YearLands, Zenon
<1>3. PICK z \in Int : z = y + c.interval
  BY DEF Rule
<1>4. PICK o \in Nat \ {0} : o = Yearly(n, c) /\ Lands(o, z, k, DayOf(n, c, z, k)) /\ n < o
  BY <1>2, <1>3
<1>5. MonthIndex(n) = 12 * y + m /\ DateOf(n).y = y /\ DateOf(n).m = m
  BY <1>1, Monthwise
<1>6. MonthIndex(o) = 12 * z + k /\ DateOf(o).y = z /\ DateOf(o).m = k /\ DateOf(o).d = DayOf(n, c, z, k)
  BY <1>4, Monthwise, Zenon
<1>7. c.day # Absent => DayOf(n, c, z, k) = Smaller(c.day, getDaysInMonth(z, k))
  BY <1>1, DayFits, Zenon
<1>8. c.month = Absent => MonthIndex(o) = MonthIndex(n) + 12 * c.interval
  BY <1>2, <1>3, <1>5, <1>6 DEF Rule
<1>9. c.month # Absent => k = c.month - 1
  BY <1>2
<1> QED
  BY <1>3, <1>4, <1>5, <1>6, <1>7, <1>8, <1>9, Zenon

LEMMA NextDate ==
  ASSUME NEW n \in Nat \ {0}, NEW c, Rule(c)
  PROVE  calculateNextOccurrence(n, c) \in Nat \ {0} /\ n < calculateNextOccurrence(n, c)
<1>1. PICK i \in Nat \ {0} : i = c.interval
  BY DEF Rule
<1>2. CASE c.type \in {"DAILY", "CUSTOM"}
  <2>1. calculateNextOccurrence(n, c) = n + i
    BY <1>1, <1>2 DEF calculateNextOccurrence
  <2> QED
    BY <2>1
<1>3. CASE c.type = "WEEKLY"
  <2>1. calculateNextOccurrence(n, c) = Weekly(n, c)
    BY <1>3 DEF calculateNextOccurrence
  <2> QED
    BY <2>1, WeeklyLands
<1>4. CASE c.type = "MONTHLY"
  <2>1. calculateNextOccurrence(n, c) = Months(n, c, i)
    BY <1>1, <1>4 DEF calculateNextOccurrence
  <2> QED
    BY <2>1, MonthsOn
<1>5. CASE c.type = "QUARTERLY"
  <2>1. PICK q \in Nat \ {0} : q = 3 * i
    OBVIOUS
  <2>2. calculateNextOccurrence(n, c) = Months(n, c, q)
    BY <1>1, <1>5, <2>1 DEF calculateNextOccurrence
  <2> QED
    BY <2>2, MonthsOn
<1>6. CASE c.type = "YEARLY"
  <2>1. calculateNextOccurrence(n, c) = Yearly(n, c)
    BY <1>6 DEF calculateNextOccurrence
  <2> QED
    BY <2>1, YearsOn
<1> QED
  BY <1>2, <1>3, <1>4, <1>5, <1>6 DEF Rule

LEMMA OneMore ==
  ASSUME NEW x \in Int, NEW k \in Nat, NEW a \in Int
  PROVE  x + k * a + a = x + (k + 1) * a
<1>1. (k + 1) * a = k * a + a
  OBVIOUS
<1>2. k * a \in Int
  OBVIOUS
<1> QED
  BY <1>1, <1>2

LEMMA MonthOf ==
  ASSUME NEW n \in Nat \ {0}
  PROVE  MonthIndex(n) \in Int /\ DateOf(n).y \in Int
<1>1. PICK y \in Int, m \in 0 .. 11, d \in Int : Lands(n, y, m, d)
  BY HasDate
<1> QED
  BY <1>1, Monthwise

LEMMA CountedOn ==
  ASSUME NEW n \in Nat \ {0}, NEW c, Rule(c), Counted(c)
  PROVE  /\ MonthIndex(calculateNextOccurrence(n, c)) = MonthIndex(n) + Between(c)
         /\ OnChosenDay(calculateNextOccurrence(n, c), c) /\ Between(c) \in Int
<1>1. PICK i \in Nat \ {0} : i = c.interval
  BY DEF Rule
<1>2. CASE c.type = "MONTHLY"
  <2>1. calculateNextOccurrence(n, c) = Months(n, c, i) /\ Between(c) = i
    BY <1>1, <1>2 DEF calculateNextOccurrence, Between
  <2>2. MonthIndex(Months(n, c, i)) = MonthIndex(n) + i /\ OnChosenDay(Months(n, c, i), c)
    <3>1. PICK o \in Nat \ {0} :
            /\ o = Months(n, c, i) /\ n < o /\ MonthIndex(o) = MonthIndex(n) + i
            /\ c.day # Absent => DateOf(o).d = Smaller(c.day, getDaysInMonth(DateOf(o).y, DateOf(o).m))
      BY MonthsOn
    <3> QED
      BY <3>1, Zenon DEF OnChosenDay
  <2> QED
    BY <2>1, <2>2
<1>3. CASE c.type = "QUARTERLY"
  <2>1. PICK q \in Nat \ {0} : q = 3 * i
    OBVIOUS
  <2>2. calculateNextOccurrence(n, c) = Months(n, c, q) /\ Between(c) = q
    BY <1>1, <1>3, <2>1 DEF calculateNextOccurrence, Between
  <2>3. MonthIndex(Months(n, c, q)) = MonthIndex(n) + q /\ OnChosenDay(Months(n, c, q), c)
    <3>1. PICK o \in Nat \ {0} :
            /\ o = Months(n, c, q) /\ n < o /\ MonthIndex(o) = MonthIndex(n) + q
            /\ c.day # Absent => DateOf(o).d = Smaller(c.day, getDaysInMonth(DateOf(o).y, DateOf(o).m))
      BY MonthsOn
    <3> QED
      BY <3>1, Zenon DEF OnChosenDay
  <2> QED
    BY <2>2, <2>3
<1>4. CASE c.type = "YEARLY" /\ c.month = Absent
  <2>1. calculateNextOccurrence(n, c) = Yearly(n, c) /\ Between(c) = 12 * c.interval
    BY <1>4 DEF calculateNextOccurrence, Between
  <2>2. MonthIndex(Yearly(n, c)) = MonthIndex(n) + 12 * c.interval /\ OnChosenDay(Yearly(n, c), c)
    BY <1>4, YearsOn, Zenon DEF OnChosenDay
  <2> QED
    BY <1>1, <2>1, <2>2
<1> QED
  BY <1>2, <1>3, <1>4, Zenon DEF Counted

LEMMA InMonthOn ==
  ASSUME NEW n \in Nat \ {0}, NEW c, Rule(c), c.type = "YEARLY", c.month # Absent
  PROVE  /\ DateOf(calculateNextOccurrence(n, c)).m = c.month - 1
         /\ DateOf(calculateNextOccurrence(n, c)).y = DateOf(n).y + c.interval
<1>1. calculateNextOccurrence(n, c) = Yearly(n, c)
  BY DEF calculateNextOccurrence
<1> QED
  BY <1>1, YearsOn, Zenon

LEMMA DatesStart == DatesInit => DatesInv
<1> SUFFICES ASSUME DatesInit PROVE DatesInv
  OBVIOUS
<1>1. Rule(rule)
  BY DatesAssumption DEF DatesInit, Rule
<1>2. first \in Nat \ {0} /\ date = first /\ count = 0
  BY DatesAssumption DEF DatesInit
<1>3. MonthIndex(first) \in Int /\ Apart \in Int
  BY <1>1, <1>2, MonthOf DEF Rule, Apart
<1>4. 0 * Apart = 0
  BY <1>3
<1>5. NoMonthSkipped
  <2>1. MonthIndex(date) = MonthIndex(first) + count * Apart
    BY <1>2, <1>3, <1>4
  <2> QED
    BY <1>2, <2>1 DEF NoMonthSkipped
<1>6. YearlyInMonth
  BY <1>2 DEF YearlyInMonth
<1> QED
  BY <1>1, <1>2, <1>5, <1>6 DEF DatesInv, DatesTyped, OnTheCalendar

LEMMA DatesStep == DatesInv /\ Occur => DatesInv' /\ date' > date
<1> SUFFICES ASSUME DatesInv, Occur PROVE DatesInv' /\ date' > date
  OBVIOUS
<1>1. Rule(rule) /\ first \in Nat \ {0} /\ date \in Nat \ {0} /\ count \in Nat
  BY DEF DatesInv, DatesTyped
<1>2. rule' = rule /\ first' = first /\ count' = count + 1 /\ date' = calculateNextOccurrence(date, rule)
  BY DEF Occur
<1>3. date' \in Nat \ {0} /\ date < date'
  BY <1>1, <1>2, NextDate, Zenon
<1>4. count' # 0 /\ count' \in Nat
  BY <1>1, <1>2
<1>5. DatesTyped'
  BY <1>1, <1>2, <1>3, <1>4 DEF DatesTyped, Rule
<1>6. NoMonthSkipped'
  <2>1. SUFFICES ASSUME Counted(rule)
                 PROVE  /\ MonthIndex(date') = MonthIndex(first) + (count + 1) * Apart
                        /\ OnChosenDay(date', rule)
    BY <1>2 DEF NoMonthSkipped, Counted, OnChosenDay, MonthIndex, Apart
  <2>2. MonthIndex(date) = MonthIndex(first) + count * Apart
    BY <2>1 DEF DatesInv, OnTheCalendar, NoMonthSkipped, Counted
  <2>3. /\ MonthIndex(date') = MonthIndex(date) + Between(rule)
        /\ OnChosenDay(date', rule) /\ Between(rule) \in Int
    BY <1>1, <1>2, <2>1, CountedOn
  <2>4. Apart = Between(rule)
    BY Zenon DEF Apart, Between
  <2>5. MonthIndex(first) \in Int
    BY <1>1, MonthOf
  <2>6. MonthIndex(first) + count * Apart + Apart = MonthIndex(first) + (count + 1) * Apart
    BY <1>1, <2>3, <2>4, <2>5, OneMore
  <2> QED
    BY <2>2, <2>3, <2>4, <2>6
<1>7. YearlyInMonth'
  <2>1. SUFFICES ASSUME rule.type = "YEARLY", rule.month # Absent
                 PROVE  /\ DateOf(date').m = rule.month - 1
                        /\ DateOf(date').y = DateOf(first).y + (count + 1) * rule.interval
    BY <1>2 DEF YearlyInMonth, DateOf
  <2>2. DateOf(date').m = rule.month - 1 /\ DateOf(date').y = DateOf(date).y + rule.interval
    BY <1>1, <1>2, <2>1, InMonthOn
  <2>3. PICK i \in Int : i = rule.interval
    BY <1>1 DEF Rule
  <2>4. PICK x \in Int : x = DateOf(first).y
    BY <1>1, MonthOf
  <2>5. DateOf(date).y = x + count * i
    <3>1. CASE count = 0
      <4>1. date = first
        BY <3>1 DEF DatesInv
      <4>2. x + 0 * i = x
        OBVIOUS
      <4> QED
        BY <2>4, <3>1, <4>1, <4>2
    <3>2. CASE count > 0
      BY <2>1, <2>3, <2>4, <3>2 DEF DatesInv, OnTheCalendar, YearlyInMonth
    <3> QED
      BY <1>1, <3>1, <3>2
  <2>6. x + count * i + i = x + (count + 1) * i
    BY <1>1, OneMore
  <2> QED
    BY <2>2, <2>3, <2>4, <2>5, <2>6
<1> QED
  BY <1>3, <1>4, <1>5, <1>6, <1>7 DEF DatesInv, OnTheCalendar

LEMMA DatesInvariant == DatesSpec => []DatesInv
<1>1. DatesInv /\ UNCHANGED dateVars => DatesInv'
  <2> SUFFICES ASSUME DatesInv, UNCHANGED dateVars PROVE DatesInv'
    OBVIOUS
  <2>1. rule' = rule /\ first' = first /\ date' = date /\ count' = count
    BY DEF dateVars
  <2>2. DatesTyped'
    BY <2>1 DEF DatesInv, DatesTyped, Rule
  <2>3. NoMonthSkipped' <=> NoMonthSkipped
    BY <2>1 DEF NoMonthSkipped, MonthIndex, Apart
  <2>4. YearlyInMonth' <=> YearlyInMonth
    BY <2>1 DEF YearlyInMonth
  <2> QED
    BY <2>1, <2>2, <2>3, <2>4 DEF DatesInv, OnTheCalendar
<1> QED
  BY <1>1, DatesStart, DatesStep, PTL DEF DatesSpec

\* Every date is a day and every rule is one that a request may set, throughout
\* a recurrence (RecurrenceService.calculateNextOccurrence).
THEOREM DatesTypes == DatesSpec => []DatesTyped
BY DatesInvariant, PTL DEF DatesInv

\* However many times a recurrence occurs, its dates are the interval apart: a
\* short month skips nothing and moves no later date
\* (RecurrenceService.addMonths, addYears, getDaysInMonth).
THEOREM Calendar == DatesSpec => []OnTheCalendar
BY DatesInvariant, PTL DEF DatesInv

\* A weekly recurrence on given days takes the next of them, in this week or in
\* the one the interval names (RecurrenceService.calculateNextWeekly).
THEOREM WeeklyNext == DatesSpec => WeeklyIsNext
<1>1. DatesInv /\ Occur =>
        (rule.type = "WEEKLY" /\ rule.days # {} =>
           date' = Least({n \in date + 1 .. date + 7 * (rule.interval + 1) :
                            /\ getDay(n) \in rule.days
                            /\ Week(n) \in {Week(date), Week(date) + rule.interval}}))
  <2> SUFFICES ASSUME DatesInv, Occur, rule.type = "WEEKLY", rule.days # {}
               PROVE  date' = Least(Allowed(date, rule))
    BY Zenon DEF Allowed
  <2>1. Rule(rule) /\ date \in Nat \ {0}
    BY DEF DatesInv, DatesTyped
  <2>2. date' = Weekly(date, rule)
    BY DEF Occur, calculateNextOccurrence
  <2> QED
    BY <2>1, <2>2, WeeklyLands
<1> QED
  BY <1>1, DatesInvariant, PTL DEF DatesSpec, WeeklyIsNext

\* Every date is later than the one before it, so the cron job gets on.
THEOREM Later == DatesSpec => StrictlyLater
BY DatesInvariant, DatesStep, PTL DEF DatesSpec, StrictlyLater

=============================================================================
