--------------------------- MODULE RecurringTasks ---------------------------
(***************************************************************************)
(* One recurring task: the nightly RecurringTasksCronService and the       *)
(* requests of TasksService that complete an occurrence or add, change and *)
(* stop the recurrence.  All of them read the configuration, and write it, *)
(* the task and new tasks in separate queries; the process may be killed   *)
(* between any two of them.                                                *)
(*                                                                         *)
(* A date is a number of days and a recurrence is every so many days (the  *)
(* calendar rules are those of RecurrenceDates).  The instances of the     *)
(* task are those the cron job looks for: same project, same title, by due *)
(* date.                                                                   *)
(***************************************************************************)
EXTENDS Naturals, FiniteSets

CONSTANTS
  Requests,
  Clients,      \* the ways to share the operations among the requests: each
                \* gives the operations that may be asked as each request
  Intervals,    \* days between occurrences that requests ask for
  Ends,         \* end conditions they ask for: [type, n]
  Due,          \* the due date of the task
  Crashes,      \* whether the process may be killed
  MaxDay,       \* bound on the days of a behaviour
  MaxTasks,     \* bound on the instances created for one date
  MaxConfigs    \* bound on the configurations created

ASSUME RecurringAssumption ==
  /\ Due \in Nat /\ MaxDay \in Nat /\ MaxTasks \in Nat /\ MaxConfigs \in Nat
  /\ Intervals \subseteq Nat \ {0} /\ Crashes \in BOOLEAN
  /\ Ends \subseteq [type : {"NEVER", "AFTER", "ON_DATE"}, n : Nat]

VARIABLES
  today,
  recurring,    \* task.isRecurring
  config,       \* the row of recurring_tasks, if any
  created,      \* configurations created: the next one's id
  made,         \* instances with each due date, the task itself included
  cron,         \* the nightly run
  req,          \* requests in progress
  asked,        \* the operations the clients ask, fixed throughout
  born,         \* history: instances generated for this configuration
  raced,        \* history: two generated at once, or one was cut off
  torn          \* history: an add or a stop was cut off, or two overlapped

vars == <<today, recurring, config, created, made, cron, req, asked, born, raced, torn>>

Dates == 0 .. Due + MaxDay * 3 + 6
NoConfig == [id |-> 0, active |-> FALSE, next |-> 0, count |-> 0, interval |-> 1,
             end |-> [type |-> "NEVER", n |-> 0]]
Sleeping == [step |-> "idle", seen |-> NoConfig, tries |-> 3, overtaken |-> FALSE,
             late |-> FALSE]
Idle == [step |-> "idle", op |-> "stop", seen |-> NoConfig, new |-> NoConfig]

\* nextOccurrence, and the end and lead time of RecurrenceService.
nextOccurrence(date, c) == date + c.interval
isRecurrenceComplete(c) ==
  CASE c.end.type = "NEVER" -> FALSE
    [] c.end.type = "ON_DATE" -> today >= c.end.n
    [] OTHER -> c.end.n # 0 /\ c.count >= c.end.n
shouldGenerateNextInstance(date) == today + 1 >= date

\* A configuration as create and addRecurrence make it.
NewConfig(id, interval, end) ==
  [id |-> id, active |-> TRUE, next |-> Due + interval, count |-> 1,
   interval |-> interval, end |-> end]

Init ==
  /\ today = 0
  /\ recurring = TRUE
  /\ \E i \in Intervals, e \in Ends : config = NewConfig(1, i, e)
  /\ created = 1
  /\ made = [d \in Dates |-> IF d = Due THEN 1 ELSE 0]
  /\ cron = Sleeping
  /\ req = [r \in Requests |-> Idle]
  /\ asked \in Clients
  /\ born = 0 /\ raced = FALSE /\ torn = FALSE

Stored(c) == config # NoConfig /\ config.id = c.id
Advancing(c) == {q \in Requests : req[q].step = "advance" /\ req[q].seen.id = c.id}
CronAdvancing(c) == cron.step = "advance" /\ cron.seen.id = c.id

-----------------------------------------------------------------------------
\* RecurringTasksCronService.generateUpcomingRecurringTasks

Run(step) == cron' = [cron EXCEPT !.step = step]
Sleep == cron' = Sleeping

\* Midnight: the run of the last day is over and, if the process is up, one begins.
Midnight ==
  /\ today < MaxDay /\ cron.step = "idle"
  /\ today' = today + 1
  /\ \E up \in {TRUE, ~Crashes} :
       cron' = IF up /\ config # NoConfig /\ config.active
                 THEN [Sleeping EXCEPT !.step = "check", !.seen = config] ELSE Sleeping
  /\ UNCHANGED <<recurring, config, created, made, req, born, raced, torn>>

\* The end, then the lead time, of the configuration as it was read.
CronCheck ==
  /\ cron.step = "check"
  /\ IF isRecurrenceComplete(cron.seen) THEN Run("deactivate")
     ELSE IF shouldGenerateNextInstance(cron.seen.next) THEN Run("find") ELSE Sleep
  /\ UNCHANGED <<today, recurring, config, created, made, req, born, raced, torn>>

CronDeactivate ==
  /\ cron.step = "deactivate"
  /\ \/ ~Stored(cron.seen) /\ Sleep /\ UNCHANGED config
     \/ /\ Stored(cron.seen)
        /\ config' = [config EXCEPT !.active = FALSE]
        /\ Run("unmark")
  /\ UNCHANGED <<today, recurring, created, made, req, born, raced, torn>>

CronUnmark ==
  /\ cron.step = "unmark"
  /\ recurring' = FALSE
  /\ torn' = (torn \/ \E q \in Requests : req[q].step \in {"mark", "unmark"})
  /\ Sleep
  /\ UNCHANGED <<today, config, created, made, req, born, raced>>

CronFindNothing ==                                                      \* mutant
  /\ cron.step = "find"
  /\ cron' = [cron EXCEPT !.step = "number", !.late = FALSE]
  /\ UNCHANGED <<today, recurring, config, created, made, req, born, raced, torn>>

\* Already generated?
CronFind ==
  /\ cron.step = "find"
  /\ IF made[cron.seen.next] > 0 THEN Sleep
     ELSE cron' = [cron EXCEPT !.step = "number", !.late = FALSE]
  /\ UNCHANGED <<today, recurring, config, created, made, req, born, raced, torn>>

\* The transaction reads the last task number without locking the project.
CronNumber ==
  /\ cron.step = "number"
  /\ cron' = [cron EXCEPT !.step = "insert", !.overtaken = FALSE]
  /\ UNCHANGED <<today, recurring, config, created, made, req, born, raced, torn>>

\* A new instance for date, generated from configuration c.
Generate(date, c, busy) ==
  /\ date \in Dates /\ made[date] < MaxTasks
  /\ made' = [made EXCEPT ![date] = @ + 1]
  /\ born' = IF Stored(c) THEN born + 1 ELSE born
  /\ raced' = (raced \/ busy \/ (Stored(c) /\ config.count # c.count))

CronInsert ==
  /\ cron.step = "insert" /\ ~cron.overtaken
  /\ Generate(cron.seen.next, cron.seen, Advancing(cron.seen) # {})
  /\ Run("advance")
  /\ UNCHANGED <<today, recurring, config, created, req, torn>>

\* P2002: the number was taken; three attempts in all.
CronConflict ==
  /\ cron.step = "insert" /\ cron.overtaken
  /\ IF cron.tries > 1
       THEN cron' = [cron EXCEPT !.step = "number", !.tries = @ - 1]
       ELSE Sleep
  /\ UNCHANGED <<today, recurring, config, created, made, req, born, raced, torn>>

CronAdvanceDate ==                                                      \* mutant
  /\ cron.step = "advance"
  /\ LET c == cron.seen IN
       config' = IF ~Stored(c) THEN config
                 ELSE [config EXCEPT !.next = nextOccurrence(c.next, c)]
  /\ Sleep
  /\ UNCHANGED <<today, recurring, created, made, req, born, raced, torn>>

\* The update fails when the configuration was deleted meanwhile.
CronAdvance ==
  /\ cron.step = "advance"
  /\ LET c == cron.seen IN
       config' = IF ~Stored(c) THEN config
                 ELSE [config EXCEPT !.count = c.count + 1,
                                     !.next = nextOccurrence(c.next, c)]
  /\ Sleep
  /\ UNCHANGED <<today, recurring, created, made, req, born, raced, torn>>

-----------------------------------------------------------------------------
\* TasksService

Begin(r, op, step, new) ==
  /\ op \in asked[r] /\ req[r].step = "idle"
  /\ req' = [req EXCEPT ![r] = [step |-> step, op |-> op, seen |-> config, new |-> new]]
  /\ UNCHANGED <<today, recurring, config, created, made, cron, born, raced, torn>>

Go(r, step) == req' = [req EXCEPT ![r].step = step]
Answer(r) == req' = [req EXCEPT ![r] = Idle]

\* A recurring task, as completing, changing and stopping require.
IsRecurring == recurring /\ config # NoConfig

\* completeOccurrenceAndGenerateNext: after the end only completedAt is written.
AskComplete(r) ==
  IsRecurring /\ ~isRecurrenceComplete(config) /\ Begin(r, "complete", "create", NoConfig)

\* create: a number under the project's lock, the task for the date after Due.
CompleteCreate(r) ==
  /\ req[r].step = "create"
  /\ LET c == req[r].seen
         date == nextOccurrence(Due, c)
     IN /\ Generate(date, c, CronAdvancing(c) \/ Advancing(c) # {})
        /\ cron' = [cron EXCEPT !.overtaken = TRUE,
                                !.late = @ \/ date = cron.seen.next]
  /\ Go(r, "advance")
  /\ UNCHANGED <<today, recurring, config, created, torn>>

CompleteAdvance(r) ==
  /\ req[r].step = "advance"
  /\ LET c == req[r].seen IN
       config' = IF ~Stored(c) THEN config
                 ELSE [config EXCEPT !.count = c.count + 1,
                                     !.next = nextOccurrence(Due, c)]
  /\ Answer(r)
  /\ UNCHANGED <<today, recurring, created, made, cron, born, raced, torn>>

AskAdd(r) ==
  /\ ~recurring /\ config = NoConfig
  /\ \E i \in Intervals, e \in Ends : Begin(r, "add", "addConfig", NewConfig(0, i, e))

\* One configuration per task (unique), then the mark on the task.
AddConfig(r) ==
  /\ req[r].step = "addConfig"
  /\ \/ /\ config # NoConfig
        /\ Answer(r)
        /\ UNCHANGED <<config, created, born, raced>>
     \/ /\ config = NoConfig /\ created < MaxConfigs
        /\ created' = created + 1
        /\ config' = [req[r].new EXCEPT !.id = created + 1]
        /\ born' = 0 /\ raced' = FALSE
        /\ Go(r, "mark")
  /\ UNCHANGED <<today, recurring, made, cron, torn>>

\* A request that adds or stops overlaps another one, or the cron job's end.
Overlaps(r) ==
  \/ cron.step = "unmark"
  \/ \E q \in Requests \ {r} : req[q].step \in {"mark", "unmark"}

Mark(r) ==
  /\ req[r].step \in {"mark", "unmark"}
  /\ recurring' = (req[r].step = "mark")
  /\ torn' = (torn \/ Overlaps(r))
  /\ Answer(r)
  /\ UNCHANGED <<today, config, created, made, cron, born, raced>>

AskUpdate(r) ==
  /\ IsRecurring
  /\ \E i \in Intervals, e \in Ends : Begin(r, "update", "update", NewConfig(config.id, i, e))

\* updateRecurrenceConfig starts again from the due date; the count stays.
UpdateConfig(r) ==
  /\ req[r].step = "update"
  /\ LET c == req[r].new IN
       config' = IF ~Stored(c) THEN config
                 ELSE [config EXCEPT !.next = c.next, !.interval = c.interval, !.end = c.end]
  /\ Answer(r)
  /\ UNCHANGED <<today, recurring, created, made, cron, born, raced, torn>>

AskStop(r) == IsRecurring /\ Begin(r, "stop", "delete", NoConfig)

StopMark(r) ==                                                          \* mutant
  /\ req[r].step = "delete"
  /\ Go(r, "unmark")
  /\ UNCHANGED <<today, recurring, config, created, made, cron, born, raced, torn>>

\* stopRecurrence: deleting a row that is gone fails; then the mark.
StopConfig(r) ==
  /\ req[r].step = "delete"
  /\ \/ ~Stored(req[r].seen) /\ Answer(r) /\ UNCHANGED config
     \/ /\ Stored(req[r].seen)
        /\ config' = NoConfig
        /\ Go(r, "unmark")
  /\ UNCHANGED <<today, recurring, created, made, cron, born, raced, torn>>

-----------------------------------------------------------------------------
\* Another task of the project takes the number that the cron job read.
OtherTask ==
  /\ cron.step = "insert" /\ ~cron.overtaken
  /\ cron' = [cron EXCEPT !.overtaken = TRUE]
  /\ UNCHANGED <<today, recurring, config, created, made, req, born, raced, torn>>

\* The process is killed and started again; what was in progress is lost.
Crash ==
  /\ Crashes
  /\ cron.step # "idle" \/ \E r \in Requests : req[r].step # "idle"
  /\ Sleep
  /\ req' = [r \in Requests |-> Idle]
  /\ raced' = (raced \/ CronAdvancing(config) \/ Advancing(config) # {})
  /\ torn' = (torn \/ cron.step = "unmark"
                   \/ \E r \in Requests : req[r].step \in {"mark", "unmark"})
  /\ UNCHANGED <<today, recurring, config, created, made, born>>

CronStep ==
  \/ CronCheck \/ CronDeactivate \/ CronUnmark \/ CronFind \/ CronNumber
  \/ CronInsert \/ CronConflict \/ CronAdvance

Step(r) ==
  \/ CompleteCreate(r) \/ CompleteAdvance(r) \/ AddConfig(r) \/ Mark(r)
  \/ UpdateConfig(r) \/ StopConfig(r)

Ask(r) == AskComplete(r) \/ AskAdd(r) \/ AskUpdate(r) \/ AskStop(r)

Next ==
  /\ \/ Midnight \/ CronStep \/ OtherTask \/ Crash
     \/ \E r \in Requests : Ask(r) \/ Step(r)
  /\ UNCHANGED asked

Spec == Init /\ [][Next]_vars

-----------------------------------------------------------------------------
Quiet == cron.step = "idle" /\ \A r \in Requests : req[r].step = "idle"

\* The configuration, as it was read, that this step generates an instance from.
Generating ==
  {req[r].seen : r \in {q \in Requests : req[q].step = "create" /\ req'[q].step = "advance"}}
  \union (IF cron.step = "insert" /\ cron'.step = "advance" THEN {cron.seen} ELSE {})

Configurations == [id : 0 .. created, active : BOOLEAN, next : Nat, count : Nat,
                   interval : Nat, end : Ends \union {NoConfig.end}]
TypeOK ==
  /\ today \in 0 .. MaxDay /\ recurring \in BOOLEAN /\ created \in Nat \ {0}
  /\ config \in Configurations /\ (config # NoConfig => config.id # 0)
  /\ made \in [Dates -> Nat]
  /\ cron \in [step : {"idle", "check", "deactivate", "unmark", "find", "number", "insert",
                       "advance"},
               seen : Configurations, tries : 1 .. 3, overtaken : BOOLEAN, late : BOOLEAN]
  /\ req \in [Requests ->
                [step : {"idle", "create", "advance", "addConfig", "mark", "update", "delete",
                         "unmark"},
                 op : {"complete", "add", "update", "stop"},
                 seen : Configurations, new : Configurations]]
  /\ born \in Nat /\ raced \in BOOLEAN /\ torn \in BOOLEAN

\* currentOccurrence counts the instances generated from the configuration,
\* but for those whose count is still to be written, unless two were generated
\* at once or one was cut off by a crash.
CountTracksInstances ==
  ~raced /\ config # NoConfig =>
    config.count + Cardinality(Advancing(config)) + (IF CronAdvancing(config) THEN 1 ELSE 0)
      = born + 1

\* AFTER_OCCURRENCES n: no instance is generated that makes the task and its
\* instances more than n, unless two were generated at once or one was cut off.
OccurrencesBounded ==
  [][ \A c \in Generating :
        born' > born /\ ~raced' /\ Stored(c) /\ c.end.type = "AFTER" /\ c.end.n > 0
        => born' < c.end.n ]_vars

\* The cron job makes no second instance for a date, unless a request made one
\* for it after it had looked.
CronNeverDoubles ==
  [][ cron.step = "insert" /\ cron'.step = "advance" /\ made[cron.seen.next] > 0
        => cron.late ]_vars

\* The mark on the task is the presence of an active configuration, unless
\* requests overlapped or were cut off between the two writes.
MarkMatchesConfig ==
  Quiet /\ ~torn => (recurring <=> config # NoConfig /\ config.active)

\* "Generates tasks that are due within the next day": with a daily recurrence,
\* once the night's run is over there is an instance for tomorrow.
GeneratedAhead ==
  Quiet /\ today > 0 /\ config # NoConfig /\ config.active /\ config.interval = 1
    => made[today + 1] > 0

\* The job makes the instances that are due, once and as many as asked for.
InstancesAsDue == OccurrencesBounded /\ CronNeverDoubles
=============================================================================
