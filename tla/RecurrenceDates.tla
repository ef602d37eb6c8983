-------------------------- MODULE RecurrenceDates --------------------------
(***************************************************************************)
(* The calendar of recurring tasks: RecurrenceService.calculateNextOccur-  *)
(* rence applied over and over from a first due date, as the cron job      *)
(* does.  A date is a year, a month counted from 0 and a day, as in        *)
(* JavaScript; 1 January 2023, day 1 here, was a Sunday.                   *)
(***************************************************************************)
EXTENDS Integers, FiniteSets

CONSTANTS
  Starts,       \* the first due dates, as day numbers
  Configs,      \* the recurrences: [type, interval, days, day, month]
  MaxSteps      \* bound on the occurrences of a behaviour

ASSUME DatesAssumption ==
  /\ Starts \subseteq Nat \ {0} /\ MaxSteps \in Nat
  /\ \A c \in Configs :
       /\ c.type \in {"DAILY", "WEEKLY", "MONTHLY", "QUARTERLY", "YEARLY", "CUSTOM"}
       /\ c.interval \in Nat \ {0} /\ c.days \subseteq 0 .. 6 /\ c.day \in 0 .. 31 /\ c.month \in 0 .. 12

VARIABLES rule, first, date, count

dateVars == <<rule, first, date, count>>

Absent == 0
FirstYear == 2023
Leap(y) == y % 4 = 0 /\ (y % 100 # 0 \/ y % 400 = 0)
Leaps(y) == (y - 1) \div 4 - (y - 1) \div 100 + (y - 1) \div 400    \* before y
MonthDays == [m \in 0 .. 11 |-> IF m \in {3, 5, 8, 10} THEN 30 ELSE IF m = 1 THEN 28 ELSE 31]
Until == [m \in 0 .. 11 |-> CASE m = 0 -> 0 [] m = 1 -> 31 [] m = 2 -> 59 [] m = 3 -> 90
            [] m = 4 -> 120 [] m = 5 -> 151 [] m = 6 -> 181 [] m = 7 -> 212
            [] m = 8 -> 243 [] m = 9 -> 273 [] m = 10 -> 304 [] OTHER -> 334]

getDaysInMonth(y, m) == MonthDays[m] + (IF m = 1 /\ Leap(y) THEN 1 ELSE 0)
Number(y, m, d) ==
  365 * (y - FirstYear) + Leaps(y) - Leaps(FirstYear) + Until[m] + (IF m > 1 /\ Leap(y) THEN 1 ELSE 0) + d
DateOf(n) ==
  LET y == CHOOSE y \in FirstYear + (n - 1) \div 366 .. FirstYear + (n - 1) \div 365 :
             Number(y, 0, 1) <= n /\ n <= Number(y, 11, 31)
      m == CHOOSE m \in 0 .. 11 : Number(y, m, 1) <= n /\ n <= Number(y, m, getDaysInMonth(y, m))
  IN [y |-> y, m |-> m, d |-> n - Number(y, m, 0)]
getDay(n) == (n - 1) % 7

Least(S) == CHOOSE x \in S : \A y \in S : x <= y
Smaller(x, y) == IF x < y THEN x ELSE y

-----------------------------------------------------------------------------
WeeklySkips(n, c) ==                                                    \* mutant
  LET today == getDay(n)
      later == {d \in c.days : d > today}
  IN IF c.days = {} THEN n + 7 * c.interval
     ELSE IF later # {} THEN n + Least(later) - today
     ELSE n + (7 - today) + 7 * c.interval + Least(c.days)

\* WEEKLY: the next chosen day of this week, or the first one of the week that
\* is interval weeks on.
Weekly(n, c) ==
  LET today == getDay(n)
      later == {d \in c.days : d > today}
  IN IF c.days = {} THEN n + 7 * c.interval
     ELSE IF later # {} THEN n + Least(later) - today
     ELSE n + (7 - today) + 7 * (c.interval - 1) + Least(c.days)

\* The chosen day of the month, or as near to it as the month has.
DayOf(n, c, y, m) == Smaller(IF c.day # Absent THEN c.day ELSE DateOf(n).d, getDaysInMonth(y, m))

MonthsOverflow(n, c, months) ==                                         \* mutant
  LET t == DateOf(n)
      total == t.m + months
      y == t.y + total \div 12
      landed == DateOf(Number(y, total % 12, t.d))
  IN Number(landed.y, landed.m, DayOf(n, c, landed.y, landed.m))

\* MONTHLY and QUARTERLY: from the first of the month, so many months on.
Months(n, c, months) ==
  LET t == DateOf(n)
      total == t.m + months
      y == t.y + total \div 12
      m == total % 12
  IN Number(y, m, DayOf(n, c, y, m))

\* YEARLY: from the first of the month, then the month if one is given.
Yearly(n, c) ==
  LET y == DateOf(n).y + c.interval
      m == IF c.month # Absent THEN c.month - 1 ELSE DateOf(n).m
  IN Number(y, m, DayOf(n, c, y, m))

calculateNextOccurrence(n, c) ==
  CASE c.type \in {"DAILY", "CUSTOM"} -> n + c.interval
    [] c.type = "WEEKLY" -> Weekly(n, c)
    [] c.type = "MONTHLY" -> Months(n, c, c.interval)
    [] c.type = "QUARTERLY" -> Months(n, c, 3 * c.interval)
    [] OTHER -> Yearly(n, c)

-----------------------------------------------------------------------------
DatesInit ==
  /\ rule \in Configs
  /\ first \in Starts
  /\ date = first
  /\ count = 0

Occur ==
  /\ count < MaxSteps
  /\ date' = calculateNextOccurrence(date, rule)
  /\ count' = count + 1
  /\ UNCHANGED <<rule, first>>

DatesSpec == DatesInit /\ [][Occur]_dateVars

-----------------------------------------------------------------------------
\* Every occurrence is later than the one before: the cron job makes progress.
StrictlyLater == [][date' > date]_dateVars

\* The weeks of a date, Sunday first.
Week(n) == (n - 1) \div 7

\* WEEKLY on given days is what it says: the next date on one of the days, in
\* this week or in the one interval weeks on.
WeeklyIsNext ==
  [][ rule.type = "WEEKLY" /\ rule.days # {} =>
        date' = Least({n \in date + 1 .. date + 7 * (rule.interval + 1) :
                         /\ getDay(n) \in rule.days
                         /\ Week(n) \in {Week(date), Week(date) + rule.interval}}) ]_dateVars

MonthIndex(n) == 12 * DateOf(n).y + DateOf(n).m
Apart == CASE rule.type = "MONTHLY" -> rule.interval
           [] rule.type = "QUARTERLY" -> 3 * rule.interval
           [] OTHER -> 12 * rule.interval

\* Short months skip nothing: the occurrences of a monthly, quarterly or yearly
\* recurrence are its interval apart, each on the day chosen or on the last day
\* of a month that is shorter.
NoMonthSkipped ==
  rule.type \in {"MONTHLY", "QUARTERLY"} \/ (rule.type = "YEARLY" /\ rule.month = Absent)
    => /\ MonthIndex(date) = MonthIndex(first) + count * Apart
       /\ count > 0 /\ rule.day # Absent =>
            DateOf(date).d = Smaller(rule.day, getDaysInMonth(DateOf(date).y, DateOf(date).m))

\* A yearly recurrence with a month is in that month, one interval of years on.
YearlyInMonth ==
  rule.type = "YEARLY" /\ rule.month # Absent /\ count > 0 =>
    /\ DateOf(date).m = rule.month - 1
    /\ DateOf(date).y = DateOf(first).y + count * rule.interval

\* The recurrences counted in months are on the calendar what they are called.
OnTheCalendar == NoMonthSkipped /\ YearlyInMonth
=============================================================================
