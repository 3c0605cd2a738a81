---------------------------- MODULE ReadingPeriods ----------------------------
(***************************************************************************)
(* The reading periods of a billing-cycle version: the day arithmetic of   *)
(* BillingCycleService.  Days are numbered from 1 and FirstDay[m] is the   *)
(* first day of month m, so that day r of month m is FirstDay[m] + r - 1   *)
(* also when month m has fewer than r days: the JavaScript constructor     *)
(* Date(year, month, r) runs over into the next month the same way.        *)
(***************************************************************************)
EXTENDS Integers

CONSTANTS
  Months,    \* bound: the months of the calendar
  FirstDay   \* FirstDay[m]: the day on which month m begins

ASSUME CalendarAssumption ==
  /\ Months \in Nat \ {0}
  /\ FirstDay \in [1..(Months + 1) -> Nat \ {0}]
  /\ \A m, n \in 1..(Months + 1) : m < n => FirstDay[m] < FirstDay[n]

\* A rule: readingStartDay and readingEndDay.
ReadingRule  == (1..31) \X (1..31)

MonthOf(d)    == CHOOSE m \in 1..Months : FirstDay[m] <= d /\ d < FirstDay[m + 1]
DayOf(m, r)   == FirstDay[m] + r - 1
LengthOf(m)   == FirstDay[m + 1] - FirstDay[m]

\* Mutant: "1 -> 1" is taken for one day, not for a whole month.
SameDayIsOneDay(rule) == IF rule[2] < rule[1] THEN 1 ELSE 0

\* A period ends in the next month unless its end day is after its start day.
EndMonthOffset(rule) == IF rule[2] <= rule[1] THEN 1 ELSE 0

PeriodStart(rule, m) == DayOf(m, rule[1])

\* The month of the end counts from the month the start has run over into.
PeriodEnd(rule, m) ==
  DayOf(MonthOf(PeriodStart(rule, m)) + EndMonthOffset(rule), rule[2])

\* getReadingPeriodForProperty: the period of a day is the one that starts in
\* the day's month, and it is closed once the end day has begun.
CurrentPeriod(rule, d) ==
  [start |-> PeriodStart(rule, MonthOf(d)), end |-> PeriodEnd(rule, MonthOf(d))]
Closed(rule, d) == d >= PeriodEnd(rule, MonthOf(d))
===============================================================================
