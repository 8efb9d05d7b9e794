---------------------------------- MODULE Sla ----------------------------------
(***************************************************************************)
(* The deadline of an SLA (core/sla.py): sla_hours counted in working hours *)
(* only, from Monday to Friday, without holidays.  Time is local and counts *)
(* hours; day 0 is a Monday.  The actions are the steps of the loop.        *)
(***************************************************************************)
EXTENDS Integers, FiniteSets

CONSTANTS
    Hours,     \* hours of a day
    WorkStart, \* work_start
    WorkEnd,   \* work_end
    MaxDay,    \* bound: days on which an SLA starts, or that are holidays
    MaxSla     \* bound: sla_hours

VARIABLES
    opened,    \* start_utc, in local time
    slaHours,  \* sla_hours
    holidays,  \* days that are holidays
    current,   \* the loop: the moment reached
    remaining, \* the loop: hours left
    step       \* the loop: where it is

vars == <<opened, slaHours, holidays, current, remaining, step>>

Init ==
    /\ opened \in 0..(Hours * (MaxDay + 1) - 1)
    /\ slaHours \in 0..MaxSla
    /\ holidays \in SUBSET (0..MaxDay)
    /\ current = opened
    /\ remaining = slaHours
    /\ step = "start"

DayOf(t) == t \div Hours

HourOf(t) == t % Hours

IsBusinessDay(d) == d % 7 < 5 /\ d \notin holidays

\* _next_business_morning.
NextBusinessMorning(t) ==
    Hours * (CHOOSE d \in (DayOf(t) + 1)..(DayOf(t) + MaxDay + 4) :
                /\ IsBusinessDay(d)
                /\ \A e \in (DayOf(t) + 1)..(d - 1) : ~IsBusinessDay(e)) + WorkStart

\* _advance_to_next_work_moment.
NextWorkMoment(t) ==
    IF ~IsBusinessDay(DayOf(t)) \/ HourOf(t) >= WorkEnd THEN NextBusinessMorning(t)
    ELSE IF HourOf(t) < WorkStart THEN Hours * DayOf(t) + WorkStart ELSE t

Start ==
    /\ step = "start"
    /\ current' = NextWorkMoment(opened)
    /\ step' = "loop"
    /\ UNCHANGED <<opened, slaHours, holidays, remaining>>

Available == WorkEnd - HourOf(current)

\* The SLA ends on the day that was reached.
EndsToday ==
    /\ step = "loop" /\ remaining <= Available
    /\ current' = current + remaining
    /\ remaining' = 0
    /\ step' = "done"
    /\ UNCHANGED <<opened, slaHours, holidays>>

\* (As NextDay, with a full day taken from the first one.)
NextDayFull ==
    /\ step = "loop" /\ remaining > Available
    /\ remaining' = IF remaining > WorkEnd - WorkStart THEN remaining - (WorkEnd - WorkStart) ELSE 0
    /\ current' = NextBusinessMorning(current)
    /\ UNCHANGED <<opened, slaHours, holidays, step>>

NextDay ==
    /\ step = "loop" /\ remaining > Available
    /\ remaining' = remaining - Available
    /\ current' = NextBusinessMorning(current)
    /\ UNCHANGED <<opened, slaHours, holidays, step>>

Next == Start \/ EndsToday \/ NextDay

Spec == Init /\ [][Next]_vars

------------------------------------------------------------------------------
(* Properties.                                                             *)

TypeOK ==
    /\ opened \in Nat /\ slaHours \in Nat /\ current \in Nat /\ remaining \in 0..MaxSla
    /\ holidays \subseteq 0..MaxDay /\ step \in {"start", "loop", "done"}

\* The working hours from one moment to another, counted one by one.
WorkingHours(from, to) ==
    Cardinality({t \in from..(to - 1) : IsBusinessDay(DayOf(t)) /\ WorkStart <= HourOf(t) /\ HourOf(t) < WorkEnd})

\* Wherever the loop is, what it has passed and what remains is the SLA.
NothingLost == WorkingHours(opened, current) + remaining = slaHours

\* The deadline is the first moment by which sla_hours working hours have
\* passed (an SLA of no hours ends at the first working moment).
DeadlineIsRight ==
    step = "done" =>
        /\ WorkingHours(opened, current) = slaHours
        /\ IsBusinessDay(DayOf(current)) /\ WorkStart <= HourOf(current) /\ HourOf(current) <= WorkEnd
        /\ slaHours > 0 => WorkingHours(opened, current - 1) = slaHours - 1

SlaIsCounted == NothingLost /\ DeadlineIsRight
=============================================================================
