------------------------------ MODULE PunchStatus ------------------------------
(***************************************************************************)
(* The status of a punch (domain/timeclock/service.py): which shift it is   *)
(* judged by, the one scheduled for its day or the overnight shift of the   *)
(* day before, and what that shift says.  Times of day are slots of a day;  *)
(* the punch comes on day 1, and day 0 is the day before.                   *)
(***************************************************************************)
EXTENDS Integers

CONSTANTS
    Slots,       \* bound: slots of a day
    MaxTolerance \* bound: tolerance_minutes of a shift, in slots

VARIABLES
    schedule, \* what days 0 and 1 have: a shift, or why there is none
    punch,    \* the punch: its slot and its type
    status    \* the status that it is given; "none" before

vars == <<schedule, punch, status>>

Slot == 0..(Slots - 1)

\* why: "scheduled" when the day has a shift, or why it has none.
Entry ==
    [why : {"scheduled"}, start : Slot, end : Slot, tolerance : 0..MaxTolerance] \cup
    [why : {"unscheduled", "day_off", "deleted"}, start : {0}, end : {0}, tolerance : {0}]

Init ==
    /\ schedule \in [0..1 -> {e \in Entry : e.why = "scheduled" => e.start # e.end}]
    /\ punch \in [at : Slot, type : {"in", "out", "none"}]
    /\ status = "none"

Overnight(shift) == shift.end < shift.start

\* (As FromTheNightBefore, for any hour of the day.)
FromYesterday == Overnight(schedule[0]) /\ schedule[0].why = "scheduled"

FromTheNightBefore ==
    /\ schedule[0].why = "scheduled"
    /\ Overnight(schedule[0])
    /\ punch.at < schedule[0].start

\* _resolve_schedule_for_punch: an entry of the day decides, unless it has
\* none or its shift has been deleted; then the night before is asked.
ScheduleForPunch ==
    IF schedule[1].why \in {"scheduled", "day_off"} \/ ~FromTheNightBefore THEN schedule[1] ELSE schedule[0]

\* (As StartDay, with a punch at the start taken for one of the night before.)
StartDayLate(shift) == IF Overnight(shift) /\ punch.at <= shift.start THEN 0 ELSE 1

\* The day on which the shift that the punch belongs to began.
StartDay(shift) == IF Overnight(shift) /\ punch.at < shift.start THEN 0 ELSE 1

PunchTime == Slots + punch.at

StartTime(shift) == Slots * StartDay(shift) + shift.start

EndTime(shift) == Slots * (StartDay(shift) + IF Overnight(shift) THEN 1 ELSE 0) + shift.end

Entering(shift) == IF PunchTime > StartTime(shift) + shift.tolerance THEN "late" ELSE "on_time"

\* (As Leaving, with the tolerance on the wrong side.)
LeavingAfter(shift) == IF PunchTime < EndTime(shift) + shift.tolerance THEN "early_leave" ELSE "on_time"

Leaving(shift) == IF PunchTime < EndTime(shift) - shift.tolerance THEN "early_leave" ELSE "on_time"

Distance(t) == IF t > PunchTime THEN t - PunchTime ELSE PunchTime - t

\* evaluate_status: without a type, by the boundary of the shift that is nearer.
EvaluateStatus(shift) ==
    CASE punch.type = "in"  -> Entering(shift)
      [] punch.type = "out" -> Leaving(shift)
      [] OTHER -> IF Distance(StartTime(shift)) <= Distance(EndTime(shift)) THEN Entering(shift) ELSE Leaving(shift)

\* _compute_punch_status.
ComputePunchStatus ==
    /\ status = "none"
    /\ status' = CASE ScheduleForPunch.why = "scheduled" -> EvaluateStatus(ScheduleForPunch)
                   [] ScheduleForPunch.why = "day_off"   -> "day_off"
                   [] OTHER                              -> "unscheduled"
    /\ UNCHANGED <<schedule, punch>>

Next == ComputePunchStatus

Spec == Init /\ [][Next]_vars

------------------------------------------------------------------------------
(* Properties.  A shift scheduled for day d is an interval of time; it      *)
(* needs no heuristics to see in which of them a punch lies.  They are      *)
(* stated for days that have the same shift, or none on day 1: a day off, or *)
(* another shift, hides the night before (README, observations).           *)

TypeOK ==
    /\ schedule \in [0..1 -> Entry] /\ punch \in [at : Slot, type : {"in", "out", "none"}]
    /\ status \in {"none", "on_time", "late", "early_leave", "unscheduled", "day_off"}

Plain ==
    /\ status # "none"
    /\ schedule[1].why \in {"unscheduled", "deleted"} \/ schedule[1] = schedule[0]
       \/ (schedule[1].why = "scheduled" /\ schedule[0].why # "scheduled")

Worked == {d \in 0..1 : schedule[d].why = "scheduled"}

Begins(d) == Slots * d + schedule[d].start

Ends(d) == Slots * d + schedule[d].end + IF Overnight(schedule[d]) THEN Slots ELSE 0

\* A punch within a scheduled shift is judged by that shift, on whichever day
\* it began: never unscheduled, early exactly when it leaves before the end
\* less the tolerance, late exactly when it enters after the start and it.
JudgedByItsShift ==
    Plain => \A d \in Worked : Begins(d) <= PunchTime /\ PunchTime <= Ends(d) =>
        /\ status \in {"on_time", "late", "early_leave"}
        /\ punch.type = "out" => (status = "early_leave" <=> PunchTime < Ends(d) - schedule[d].tolerance)
        /\ punch.type = "in" => (status = "late" <=> PunchTime > Begins(d) + schedule[d].tolerance)

\* Who leaves after a shift that ended on this day, before the next one begins,
\* has not left early.
LeftAfterTheEnd ==
    Plain /\ punch.type = "out" =>
        \A d \in Worked :
            (Slots <= Ends(d) /\ Ends(d) <= PunchTime /\ \A e \in Worked : Begins(e) > Begins(d) => PunchTime < Begins(e))
                => status # "early_leave"

\* A status of presence means that the day, or the night before, had a shift.
PresenceIsScheduled == status \in {"on_time", "late", "early_leave"} => Worked # {}

StatusIsRight == JudgedByItsShift /\ LeftAfterTheEnd /\ PresenceIsScheduled
=============================================================================
