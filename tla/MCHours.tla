-------------------------------- MODULE MCHours --------------------------------
(***************************************************************************)
(* Small instances of the hour bank and of the rules around it: schedule,   *)
(* status of a punch, SLA, mirror of a day.  They share no row of the model *)
(* (the expected minutes of the day are a constant of the hour bank), so    *)
(* every area is explored by itself, with the others standing still.        *)
(***************************************************************************)
EXTENDS HourBank, TLC

CONSTANTS
    Shift, Off, PlannedDay, Week, Pattern,                    \* Schedule
    Slots, MaxTolerance,                                      \* PunchStatus
    Hours, WorkStart, WorkEnd, MaxHoliday, MaxSla,            \* Sla
    Moments, NightStart, NightEnd, DayShifts, MaxDayPunch     \* Mirror

\* Weeks have days, and so has a rotation (generate_schedule divides by its
\* length: of none, it fails).
PlanAssumption ==
    /\ PlannedDay \in Nat /\ Week \in Nat \ {0}
    /\ Pattern \subseteq [weekly : BOOLEAN, weekdays : SUBSET Int, work : Nat, off : Nat]
    /\ \A p \in Pattern : p.weekly \/ p.work + p.off # 0

ASSUME PlanAssumption

\* A day has slots, and there is a tolerance, if of none.
StatusAssumption == Slots \in Nat \ {0} /\ MaxTolerance \in Nat

ASSUME StatusAssumption

\* Work starts at an hour of a day, and ends at a later one of it.
SlaAssumption ==
    /\ Hours \in Nat /\ WorkStart \in Nat /\ WorkEnd \in Nat
    /\ WorkStart < WorkEnd /\ WorkEnd < Hours
    /\ MaxHoliday \in Nat /\ MaxSla \in Nat

ASSUME SlaAssumption

\* The night ends on a day before it starts on it, and the times of a shift are
\* of a day.
MirrorAssumption ==
    /\ Moments \in Nat /\ NightStart \in 0..Moments /\ NightEnd \in 0..NightStart /\ MaxDayPunch \in Nat
    /\ DayShifts # {}
    /\ DayShifts \subseteq [start : 0..(Moments - 1), end : 0..(Moments - 1),
                            breakStart : 0..(Moments - 1), breakEnd : 0..(Moments - 1)]

ASSUME MirrorAssumption

Forgotten == {[at |-> 1, type |-> "in"], [at |-> 2, type |-> "out"]}

Symmetry == Permutations(Request)

RotatingOrWeekly ==
    {[weekly |-> TRUE, weekdays |-> {0}, work |-> 0, off |-> 0],
     [weekly |-> FALSE, weekdays |-> {}, work |-> 1, off |-> 1]}

\* By day, into the night, and into the night with a break that crosses midnight.
DayAndNight ==
    {[start |-> 2, end |-> 6, breakStart |-> 3, breakEnd |-> 4],
     [start |-> 6, end |-> 2, breakStart |-> 0, breakEnd |-> 1],
     [start |-> 5, end |-> 1, breakStart |-> 7, breakEnd |-> 0]}

VARIABLES
    area,                                             \* what moves
    shifts, entries, edit, asked, generated, stray, crossed, \* Schedule
    schedule, punch, status,                          \* PunchStatus
    opened, slaHours, holidays, current, remaining, step, \* Sla
    m1, m2, m3, m4, m5, m6, m7, m8                    \* Mirror

plan == <<shifts, entries, edit, asked, generated, stray, crossed>>
judged == <<schedule, punch, status>>
sla == <<opened, slaHours, holidays, current, remaining, step>>
mirror == <<m1, m2, m3, m4, m5, m6, m7, m8>>

Sch == INSTANCE Schedule WITH User <- Request, MaxDay <- PlannedDay

Pst == INSTANCE PunchStatus

Ddl == INSTANCE Sla WITH MaxDay <- MaxHoliday

Mir == INSTANCE Mirror WITH
    Slots <- Moments, Shifts <- DayShifts, MaxPunch <- MaxDayPunch,
    forced <- m1, shift <- m2, rest <- m3, cash <- m4, punches <- m5, todo <- m6,
    openIn <- m7, pairs <- m8

Unused == CHOOSE s \in DayShifts : TRUE

Unscheduled == [why |-> "unscheduled", start |-> 0, end |-> 0, tolerance |-> 0]

\* An area that stands still does so in one of its initial states.
MCInit ==
    /\ area \in {"hours", "schedule", "status", "sla", "mirror"}
    /\ Init
    /\ Sch!Init
    /\ IF area = "status" THEN Pst!Init
       ELSE schedule = [d \in 0..1 |-> Unscheduled] /\ punch = [at |-> 0, type |-> "in"] /\ status = "none"
    /\ IF area = "sla" THEN Ddl!Init
       ELSE opened = 0 /\ slaHours = 0 /\ holidays = {} /\ current = 0 /\ remaining = 0 /\ step = "start"
    /\ IF area = "mirror" THEN Mir!Init
       ELSE m1 = "none" /\ m2 = Unused /\ m3 = FALSE /\ m4 = FALSE /\ m5 = <<>> /\ m6 = {} /\ m7 = -1 /\ m8 = <<>>

MCNext ==
    \/ area = "hours" /\ Next /\ UNCHANGED <<area, plan, judged, sla, mirror>>
    \/ area = "schedule" /\ Sch!Next /\ UNCHANGED <<area, vars, judged, sla, mirror>>
    \/ area = "status" /\ Pst!Next /\ UNCHANGED <<area, vars, plan, sla, mirror>>
    \/ area = "sla" /\ Ddl!Next /\ UNCHANGED <<area, vars, plan, judged, mirror>>
    \/ area = "mirror" /\ Mir!Next /\ UNCHANGED <<area, vars, plan, judged, sla>>

MCSpec == MCInit /\ [][MCNext]_<<area, vars, plan, judged, sla, mirror>>

\* Every area keeps its types.
MCTypeOK == TypeOK /\ Sch!TypeOK /\ Pst!TypeOK /\ Ddl!TypeOK /\ Mir!TypeOK

\* The properties of the areas, stated and explained in their modules.
ScheduleIsKept == Sch!ScheduleIsKept

\* The status of a punch, the deadline of an SLA and the mirror of a day.
RulesAreRight == Pst!StatusIsRight /\ Ddl!SlaIsCounted /\ Mir!MirrorIsRight
=============================================================================
