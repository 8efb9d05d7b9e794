--------------------------------- MODULE Mirror ---------------------------------
(***************************************************************************)
(* The punch mirror of one day (domain/timeclock/mirror.py) and what the    *)
(* hour bank makes of the same punches.  A moment stands for as many        *)
(* minutes as it likes; the day has Slots of them, the night is from        *)
(* NightStart of a day to NightEnd of the next.  A day's punches are those  *)
(* of its date, no two at one moment.                                       *)
(***************************************************************************)
EXTENDS Integers, Sequences, FiniteSets

CONSTANTS
    Slots,      \* moments of a day
    NightStart, \* NIGHT_START
    NightEnd,   \* NIGHT_END
    Shifts,     \* shifts of the schedule: [start, end, breakStart, breakEnd]
    MaxPunch    \* bound: punches of the day

VARIABLES
    forced,  \* forced_status: "none" if there is a shift
    shift,   \* the shift of the day, if there is one
    rest,    \* the day is a Sunday or a holiday
    cash,    \* overtime_paid_in_cash, and a salary is known
    punches, \* the punches of the day: moment -> type
    todo,    \* _pair_punches: moments not reached
    openIn,  \* _pair_punches: the open entry, or -1
    pairs    \* _pair_punches: (entry, exit)

vars == <<forced, shift, rest, cash, punches, todo, openIn, pairs>>

Punches == UNION {[at -> {"in", "out"}] : at \in {m \in SUBSET (0..(Slots - 1)) : Cardinality(m) <= MaxPunch}}

Init ==
    /\ forced \in {"none", "day_off", "unscheduled"}
    /\ shift \in Shifts
    /\ forced # "none" => shift = CHOOSE s \in Shifts : TRUE
    /\ rest \in BOOLEAN /\ cash \in BOOLEAN
    /\ punches \in Punches
    /\ todo = DOMAIN punches /\ openIn = -1 /\ pairs = <<>>

Reached == CHOOSE m \in todo : \A n \in todo : m <= n

\* (As Pair, with the first of two entries kept.)
PairFirst ==
    /\ todo # {}
    /\ todo' = todo \ {Reached}
    /\ IF punches[Reached] = "in"
       THEN openIn' = (IF openIn = -1 THEN Reached ELSE openIn) /\ pairs' = pairs
       ELSE openIn' = -1 /\ pairs' = IF openIn = -1 THEN pairs ELSE Append(pairs, <<openIn, Reached>>)
    /\ UNCHANGED <<forced, shift, rest, cash, punches>>

\* One turn of the loop of _pair_punches: an entry replaces an open one, an exit
\* closes it.
Pair ==
    /\ todo # {}
    /\ todo' = todo \ {Reached}
    /\ IF punches[Reached] = "in"
       THEN openIn' = Reached /\ pairs' = pairs
       ELSE openIn' = -1 /\ pairs' = IF openIn = -1 THEN pairs ELSE Append(pairs, <<openIn, Reached>>)
    /\ UNCHANGED <<forced, shift, rest, cash, punches>>

Next == Pair

Spec == Init /\ [][Next]_vars

------------------------------------------------------------------------------
(* What is made of the pairs.                                               *)

Bigger(a, b) == IF a > b THEN a ELSE b

Smaller(a, b) == IF a < b THEN a ELSE b

\* _shift_expected_minutes: a break counts if it ends after it starts.
ShiftExpected(s) ==
    LET total == s.end - s.start + IF s.end < s.start THEN Slots ELSE 0
    IN  Bigger(0, total - Bigger(0, s.breakEnd - s.breakStart))

ExpectedMinutes == IF forced = "none" THEN ShiftExpected(shift) ELSE 0

\* What is added up pair by pair.
Total(amounts) ==
    LET total[n \in 0..Len(amounts)] == IF n = 0 THEN 0 ELSE total[n - 1] + amounts[n]
    IN  total[Len(amounts)]

\* _pair_punches_worked_minutes
WorkedMinutes == Total([i \in DOMAIN pairs |-> pairs[i][2] - pairs[i][1]])

\* The part of a pair in the night that starts on day d (today is day 0).
InNight(p, d) ==
    Bigger(0, Smaller(p[2], (d + 1) * Slots + NightEnd) - Bigger(p[1], d * Slots + NightStart))

\* (As NightTotal, without the night that began the day before.)
NightTonight(p) == InNight(p, 0)

\* The nights from the day before the entry to the day of the exit.
NightTotal(p) == InNight(p, -1) + InNight(p, 0)

\* _night_differential_minutes: NIGHT_COMBINED_RATE is 12/35, rounded.
NightDifferential == Total([i \in DOMAIN pairs |-> (24 * NightTotal(pairs[i]) + 35) \div 70])

\* is_rest_day
IsRestDay == forced = "day_off" \/ rest

\* build_day_mirror
Balance == WorkedMinutes - ExpectedMinutes
Credit == Bigger(0, Balance)
Debit == Bigger(0, -Balance)
Overtime50 == IF IsRestDay THEN 0 ELSE Credit
Overtime100 == IF IsRestDay THEN Credit ELSE 0

\* (As BankBalance, keeping what is paid.)
BankKeeps == WorkedMinutes - ExpectedMinutes

\* recalculate_hour_bank: overtime that is paid is not banked.
BankBalance ==
    LET paid == IF ~cash THEN 0 ELSE IF IsRestDay THEN WorkedMinutes ELSE Credit
    IN  WorkedMinutes - ExpectedMinutes - paid

------------------------------------------------------------------------------
(* Properties.  Time is counted moment by moment.                           *)

\* Every variable keeps its type.
TypeOK ==
    /\ forced \in {"none", "day_off", "unscheduled"} /\ shift \in Shifts
    /\ rest \in BOOLEAN /\ cash \in BOOLEAN
    /\ DOMAIN punches \subseteq 0..(Slots - 1) /\ Cardinality(DOMAIN punches) <= MaxPunch
    /\ \A at \in DOMAIN punches : punches[at] \in {"in", "out"}
    /\ todo \subseteq DOMAIN punches /\ openIn \in {-1} \cup DOMAIN punches
    /\ \A i \in DOMAIN pairs : {pairs[i][1], pairs[i][2]} \subseteq DOMAIN punches

\* The moment from t to t + 1 is worked: the last punch was an entry, and the
\* next one is an exit.
IsWorked(t) ==
    \E from, to \in DOMAIN punches :
        /\ from <= t /\ t < to /\ punches[from] = "in" /\ punches[to] = "out"
        /\ \A m \in DOMAIN punches : m <= from \/ to <= m

Worked == {t \in 0..(Slots - 1) : IsWorked(t)}

WorkedAtNight == {t \in Worked : t < NightEnd \/ NightStart <= t}

\* The loop counts every moment between an entry and the exit that follows it,
\* once, and of the night the moments from NightStart on and before NightEnd.
PairsAreWorked ==
    todo = {} =>
        /\ WorkedMinutes = Cardinality(Worked)
        /\ Total([i \in DOMAIN pairs |-> NightTotal(pairs[i])]) = Cardinality(WorkedAtNight)

\* A day expects the moments of its shift without those of its break, also when
\* the shift ends on the next day (a break that does is not taken off, and one out
\* of the shift is).
ExpectedIsScheduled ==
    LET moments == shift.start..(shift.end - 1 + IF shift.end < shift.start THEN Slots ELSE 0)
        break == shift.breakStart..(shift.breakEnd - 1)
    IN  forced = "none" /\ shift.breakStart <= shift.breakEnd /\ (\A b \in break : \E t \in moments : t % Slots = b) =>
            ExpectedMinutes = Cardinality({t \in moments : t % Slots \notin break})

\* Rounding every pair by itself, the night differential of the day is at most
\* half a minute per pair away from 12/35 of its night.
NightIsRounded ==
    LET night == 24 * Cardinality(WorkedAtNight)
    IN  todo = {} => /\ 70 * NightDifferential - night <= 35 * Len(pairs)
                     /\ night - 70 * NightDifferential <= 35 * Len(pairs)

\* What the mirror of a day shows to be paid and what the bank keeps are
\* together the balance of the mirror, on every day but a paid day of rest for
\* which a shift is scheduled (README, observations).
PaidOrBanked ==
    todo = {} /\ ~(cash /\ IsRestDay /\ ExpectedMinutes > 0) =>
        /\ BankBalance + (IF cash THEN Overtime50 + Overtime100 ELSE 0) = Balance
        /\ cash => BankBalance = -Debit

MirrorIsRight == PairsAreWorked /\ ExpectedIsScheduled /\ NightIsRounded /\ PaidOrBanked
=============================================================================
