------------------------------ MODULE MobilePunch ------------------------------
(***************************************************************************)
(* Punches of one employee from the portal (domain/timeclock/service.py):   *)
(* create_mobile_punch checks where the employee is, takes the type from    *)
(* the last punch of the calendar day, and stores the punch.  A double tap  *)
(* is two requests.  The clock and the managers put punches at any time of  *)
(* any day, late or ahead, and a manager may move and retype any punch.     *)
(*                                                                          *)
(* Time is a row of moments, each of a day; a moment has one punch at most. *)
(***************************************************************************)
EXTENDS Integers

CONSTANTS
    Tap,       \* requests of the employee that may be under way at the same time
    MaxMoment, \* bound: moments
    Day        \* Day[m]: the calendar day of moment m

VARIABLES
    place,   \* where the employee is: "near" the location, or "far", or there is none
    moment,  \* the time
    stamps,  \* time_punches of the employee, by punched_at
    tap,     \* the requests
    settled, \* history: punches of the portal that came last on their day, with all
             \* that has been entered or edited since kept away from them and the one before
    doubled  \* history: two requests have been under way at once, or one at midnight

vars == <<place, moment, stamps, tap, settled, doubled>>

Moment == 1..MaxMoment

NoStamp == [type |-> "absent", mobile |-> FALSE]

NoTap == [op |-> "none", type |-> "in", began |-> 1]

Init ==
    /\ place \in {"near", "far"}
    /\ moment = 1
    /\ stamps = [m \in Moment |-> NoStamp]
    /\ tap = [t \in Tap |-> NoTap]
    /\ settled = {}
    /\ doubled = FALSE

Held(s, m) == s[m] # NoStamp

Free == {m \in Moment : ~Held(stamps, m)}

\* Moment m is the next one with a punch after k on the same day.
Adjacent(s, k, m) ==
    /\ k < m /\ Day[k] = Day[m] /\ Held(s, k) /\ Held(s, m)
    /\ \A n \in Moment : k < n /\ n < m => ~Held(s, n)

After(s, k) == {m \in Moment : Adjacent(s, k, m)}

\* (As Today, with the punches of the night before.)
EveryStamp == {m \in Moment : Held(stamps, m)}

\* The punches of the day, those entered for a later hour included.
Today == {m \in Moment : Held(stamps, m) /\ Day[m] = Day[moment]}

\* The last of them, if there is one.
LastToday == {m \in Today : \A k \in Today : k <= m}

\* (As NextExpectedType, with a punch without a type taken for an exit.)
NextUnlessIn == IF \E m \in LastToday : stamps[m].type = "in" THEN "out" ELSE "in"

\* get_next_expected_punch_type.
NextExpectedType == IF \E m \in LastToday : stamps[m].type # "out" THEN "out" ELSE "in"

\* Within the radius of a location that is configured; the type is read.
TapBegin(t) ==
    /\ place = "near"
    /\ tap[t] = NoTap
    /\ tap' = [tap EXCEPT ![t] = [op |-> "punch", type |-> NextExpectedType, began |-> moment]]
    /\ doubled' = (doubled \/ \E o \in Tap : tap[o] # NoTap)
    /\ UNCHANGED <<place, moment, stamps, settled>>

\* The time of the punch was read after its type.
TapCommit(t) ==
    /\ tap[t].op = "punch"
    /\ \E m \in Free \cap tap[t].began..moment :
         /\ stamps' = [stamps EXCEPT ![m] = [type |-> tap[t].type, mobile |-> TRUE]]
         /\ settled' = IF \A k \in Moment : m < k /\ Day[k] = Day[m] => ~Held(stamps, k)
                       THEN settled \cup {m} ELSE settled \ After(stamps', m)
    /\ tap' = [tap EXCEPT ![t] = NoTap]
    /\ UNCHANGED <<place, moment, doubled>>

Abort(t) ==
    /\ tap[t] # NoTap
    /\ tap' = [tap EXCEPT ![t] = NoTap]
    /\ UNCHANGED <<place, moment, stamps, settled, doubled>>

\* "none": no type, or one that is neither.
Type == {"in", "out", "none"}

Meanwhile == doubled' = (doubled \/ \E t \in Tap : tap[t] # NoTap)

\* ingest_punch, create_manual_punch: a punch of the clock, delayed perhaps, or one
\* that a manager enters for any time; it may have no type.
OtherPunch ==
    /\ \E m \in Free, type \in Type :
         /\ stamps' = [stamps EXCEPT ![m] = [type |-> type, mobile |-> FALSE]]
         /\ settled' = settled \ After(stamps', m)
    /\ Meanwhile
    /\ UNCHANGED <<place, moment, tap>>

\* update_punch: any punch gets another time, another type or both.
EditPunch ==
    /\ \E m \in Moment \ Free : \E n \in Free \cup {m}, type \in Type :
         /\ n # m \/ type # stamps[m].type
         /\ stamps' = [stamps EXCEPT ![m] = NoStamp, ![n] = [type |-> type, mobile |-> stamps[m].mobile]]
         /\ settled' = settled \ ({m} \cup After(stamps, m) \cup After(stamps', n))
    /\ Meanwhile
    /\ UNCHANGED <<place, moment, tap>>

\* The employee, or the location of the employee, moves.
Move ==
    /\ place' \in {"near", "far"} \ {place}
    /\ UNCHANGED <<moment, stamps, tap, settled, doubled>>

Tick ==
    /\ moment < MaxMoment
    /\ moment' = moment + 1
    /\ doubled' = (doubled \/ (Day[moment'] # Day[moment] /\ \E t \in Tap : tap[t] # NoTap))
    /\ UNCHANGED <<place, stamps, tap, settled>>

Next == \/ \E t \in Tap : TapBegin(t) \/ TapCommit(t) \/ Abort(t)
        \/ OtherPunch \/ EditPunch \/ Move \/ Tick

Spec == Init /\ [][Next]_vars

------------------------------------------------------------------------------
(* Properties.                                                             *)

TypeOK ==
    /\ place \in {"near", "far"} /\ moment \in Moment
    /\ stamps \in [Moment -> {NoStamp} \cup [type : Type, mobile : BOOLEAN]]
    /\ tap \in [Tap -> [op : {"none", "punch"}, type : {"in", "out"}, began : Moment]]
    /\ settled \subseteq {m \in Moment : stamps[m].mobile} /\ doubled \in BOOLEAN

\* As long as no request overlapped another, a punch from the portal that came
\* last on its day never repeats the type of the punch before it on that day,
\* and opens a day with an entrance; until somebody edits one of the two or
\* enters a punch between them.
PunchesAlternate ==
    ~doubled =>
        \A m \in settled :
            /\ (\A k \in Moment : k < m /\ Day[k] = Day[m] => ~Held(stamps, k)) => stamps[m].type = "in"
            /\ \A k \in Moment : Adjacent(stamps, k, m) =>
                 /\ stamps[m].type # stamps[k].type
                 /\ stamps[k].type = "none" => stamps[m].type = "out"
=============================================================================
