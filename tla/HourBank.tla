-------------------------------- MODULE HourBank --------------------------------
(***************************************************************************)
(* One employee and one day of domain/timeclock/service.py: the punches of *)
(* that day, a request of the employee to adjust them, its review by the   *)
(* managers, and the entries of the hour bank: the balance of the day,     *)
(* computed from the punches, and the excusal of the day.  The initial     *)
(* balance, a row of its own, is left out.                                 *)
(*                                                                         *)
(* A request runs in one session at READ COMMITTED.  A review commits      *)
(* twice: create_manual_punch and update_punch commit what they did        *)
(* together with the new status of the adjustment, and the id of the punch *)
(* follows in a second transaction.  Of a row it has loaded a request      *)
(* writes the columns that it changes.  The schedule of the day and the    *)
(* settings of the tenant are constants.                                   *)
(***************************************************************************)
EXTENDS Integers, Sequences, SequencesExt, FiniteSetsExt

CONSTANTS
    Request,      \* requests that may be under way at the same time
    PunchType,    \* punch_type of a punch: "in", "out" or none
    MaxMoment,    \* bound: moments of the day, in minutes
    MaxPunch,     \* bound: punches
    MaxClock,     \* bound: punches, as long as the clock adds them
    Wanted,       \* bound: moments and types to correct a punch to
    MaxExcused,   \* bound: minutes of an excusal
    Expected,     \* expected_minutes of the day
    RestDay,      \* is_rest_day: a day off, a Sunday or a holiday
    OvertimePaidInCash  \* the setting is on and the employee has a salary

ASSUME TypesAssumption == {"in", "out"} \subseteq PunchType
ASSUME NumbersAssumption == MaxMoment \in Nat /\ MaxPunch \in Nat /\ MaxClock <= MaxPunch /\ MaxClock \in Nat
ASSUME ExcusedAssumption == MaxExcused \in Nat /\ Expected \in Nat
ASSUME WantedAssumption == Wanted \subseteq [at : 1..MaxMoment, type : PunchType]
ASSUME SettingsAssumption == RestDay \in BOOLEAN /\ OvertimePaidInCash \in BOOLEAN

VARIABLES
    punches,      \* time_punches of the employee on that day
    adjustment,   \* the row of punch_adjustment_requests
    entry,        \* the row of hour_bank_entries with source "calculated"
    excusal,      \* the row of hour_bank_entries with source "excused"
    req,          \* the requests
    stale,        \* history: the punches are not those that the entry was computed from
    interrupted,  \* history: a review has failed between its two transactions
    overlapped    \* history: two requests have been under way at once

bank == <<entry, excusal, stale>>
vars == <<punches, adjustment, bank, req, interrupted, overlapped>>

Moment == 1..MaxMoment

\* adjusted: create_manual_punch has added it for an adjustment.
Punch == [at : Moment, type : PunchType, adjusted : BOOLEAN]

NoAdjustment == [status |-> "none", punch |-> 0, at |-> 0, type |-> "in", result |-> 0]

NoEntry == [row |-> FALSE, worked |-> 0, balance |-> 0]

NoExcusal == [row |-> FALSE, minutes |-> 0, balance |-> 0]

NoRequest == [op |-> "none", pc |-> "idle", worked |-> 0, entry |-> NoEntry, stale |-> FALSE, row |-> 0]

Init ==
    /\ punches = <<>>
    /\ adjustment = NoAdjustment
    /\ entry = NoEntry
    /\ excusal = NoExcusal
    /\ req = [r \in Request |-> NoRequest]
    /\ stale = FALSE
    /\ interrupted = FALSE
    /\ overlapped = FALSE

------------------------------------------------------------------------------
(* Requests.                                                               *)

Overlap == overlapped' = (overlapped \/ \E r \in Request : req[r] # NoRequest)

Begin(r, request) ==
    /\ req[r] = NoRequest
    /\ req' = [req EXCEPT ![r] = request]
    /\ Overlap
    /\ UNCHANGED <<punches, adjustment, bank, interrupted>>

At(r, op, pc) == req[r].op = op /\ req[r].pc = pc

Respond(r) == req' = [req EXCEPT ![r] = NoRequest]

\* A request fails, or a unique constraint refuses what it writes.
Abort(r) ==
    /\ req[r] # NoRequest
    /\ interrupted' = (interrupted \/ At(r, "review", "finish"))
    /\ Respond(r)
    /\ UNCHANGED <<punches, adjustment, bank, overlapped>>

\* The punches change: an entry computed from them, and a computation that has
\* read them, are out of date.
PunchesChange(new) ==
    /\ punches' = new
    /\ stale' = TRUE

Outdated == [q \in Request |-> [req[q] EXCEPT !.stale = req[q].op = "recalculate"]]

------------------------------------------------------------------------------
(* Punches.                                                                *)

\* ingest_punch, create_manual_punch by a manager, create_mobile_punch.
NewPunch ==
    /\ Len(punches) < MaxClock
    /\ \E at \in Moment, type \in PunchType :
         PunchesChange(Append(punches, [at |-> at, type |-> type, adjusted |-> FALSE]))
    /\ req' = Outdated
    /\ Overlap
    /\ UNCHANGED <<adjustment, entry, excusal, interrupted>>

\* PATCH of a punch, of its time, its type or both.
UpdatePunch(p) ==
    /\ \E wanted \in Wanted :
         PunchesChange([punches EXCEPT ![p].at = wanted.at, ![p].type = wanted.type])
    /\ req' = Outdated
    /\ Overlap
    /\ UNCHANGED <<adjustment, entry, excusal, interrupted>>

------------------------------------------------------------------------------
(* The adjustment: create_punch_adjustment_request and its review.         *)

CreateAdjustment ==
    /\ adjustment = NoAdjustment
    /\ \E p \in 0..Len(punches), wanted \in Wanted :
         adjustment' = [NoAdjustment EXCEPT !.status = "pending", !.punch = p, !.at = wanted.at, !.type = wanted.type]
    /\ Overlap
    /\ UNCHANGED <<punches, bank, req, interrupted>>

\* (As ReviewBegin, without the check of the status.)
ReviewAnyhow(r) ==
    /\ adjustment # NoAdjustment
    /\ \E pc \in {"approve", "reject"} : Begin(r, [NoRequest EXCEPT !.op = "review", !.pc = pc])

ReviewBegin(r) ==
    /\ adjustment.status = "pending"
    /\ \E pc \in {"approve", "reject"} : Begin(r, [NoRequest EXCEPT !.op = "review", !.pc = pc])

\* The punch that was asked for: a new one, or the one to correct, which
\* update_punch loads and writes in one step.
AdjustedPunches ==
    IF adjustment.punch = 0
    THEN Append(punches, [at |-> adjustment.at, type |-> adjustment.type, adjusted |-> TRUE])
    ELSE [punches EXCEPT ![adjustment.punch].at = adjustment.at, ![adjustment.punch].type = adjustment.type]

\* (As AdjustedId, without the case of a correction.)
AdjustedNext == Len(punches) + 1

AdjustedId == IF adjustment.punch = 0 THEN Len(punches) + 1 ELSE adjustment.punch

\* (As Approve, with the punch left to the second transaction.)
ApproveFirst(r) ==
    /\ At(r, "review", "approve")
    /\ adjustment' = [adjustment EXCEPT !.status = "approved"]
    /\ req' = [req EXCEPT ![r].pc = "finish", ![r].row = AdjustedId]
    /\ UNCHANGED <<punches, bank, interrupted, overlapped>>

\* The first transaction: the commit of the punch takes the status along.
Approve(r) ==
    /\ At(r, "review", "approve")
    /\ Len(AdjustedPunches) <= MaxPunch
    /\ PunchesChange(AdjustedPunches)
    /\ adjustment' = [adjustment EXCEPT !.status = "approved"]
    /\ req' = [Outdated EXCEPT ![r].pc = "finish", ![r].row = AdjustedId]
    /\ UNCHANGED <<entry, excusal, interrupted, overlapped>>

\* The second: resulting_punch_id and the event.
FinishReview(r) ==
    /\ At(r, "review", "finish")
    /\ adjustment' = [adjustment EXCEPT !.result = req[r].row]
    /\ Respond(r)
    /\ UNCHANGED <<punches, bank, interrupted, overlapped>>

Reject(r) ==
    /\ At(r, "review", "reject")
    /\ adjustment' = [adjustment EXCEPT !.status = "rejected"]
    /\ Respond(r)
    /\ UNCHANGED <<punches, bank, interrupted, overlapped>>

------------------------------------------------------------------------------
(* recalculate_hour_bank.                                                  *)

\* The punches in order of their time; those of the same moment come in any order.
ByTime(all) ==
    {[i \in DOMAIN s |-> all[s[i]]] :
        s \in {t \in SetToSeqs(DOMAIN all) : \A i, j \in DOMAIN t : i < j => all[t[i]].at <= all[t[j]].at}}

\* (As PairPunch, with the entrance that was paired left open.)
PairAgain(acc, p) ==
    CASE p.type = "in" -> [acc EXCEPT !.open = p.at]
      [] p.type = "out" /\ acc.open # 0 -> [acc EXCEPT !.minutes = @ + p.at - acc.open]
      [] OTHER -> acc

\* One step of _pair_punches: an entrance replaces one without an exit, an exit
\* without an entrance and a punch without a type are ignored.
PairPunch(acc, p) ==
    CASE p.type = "in" -> [acc EXCEPT !.open = p.at]
      [] p.type = "out" /\ acc.open # 0 -> [open |-> 0, minutes |-> acc.minutes + p.at - acc.open]
      [] OTHER -> acc

PairPunches(s) ==
    LET acc[i \in 0..Len(s)] == IF i = 0 THEN [open |-> 0, minutes |-> 0] ELSE PairPunch(acc[i - 1], s[i])
    IN  acc

PairPunchesWorkedMinutes(s) == Max({0, PairPunches(s)[Len(s)].minutes})

RecalculateBegin(r) ==
    /\ req[r] = NoRequest
    /\ \E s \in ByTime(punches) :
        Begin(r, [NoRequest EXCEPT !.op = "recalculate", !.pc = "read", !.worked = PairPunchesWorkedMinutes(s)])

RecalculateRead(r) ==
    /\ At(r, "recalculate", "read")
    /\ req' = [req EXCEPT ![r].pc = "commit", ![r].entry = entry]
    /\ UNCHANGED <<punches, adjustment, bank, interrupted, overlapped>>

Overtime(worked) ==
    IF RestDay THEN worked ELSE Max({0, worked - Expected})

Balance(worked) ==
    IF OvertimePaidInCash THEN worked - Expected - Overtime(worked) ELSE worked - Expected

\* The entry is created once (unique per employee, date and source), or the
\* columns that differ from what was read are updated.
RecalculateCommit(r) ==
    /\ At(r, "recalculate", "commit")
    /\ LET read == req[r].entry
           new == [row |-> TRUE, worked |-> req[r].worked, balance |-> Balance(req[r].worked)]
       IN  /\ read.row \/ ~entry.row
           /\ entry' = [f \in DOMAIN entry |-> IF new[f] = read[f] THEN entry[f] ELSE new[f]]
           /\ stale' = IF entry' = new THEN req[r].stale ELSE stale \/ entry' # entry
    /\ Respond(r)
    /\ UNCHANGED <<punches, adjustment, excusal, interrupted, overlapped>>

------------------------------------------------------------------------------
(* create_punch_excusal, for the whole day or for some minutes of it, and  *)
(* the sum of get_hour_bank_summary over the rows of the day.  Of two that *)
(* create the row one is refused, so that one step models it.              *)

CreateExcusal ==
    /\ \E minutes \in {Expected} \cup 1..MaxExcused :
         excusal' = [row |-> TRUE, minutes |-> minutes, balance |-> 0]
    /\ Overlap
    /\ UNCHANGED <<punches, adjustment, entry, stale, req, interrupted>>

DayBalance == entry.balance + excusal.balance

------------------------------------------------------------------------------

Clock == NewPunch

Employee == CreateAdjustment

Manager(r) ==
    \/ ReviewBegin(r) \/ Approve(r) \/ FinishReview(r) \/ Reject(r)
    \/ RecalculateBegin(r) \/ RecalculateRead(r) \/ RecalculateCommit(r)

Next ==
    \/ Clock \/ Employee
    \/ CreateExcusal
    \/ \E p \in DOMAIN punches : UpdatePunch(p)
    \/ \E r \in Request : Manager(r) \/ Abort(r)

Spec == Init /\ [][Next]_vars

------------------------------------------------------------------------------
(* Properties.                                                             *)

Minutes == 0..MaxMoment

Entry == [row : BOOLEAN, worked : Minutes, balance : (-Expected)..MaxMoment]

Adjustment ==
    {NoAdjustment} \cup
    [status : {"pending", "approved", "rejected"}, punch : 0..Len(punches), at : Moment, type : PunchType,
     result : 0..Len(punches)]

RequestType ==
    [op : {"none", "review", "recalculate"},
     pc : {"idle", "approve", "reject", "finish", "read", "commit"},
     worked : Minutes, entry : Entry, stale : BOOLEAN, row : Nat]

\* Every variable keeps its type: an adjustment names punches that exist, a
\* day has no more minutes than its moments, and a debit is at most the
\* expected time.
TypeOK ==
    /\ punches \in Seq(Punch) /\ Len(punches) <= MaxPunch
    /\ adjustment \in Adjustment
    /\ entry \in Entry
    /\ excusal \in [row : BOOLEAN, minutes : Nat, balance : {0}]
    /\ req \in [Request -> RequestType]
    /\ stale \in BOOLEAN /\ interrupted \in BOOLEAN /\ overlapped \in BOOLEAN

Adjusted == {p \in DOMAIN punches : punches[p].adjusted}

\* However reviews race, and wherever they fail: an approved request for a
\* forgotten punch has its punch, and a review that was not interrupted
\* between its two transactions has recorded which.
ApprovedHasPunch ==
    adjustment.status = "approved" =>
        /\ adjustment.punch = 0 => Adjusted # {}
        /\ ~interrupted /\ (\A r \in Request : ~At(r, "review", "finish")) => adjustment.result # 0

\* docs/escala-de-trabalho.md and test_cannot_review_request_twice: a request is
\* reviewed once, and a rejection creates nothing.  While requests do not overlap,
\* at most one punch comes of it, and only by approval.
ReviewedOnce ==
    ~overlapped =>
        /\ Cardinality(Adjusted) <= 1
        /\ Adjusted # {} => adjustment.status = "approved" /\ adjustment.punch = 0

\* What pairing means: an exit belongs to the entrance before it, with no
\* other entrance or exit in between, and from the one to the other the
\* employee is at work.
Typed(p) == p.type \in {"in", "out"}

Pairs(all, i, o) ==
    /\ i.type = "in" /\ o.type = "out" /\ i.at < o.at
    /\ \A p \in all : Typed(p) => ~(i.at < p.at /\ p.at < o.at)

AtWork(all) ==
    {minute \in 0..MaxMoment : \E i, o \in all : Pairs(all, i, o) /\ i.at <= minute /\ minute < o.at}

Worked == Cardinality(AtWork(Range(punches)))

NoTie(all) == \A p, q \in DOMAIN all : p # q /\ Typed(all[p]) /\ Typed(all[q]) => all[p].at # all[q].at

\* However recalculations, punches and reviews interleave: an entry that was
\* computed from the punches as they are says what pairing them means, and on
\* a day that is no rest day it gives no credit when overtime is paid in cash.
BalanceIsWorked ==
    entry.row /\ ~stale /\ NoTie(punches) =>
        /\ entry.worked = Worked
        /\ ~RestDay => entry.balance = IF OvertimePaidInCash THEN Min({0, Worked - Expected}) ELSE Worked - Expected

\* PunchExcusal, create_punch_excusal and docs/escala-de-trabalho.md: to excuse
\* a day neutralises its effect on the hour bank.
ExcusedIsNeutral == excusal.row /\ excusal.minutes >= Expected => DayBalance >= 0
=============================================================================
