----------------------------- MODULE PunchLedger -----------------------------
(***************************************************************************)
(* What the punch pipeline promises to those who read time_punches: a      *)
(* ledger that only grows, holds only events that happened on the clock,   *)
(* and holds each of them at most once, in whatever order and however late *)
(* they are delivered.                                                     *)
(***************************************************************************)
EXTENDS Integers, Sequences

CONSTANTS User, MaxLog

VARIABLES
    logs,    \* what happened on the clock
    ledger   \* the numbers of the logs that are stored

vars == <<logs, ledger>>

Init == logs = <<>> /\ ledger = <<>>

Happen ==
    /\ Len(logs) < MaxLog
    /\ \E u \in User : logs' = Append(logs, u)
    /\ UNCHANGED ledger

Record ==
    /\ \E i \in 1..Len(logs) :
         /\ \A k \in DOMAIN ledger : ledger[k] # i
         /\ ledger' = Append(ledger, i)
    /\ UNCHANGED logs

Next == Happen \/ Record

Spec == Init /\ [][Next]_vars
==============================================================================
