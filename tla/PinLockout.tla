------------------------------- MODULE PinLockout -------------------------------
(***************************************************************************)
(* The PIN of one employee (domain/timeclock/service.py): attempts to log   *)
(* in, the lockout after PIN_MAX_ATTEMPTS wrong ones, changes of the PIN by *)
(* the employee and resets by an administrator.  A request loads the        *)
(* credential and writes the columns that differ from what it has loaded.   *)
(***************************************************************************)
EXTENDS Integers

CONSTANTS
    User,               \* requests that may be under way at the same time
    Pin,                \* PINs
    PIN_MAX_ATTEMPTS,   \* wrong attempts until the lockout
    PIN_LOCKOUT,        \* length of the lockout (15 minutes), in ticks of the clock
    MaxTime,            \* bound: ticks of the clock
    MaxWrong            \* bound: wrong attempts

VARIABLES
    credential,  \* the row of employee_credentials; lockedUntil 0: none
    login,       \* the request of each user
    now,         \* the clock
    wrongs,      \* history: wrong attempts since the counter was cleared
    lastWrong,   \* history: when the last of them was made
    byAdmin,     \* history: the PIN comes from a reset
    parallel     \* history: two requests have been under way at once

vars == <<credential, login, now, wrongs, lastWrong, byAdmin, parallel>>

Credential == [pin : Pin, failed : 0..MaxWrong, lockedUntil : 0..(MaxTime + PIN_LOCKOUT), mustChange : BOOLEAN]

NoCredential == [pin |-> 0, failed |-> 0, lockedUntil |-> 0, mustChange |-> FALSE]

NoLogin == [op |-> "none", pin |-> 0, seen |-> NoCredential]

\* The credential comes from a first reset.
Init ==
    /\ credential \in {[pin |-> p, failed |-> 0, lockedUntil |-> 0, mustChange |-> TRUE] : p \in Pin}
    /\ login = [u \in User |-> NoLogin]
    /\ now = 1
    /\ wrongs = 0 /\ lastWrong = 0 /\ byAdmin = TRUE
    /\ parallel = FALSE

Begin(u, op, pin) ==
    /\ login[u] = NoLogin
    /\ login' = [login EXCEPT ![u] = [op |-> op, pin |-> pin, seen |-> credential]]
    /\ parallel' = (parallel \/ \E v \in User : login[v] # NoLogin)
    /\ UNCHANGED <<credential, now, wrongs, lastWrong, byAdmin>>

Finish(u) == login' = [login EXCEPT ![u] = NoLogin]

\* What the ORM makes of the row; a new hash of a PIN always differs.
Write(seen, wanted) ==
    credential' = [c \in DOMAIN credential |->
        IF c # "pin" /\ wanted[c] = seen[c] THEN credential[c]
        ELSE IF c = "pin" /\ wanted[c] = 0 THEN credential[c] ELSE wanted[c]]

\* The PIN is not written.
Keep == 0

------------------------------------------------------------------------------
(* authenticate_employee: any PIN is tried.                                *)

NotLocked == credential.lockedUntil <= now

LoginBegin(u) == NotLocked /\ \E p \in Pin : Begin(u, "login", p)

\* (As Failed, with the count started again once the lockout is over.)
FailedAfresh(seen) ==
    LET n == IF seen.lockedUntil # 0 THEN 1 ELSE seen.failed + 1
    IN  [seen EXCEPT !.pin = Keep, !.failed = n,
                     !.lockedUntil = IF n >= PIN_MAX_ATTEMPTS THEN now + PIN_LOCKOUT ELSE @]

\* An expired lockout leaves the count: the next wrong PIN locks again.
Failed(seen) ==
    [seen EXCEPT !.pin = Keep, !.failed = @ + 1,
                 !.lockedUntil = IF seen.failed + 1 >= PIN_MAX_ATTEMPTS THEN now + PIN_LOCKOUT ELSE @]

WrongPin(u) ==
    /\ login[u].op = "login" /\ login[u].pin # login[u].seen.pin
    /\ wrongs < MaxWrong /\ login[u].seen.failed < MaxWrong
    /\ Write(login[u].seen, Failed(login[u].seen))
    /\ wrongs' = wrongs + 1 /\ lastWrong' = now
    /\ Finish(u)
    /\ UNCHANGED <<now, byAdmin, parallel>>

Cleared(seen) == [seen EXCEPT !.pin = Keep, !.failed = 0, !.lockedUntil = 0]

RightPin(u) ==
    /\ login[u].op = "login" /\ login[u].pin = login[u].seen.pin
    /\ Write(login[u].seen, Cleared(login[u].seen))
    /\ wrongs' = 0 /\ lastWrong' = 0
    /\ Finish(u)
    /\ UNCHANGED <<now, byAdmin, parallel>>

------------------------------------------------------------------------------
(* reset_employee_pin and set_employee_pin.                                *)

ResetBegin(u) == \E p \in Pin : Begin(u, "reset", p)

ResetCommit(u) ==
    /\ login[u].op = "reset"
    /\ Write(login[u].seen, [Cleared(login[u].seen) EXCEPT !.pin = login[u].pin, !.mustChange = TRUE])
    /\ wrongs' = 0 /\ lastWrong' = 0 /\ byAdmin' = TRUE
    /\ Finish(u)
    /\ UNCHANGED <<now, parallel>>

\* The old PIN is asked for unless the PIN must be changed.
SetBegin(u) ==
    \E p, old \in Pin :
        /\ credential.mustChange \/ old = credential.pin
        /\ Begin(u, "set", p)

\* (As SetCommit, with the obligation to change the PIN left as it is.)
SetOnly(u) ==
    /\ login[u].op = "set"
    /\ Write(login[u].seen, [Cleared(login[u].seen) EXCEPT !.pin = login[u].pin])
    /\ wrongs' = 0 /\ lastWrong' = 0 /\ byAdmin' = FALSE
    /\ Finish(u)
    /\ UNCHANGED <<now, parallel>>

SetCommit(u) ==
    /\ login[u].op = "set"
    /\ Write(login[u].seen, [Cleared(login[u].seen) EXCEPT !.pin = login[u].pin, !.mustChange = FALSE])
    /\ wrongs' = 0 /\ lastWrong' = 0 /\ byAdmin' = FALSE
    /\ Finish(u)
    /\ UNCHANGED <<now, parallel>>

Abort(u) ==
    /\ login[u] # NoLogin
    /\ Finish(u)
    /\ UNCHANGED <<credential, now, wrongs, lastWrong, byAdmin, parallel>>

Tick ==
    /\ now < MaxTime
    /\ now' = now + 1
    /\ UNCHANGED <<credential, login, wrongs, lastWrong, byAdmin, parallel>>

Next ==
    \/ \E u \in User :
         \/ LoginBegin(u) \/ WrongPin(u) \/ RightPin(u)
         \/ ResetBegin(u) \/ ResetCommit(u) \/ SetBegin(u) \/ SetCommit(u) \/ Abort(u)
    \/ Tick

Spec == Init /\ [][Next]_vars

------------------------------------------------------------------------------
(* Properties.                                                             *)

\* Every variable keeps its type.
TypeOK ==
    /\ credential \in Credential
    /\ DOMAIN login = User /\ now \in 1..MaxTime
    /\ wrongs \in 0..MaxWrong /\ lastWrong \in 0..MaxTime /\ byAdmin \in BOOLEAN /\ parallel \in BOOLEAN

\* As long as no two requests overlapped, every wrong PIN since the last
\* success, change or reset counts, and from PIN_MAX_ATTEMPTS on each of them
\* locks for the full time: guesses come no faster than one in a lockout.
EveryWrongCounts ==
    ~parallel =>
        /\ credential.failed = wrongs
        /\ credential.lockedUntil = IF wrongs >= PIN_MAX_ATTEMPTS THEN lastWrong + PIN_LOCKOUT ELSE 0

\* However requests interleave, no lockout reaches further than its full time
\* from now: nobody is locked out for good.
NoEndlessLock == credential.lockedUntil <= now + PIN_LOCKOUT

\* As long as no two requests overlapped, the PIN of a reset must be changed,
\* and no other.
ResetMustBeChanged == ~parallel => (credential.mustChange <=> byAdmin)

LockoutCounts == EveryWrongCounts /\ NoEndlessLock /\ ResetMustBeChanged
=============================================================================
