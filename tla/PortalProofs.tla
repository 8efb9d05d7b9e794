----------------------------- MODULE PortalProofs -----------------------------
(***************************************************************************)
(* Proofs about the portal of an employee, as MCTenant composes it: the PIN, *)
(* the punches from the telephone, the vacations and the payslips.  Each of  *)
(* the four has an inductive invariant, established by its initial states    *)
(* and kept by its actions; the rest of the tenant leaves them unchanged.    *)
(***************************************************************************)
EXTENDS MCTenant, Counting

(***************************************************************************)
(* The PIN.                                                                 *)
(***************************************************************************)
Attempt ==
    [op : {"none", "login", "reset", "set"}, pin : Pin \cup {0}, seen : Lck!Credential \cup {Lck!NoCredential}]

\* No two requests have overlapped: the one that is under way has seen the row
\* as it is.
PinSerial ==
    ~parallel =>
        /\ \A u, v \in Request : login[u] # Lck!NoLogin /\ login[v] # Lck!NoLogin => u = v
        /\ \A u \in Request : login[u] # Lck!NoLogin => login[u].seen = credential

PinInv ==
    /\ Lck!TypeOK /\ Lck!LockoutCounts
    /\ login \in [Request -> Attempt]
    /\ \A u \in Request : login[u] # Lck!NoLogin => login[u].pin \in Pin /\ login[u].seen \in Lck!Credential
    /\ PinSerial

LEMMA PinNumbers ==
    /\ PIN_MAX_ATTEMPTS \in Nat \ {0} /\ PIN_LOCKOUT \in Nat \ {0} /\ MaxTime \in Nat \ {0} /\ MaxWrong \in Nat
    /\ \A p \in Pin : p \in Nat /\ p # 0
    BY LimitsAssumption, CapsAssumption, NamesAssumption DEF LimitsAssumption, CapsAssumption, NamesAssumption

LEMMA PinTypes ==
    ASSUME Lck!TypeOK
    PROVE  /\ credential.pin \in Pin /\ credential.failed \in 0..MaxWrong /\ credential.mustChange \in BOOLEAN
           /\ credential.lockedUntil \in 0..(MaxTime + PIN_LOCKOUT)
           /\ credential.failed \in Nat /\ credential.lockedUntil \in Nat
           /\ now \in Nat /\ now <= MaxTime /\ now >= 1 /\ wrongs \in Nat /\ lastWrong \in Nat
           /\ now + PIN_LOCKOUT \in 0..(MaxTime + PIN_LOCKOUT)
    BY PinNumbers DEF Lck!TypeOK, Lck!Credential

LEMMA NoLoginIs == Lck!NoLogin \in Attempt /\ Lck!NoLogin.op = "none"
    BY DEF Lck!NoLogin, Attempt

\* The columns that a commit writes.
LEMMA PinWritten ==
    ASSUME credential \in Lck!Credential, NEW seen \in Lck!Credential,
           NEW p, NEW failed, NEW until, NEW must,
           Lck!Write(seen, [pin |-> p, failed |-> failed, lockedUntil |-> until, mustChange |-> must])
    PROVE  credential' = [pin |-> IF p = 0 THEN credential.pin ELSE p,
                          failed |-> IF failed = seen.failed THEN credential.failed ELSE failed,
                          lockedUntil |-> IF until = seen.lockedUntil THEN credential.lockedUntil ELSE until,
                          mustChange |-> IF must = seen.mustChange THEN credential.mustChange ELSE must]
<1> DEFINE w == [pin |-> p, failed |-> failed, lockedUntil |-> until, mustChange |-> must]
           C == {"pin", "failed", "lockedUntil", "mustChange"}
<1>1. DOMAIN credential = C
    BY DEF Lck!Credential
<1>2. credential' = [c \in C |->
        IF c # "pin" /\ w[c] = seen[c] THEN credential[c]
        ELSE IF c = "pin" /\ w[c] = 0 THEN credential[c] ELSE w[c]]
    BY <1>1 DEF Lck!Write
<1>3. w["pin"] = p /\ w["failed"] = failed /\ w["lockedUntil"] = until /\ w["mustChange"] = must
    OBVIOUS
<1> HIDE DEF w
<1>4. credential' = [pin |-> IF p = 0 THEN credential.pin ELSE p,
                     failed |-> IF failed = seen.failed THEN credential.failed ELSE failed,
                     lockedUntil |-> IF until = seen.lockedUntil THEN credential.lockedUntil ELSE until,
                     mustChange |-> IF must = seen.mustChange THEN credential.mustChange ELSE must]
    BY <1>2, <1>3
<1> QED
    BY <1>4

\* What becomes of the columns that a request has seen.
LEMMA PinSeen ==
    ASSUME NEW s \in Lck!Credential
    PROVE  /\ Lck!Failed(s) =
                [pin |-> 0, failed |-> s.failed + 1,
                 lockedUntil |-> IF s.failed + 1 >= PIN_MAX_ATTEMPTS THEN now + PIN_LOCKOUT ELSE s.lockedUntil,
                 mustChange |-> s.mustChange]
           /\ Lck!Cleared(s) = [pin |-> 0, failed |-> 0, lockedUntil |-> 0, mustChange |-> s.mustChange]
           /\ \A p \in Pin, must \in BOOLEAN :
                [Lck!Cleared(s) EXCEPT !.pin = p, !.mustChange = must]
                    = [pin |-> p, failed |-> 0, lockedUntil |-> 0, mustChange |-> must]
<1>1. ASSUME NEW failed, NEW until
      PROVE  [s EXCEPT !.pin = 0, !.failed = failed, !.lockedUntil = until]
                = [pin |-> 0, failed |-> failed, lockedUntil |-> until, mustChange |-> s.mustChange]
    <2> DEFINE e == [s EXCEPT !.pin = 0]
               f == [e EXCEPT !.failed = failed]
               g == [f EXCEPT !.lockedUntil = until]
    <2>1. e = [pin |-> 0, failed |-> s.failed, lockedUntil |-> s.lockedUntil, mustChange |-> s.mustChange]
        BY DEF Lck!Credential
    <2>2. f = [pin |-> 0, failed |-> failed, lockedUntil |-> s.lockedUntil, mustChange |-> s.mustChange]
        <3> HIDE DEF e
        <3> QED
            BY <2>1
    <2>3. g = [pin |-> 0, failed |-> failed, lockedUntil |-> until, mustChange |-> s.mustChange]
        <3> HIDE DEF f
        <3> QED
            BY <2>2
    <2> QED
        BY <2>3
<1>2. ASSUME NEW p, NEW must, NEW was
      PROVE  [[pin |-> 0, failed |-> 0, lockedUntil |-> 0, mustChange |-> was] EXCEPT !.pin = p, !.mustChange = must]
                = [pin |-> p, failed |-> 0, lockedUntil |-> 0, mustChange |-> must]
    <2> DEFINE c == [pin |-> 0, failed |-> 0, lockedUntil |-> 0, mustChange |-> was]
               e == [c EXCEPT !.pin = p]
               f == [e EXCEPT !.mustChange = must]
    <2>1. e = [x \in {"pin", "failed", "lockedUntil", "mustChange"} |-> IF x = "pin" THEN p ELSE c[x]]
        OBVIOUS
    <2>2. e = [pin |-> p, failed |-> 0, lockedUntil |-> 0, mustChange |-> was]
        BY <2>1
    <2>3. f = [x \in {"pin", "failed", "lockedUntil", "mustChange"} |-> IF x = "mustChange" THEN must ELSE e[x]]
        <3> HIDE DEF e
        <3> QED
            BY <2>2
    <2>4. f = [pin |-> p, failed |-> 0, lockedUntil |-> 0, mustChange |-> must]
        <3> HIDE DEF e, f
        <3> QED
            BY <2>2, <2>3
    <2> QED
        BY <2>4
<1>3. Lck!Cleared(s) = [pin |-> 0, failed |-> 0, lockedUntil |-> 0, mustChange |-> s.mustChange]
    BY <1>1 DEF Lck!Cleared, Lck!Keep
<1>4. Lck!Failed(s) = [s EXCEPT !.pin = 0, !.failed = s.failed + 1,
        !.lockedUntil = IF s.failed + 1 >= PIN_MAX_ATTEMPTS THEN now + PIN_LOCKOUT ELSE s.lockedUntil]
    BY DEF Lck!Failed, Lck!Keep, Lck!Credential
<1>5. Lck!Failed(s) =
        [pin |-> 0, failed |-> s.failed + 1,
         lockedUntil |-> IF s.failed + 1 >= PIN_MAX_ATTEMPTS THEN now + PIN_LOCKOUT ELSE s.lockedUntil,
         mustChange |-> s.mustChange]
    BY <1>1, <1>4
<1>6. ASSUME NEW p \in Pin, NEW must \in BOOLEAN
      PROVE  [Lck!Cleared(s) EXCEPT !.pin = p, !.mustChange = must]
                = [pin |-> p, failed |-> 0, lockedUntil |-> 0, mustChange |-> must]
    <2> DEFINE c == [pin |-> 0, failed |-> 0, lockedUntil |-> 0, mustChange |-> s.mustChange]
    <2>1. [c EXCEPT !.pin = p, !.mustChange = must] = [pin |-> p, failed |-> 0, lockedUntil |-> 0, mustChange |-> must]
        BY <1>2
    <2>2. Lck!Cleared(s) = c
        BY <1>3
    <2> HIDE DEF c
    <2> QED
        BY <2>1, <2>2
<1> QED
    BY <1>3, <1>5, <1>6

LEMMA PinInit == Lck!Init => PinInv
<1> SUFFICES ASSUME Lck!Init PROVE PinInv
    OBVIOUS
<1>1. PICK p \in Pin : credential = [pin |-> p, failed |-> 0, lockedUntil |-> 0, mustChange |-> TRUE]
    BY DEF Lck!Init
<1>2. credential \in Lck!Credential
    BY <1>1, PinNumbers DEF Lck!Credential
<1>3. Lck!TypeOK
    <2>1. DOMAIN login = Request
        BY DEF Lck!Init
    <2>2. now \in 1..MaxTime /\ wrongs \in 0..MaxWrong /\ lastWrong \in 0..MaxTime
        BY PinNumbers DEF Lck!Init
    <2>3. byAdmin \in BOOLEAN /\ parallel \in BOOLEAN
        BY DEF Lck!Init
    <2> QED
        BY <1>2, <2>1, <2>2, <2>3 DEF Lck!TypeOK
<1>4. Lck!LockoutCounts
    BY <1>1, PinNumbers DEF Lck!Init, Lck!LockoutCounts, Lck!EveryWrongCounts, Lck!NoEndlessLock, Lck!ResetMustBeChanged
<1>5. \A u \in Request : login[u] = Lck!NoLogin
    BY DEF Lck!Init
<1>6. login \in [Request -> Attempt]
    BY NoLoginIs DEF Lck!Init
<1> QED
    BY <1>3, <1>4, <1>5, <1>6 DEF PinInv, PinSerial

LEMMA PinBegins ==
    ASSUME PinInv, NEW u \in Request, NEW op \in {"login", "reset", "set"}, NEW p \in Pin, Lck!Begin(u, op, p)
    PROVE  PinInv'
<1> DEFINE r == [op |-> op, pin |-> p, seen |-> credential]
<1>1. /\ login[u] = Lck!NoLogin /\ login' = [login EXCEPT ![u] = r]
      /\ parallel' = (parallel \/ \E v \in Request : login[v] # Lck!NoLogin)
      /\ UNCHANGED <<credential, now, wrongs, lastWrong, byAdmin>>
    BY DEF Lck!Begin
<1>2. credential \in Lck!Credential
    BY DEF PinInv, Lck!TypeOK
<1>3. r \in Attempt /\ r.pin = p /\ r.seen = credential
    BY <1>2 DEF Attempt
<1> HIDE DEF r
<1>4. login' \in [Request -> Attempt] /\ \A v \in Request : login'[v] = IF v = u THEN r ELSE login[v]
    BY <1>1, <1>3 DEF PinInv
<1>5. Lck!TypeOK'
    BY <1>1, <1>4 DEF PinInv, Lck!TypeOK, Lck!Credential
<1>6. parallel' \in BOOLEAN /\ (~parallel' => ~parallel /\ \A v \in Request : login[v] = Lck!NoLogin)
    BY <1>1 DEF PinInv, Lck!TypeOK
<1>7. Lck!LockoutCounts'
    BY <1>1, <1>6 DEF PinInv, Lck!LockoutCounts, Lck!EveryWrongCounts, Lck!NoEndlessLock, Lck!ResetMustBeChanged
<1>8. PinSerial'
    BY <1>1, <1>3, <1>4, <1>6 DEF PinSerial
<1> QED
    BY <1>1, <1>2, <1>3, <1>4, <1>5, <1>7, <1>8 DEF PinInv

\* What the end of a request leaves to show: the row and what history says of it.
LEMMA PinEnds ==
    ASSUME PinInv, NEW u \in Request, Lck!Finish(u), UNCHANGED <<now, parallel>>,
           login[u] # Lck!NoLogin,
           credential' \in Lck!Credential, Lck!LockoutCounts',
           wrongs' \in 0..MaxWrong, lastWrong' \in 0..MaxTime, byAdmin' \in BOOLEAN
    PROVE  PinInv'
<1>1. login' \in [Request -> Attempt] /\ \A v \in Request : login'[v] = IF v = u THEN Lck!NoLogin ELSE login[v]
    BY NoLoginIs DEF PinInv, Lck!Finish
<1>2. Lck!TypeOK'
    BY <1>1 DEF PinInv, Lck!TypeOK, Lck!Credential
<1>3. PinSerial'
    BY <1>1 DEF PinInv, PinSerial
<1> QED
    BY <1>1, <1>2, <1>3 DEF PinInv

LEMMA PinWrong == ASSUME PinInv, NEW u \in Request, Lck!WrongPin(u) PROVE PinInv'
<1> DEFINE s == login[u].seen
           n == s.failed + 1
           until == IF n >= PIN_MAX_ATTEMPTS THEN now + PIN_LOCKOUT ELSE s.lockedUntil
           w == [pin |-> 0, failed |-> n, lockedUntil |-> until, mustChange |-> s.mustChange]
<1>1. login[u] # Lck!NoLogin /\ s \in Lck!Credential /\ s.failed < MaxWrong /\ wrongs < MaxWrong
    BY NoLoginIs DEF PinInv, Lck!WrongPin
<1>2. /\ s.failed \in 0..MaxWrong /\ s.lockedUntil \in 0..(MaxTime + PIN_LOCKOUT) /\ s.mustChange \in BOOLEAN
      /\ s = [pin |-> s.pin, failed |-> s.failed, lockedUntil |-> s.lockedUntil, mustChange |-> s.mustChange]
    BY <1>1 DEF Lck!Credential
<1>3. Lck!Failed(s) = w
    BY <1>1, PinSeen
<1>4. Lck!Write(s, w) /\ wrongs' = wrongs + 1 /\ lastWrong' = now /\ Lck!Finish(u) /\ UNCHANGED <<now, byAdmin, parallel>>
    BY <1>3 DEF Lck!WrongPin
<1>5. credential \in Lck!Credential
    BY DEF PinInv, Lck!TypeOK
<1>6. credential' = [pin |-> credential.pin,
                     failed |-> IF n = s.failed THEN credential.failed ELSE n,
                     lockedUntil |-> IF until = s.lockedUntil THEN credential.lockedUntil ELSE until,
                     mustChange |-> credential.mustChange]
    BY <1>1, <1>4, <1>5, PinWritten
<1>7. n # s.failed /\ n \in 0..MaxWrong /\ until \in 0..(MaxTime + PIN_LOCKOUT)
    BY <1>1, <1>2, PinNumbers, PinTypes DEF PinInv
<1>8. /\ credential'.pin = credential.pin /\ credential'.failed = n /\ credential'.mustChange = credential.mustChange
      /\ credential'.lockedUntil = IF until = s.lockedUntil THEN credential.lockedUntil ELSE until
    BY <1>6, <1>7
<1>9. credential' \in Lck!Credential
    <2>1. credential.pin \in Pin /\ credential.mustChange \in BOOLEAN /\ credential.lockedUntil \in 0..(MaxTime + PIN_LOCKOUT)
        BY PinTypes DEF PinInv
    <2> HIDE DEF n, until, s
    <2> QED
        BY <1>6, <1>7, <2>1 DEF Lck!Credential
<1>10. Lck!NoEndlessLock'
    BY <1>2, <1>4, <1>8, PinNumbers, PinTypes DEF PinInv, Lck!NoEndlessLock, Lck!LockoutCounts
<1>11. Lck!ResetMustBeChanged'
    BY <1>4, <1>8 DEF PinInv, Lck!ResetMustBeChanged, Lck!LockoutCounts
<1>12. Lck!EveryWrongCounts'
    <2> SUFFICES ASSUME ~parallel PROVE
            /\ credential'.failed = wrongs'
            /\ credential'.lockedUntil = IF wrongs' >= PIN_MAX_ATTEMPTS THEN lastWrong' + PIN_LOCKOUT ELSE 0
        BY <1>4 DEF Lck!EveryWrongCounts
    <2>1. s = credential
        BY <1>1 DEF PinInv, PinSerial
    <2>2. credential.failed = wrongs /\ credential.lockedUntil = IF wrongs >= PIN_MAX_ATTEMPTS THEN lastWrong + PIN_LOCKOUT ELSE 0
        BY DEF PinInv, Lck!LockoutCounts, Lck!EveryWrongCounts
    <2>3. wrongs \in Nat /\ now \in Nat /\ lastWrong \in Nat
        BY PinTypes DEF PinInv
    <2>4. n = wrongs + 1 /\ until = IF n >= PIN_MAX_ATTEMPTS THEN now + PIN_LOCKOUT ELSE credential.lockedUntil
        BY <2>1, <2>2
    <2>5. credential'.lockedUntil = until
        BY <1>8, <2>1
    <2> HIDE DEF n, until, s
    <2> QED
        BY <1>4, <1>8, <2>2, <2>3, <2>4, <2>5, PinNumbers
<1>13. wrongs' \in 0..MaxWrong /\ lastWrong' \in 0..MaxTime /\ byAdmin' \in BOOLEAN
    BY <1>1, <1>4, PinTypes, PinNumbers DEF PinInv, Lck!TypeOK
<1> QED
    BY <1>1, <1>4, <1>9, <1>10, <1>11, <1>12, <1>13, PinEnds DEF Lck!LockoutCounts

\* A success, a reset and a change clear the counter; of the latter, the first
\* makes the PIN one that must be changed.
LEMMA PinClears ==
    ASSUME PinInv, NEW u \in Request, login[u] # Lck!NoLogin, NEW p \in Pin \cup {0}, NEW must \in BOOLEAN,
           Lck!Write(login[u].seen, [pin |-> p, failed |-> 0, lockedUntil |-> 0, mustChange |-> must]),
           wrongs' = 0, lastWrong' = 0, Lck!Finish(u), UNCHANGED <<now, parallel>>,
           byAdmin' \in BOOLEAN,
           \/ must = login[u].seen.mustChange /\ byAdmin' = byAdmin
           \/ must = byAdmin'
    PROVE  PinInv'
<1> DEFINE s == login[u].seen
<1>1. s \in Lck!Credential /\ credential \in Lck!Credential
    BY DEF PinInv, Lck!TypeOK
<1>2. credential' = [pin |-> IF p = 0 THEN credential.pin ELSE p,
                     failed |-> IF 0 = s.failed THEN credential.failed ELSE 0,
                     lockedUntil |-> IF 0 = s.lockedUntil THEN credential.lockedUntil ELSE 0,
                     mustChange |-> IF must = s.mustChange THEN credential.mustChange ELSE must]
    BY <1>1, PinWritten
<1> HIDE DEF s
<1>3. /\ credential'.failed = IF 0 = s.failed THEN credential.failed ELSE 0
      /\ credential'.lockedUntil = IF 0 = s.lockedUntil THEN credential.lockedUntil ELSE 0
      /\ credential'.mustChange = IF must = s.mustChange THEN credential.mustChange ELSE must
    BY <1>2
<1>4. /\ credential.pin \in Pin /\ credential.mustChange \in BOOLEAN
      /\ credential.failed \in 0..MaxWrong /\ credential.lockedUntil \in 0..(MaxTime + PIN_LOCKOUT)
    BY PinTypes DEF PinInv
<1>5. 0 \in 0..MaxWrong /\ 0 \in 0..(MaxTime + PIN_LOCKOUT) /\ 0 \in 0..MaxTime
    BY PinNumbers
<1>6. /\ (IF p = 0 THEN credential.pin ELSE p) \in Pin
      /\ (IF 0 = s.failed THEN credential.failed ELSE 0) \in 0..MaxWrong
      /\ (IF 0 = s.lockedUntil THEN credential.lockedUntil ELSE 0) \in 0..(MaxTime + PIN_LOCKOUT)
      /\ (IF must = s.mustChange THEN credential.mustChange ELSE must) \in BOOLEAN
    BY <1>4, <1>5
<1>7. credential' \in Lck!Credential
    BY <1>2, <1>6 DEF Lck!Credential
<1>8. Lck!NoEndlessLock'
    BY <1>3, <1>4, PinNumbers, PinTypes DEF PinInv, Lck!NoEndlessLock, Lck!LockoutCounts
<1>9. ~parallel => s = credential
    BY DEF PinInv, PinSerial, s
<1>10. Lck!EveryWrongCounts'
    BY <1>3, <1>9, PinNumbers DEF Lck!EveryWrongCounts
<1>11. Lck!ResetMustBeChanged'
    <2> SUFFICES ASSUME ~parallel PROVE credential'.mustChange <=> byAdmin'
        BY DEF Lck!ResetMustBeChanged
    <2>1. s = credential
        BY <1>9
    <2>2. credential'.mustChange = must
        BY <1>3, <2>1
    <2>3. credential.mustChange <=> byAdmin
        BY DEF PinInv, Lck!LockoutCounts, Lck!ResetMustBeChanged
    <2>4. CASE must = login[u].seen.mustChange /\ byAdmin' = byAdmin
        BY <2>1, <2>2, <2>3, <2>4 DEF s
    <2>5. CASE must = byAdmin'
        BY <2>2, <2>5
    <2> QED
        BY <2>4, <2>5
<1> QED
    BY <1>5, <1>7, <1>8, <1>10, <1>11, PinEnds DEF Lck!LockoutCounts

LEMMA PinCommits ==
    ASSUME PinInv, NEW u \in Request, Lck!RightPin(u) \/ Lck!ResetCommit(u) \/ Lck!SetCommit(u)
    PROVE  PinInv'
<1> DEFINE s == login[u].seen
           p == login[u].pin
           Clear(q, must) == [pin |-> q, failed |-> 0, lockedUntil |-> 0, mustChange |-> must]
<1>1. login[u] # Lck!NoLogin /\ s \in Lck!Credential /\ p \in Pin
    BY NoLoginIs DEF PinInv, Lck!RightPin, Lck!ResetCommit, Lck!SetCommit
<1>2. s = [pin |-> s.pin, failed |-> s.failed, lockedUntil |-> s.lockedUntil, mustChange |-> s.mustChange]
      /\ s.mustChange \in BOOLEAN
    BY <1>1 DEF Lck!Credential
<1>3. Lck!Cleared(s) = Clear(0, s.mustChange)
    BY <1>1, PinSeen
<1>4. /\ [Lck!Cleared(s) EXCEPT !.pin = p, !.mustChange = TRUE] = Clear(p, TRUE)
      /\ [Lck!Cleared(s) EXCEPT !.pin = p, !.mustChange = FALSE] = Clear(p, FALSE)
    BY <1>1, PinSeen
<1>5. CASE Lck!RightPin(u)
    <2>1. /\ Lck!Write(s, Clear(0, s.mustChange)) /\ wrongs' = 0 /\ lastWrong' = 0 /\ Lck!Finish(u)
          /\ UNCHANGED <<now, byAdmin, parallel>>
        BY <1>3, <1>5 DEF Lck!RightPin
    <2>2. byAdmin' \in BOOLEAN /\ byAdmin' = byAdmin
        BY <2>1 DEF PinInv, Lck!TypeOK
    <2> QED
        BY <1>1, <1>2, <2>1, <2>2, PinClears
<1>6. CASE Lck!ResetCommit(u)
    <2>1. /\ Lck!Write(s, Clear(p, TRUE)) /\ wrongs' = 0 /\ lastWrong' = 0 /\ Lck!Finish(u) /\ byAdmin' = TRUE
          /\ UNCHANGED <<now, parallel>>
        BY <1>4, <1>6 DEF Lck!ResetCommit
    <2> QED
        BY <1>1, <2>1, PinClears
<1>7. CASE Lck!SetCommit(u)
    <2>1. /\ Lck!Write(s, Clear(p, FALSE)) /\ wrongs' = 0 /\ lastWrong' = 0 /\ Lck!Finish(u) /\ byAdmin' = FALSE
          /\ UNCHANGED <<now, parallel>>
        BY <1>4, <1>7 DEF Lck!SetCommit
    <2> QED
        BY <1>1, <2>1, PinClears
<1> QED
    BY <1>5, <1>6, <1>7

LEMMA PinStops ==
    ASSUME PinInv, (\E u \in Request : Lck!Abort(u)) \/ Lck!Tick \/ UNCHANGED pin
    PROVE  PinInv'
<1>1. ASSUME NEW u \in Request, Lck!Abort(u) PROVE PinInv'
    <2>1. /\ login[u] # Lck!NoLogin /\ Lck!Finish(u)
          /\ UNCHANGED <<credential, now, wrongs, lastWrong, byAdmin, parallel>>
        BY <1>1 DEF Lck!Abort
    <2>2. Lck!LockoutCounts'
        BY <2>1 DEF PinInv, Lck!LockoutCounts, Lck!EveryWrongCounts, Lck!NoEndlessLock, Lck!ResetMustBeChanged
    <2> QED
        BY <2>1, <2>2, PinEnds DEF PinInv, Lck!TypeOK
<1>2. CASE Lck!Tick
    <2>1. now < MaxTime /\ now' = now + 1 /\ UNCHANGED <<credential, login, wrongs, lastWrong, byAdmin, parallel>>
        BY <1>2 DEF Lck!Tick
    <2>2. now' \in 1..MaxTime /\ credential.lockedUntil <= now' + PIN_LOCKOUT
        BY <2>1, PinTypes, PinNumbers DEF PinInv, Lck!LockoutCounts, Lck!NoEndlessLock
    <2>3. Lck!TypeOK'
        BY <2>1, <2>2 DEF PinInv, Lck!TypeOK, Lck!Credential
    <2>4. Lck!LockoutCounts'
        BY <2>1, <2>2 DEF PinInv, Lck!LockoutCounts, Lck!EveryWrongCounts, Lck!NoEndlessLock, Lck!ResetMustBeChanged
    <2> QED
        BY <2>1, <2>3, <2>4 DEF PinInv, PinSerial
<1>3. CASE UNCHANGED pin
    BY <1>3 DEF pin, PinInv, PinSerial, Lck!TypeOK, Lck!Credential, Lck!LockoutCounts, Lck!EveryWrongCounts,
                Lck!NoEndlessLock, Lck!ResetMustBeChanged
<1> QED
    BY <1>1, <1>2, <1>3

LEMMA PinStep == ASSUME PinInv, Lck!Next \/ UNCHANGED pin PROVE PinInv'
<1>1. ASSUME NEW u \in Request, Lck!LoginBegin(u) \/ Lck!ResetBegin(u) \/ Lck!SetBegin(u) PROVE PinInv'
    BY <1>1, PinBegins DEF Lck!LoginBegin, Lck!ResetBegin, Lck!SetBegin
<1> QED
    BY <1>1, PinWrong, PinCommits, PinStops DEF Lck!Next

(***************************************************************************)
(* Punches from the portal.                                                 *)
(***************************************************************************)
StampAt == {Mob!NoStamp} \cup [type : Mob!Type, mobile : BOOLEAN]

TapRequest == [op : {"none", "punch"}, type : {"in", "out"}, began : Mob!Moment]

\* The type expected after the punches s, on the day d.
Expected(s, d) ==
    IF \E m \in Mob!Moment :
            /\ Mob!Held(s, m) /\ Day[m] = d /\ s[m].type # "out"
            /\ \A k \in Mob!Moment : Mob!Held(s, k) /\ Day[k] = d => k <= m
    THEN "out" ELSE "in"

\* Punch m differs from the one before it on its day, or opens the day, among s.
Fits(s, m) ==
    /\ (\A k \in Mob!Moment : k < m /\ Day[k] = Day[m] => ~Mob!Held(s, k)) => s[m].type = "in"
    /\ \A k \in Mob!Moment : Mob!Adjacent(s, k, m) =>
         /\ s[m].type # s[k].type
         /\ s[k].type = "none" => s[m].type = "out"

\* No two requests have overlapped: the one that is under way has the type that
\* is expected still, and began today.
TapSerial ==
    ~doubled =>
        /\ \A u, v \in Request : tap[u] # Mob!NoTap /\ tap[v] # Mob!NoTap => u = v
        /\ \A u \in Request : tap[u] # Mob!NoTap =>
             /\ Day[tap[u].began] = Day[moment]
             /\ tap[u].type = Expected(stamps, Day[moment])

MobileInv ==
    /\ Mob!TypeOK
    /\ ~doubled => \A m \in settled : Fits(stamps, m)
    /\ TapSerial

LEMMA MomentTypes ==
    ASSUME Mob!TypeOK
    PROVE  /\ MaxMoment \in Nat \ {0} /\ \A m \in Mob!Moment : m \in Nat /\ m >= 1 /\ m <= MaxMoment
           /\ moment \in Mob!Moment /\ stamps \in [Mob!Moment -> StampAt] /\ tap \in [Request -> TapRequest]
           /\ settled \subseteq Mob!Moment /\ \A m \in settled : stamps[m].mobile /\ Mob!Held(stamps, m)
<1>1. MaxMoment \in Nat \ {0} /\ \A m \in Mob!Moment : m \in Nat /\ m >= 1 /\ m <= MaxMoment
    BY CapsAssumption DEF CapsAssumption, Mob!Moment
<1>2. Mob!NoStamp.mobile = FALSE
    BY DEF Mob!NoStamp
<1> QED
    BY <1>1, <1>2 DEF Mob!TypeOK, StampAt, TapRequest, Mob!Held

LEMMA SameDay ==
    ASSUME MaxMoment \in Nat,
           NEW k \in Mob!Moment, NEW m \in Mob!Moment, NEW n \in Mob!Moment, k <= n, n <= m, Day[k] = Day[m]
    PROVE  Day[n] = Day[k]
<1>1. Day[k] \in Nat /\ Day[n] \in Nat /\ Day[m] \in Nat /\ Day[k] <= Day[n] /\ Day[n] <= Day[m]
    BY DayAssumption DEF DayAssumption, Mob!Moment
<1> QED
    BY <1>1

\* Punches differ at moment n only: one that neither came next nor comes next after
\* n fits as before.
LEMMA Undisturbed ==
    ASSUME MaxMoment \in Nat, NEW s, NEW t, NEW n \in Mob!Moment, \A k \in Mob!Moment : k # n => t[k] = s[k],
           NEW m \in Mob!Moment, m # n, Mob!Held(s, m), Fits(s, m),
           ~Mob!Adjacent(s, n, m), ~Mob!Adjacent(t, n, m)
    PROVE  Fits(t, m)
<1>1. /\ t[m] = s[m] /\ Mob!Held(t, m) /\ n \in Nat /\ m \in Nat /\ \A k \in Mob!Moment : k \in Nat
      /\ \A k \in Mob!Moment : k # n => (Mob!Held(t, k) <=> Mob!Held(s, k))
    BY DEF Mob!Held, Mob!Moment
<1>2. ASSUME \A k \in Mob!Moment : k < m /\ Day[k] = Day[m] => ~Mob!Held(t, k) PROVE t[m].type = "in"
    <2>1. CASE n < m /\ Day[n] = Day[m] /\ Mob!Held(s, n)
        <3>1. ASSUME NEW k \in Mob!Moment, n < k, k < m PROVE ~Mob!Held(s, k)
            <4>1. Day[k] = Day[m]
                BY <1>1, <2>1, <3>1, SameDay
            <4> QED
                BY <1>1, <1>2, <3>1, <4>1
        <3>2. Mob!Adjacent(s, n, m)
            BY <2>1, <3>1 DEF Mob!Adjacent
        <3> QED
            BY <3>2
    <2>2. CASE ~(n < m /\ Day[n] = Day[m] /\ Mob!Held(s, n))
        <3>1. \A k \in Mob!Moment : k < m /\ Day[k] = Day[m] => ~Mob!Held(s, k)
            BY <1>1, <1>2, <2>2
        <3> QED
            BY <1>1, <3>1 DEF Fits
    <2> QED
        BY <2>1, <2>2
<1>3. ASSUME NEW k \in Mob!Moment, Mob!Adjacent(t, k, m)
      PROVE  t[m].type # t[k].type /\ (t[k].type = "none" => t[m].type = "out")
    <2>1. k # n /\ k < m /\ Day[k] = Day[m] /\ Mob!Held(s, k) /\ t[k] = s[k]
        BY <1>1, <1>3 DEF Mob!Adjacent
    <2>2. \A j \in Mob!Moment : k < j /\ j < m /\ j # n => ~Mob!Held(s, j)
        BY <1>1, <1>3 DEF Mob!Adjacent
    <2>3. ~(k < n /\ n < m /\ Mob!Held(s, n))
        <3> SUFFICES ASSUME k < n, n < m, Mob!Held(s, n) PROVE FALSE
            OBVIOUS
        <3>1. Day[n] = Day[m]
            BY <1>1, <2>1, SameDay
        <3>2. \A j \in Mob!Moment : n < j /\ j < m => ~Mob!Held(s, j)
            BY <1>1, <2>2
        <3> QED
            BY <3>1, <3>2 DEF Mob!Adjacent
    <2>4. Mob!Adjacent(s, k, m)
        BY <2>1, <2>2, <2>3 DEF Mob!Adjacent
    <2> QED
        BY <1>1, <2>1, <2>4 DEF Fits
<1> QED
    BY <1>2, <1>3 DEF Fits

\* A punch of the type that was expected comes last on its day.
LEMMA LastFits ==
    ASSUME MaxMoment \in Nat, NEW s, NEW m \in Mob!Moment, NEW t, \A k \in Mob!Moment : k # m => t[k] = s[k],
           ~Mob!Held(s, m), t[m].type = Expected(s, Day[m]),
           \A k \in Mob!Moment : m < k /\ Day[k] = Day[m] => ~Mob!Held(s, k)
    PROVE  Fits(t, m)
<1>1. /\ \A k \in Mob!Moment : k # m => (Mob!Held(t, k) <=> Mob!Held(s, k))
      /\ \A k \in Mob!Moment : k \in Nat /\ m \in Nat
    BY DEF Mob!Held, Mob!Moment
<1>2. \A k \in Mob!Moment : Mob!Held(s, k) /\ Day[k] = Day[m] => k < m
    BY <1>1
<1>3. ASSUME \A k \in Mob!Moment : k < m /\ Day[k] = Day[m] => ~Mob!Held(t, k) PROVE t[m].type = "in"
    <2>1. \A k \in Mob!Moment : ~(Mob!Held(s, k) /\ Day[k] = Day[m])
        BY <1>1, <1>2, <1>3
    <2> QED
        BY <2>1 DEF Expected
<1>4. ASSUME NEW k \in Mob!Moment, Mob!Adjacent(t, k, m)
      PROVE  t[m].type # t[k].type /\ (t[k].type = "none" => t[m].type = "out")
    <2>1. k < m /\ Day[k] = Day[m] /\ Mob!Held(s, k) /\ t[k] = s[k]
        BY <1>1, <1>4 DEF Mob!Adjacent
    <2>2. \A j \in Mob!Moment : Mob!Held(s, j) /\ Day[j] = Day[m] => j <= k
        BY <1>1, <1>2, <1>4 DEF Mob!Adjacent
    <2>3. \A j \in Mob!Moment : Mob!Held(s, j) /\ Day[j] = Day[m] /\ k <= j => j = k
        BY <1>1, <2>2
    <2>4. CASE s[k].type # "out"
        BY <2>1, <2>2, <2>4 DEF Expected
    <2>5. CASE s[k].type = "out"
        <3>1. ASSUME NEW j \in Mob!Moment, Mob!Held(s, j), Day[j] = Day[m], s[j].type # "out",
                     \A i \in Mob!Moment : Mob!Held(s, i) /\ Day[i] = Day[m] => i <= j
              PROVE  FALSE
            BY <2>1, <2>3, <2>5, <3>1
        <3>2. Expected(s, Day[m]) = "in"
            BY <3>1 DEF Expected
        <3> QED
            BY <2>1, <2>5, <3>2
    <2> QED
        BY <2>4, <2>5
<1> QED
    BY <1>3, <1>4 DEF Fits

LEMMA ExpectedIs == Mob!NextExpectedType = Expected(stamps, Day[moment])
    BY DEF Mob!NextExpectedType, Mob!LastToday, Mob!Today, Expected

LEMMA NoTapIs == ASSUME MaxMoment \in Nat \ {0} PROVE Mob!NoTap \in TapRequest /\ Mob!NoTap.op = "none"
    BY DEF Mob!NoTap, TapRequest, Mob!Moment

LEMMA MobileInit == Mob!Init => MobileInv
<1> SUFFICES ASSUME Mob!Init PROVE MobileInv
    OBVIOUS
<1>1. /\ stamps = [m \in Mob!Moment |-> Mob!NoStamp] /\ moment = 1 /\ settled = {} /\ doubled = FALSE
      /\ tap = [t \in Request |-> Mob!NoTap] /\ place \in {"near", "far"}
    BY DEF Mob!Init
<1>2. MaxMoment \in Nat \ {0} /\ 1 \in Mob!Moment
    BY CapsAssumption DEF CapsAssumption, Mob!Moment
<1>3. tap \in [Request -> TapRequest]
    BY <1>1, <1>2, NoTapIs
<1>4. Mob!TypeOK
    BY <1>1, <1>2, <1>3 DEF Mob!TypeOK, TapRequest
<1>5. \A t \in Request : tap[t] = Mob!NoTap
    BY <1>1
<1> QED
    BY <1>1, <1>4, <1>5 DEF MobileInv, TapSerial

\* A request that begins, ends or fails.
LEMMA TapSet ==
    ASSUME Mob!TypeOK, NEW u \in Request, NEW r \in TapRequest, tap' = [tap EXCEPT ![u] = r]
    PROVE  /\ tap' \in [Request -> TapRequest]
           /\ \A v \in Request : tap'[v] = IF v = u THEN r ELSE tap[v]
    BY MomentTypes

LEMMA MobileBegins == ASSUME MobileInv, NEW u \in Request, Mob!TapBegin(u) PROVE MobileInv'
<1> DEFINE r == [op |-> "punch", type |-> Mob!NextExpectedType, began |-> moment]
<1>1. /\ tap' = [tap EXCEPT ![u] = r] /\ UNCHANGED <<place, moment, stamps, settled>>
      /\ doubled' = (doubled \/ \E o \in Request : tap[o] # Mob!NoTap)
    BY DEF Mob!TapBegin
<1>2. r \in TapRequest /\ r.type = Expected(stamps, Day[moment]) /\ r.began = moment
    BY ExpectedIs, MomentTypes DEF MobileInv, Expected, TapRequest
<1> HIDE DEF r
<1>3. /\ tap' \in [Request -> TapRequest]
      /\ \A v \in Request : tap'[v] = IF v = u THEN r ELSE tap[v]
    BY <1>1, <1>2, TapSet DEF MobileInv
<1>4. doubled' \in BOOLEAN /\ (~doubled' => ~doubled /\ \A v \in Request : tap[v] = Mob!NoTap)
    BY <1>1 DEF MobileInv, Mob!TypeOK
<1>5. Mob!TypeOK'
    BY <1>1, <1>3, <1>4 DEF MobileInv, Mob!TypeOK, TapRequest
<1>6. TapSerial'
    BY <1>1, <1>2, <1>3, <1>4 DEF TapSerial
<1> QED
    BY <1>1, <1>4, <1>5, <1>6 DEF MobileInv

\* The punches become s, and the history keeps what still fits.
LEMMA StampsSet ==
    ASSUME MobileInv, NEW s \in [Mob!Moment -> StampAt], stamps' = s, UNCHANGED <<place, moment>>,
           settled' \subseteq {m \in Mob!Moment : s[m].mobile}, ~doubled => \A m \in settled' : Fits(s, m),
           tap' \in [Request -> TapRequest], doubled' \in BOOLEAN,
           ~doubled' => ~doubled /\ \A t \in Request : tap'[t] = Mob!NoTap
    PROVE  MobileInv'
<1>1. Mob!TypeOK'
    BY DEF MobileInv, Mob!TypeOK, StampAt, TapRequest
<1>2. TapSerial'
    BY DEF TapSerial
<1> QED
    BY <1>1, <1>2 DEF MobileInv

\* A punch is put at a free moment m: whatever else is settled and does not come
\* next still fits.
LEMMA StampPut ==
    ASSUME MobileInv, NEW m \in Mob!Free, NEW x \in [type : Mob!Type, mobile : BOOLEAN], NEW s,
           s = [stamps EXCEPT ![m] = x]
    PROVE  /\ s \in [Mob!Moment -> StampAt] /\ s[m] = x /\ \A k \in Mob!Moment : k # m => s[k] = stamps[k]
           /\ m \in Mob!Moment /\ m \notin settled /\ \A k \in settled : s[k].mobile
           /\ ~doubled => \A k \in settled \ Mob!After(s, m) : Fits(s, k)
<1>1. /\ m \in Mob!Moment /\ ~Mob!Held(stamps, m) /\ stamps \in [Mob!Moment -> StampAt]
      /\ \A k \in settled : k \in Mob!Moment /\ Mob!Held(stamps, k) /\ stamps[k].mobile /\ k # m
      /\ MaxMoment \in Nat
    BY MomentTypes DEF MobileInv, Mob!Free
<1>2. s \in [Mob!Moment -> StampAt] /\ s[m] = x /\ \A k \in Mob!Moment : k # m => s[k] = stamps[k]
    BY <1>1 DEF StampAt
<1>3. ASSUME ~doubled, NEW k \in settled, k \notin Mob!After(s, m) PROVE Fits(s, k)
    <2>1. ~Mob!Adjacent(stamps, m, k) /\ ~Mob!Adjacent(s, m, k)
        BY <1>1, <1>3 DEF Mob!Adjacent, Mob!After
    <2>2. Fits(stamps, k)
        BY <1>3 DEF MobileInv
    <2> QED
        BY <1>1, <1>2, <2>1, <2>2, Undisturbed
<1> QED
    BY <1>1, <1>2, <1>3

LEMMA MobileCommits == ASSUME MobileInv, NEW u \in Request, Mob!TapCommit(u) PROVE MobileInv'
<1>1. /\ tap[u] # Mob!NoTap /\ tap' = [tap EXCEPT ![u] = Mob!NoTap] /\ UNCHANGED <<place, moment, doubled>>
      /\ MaxMoment \in Nat \ {0}
    BY NoTapIs, MomentTypes DEF Mob!TapCommit, MobileInv
<1>2. PICK m \in Mob!Free \cap tap[u].began..moment :
         /\ stamps' = [stamps EXCEPT ![m] = [type |-> tap[u].type, mobile |-> TRUE]]
         /\ settled' = IF \A k \in Mob!Moment : m < k /\ Day[k] = Day[m] => ~Mob!Held(stamps, k)
                       THEN settled \cup {m} ELSE settled \ Mob!After(stamps', m)
    BY DEF Mob!TapCommit
<1>3. PICK x, s : x = [type |-> tap[u].type, mobile |-> TRUE] /\ s = [stamps EXCEPT ![m] = x]
    OBVIOUS
<1>4. tap[u] \in TapRequest /\ tap[u].began \in Mob!Moment /\ tap[u].type \in {"in", "out"} /\ moment \in Mob!Moment
    BY MomentTypes DEF MobileInv, TapRequest
<1>5. x \in [type : Mob!Type, mobile : BOOLEAN] /\ x.mobile = TRUE /\ x.type = tap[u].type
    BY <1>4, <1>3 DEF Mob!Type
<1>6. stamps' = s /\ m \in Mob!Free
    BY <1>2, <1>3
<1>7. s = [stamps EXCEPT ![m] = x]
    BY <1>3
<1>8. /\ s \in [Mob!Moment -> StampAt] /\ s[m] = x /\ \A k \in Mob!Moment : k # m => s[k] = stamps[k]
      /\ m \in Mob!Moment /\ m \notin settled /\ \A k \in settled : s[k].mobile
      /\ ~doubled => \A k \in settled \ Mob!After(s, m) : Fits(s, k)
    <2>1. x \in [type : Mob!Type, mobile : BOOLEAN] /\ m \in Mob!Free /\ s = [stamps EXCEPT ![m] = x]
        BY <1>5, <1>6, <1>7
    <2>2. s \in [Mob!Moment -> StampAt]
        BY <2>1, StampPut
    <2>3. \A k \in Mob!Moment : k # m => s[k] = stamps[k]
        BY <2>1, StampPut
    <2>4. m \in Mob!Moment /\ m \notin settled /\ \A k \in settled : s[k].mobile
        BY <2>1, StampPut
    <2>5. ~doubled => \A k \in settled \ Mob!After(s, m) : Fits(s, k)
        BY <2>1, StampPut
    <2>6. s[m] = x
        BY <2>1, <2>4, MomentTypes DEF MobileInv
    <2> QED
        BY <2>2, <2>3, <2>4, <2>5, <2>6
<1>9. /\ tap' \in [Request -> TapRequest]
      /\ \A v \in Request : tap'[v] = IF v = u THEN Mob!NoTap ELSE tap[v]
    BY <1>1, NoTapIs, TapSet DEF MobileInv
<1>10. /\ ~doubled => /\ tap[u].type = Expected(stamps, Day[moment]) /\ Day[tap[u].began] = Day[moment]
                     /\ \A v \in Request : tap'[v] = Mob!NoTap
      /\ doubled \in BOOLEAN
    BY <1>1, <1>9 DEF MobileInv, TapSerial, Mob!TypeOK
<1>11. settled' \subseteq {k \in Mob!Moment : s[k].mobile}
    BY <1>2, <1>5, <1>8, MomentTypes DEF MobileInv
<1>12. ASSUME ~doubled PROVE \A k \in settled' : Fits(s, k)
    <2>1. CASE \A k \in Mob!Moment : m < k /\ Day[k] = Day[m] => ~Mob!Held(stamps, k)
        <3>1. Day[m] = Day[moment]
            <4>1. tap[u].began <= m /\ m <= moment
                BY <1>2, <1>4 DEF Mob!Moment
            <4> QED
                BY <1>1, <1>4, <1>8, <1>10, <1>12, <4>1, SameDay
        <3>2. ~Mob!Held(stamps, m)
            BY <1>6 DEF Mob!Free
        <3>3. Fits(s, m)
            BY <1>1, <1>5, <1>8, <1>10, <1>12, <2>1, <3>1, <3>2, LastFits
        <3>4. Mob!After(s, m) = {}
            <4>1. \A k \in Mob!Moment : k # m => (Mob!Held(s, k) <=> Mob!Held(stamps, k))
                BY <1>8 DEF Mob!Held
            <4>2. \A k \in Mob!Moment : m < k => k # m
                BY <1>8 DEF Mob!Moment
            <4> QED
                BY <2>1, <4>1, <4>2 DEF Mob!After, Mob!Adjacent
        <3> QED
            BY <1>2, <1>8, <1>12, <2>1, <3>3, <3>4
    <2>2. CASE ~\A k \in Mob!Moment : m < k /\ Day[k] = Day[m] => ~Mob!Held(stamps, k)
        <3>1. settled' = settled \ Mob!After(s, m)
            BY <1>2, <1>6, <1>7, <2>2
        <3> QED
            BY <1>8, <1>12, <3>1
    <2> QED
        BY <2>1, <2>2
<1> QED
    BY <1>1, <1>6, <1>7, <1>8, <1>9, <1>10, <1>11, <1>12, StampsSet

LEMMA MobileMeanwhile ==
    ASSUME MobileInv, Mob!Meanwhile, UNCHANGED tap
    PROVE  /\ tap' \in [Request -> TapRequest] /\ doubled' \in BOOLEAN
           /\ ~doubled' => ~doubled /\ \A t \in Request : tap'[t] = Mob!NoTap
    BY MomentTypes DEF MobileInv, Mob!TypeOK, Mob!Meanwhile

LEMMA MobileOther == ASSUME MobileInv, Mob!OtherPunch PROVE MobileInv'
<1>1. PICK m \in Mob!Free, type \in Mob!Type :
         /\ stamps' = [stamps EXCEPT ![m] = [type |-> type, mobile |-> FALSE]]
         /\ settled' = settled \ Mob!After(stamps', m)
    BY DEF Mob!OtherPunch
<1>2. PICK x, s : x = [type |-> type, mobile |-> FALSE] /\ s = [stamps EXCEPT ![m] = x]
    OBVIOUS
<1>3. x \in [type : Mob!Type, mobile : BOOLEAN]
    BY <1>2
<1>4. /\ s \in [Mob!Moment -> StampAt] /\ \A k \in settled : s[k].mobile
      /\ ~doubled => \A k \in settled \ Mob!After(s, m) : Fits(s, k)
    BY <1>2, <1>3, StampPut
<1>5. stamps' = s /\ settled' = settled \ Mob!After(s, m) /\ settled \subseteq Mob!Moment
    BY <1>1, <1>2, MomentTypes DEF MobileInv
<1>6. UNCHANGED <<place, moment, tap>> /\ Mob!Meanwhile
    BY DEF Mob!OtherPunch
<1> QED
    BY <1>4, <1>5, <1>6, MobileMeanwhile, StampsSet

\* A punch that moves is taken out and put in again.
LEMMA MobileEdit == ASSUME MobileInv, Mob!EditPunch PROVE MobileInv'
<1>1. PICK m \in Mob!Moment \ Mob!Free : \E n \in Mob!Free \cup {m}, type \in Mob!Type :
         /\ stamps' = [stamps EXCEPT ![m] = Mob!NoStamp, ![n] = [type |-> type, mobile |-> stamps[m].mobile]]
         /\ settled' = settled \ ({m} \cup Mob!After(stamps, m) \cup Mob!After(stamps', n))
    BY DEF Mob!EditPunch
<1>2. PICK n \in Mob!Free \cup {m}, type \in Mob!Type :
         /\ stamps' = [stamps EXCEPT ![m] = Mob!NoStamp, ![n] = [type |-> type, mobile |-> stamps[m].mobile]]
         /\ settled' = settled \ ({m} \cup Mob!After(stamps, m) \cup Mob!After(stamps', n))
    BY <1>1
<1>3. /\ stamps \in [Mob!Moment -> StampAt] /\ n \in Mob!Moment /\ MaxMoment \in Nat
      /\ \A k \in settled : k \in Mob!Moment /\ Mob!Held(stamps, k) /\ stamps[k].mobile
    BY <1>2, MomentTypes DEF MobileInv, Mob!Free
<1>4. stamps[m].mobile \in BOOLEAN
    <2>1. stamps[m] = Mob!NoStamp \/ stamps[m] \in [type : Mob!Type, mobile : BOOLEAN]
        BY <1>3 DEF StampAt
    <2>2. Mob!NoStamp.mobile \in BOOLEAN
        BY DEF Mob!NoStamp
    <2> QED
        BY <2>1, <2>2
<1>5. PICK x, r, s : /\ x = [type |-> type, mobile |-> stamps[m].mobile]
                     /\ r = [stamps EXCEPT ![m] = Mob!NoStamp]
                     /\ s = [r EXCEPT ![n] = x]
    OBVIOUS
<1>6. x \in [type : Mob!Type, mobile : BOOLEAN]
    BY <1>4, <1>5
<1>7. /\ r \in [Mob!Moment -> StampAt] /\ ~Mob!Held(r, m) /\ \A k \in Mob!Moment : k # m => r[k] = stamps[k]
    BY <1>3, <1>5 DEF StampAt, Mob!Held
<1>8. /\ s \in [Mob!Moment -> StampAt] /\ \A k \in Mob!Moment : k # n => s[k] = r[k]
    BY <1>3, <1>5, <1>6, <1>7 DEF StampAt
<1>9. ~Mob!Held(r, n)
    BY <1>2, <1>3, <1>7 DEF Mob!Free, Mob!Held
<1>10. stamps' = s
    BY <1>2, <1>5
<1>11. ASSUME NEW k \in settled' PROVE k \in settled /\ k # m /\ k # n /\ ~Mob!Adjacent(stamps, m, k) /\ ~Mob!Adjacent(s, n, k)
    <2>1. k \in settled /\ k # m /\ k \notin Mob!After(stamps, m) /\ k \notin Mob!After(s, n)
        BY <1>2, <1>10, <1>11
    <2>2. k # n
        BY <1>2, <1>3, <2>1 DEF Mob!Free
    <2> QED
        BY <1>3, <2>1, <2>2 DEF Mob!After
<1>12. settled' \subseteq {k \in Mob!Moment : s[k].mobile}
    BY <1>3, <1>7, <1>8, <1>11
<1>13. ASSUME ~doubled, NEW k \in settled' PROVE Fits(s, k)
    <2>1. /\ k \in Mob!Moment /\ k # m /\ k # n /\ Mob!Held(stamps, k) /\ Fits(stamps, k)
          /\ ~Mob!Adjacent(stamps, m, k) /\ ~Mob!Adjacent(s, n, k)
        BY <1>3, <1>11, <1>13 DEF MobileInv
    <2>2. ~Mob!Adjacent(r, m, k) /\ ~Mob!Adjacent(r, n, k)
        BY <1>7, <1>9 DEF Mob!Adjacent
    <2>3. Fits(r, k) /\ Mob!Held(r, k)
        BY <1>3, <1>7, <2>1, <2>2, Undisturbed DEF Mob!Held
    <2> QED
        BY <1>3, <1>8, <2>1, <2>2, <2>3, Undisturbed
<1>14. UNCHANGED <<place, moment, tap>> /\ Mob!Meanwhile
    BY DEF Mob!EditPunch
<1> QED
    BY <1>8, <1>10, <1>12, <1>13, <1>14, MobileMeanwhile, StampsSet

LEMMA MobileStops ==
    ASSUME MobileInv, (\E u \in Request : Mob!Abort(u)) \/ Mob!Move \/ UNCHANGED mobile
    PROVE  MobileInv'
<1>1. ASSUME NEW u \in Request, Mob!Abort(u) PROVE MobileInv'
    <2>1. tap' = [tap EXCEPT ![u] = Mob!NoTap] /\ UNCHANGED <<place, moment, stamps, settled, doubled>>
        BY <1>1 DEF Mob!Abort
    <2>2. /\ tap' \in [Request -> TapRequest]
          /\ \A v \in Request : tap'[v] = IF v = u THEN Mob!NoTap ELSE tap[v]
        BY <2>1, NoTapIs, TapSet, MomentTypes DEF MobileInv
    <2>3. TapSerial'
        BY <2>1, <2>2 DEF MobileInv, TapSerial
    <2> QED
        BY <2>1, <2>2, <2>3 DEF MobileInv, Mob!TypeOK, TapRequest
<1>2. CASE Mob!Move \/ UNCHANGED mobile
    <2>1. place' \in {"near", "far"} /\ UNCHANGED <<moment, stamps, tap, settled, doubled>>
        BY <1>2 DEF Mob!Move, mobile, MobileInv, Mob!TypeOK
    <2> QED
        BY <2>1 DEF MobileInv, Mob!TypeOK, TapSerial
<1> QED
    BY <1>1, <1>2

LEMMA MobileTick == ASSUME MobileInv, Mob!Tick PROVE MobileInv'
<1>1. /\ moment < MaxMoment /\ moment' = moment + 1 /\ UNCHANGED <<place, stamps, tap, settled>>
      /\ doubled' = (doubled \/ (Day[moment'] # Day[moment] /\ \E t \in Request : tap[t] # Mob!NoTap))
    BY DEF Mob!Tick
<1>2. /\ doubled' \in BOOLEAN
      /\ ~doubled' => ~doubled /\ (Day[moment'] = Day[moment] \/ \A t \in Request : tap[t] = Mob!NoTap)
    BY <1>1 DEF MobileInv, Mob!TypeOK
<1>3. moment' \in Mob!Moment
    BY <1>1, MomentTypes DEF MobileInv, Mob!Moment
<1>4. Mob!TypeOK'
    BY <1>1, <1>2, <1>3 DEF MobileInv, Mob!TypeOK
<1>5. TapSerial'
    BY <1>1, <1>2 DEF MobileInv, TapSerial
<1> QED
    BY <1>1, <1>2, <1>4, <1>5 DEF MobileInv

LEMMA MobileStep == ASSUME MobileInv, Mob!Next \/ UNCHANGED mobile PROVE MobileInv'
    BY MobileBegins, MobileCommits, MobileOther, MobileEdit, MobileStops, MobileTick DEF Mob!Next

LEMMA MobileAlternates == ASSUME MobileInv PROVE Mob!PunchesAlternate
    BY DEF MobileInv, Fits, Mob!PunchesAlternate

(***************************************************************************)
(* Vacations.                                                               *)
(***************************************************************************)
LEMMA VacationCardinalityIs == ASSUME NEW S PROVE Vac!Cardinality(S) = Cardinality(S)
    BY DEF Vac!Cardinality, Cardinality

\* The working days among the first i days of a vacation.
DaysOff == {d \in Vac!Date : d % 7 \in {5, 6}}

LEMMA CountedDays ==
    ASSUME NEW first \in Vac!Date, NEW last \in Vac!Date, first <= last
    PROVE  /\ Vac!WorkingDays(first, last) = Cardinality((first..last) \ (DaysOff \cup feasts))
           /\ Vac!WorkingDays(first, last) \in 0..(MaxDate + 1)
<1> DEFINE days == last - first + 1
           One(i) == IF (first + i - 1) % 7 < 5 /\ first + i - 1 \notin feasts THEN 1 ELSE 0
           step == [p \in (1..days) \X Nat |-> p[2] + One(p[1])]
           Is(g) == g = [i \in 0..days |-> IF i = 0 THEN 0 ELSE g[i - 1] + One(i)]
           acc == CHOOSE g : Is(g)
           W(i) == (first..(first + i - 1)) \ (DaysOff \cup feasts)
<1>1. MaxDate \in Nat /\ first \in Nat /\ last \in Nat /\ last <= MaxDate /\ days \in Nat /\ days >= 1 /\ days <= MaxDate + 1
    BY CapsAssumption DEF CapsAssumption, Vac!Date
<1>2. step \in [(1..days) \X Nat -> Nat] /\ \A i \in 1..days, v \in Nat : step[<<i, v>>] = v + One(i)
    OBVIOUS
<1> DEFINE V == Nat
<1>a. days \in Nat /\ 0 \in V /\ IsStep(days, V, step)
    BY <1>1, <1>2 DEF IsStep
<1>3. PICK g : Loop(days, 0, step, g)
    <2> HIDE DEF step, days, V
    <2> QED
        BY <1>a, LoopIsThere
<1>4. \A i \in 0..days : g[i] \in Nat
    <2>1. \A i \in 0..days : g[i] \in V
        <3> HIDE DEF step, days, V
        <3> QED
            BY <1>a, <1>3, LoopStaysIn
    <2> QED
        BY <2>1
<1>5. Is(g)
    <2>1. ASSUME NEW i \in 0..days, i # 0 PROVE step[<<i, g[i - 1]>>] = g[i - 1] + One(i)
        <3>1. i \in 1..days /\ i - 1 \in 0..days
            BY <1>1, <2>1
        <3>2. g[i - 1] \in Nat
            BY <1>4, <3>1
        <3> HIDE DEF step, One
        <3> QED
            BY <1>2, <3>1, <3>2
    <2> DEFINE h == [i \in 0..days |-> IF i = 0 THEN 0 ELSE g[i - 1] + One(i)]
               k == [i \in 0..days |-> IF i = 0 THEN 0 ELSE step[<<i, g[i - 1]>>]]
    <2>2. h = k
        <3> HIDE DEF step, One, days
        <3> QED
            BY <2>1
    <2>3. g = k
        BY <1>3 DEF Loop
    <2> HIDE DEF k, h
    <2>4. g = h
        BY <2>2, <2>3
    <2> QED
        BY <2>4 DEF h
<1>6. Is(acc)
    <2> HIDE DEF Is
    <2> QED
        BY <1>5
<1>7. Vac!WorkingDays(first, last) = acc[days]
    BY DEF Vac!WorkingDays
<1> HIDE DEF acc
<1>8. acc[0] = 0 /\ \A i \in 1..days : acc[i] = acc[i - 1] + One(i)
    BY <1>1, <1>6
<1> DEFINE S == {i \in 0..days : IsFiniteSet(W(i)) /\ acc[i] = Cardinality(W(i)) /\ acc[i] \in 0..i}
<1>9. 0 \in S
    <2>1. W(0) = {}
        BY <1>1
    <2> HIDE DEF W
    <2> QED
        BY <1>1, <1>8, <2>1, FS_EmptySet
<1>10. ASSUME NEW i \in 0..(days - 1), i \in S PROVE i + 1 \in S
    <2> DEFINE d == first + (i + 1) - 1
    <2>1. /\ i + 1 \in 1..days /\ (i + 1) - 1 = i /\ i \in Nat /\ d \in Nat /\ d \in first..last /\ d \in Vac!Date
          /\ d \notin first..(first + i - 1) /\ first..d = (first..(first + i - 1)) \cup {d}
        BY <1>1 DEF Vac!Date
    <2>2. acc[i + 1] = acc[i] + One(i + 1)
        BY <1>8, <2>1
    <2>3. IsFiniteSet(W(i)) /\ acc[i] = Cardinality(W(i)) /\ acc[i] \in 0..i
        BY <1>10
    <2>4. d % 7 \in {5, 6} <=> ~(d % 7 < 5)
        <3>1. d % 7 \in 0..6
            BY <2>1
        <3> QED
            BY <3>1
    <2>5. CASE d % 7 < 5 /\ d \notin feasts
        <3>1. One(i + 1) = 1
            BY <2>5
        <3>2. W(i + 1) = W(i) \cup {d} /\ d \notin W(i)
            BY <2>1, <2>4, <2>5 DEF DaysOff
        <3> HIDE DEF W, One, d
        <3>3. IsFiniteSet(W(i + 1)) /\ Cardinality(W(i + 1)) = Cardinality(W(i)) + 1
            BY <2>3, <3>2, FS_AddElement
        <3> QED
            BY <2>1, <2>2, <2>3, <3>1, <3>3
    <2>6. CASE ~(d % 7 < 5 /\ d \notin feasts)
        <3>1. One(i + 1) = 0
            BY <2>6
        <3>2. W(i + 1) = W(i)
            BY <2>1, <2>4, <2>6 DEF DaysOff
        <3> HIDE DEF W, One, d
        <3> QED
            BY <2>1, <2>2, <2>3, <3>1, <3>2
    <2> QED
        BY <2>5, <2>6
<1>11. days \in S
    <2>1. \A k \in 0..days : k \in S
        <3> HIDE DEF S, days
        <3> QED
            BY <1>1, <1>9, <1>10, CountingUp
    <2> QED
        BY <1>1, <2>1
<1>12. W(days) = (first..last) \ (DaysOff \cup feasts)
    BY <1>1
<1>13. acc[days] = Cardinality(W(days)) /\ acc[days] \in 0..days
    BY <1>11
<1> HIDE DEF W, S, Is
<1> QED
    BY <1>1, <1>7, <1>12, <1>13

VacationRow ==
    [status : {"none", "pending", "approved", "rejected", "cancelled"}, first : Vac!Date, last : Vac!Date,
     working : 0..(MaxDate + 1), reviewer : Request \cup {Nobody}]

\* Working days of the row v, with the holidays h.
Counted(v, h) ==
    v.status # "none" =>
        v.working = Cardinality((v.first..v.last) \ ({d \in Vac!Date : d % 7 \in {5, 6}} \cup h))

\* Before it is asked for, a vacation has no requests.
NotAskedFor == vacation.status = "none" => vacation = Vac!NoVacation /\ decisions = {} /\ ~Vac!UnderWay

\* No two requests have overlapped: while one is under way, or the vacation is
\* pending, nothing was decided.
VacationSerial ==
    ~rivals =>
        /\ decisions = {} \/ \E d : decisions = {d}
        /\ vacation.status = "pending" => decisions = {}
        /\ Vac!UnderWay => vacation.status = "pending"
        /\ cancel => \A m \in Request : review[m] = "none"
        /\ \A m, n \in Request : review[m] # "none" /\ review[n] # "none" => m = n

VacationInv ==
    /\ Vac!TypeOK /\ Vac!ReviewerDecidedSo
    /\ Counted(vacation, feastsThen)
    /\ NotAskedFor /\ VacationSerial

LEMMA VacationInit == Vac!Init => VacationInv
<1> SUFFICES ASSUME Vac!Init PROVE VacationInv
    OBVIOUS
<1>1. /\ vacation = Vac!NoVacation /\ feasts \subseteq Feast /\ feastsThen = feasts
      /\ review = [m \in Request |-> "none"] /\ cancel = FALSE /\ decisions = {} /\ rivals = FALSE
    BY DEF Vac!Init
<1>2. 0 \in Vac!Date /\ 0 \in 0..(MaxDate + 1)
    BY CapsAssumption DEF CapsAssumption, Vac!Date
<1>3. Vac!NoVacation \in VacationRow /\ Vac!NoVacation.status = "none"
    BY <1>2 DEF Vac!NoVacation, VacationRow
<1>4. Vac!TypeOK
    BY <1>1, <1>3 DEF Vac!TypeOK, VacationRow
<1>5. ~Vac!UnderWay
    BY <1>1 DEF Vac!UnderWay
<1> QED
    BY <1>1, <1>3, <1>4, <1>5 DEF VacationInv, Vac!ReviewerDecidedSo, Counted, NotAskedFor, VacationSerial

LEMMA VacationCreated ==
    ASSUME VacationInv, NEW status \in {"pending", "approved"}, NEW m \in Request \cup {Nobody},
           Vac!Created(status, m),
           \/ status = "pending" /\ UNCHANGED decisions
           \/ status = "approved" /\ decisions' = {[status |-> "approved", by |-> m]}
    PROVE  VacationInv'
<1>1. PICK first \in Vac!Date, last \in Vac!Date :
        /\ first <= last
        /\ vacation' = [status |-> status, first |-> first, last |-> last,
                        working |-> Vac!WorkingDays(first, last), reviewer |-> m]
    BY DEF Vac!Created
<1> DEFINE n == Vac!WorkingDays(first, last)
<1>2. n = Cardinality((first..last) \ (DaysOff \cup feasts)) /\ n \in 0..(MaxDate + 1)
    BY <1>1, CountedDays
<1> HIDE DEF n
<1>3. vacation' = [status |-> status, first |-> first, last |-> last, working |-> n, reviewer |-> m]
    BY <1>1 DEF n
<1>4. vacation = Vac!NoVacation /\ feastsThen' = feasts /\ UNCHANGED <<feasts, review, cancel, rivals>>
    BY DEF Vac!Created
<1>5. vacation.status = "none"
    BY <1>4 DEF Vac!NoVacation
<1>6. decisions = {} /\ ~Vac!UnderWay
    BY <1>5 DEF VacationInv, NotAskedFor
<1>7. ~Vac!UnderWay'
    BY <1>4, <1>6 DEF Vac!UnderWay
<1>8. Vac!TypeOK'
    <2>1. vacation' \in VacationRow
        BY <1>1, <1>2, <1>3 DEF VacationRow
    <2> QED
        BY <1>4, <2>1 DEF VacationInv, Vac!TypeOK, VacationRow
<1>9. /\ vacation'.status = status /\ vacation'.reviewer = m
      /\ vacation'.first = first /\ vacation'.last = last /\ vacation'.working = n
    BY <1>3
<1>10. Vac!ReviewerDecidedSo'
    BY <1>9 DEF Vac!ReviewerDecidedSo
<1>11. Counted(vacation', feastsThen')
    BY <1>2, <1>4, <1>9 DEF Counted, DaysOff
<1>12. VacationSerial'
    BY <1>4, <1>6, <1>7, <1>9 DEF VacationInv, VacationSerial
<1> QED
    BY <1>8, <1>9, <1>10, <1>11, <1>12 DEF VacationInv, NotAskedFor

LEMMA VacationCreates == ASSUME VacationInv, Vac!Create \/ Vac!CreateForEmployee PROVE VacationInv'
    BY VacationCreated DEF Vac!Create, Vac!CreateForEmployee

\* A review or a cancellation begins.
LEMMA VacationBegins ==
    ASSUME VacationInv, (\E m \in Request : Vac!ReviewBegin(m)) \/ Vac!CancelBegin
    PROVE  VacationInv'
<1>1. /\ vacation.status = "pending" /\ rivals' = (rivals \/ Vac!UnderWay)
      /\ UNCHANGED <<vacation, feasts, decisions, feastsThen>>
    BY DEF Vac!ReviewBegin, Vac!CancelBegin, Vac!Pending
<1>2. rivals' \in BOOLEAN /\ (~rivals' => ~rivals /\ ~Vac!UnderWay)
    <2>1. rivals \in BOOLEAN /\ Vac!UnderWay \in BOOLEAN
        BY DEF VacationInv, Vac!TypeOK, Vac!UnderWay
    <2> QED
        BY <1>1, <2>1
<1>3. ASSUME NEW m \in Request, Vac!ReviewBegin(m)
      PROVE  /\ review' \in [Request -> {"none", "approved", "rejected"}] /\ cancel' = cancel
             /\ \A k \in Request : k # m => review'[k] = review[k]
    BY <1>3 DEF Vac!ReviewBegin, VacationInv, Vac!TypeOK
<1>4. ASSUME Vac!CancelBegin PROVE review' = review /\ cancel' = TRUE
    BY <1>4 DEF Vac!CancelBegin
<1>5. review' \in [Request -> {"none", "approved", "rejected"}] /\ cancel' \in BOOLEAN
    BY <1>3, <1>4 DEF VacationInv, Vac!TypeOK
<1>6. Vac!TypeOK'
    BY <1>1, <1>2, <1>5 DEF VacationInv, Vac!TypeOK, Vac!Date
<1>7. VacationSerial'
    <2> SUFFICES ASSUME ~rivals'
                 PROVE  /\ cancel' => \A m \in Request : review'[m] = "none"
                        /\ \A m, n \in Request : review'[m] # "none" /\ review'[n] # "none" => m = n
        BY <1>1, <1>2 DEF VacationInv, VacationSerial
    <2>1. ~cancel /\ \A m \in Request : review[m] = "none"
        BY <1>2 DEF Vac!UnderWay
    <2> QED
        BY <1>3, <1>4, <2>1
<1> QED
    BY <1>1, <1>6, <1>7 DEF VacationInv, Vac!ReviewerDecidedSo, NotAskedFor

\* What the commit of a decision d leaves, when the row gets the status of d.
LEMMA VacationDecides ==
    ASSUME VacationInv, NEW status \in {"approved", "rejected", "cancelled"}, NEW by \in Request \cup {Nobody},
           vacation.status # "none",
           vacation' \in VacationRow, vacation'.status = status,
           status # "cancelled" => vacation'.reviewer = by,
           vacation'.first = vacation.first, vacation'.last = vacation.last, vacation'.working = vacation.working,
           decisions' = decisions \cup {[status |-> status, by |-> by]},
           UNCHANGED <<feasts, rivals, feastsThen>>,
           review' \in [Request -> {"none", "approved", "rejected"}], cancel' \in BOOLEAN,
           ~rivals => decisions = {} /\ ~Vac!UnderWay'
    PROVE  VacationInv'
<1>1. Vac!TypeOK'
    BY DEF VacationInv, Vac!TypeOK, VacationRow
<1>2. Vac!ReviewerDecidedSo'
    BY DEF Vac!ReviewerDecidedSo
<1>3. Counted(vacation', feastsThen')
    BY DEF VacationInv, Counted
<1>4. VacationSerial'
    <2> SUFFICES ASSUME ~rivals
                 PROVE  /\ \E d : decisions' = {d}
                        /\ ~cancel' /\ \A m \in Request : review'[m] = "none"
        BY DEF VacationSerial, Vac!UnderWay
    <2>1. decisions' = {[status |-> status, by |-> by]}
        OBVIOUS
    <2>2. ~cancel' /\ \A m \in Request : review'[m] = "none"
        BY DEF Vac!UnderWay
    <2> QED
        BY <2>1, <2>2
<1> QED
    BY <1>1, <1>2, <1>3, <1>4 DEF VacationInv, NotAskedFor

LEMMA VacationEnds ==
    ASSUME VacationInv, (\E m \in Request : Vac!ReviewCommit(m)) \/ Vac!CancelCommit
    PROVE  VacationInv'
<1>1. vacation \in VacationRow /\ review \in [Request -> {"none", "approved", "rejected"}] /\ cancel \in BOOLEAN
    BY DEF VacationInv, Vac!TypeOK, VacationRow
<1>2. ASSUME NEW m \in Request, Vac!ReviewCommit(m) PROVE VacationInv'
    <2> DEFINE e == [vacation EXCEPT !.status = review[m]]
               f == [e EXCEPT !.reviewer = m]
    <2>1. /\ review[m] # "none" /\ vacation' = f
          /\ decisions' = decisions \cup {[status |-> review[m], by |-> m]}
          /\ review' = [review EXCEPT ![m] = "none"] /\ UNCHANGED <<feasts, cancel, rivals, feastsThen>>
        BY <1>2 DEF Vac!ReviewCommit, Vac!Reviewed
    <2>2. review[m] \in {"approved", "rejected"} /\ Vac!UnderWay
        BY <1>1, <2>1 DEF Vac!UnderWay
    <2>3. /\ e \in VacationRow /\ e.status = review[m] /\ e.first = vacation.first /\ e.last = vacation.last
          /\ e.working = vacation.working
        BY <1>1, <2>2 DEF VacationRow
    <2>4. /\ f \in VacationRow /\ f.status = review[m] /\ f.first = vacation.first /\ f.last = vacation.last
          /\ f.working = vacation.working /\ f.reviewer = m
        <3> HIDE DEF e
        <3> QED
            BY <2>3 DEF VacationRow
    <2> HIDE DEF e, f
    <2>5. /\ review' \in [Request -> {"none", "approved", "rejected"}]
          /\ \A k \in Request : review'[k] = IF k = m THEN "none" ELSE review[k]
        BY <1>1, <2>1
    <2>6. vacation.status # "none"
        BY <2>2 DEF VacationInv, NotAskedFor
    <2>7. ~rivals => decisions = {} /\ ~Vac!UnderWay'
        BY <1>1, <2>1, <2>2, <2>5 DEF VacationInv, VacationSerial, Vac!UnderWay
    <2> QED
        BY <1>1, <2>1, <2>2, <2>4, <2>5, <2>6, <2>7, VacationDecides
<1>3. CASE Vac!CancelCommit
    <2> DEFINE e == [vacation EXCEPT !.status = "cancelled"]
    <2>1. /\ cancel /\ vacation' = e
          /\ decisions' = decisions \cup {[status |-> "cancelled", by |-> Nobody]}
          /\ cancel' = FALSE /\ UNCHANGED <<feasts, review, rivals, feastsThen>>
        BY <1>3 DEF Vac!CancelCommit
    <2>2. Vac!UnderWay
        BY <2>1 DEF Vac!UnderWay
    <2>3. /\ e \in VacationRow /\ e.status = "cancelled" /\ e.first = vacation.first /\ e.last = vacation.last
          /\ e.working = vacation.working
        BY <1>1 DEF VacationRow
    <2> HIDE DEF e
    <2>4. vacation.status # "none"
        BY <2>2 DEF VacationInv, NotAskedFor
    <2>5. ~rivals => decisions = {} /\ ~Vac!UnderWay'
        BY <1>1, <2>1, <2>2 DEF VacationInv, VacationSerial, Vac!UnderWay
    <2> QED
        BY <1>1, <2>1, <2>3, <2>4, <2>5, VacationDecides
<1> QED
    BY <1>2, <1>3

LEMMA VacationStops ==
    ASSUME VacationInv, Vac!Abort \/ Vac!CreateHoliday \/ Vac!DeleteHoliday \/ UNCHANGED leave
    PROVE  VacationInv'
<1>1. CASE Vac!Abort
    <2>1. UNCHANGED <<vacation, feasts, decisions, rivals, feastsThen>>
        BY <1>1 DEF Vac!Abort
    <2>2. /\ review' \in [Request -> {"none", "approved", "rejected"}] /\ cancel' \in BOOLEAN
          /\ cancel' => cancel
          /\ \A m \in Request : review'[m] = "none" \/ review'[m] = review[m]
        <3>1. review \in [Request -> {"none", "approved", "rejected"}] /\ cancel \in BOOLEAN
            BY DEF VacationInv, Vac!TypeOK
        <3>2. CASE cancel /\ cancel' = FALSE /\ UNCHANGED review
            BY <3>1, <3>2
        <3>3. ASSUME NEW m \in Request, review' = [review EXCEPT ![m] = "none"], UNCHANGED cancel
              PROVE  /\ review' \in [Request -> {"none", "approved", "rejected"}]
                     /\ \A k \in Request : review'[k] = "none" \/ review'[k] = review[k]
            BY <3>1, <3>3
        <3>4. CASE \E m \in Request : review' = [review EXCEPT ![m] = "none"] /\ UNCHANGED cancel
            BY <3>1, <3>3, <3>4
        <3>5. (cancel /\ cancel' = FALSE /\ UNCHANGED review)
              \/ \E m \in Request : review' = [review EXCEPT ![m] = "none"] /\ UNCHANGED cancel
            BY <1>1 DEF Vac!Abort
        <3> QED
            BY <3>2, <3>4, <3>5
    <2>3. Vac!UnderWay' => Vac!UnderWay
        BY <2>2 DEF Vac!UnderWay
    <2>4. Vac!TypeOK'
        BY <2>1, <2>2 DEF VacationInv, Vac!TypeOK, Vac!Date
    <2>5. VacationSerial'
        BY <2>1, <2>2, <2>3 DEF VacationInv, VacationSerial
    <2> QED
        BY <2>1, <2>3, <2>4, <2>5 DEF VacationInv, Vac!ReviewerDecidedSo, NotAskedFor
<1>2. CASE Vac!CreateHoliday \/ Vac!DeleteHoliday \/ UNCHANGED leave
    <2>1. feasts' \subseteq Feast /\ UNCHANGED <<vacation, review, cancel, decisions, rivals, feastsThen>>
        BY <1>2 DEF Vac!CreateHoliday, Vac!DeleteHoliday, leave, VacationInv, Vac!TypeOK
    <2> QED
        BY <2>1 DEF VacationInv, Vac!TypeOK, Vac!Date, Vac!ReviewerDecidedSo, NotAskedFor, VacationSerial, Vac!UnderWay
<1> QED
    BY <1>1, <1>2

LEMMA VacationStep == ASSUME VacationInv, Vac!Next \/ UNCHANGED leave PROVE VacationInv'
    BY VacationCreates, VacationBegins, VacationEnds, VacationStops DEF Vac!Next

LEMMA VacationDecided == VacationInv => Vac!TypeOK /\ Vac!VacationIsDecided
<1> SUFFICES ASSUME VacationInv PROVE Vac!VacationIsDecided
    BY DEF VacationInv
<1>1. Vac!DecidedOnce
    <2> SUFFICES ASSUME ~rivals PROVE Cardinality(decisions) <= 1
        BY VacationCardinalityIs DEF Vac!DecidedOnce
    <2>1. decisions = {} \/ \E d : decisions = {d}
        BY DEF VacationInv, VacationSerial
    <2>2. Cardinality({}) = 0
        BY FS_EmptySet
    <2>3. \A d : Cardinality({d}) = 1
        BY FS_Singleton
    <2>4. Cardinality(decisions) = 0 \/ Cardinality(decisions) = 1
        BY <2>1, <2>2, <2>3
    <2> QED
        BY <2>4
<1>2. Vac!WorkingDaysCounted
    <2>1. vacation # Vac!NoVacation => vacation.status # "none"
        BY DEF VacationInv, NotAskedFor
    <2> QED
        BY <2>1, VacationCardinalityIs DEF VacationInv, Counted, Vac!WorkingDaysCounted
<1> QED
    BY <1>1, <1>2 DEF VacationInv, Vac!VacationIsDecided

(***************************************************************************)
(* Payslips.                                                                *)
(***************************************************************************)
LEMMA PayCardinalityIs == ASSUME NEW S PROVE Psl!Cardinality(S) = Cardinality(S)
    BY DEF Psl!Cardinality, Cardinality

PayJob ==
    [op : {"none", "upload", "import", "delete"}, pc : {"store", "attach", "find", "write", "delete"},
     months : Seq(Month), doc : 0..MaxDocument, seen : 0..MaxDocument]

\* The job q has stored a document.
HasStored(q) == q.pc \in {"attach", "find", "write"}

\* A document has an attachment of one month, its own, and no payslip before.
JobRight(q, att, fls, sto, wri) ==
    /\ q.op = "none" => q = Psl!NoJob
    /\ q.op = "delete" <=> q.pc = "delete"
    /\ q.op \in {"upload", "import"} => q.months # <<>>
    /\ HasStored(q) => q.op \in {"upload", "import"} /\ q.doc \in 1..sto
    /\ q.pc = "attach" => q.doc \in fls /\ (\A a \in att : a.doc # q.doc) /\ \A m \in Month : wri[m] # q.doc
    /\ q.pc \in {"find", "write"} => \A a \in att : a.doc = q.doc => a.month = Head(q.months)

JobsRight == \A u \in Request : JobRight(job[u], attached, files, stored, written)

DocsApart == \A u, v \in Request : u # v /\ HasStored(job[u]) /\ HasStored(job[v]) => job[u].doc # job[v].doc

DocsStored ==
    /\ IsFiniteSet(attached)
    /\ \A a \in attached : a.doc \in 1..stored
    /\ files \subseteq 1..stored
    /\ \A m \in Month : written[m] \in 0..stored

PaySerial ==
    ~mixed =>
        /\ \A u, v \in Request : job[u] # Psl!NoJob /\ job[v] # Psl!NoJob => u = v
        /\ Cardinality(attached) <= MaxAttachment
        /\ \A u \in Request : job[u].pc = "attach" => Cardinality(attached) < MaxAttachment

PayInv ==
    /\ Psl!TypeOK /\ job \in [Request -> PayJob]
    /\ Psl!SlipHasAttachment /\ Psl!AttachmentHasFile /\ Psl!WrittenStays
    /\ DocsStored /\ JobsRight /\ DocsApart /\ PaySerial

LEMMA PayNumbers == MaxDocument \in Nat /\ MaxAttachment \in Nat /\ Manifests \subseteq Seq(Month) \ {<<>>}
    BY CapsAssumption, LimitsAssumption, DataAssumption DEF CapsAssumption, LimitsAssumption, DataAssumption

LEMMA NoJobIs ==
    /\ Psl!NoJob \in PayJob /\ Psl!NoJob.op = "none" /\ Psl!NoJob.pc = "store"
    /\ ~HasStored(Psl!NoJob)
    /\ \A att, fls, sto, wri : JobRight(Psl!NoJob, att, fls, sto, wri)
    BY PayNumbers DEF Psl!NoJob, PayJob, HasStored, JobRight

LEMMA NewJobIs ==
    ASSUME NEW op, NEW months
    PROVE  [Psl!NoJob EXCEPT !.op = op, !.months = months]
             = [op |-> op, pc |-> "store", months |-> months, doc |-> 0, seen |-> 0]
<1> DEFINE e == [Psl!NoJob EXCEPT !.op = op]
<1>1. e = [op |-> op, pc |-> "store", months |-> <<>>, doc |-> 0, seen |-> 0]
    BY DEF Psl!NoJob
<1>2. [Psl!NoJob EXCEPT !.op = op, !.months = months] = [e EXCEPT !.months = months]
    BY DEF Psl!NoJob
<1> HIDE DEF e
<1>3. [e EXCEPT !.months = months] = [op |-> op, pc |-> "store", months |-> months, doc |-> 0, seen |-> 0]
    BY <1>1
<1> QED
    BY <1>2, <1>3

LEMMA NewDeletionIs ==
    ASSUME NEW doc
    PROVE  [Psl!NoJob EXCEPT !.op = "delete", !.pc = "delete", !.doc = doc]
             = [op |-> "delete", pc |-> "delete", months |-> <<>>, doc |-> doc, seen |-> 0]
<1> DEFINE e == [Psl!NoJob EXCEPT !.op = "delete"]
           f == [e EXCEPT !.pc = "delete"]
<1>1. e = [op |-> "delete", pc |-> "store", months |-> <<>>, doc |-> 0, seen |-> 0]
    BY DEF Psl!NoJob
<1> HIDE DEF e
<1>2. f = [op |-> "delete", pc |-> "delete", months |-> <<>>, doc |-> 0, seen |-> 0]
    BY <1>1
<1> HIDE DEF f
<1>3. [f EXCEPT !.doc = doc] = [op |-> "delete", pc |-> "delete", months |-> <<>>, doc |-> doc, seen |-> 0]
    BY <1>2
<1> QED
    BY <1>3 DEF e, f

LEMMA PayInit == Psl!Init => PayInv
<1> SUFFICES ASSUME Psl!Init PROVE PayInv
    OBVIOUS
<1>1. /\ files = {} /\ attached = {} /\ stored = 0 /\ slips = [m \in Month |-> 0] /\ written = [m \in Month |-> 0]
      /\ job = [u \in Request |-> Psl!NoJob] /\ torn = FALSE /\ mixed = FALSE
    BY DEF Psl!Init
<1>2. \A u \in Request : job[u] = Psl!NoJob
    BY <1>1
<1>3. \A m \in Month : slips[m] = 0 /\ written[m] = 0
    BY <1>1
<1>4. Psl!TypeOK
    <2>1. slips \in [Month -> 0..MaxDocument] /\ written \in [Month -> 0..MaxDocument] /\ stored \in 0..MaxDocument
        BY <1>1, PayNumbers
    <2> QED
        BY <1>1, <2>1 DEF Psl!TypeOK
<1>5. Cardinality(attached) = 0 /\ IsFiniteSet(attached)
    BY <1>1, FS_EmptySet
<1>6. job \in [Request -> PayJob]
    BY <1>1, NoJobIs
<1>7. Psl!SlipHasAttachment /\ Psl!AttachmentHasFile
    BY <1>1, <1>3 DEF Psl!SlipHasAttachment, Psl!AttachmentHasFile
<1>8. Psl!WrittenStays
    BY <1>1 DEF Psl!WrittenStays
<1>9. DocsStored /\ JobsRight /\ DocsApart
    BY <1>1, <1>2, <1>3, <1>5, NoJobIs DEF DocsStored, JobsRight, DocsApart
<1>10. PaySerial
    BY <1>2, <1>5, NoJobIs, PayNumbers DEF PaySerial
<1> QED
    BY <1>4, <1>6, <1>7, <1>8, <1>9, <1>10 DEF PayInv

LEMMA JobSet ==
    ASSUME job \in [Request -> PayJob], NEW u \in Request, NEW r \in PayJob, job' = [job EXCEPT ![u] = r]
    PROVE  /\ job' \in [Request -> PayJob] /\ job'[u] = r
           /\ \A v \in Request : v # u => job'[v] = job[v]
    OBVIOUS

\* A job begins that has not stored anything.
LEMMA PayBegins ==
    ASSUME PayInv, NEW u \in Request, NEW r \in PayJob, Psl!Begin(u, r),
           ~HasStored(r), JobRight(r, attached, files', stored, written),
           UNCHANGED <<attached, slips, stored, written, torn>>,
           files' \subseteq files,
           \A d \in files \ files' : r.op = "delete" /\ r.doc = d /\ \E a \in attached : a.doc = d
    PROVE  PayInv'
<1>1. /\ job[u] = Psl!NoJob /\ job' = [job EXCEPT ![u] = r]
      /\ mixed' = (mixed \/ \E v \in Request : job[v] # Psl!NoJob)
    BY DEF Psl!Begin
<1>2. /\ job' \in [Request -> PayJob] /\ job'[u] = r
      /\ \A v \in Request : v # u => job'[v] = job[v]
    BY <1>1, JobSet DEF PayInv
<1>3. mixed' \in BOOLEAN /\ (~mixed' => ~mixed /\ \A v \in Request : job[v] = Psl!NoJob)
    BY <1>1 DEF PayInv, Psl!TypeOK
<1>4. Psl!TypeOK'
    BY <1>2, <1>3 DEF PayInv, Psl!TypeOK
<1>5. Psl!SlipHasAttachment' /\ Psl!WrittenStays'
    BY DEF PayInv, Psl!SlipHasAttachment, Psl!WrittenStays
<1>6. Psl!AttachmentHasFile'
    <2> SUFFICES ASSUME ~torn, NEW a \in attached
                 PROVE  a.doc \in files' \/ \E v \in Request : job'[v].op = "delete" /\ job'[v].doc = a.doc
        BY DEF Psl!AttachmentHasFile
    <2>1. CASE a.doc \in files
        BY <1>2, <2>1
    <2>2. CASE \E v \in Request : job[v].op = "delete" /\ job[v].doc = a.doc
        BY <1>1, <1>2, <2>2, NoJobIs
    <2> QED
        BY <2>1, <2>2 DEF PayInv, Psl!AttachmentHasFile
<1>7. DocsStored'
    BY DEF PayInv, DocsStored
<1>8. JobsRight'
    <2> SUFFICES ASSUME NEW v \in Request PROVE JobRight(job'[v], attached, files', stored, written)
        BY DEF JobsRight
    <2>1. CASE v = u
        BY <1>2, <2>1
    <2>2. CASE v # u
        BY <1>2, <2>2 DEF PayInv, JobsRight, JobRight
    <2> QED
        BY <2>1, <2>2
<1>9. DocsApart'
    BY <1>2 DEF PayInv, DocsApart
<1>10. PaySerial'
    BY <1>2, <1>3 DEF PayInv, PaySerial, HasStored
<1> QED
    BY <1>2, <1>4, <1>5, <1>6, <1>7, <1>8, <1>9, <1>10 DEF PayInv

LEMMA PayAsks == ASSUME PayInv, NEW u \in Request, Psl!UploadBegin(u) \/ Psl!ImportBegin(u) PROVE PayInv'
<1>1. ASSUME NEW op \in {"upload", "import"}, NEW months \in Seq(Month) \ {<<>>}
      PROVE  LET r == [Psl!NoJob EXCEPT !.op = op, !.months = months]
             IN  r \in PayJob /\ ~HasStored(r) /\ JobRight(r, attached, files, stored, written)
    <2> DEFINE r == [Psl!NoJob EXCEPT !.op = op, !.months = months]
    <2>1. r = [op |-> op, pc |-> "store", months |-> months, doc |-> 0, seen |-> 0]
        BY NewJobIs
    <2> HIDE DEF r
    <2>2. r \in PayJob /\ ~HasStored(r) /\ JobRight(r, attached, files, stored, written)
        BY <2>1, PayNumbers DEF PayJob, HasStored, JobRight
    <2> QED
        BY <2>2 DEF r
<1>2. UNCHANGED <<files, attached, slips, stored, written, torn>>
    BY DEF Psl!UploadBegin, Psl!ImportBegin
<1>3. \E op \in {"upload", "import"}, months \in Seq(Month) \ {<<>>} :
        Psl!Begin(u, [Psl!NoJob EXCEPT !.op = op, !.months = months])
    <2>1. \A m \in Month : <<m>> \in Seq(Month) \ {<<>>}
        OBVIOUS
    <2> QED
        BY <2>1, PayNumbers DEF Psl!UploadBegin, Psl!ImportBegin
<1>4. PICK op \in {"upload", "import"}, months \in Seq(Month) \ {<<>>} :
        Psl!Begin(u, [Psl!NoJob EXCEPT !.op = op, !.months = months])
    BY <1>3
<1> DEFINE r == [Psl!NoJob EXCEPT !.op = op, !.months = months]
<1>5. r \in PayJob /\ ~HasStored(r) /\ JobRight(r, attached, files, stored, written)
    BY <1>1
<1>6. Psl!Begin(u, r)
    BY <1>4
<1> HIDE DEF r
<1> QED
    BY <1>2, <1>5, <1>6, PayBegins

LEMMA PayDeletes == ASSUME PayInv, NEW u \in Request, Psl!DeleteFile(u) PROVE PayInv'
<1>1. PICK a \in attached :
        /\ Psl!Begin(u, [Psl!NoJob EXCEPT !.op = "delete", !.pc = "delete", !.doc = a.doc])
        /\ files' = files \ {a.doc}
    BY DEF Psl!DeleteFile
<1> DEFINE r == [Psl!NoJob EXCEPT !.op = "delete", !.pc = "delete", !.doc = a.doc]
<1>2. a.doc \in 0..MaxDocument
    BY PayNumbers DEF PayInv, Psl!TypeOK
<1>3. r = [op |-> "delete", pc |-> "delete", months |-> <<>>, doc |-> a.doc, seen |-> 0]
    BY NewDeletionIs
<1>4. Psl!Begin(u, r)
    BY <1>1
<1> HIDE DEF r
<1>5. r \in PayJob /\ ~HasStored(r) /\ JobRight(r, attached, files', stored, written)
    BY <1>2, <1>3, PayNumbers DEF PayJob, HasStored, JobRight
<1>6. /\ files' \subseteq files /\ UNCHANGED <<attached, slips, stored, written, torn>>
      /\ \A d \in files \ files' : r.op = "delete" /\ r.doc = d /\ \E b \in attached : b.doc = d
    BY <1>1, <1>3 DEF Psl!DeleteFile
<1> QED
    BY <1>4, <1>5, <1>6, PayBegins

\* A job goes on or ends, without having stored anything that it still holds.
LEMMA PayGoesOn ==
    ASSUME PayInv, NEW u \in Request, NEW r \in PayJob, job[u] # Psl!NoJob, job' = [job EXCEPT ![u] = r],
           ~HasStored(r), \A att, fls, sto, wri : JobRight(r, att, fls, sto, wri),
           UNCHANGED <<stored, mixed>>,
           attached' \subseteq attached, files' = files,
           slips' \in [Month -> 0..MaxDocument], written' \in [Month -> 0..stored], torn' \in BOOLEAN,
           \A m \in Month : written'[m] = written[m] \/ (HasStored(job[u]) /\ written'[m] = job[u].doc),
           Psl!SlipHasAttachment', Psl!AttachmentHasFile', Psl!WrittenStays'
    PROVE  PayInv'
<1>1. /\ job' \in [Request -> PayJob] /\ job'[u] = r
      /\ \A v \in Request : v # u => job'[v] = job[v]
    BY JobSet DEF PayInv
<1>2. \A n \in 0..stored : n \in 0..MaxDocument
    BY PayNumbers DEF PayInv, Psl!TypeOK
<1>3. Psl!TypeOK'
    BY <1>1, <1>2 DEF PayInv, Psl!TypeOK
<1>4. IsFiniteSet(attached') /\ Cardinality(attached') <= Cardinality(attached) /\ Cardinality(attached) \in Nat /\ Cardinality(attached') \in Nat
    BY FS_Subset, FS_CardinalityType DEF PayInv, DocsStored
<1>5. DocsStored'
    BY <1>4 DEF PayInv, DocsStored
<1>6. JobsRight'
    <2> SUFFICES ASSUME NEW v \in Request PROVE JobRight(job'[v], attached', files', stored, written')
        BY DEF JobsRight
    <2>1. CASE v = u
        BY <1>1, <2>1
    <2>2. CASE v # u
        <3>1. JobRight(job[v], attached, files, stored, written) /\ job'[v] = job[v]
            BY <1>1, <2>2 DEF PayInv, JobsRight
        <3>2. HasStored(job[v]) /\ HasStored(job[u]) => job[u].doc # job[v].doc
            BY <2>2 DEF PayInv, DocsApart
        <3>3. job[v].pc = "attach" => HasStored(job[v])
            BY DEF HasStored
        <3> QED
            BY <3>1, <3>2, <3>3 DEF JobRight
    <2> QED
        BY <2>1, <2>2
<1>7. DocsApart'
    BY <1>1 DEF PayInv, DocsApart
<1>8. PaySerial'
    <2> SUFFICES ASSUME ~mixed
                 PROVE  /\ \A v, w \in Request : job'[v] # Psl!NoJob /\ job'[w] # Psl!NoJob => v = w
                        /\ Cardinality(attached') <= MaxAttachment
                        /\ \A v \in Request : job'[v].pc = "attach" => Cardinality(attached') < MaxAttachment
        BY DEF PaySerial
    <2>1. /\ \A v \in Request : v # u => job[v] = Psl!NoJob
          /\ Cardinality(attached) <= MaxAttachment
        BY DEF PayInv, PaySerial
    <2>2. \A v \in Request : v # u => job'[v] = Psl!NoJob
        BY <1>1, <2>1
    <2>3. \A v \in Request : job'[v].pc # "attach"
        BY <1>1, <2>2, NoJobIs DEF HasStored
    <2> QED
        BY <1>4, <2>1, <2>2, <2>3, PayNumbers
<1> QED
    BY <1>1, <1>3, <1>5, <1>6, <1>7, <1>8 DEF PayInv

LEMMA TailGoesOn ==
    ASSUME NEW S, NEW s \in Seq(S), s # <<>>, Len(s) # 1
    PROVE  Tail(s) \in Seq(S) /\ Tail(s) # <<>>
<1>1. Len(s) \in Nat \ {0}
    BY EmptySeq
<1>2. Tail(s) \in Seq(S) /\ Len(Tail(s)) = Len(s) - 1
    BY HeadTailProperties
<1>3. Len(Tail(s)) # 0
    BY <1>1, <1>2
<1>4. Len(<<>>) = 0
    OBVIOUS
<1> QED
    BY <1>2, <1>3, <1>4

\* The next row of a manifest, or the answer.
LEMMA NextRowIs ==
    ASSUME PayInv, NEW u \in Request, job[u].op \in {"upload", "import"}, Psl!NextRow(u)
    PROVE  \E r \in PayJob :
                /\ job' = [job EXCEPT ![u] = r] /\ ~HasStored(r) /\ r.op # "delete"
                /\ \A att, fls, sto, wri : JobRight(r, att, fls, sto, wri)
<1> DEFINE months == job[u].months
           next == [Psl!NoJob EXCEPT !.op = job[u].op, !.months = Tail(months)]
<1>1. job[u] \in PayJob /\ months \in Seq(Month) /\ months # <<>>
    <2>1. job[u] \in PayJob /\ JobRight(job[u], attached, files, stored, written)
        BY DEF PayInv, JobsRight
    <2> QED
        BY <2>1 DEF PayJob, JobRight
<1>2. CASE Len(months) = 1
    <2>1. job' = [job EXCEPT ![u] = Psl!NoJob]
        BY <1>2 DEF Psl!NextRow
    <2> QED
        BY <2>1, NoJobIs
<1>3. CASE Len(months) # 1
    <2>1. job' = [job EXCEPT ![u] = next]
        BY <1>3 DEF Psl!NextRow
    <2>2. next = [op |-> job[u].op, pc |-> "store", months |-> Tail(months), doc |-> 0, seen |-> 0]
        BY NewJobIs
    <2>3. Tail(months) \in Seq(Month) /\ Tail(months) # <<>>
        BY <1>1, <1>3, TailGoesOn
    <2> HIDE DEF next
    <2>4. next \in PayJob /\ ~HasStored(next) /\ next.op # "delete" /\ \A att, fls, sto, wri : JobRight(next, att, fls, sto, wri)
        BY <1>1, <2>2, <2>3, PayNumbers DEF PayJob, HasStored, JobRight
    <2> QED
        BY <2>1, <2>4
<1> QED
    BY <1>2, <1>3

\* Whose deletions stand: u was not deleting.
LEMMA FilesAreKept ==
    ASSUME PayInv, NEW u \in Request, job[u].op # "delete", NEW r \in PayJob, job' = [job EXCEPT ![u] = r],
           UNCHANGED <<files, attached, torn>>
    PROVE  Psl!AttachmentHasFile'
<1>1. \A v \in Request : v # u => job'[v] = job[v]
    BY JobSet DEF PayInv
<1> QED
    BY <1>1 DEF PayInv, Psl!AttachmentHasFile

LEMMA PayLimited == ASSUME PayInv, NEW u \in Request, Psl!LimitReached(u) PROVE PayInv'
<1>1. /\ job[u].op \in {"upload", "import"} /\ Psl!NextRow(u)
      /\ UNCHANGED <<files, attached, slips, stored, written, torn, mixed>>
    BY DEF Psl!LimitReached, Psl!AtStore
<1>2. PICK r \in PayJob :
        /\ job' = [job EXCEPT ![u] = r] /\ ~HasStored(r) /\ r.op # "delete"
        /\ \A att, fls, sto, wri : JobRight(r, att, fls, sto, wri)
    BY <1>1, NextRowIs
<1>3. job[u] # Psl!NoJob /\ job[u].op # "delete"
    BY <1>1, NoJobIs
<1>4. Psl!SlipHasAttachment' /\ Psl!WrittenStays'
    BY <1>1 DEF PayInv, Psl!SlipHasAttachment, Psl!WrittenStays
<1>5. Psl!AttachmentHasFile'
    BY <1>1, <1>2, <1>3, FilesAreKept
<1>6. slips' \in [Month -> 0..MaxDocument] /\ written' \in [Month -> 0..stored] /\ torn' \in BOOLEAN
    BY <1>1 DEF PayInv, Psl!TypeOK, DocsStored
<1> QED
    BY <1>1, <1>2, <1>3, <1>4, <1>5, <1>6, PayGoesOn

LEMMA PayWrites == ASSUME PayInv, NEW u \in Request, Psl!WritePayslip(u) PROVE PayInv'
<1> DEFINE m == Psl!Row(u)
           d == job[u].doc
<1>1. /\ job[u].pc = "write" /\ slips' = [slips EXCEPT ![m] = d] /\ written' = [written EXCEPT ![m] = d]
      /\ Psl!NextRow(u) /\ UNCHANGED <<files, attached, stored, torn, mixed>>
      /\ \E a \in attached : a.doc = d
    BY DEF Psl!WritePayslip, Psl!CanWrite
<1>2. JobRight(job[u], attached, files, stored, written) /\ job[u] \in PayJob
    BY DEF PayInv, JobsRight
<1>3. /\ job[u].op \in {"upload", "import"} /\ HasStored(job[u]) /\ d \in 1..stored
      /\ job[u].months \in Seq(Month) /\ job[u].months # <<>>
    BY <1>1, <1>2 DEF JobRight, HasStored, PayJob
<1>4. m \in Month
    BY <1>3 DEF Psl!Row
<1>5. [doc |-> d, month |-> m] \in attached
    <2>1. PICK a \in attached : a.doc = d
        BY <1>1
    <2>2. a.month = m
        BY <1>1, <1>2, <2>1 DEF JobRight, Psl!Row
    <2>3. a \in [doc : 1..MaxDocument, month : Month]
        BY DEF PayInv, Psl!TypeOK
    <2>4. a = [doc |-> d, month |-> m]
        BY <2>1, <2>2, <2>3
    <2> QED
        BY <2>4
<1> HIDE DEF m, d
<1>6. /\ slips \in [Month -> 0..MaxDocument] /\ written \in [Month -> 0..stored]
      /\ d \in 0..MaxDocument /\ d \in 0..stored /\ d # 0 /\ torn \in BOOLEAN
    BY <1>3, PayNumbers DEF PayInv, Psl!TypeOK, DocsStored
<1>7. /\ slips' \in [Month -> 0..MaxDocument] /\ written' \in [Month -> 0..stored] /\ torn' \in BOOLEAN
      /\ \A k \in Month : slips'[k] = (IF k = m THEN d ELSE slips[k]) /\ written'[k] = IF k = m THEN d ELSE written[k]
    BY <1>1, <1>4, <1>6
<1>8. Psl!SlipHasAttachment'
    BY <1>1, <1>5, <1>7 DEF PayInv, Psl!SlipHasAttachment
<1>9. Psl!WrittenStays'
    BY <1>1, <1>7 DEF PayInv, Psl!WrittenStays
<1>10. PICK r \in PayJob :
        /\ job' = [job EXCEPT ![u] = r] /\ ~HasStored(r) /\ r.op # "delete"
        /\ \A att, fls, sto, wri : JobRight(r, att, fls, sto, wri)
    BY <1>1, <1>3, NextRowIs
<1>11. job[u] # Psl!NoJob /\ job[u].op # "delete"
    BY <1>3, NoJobIs
<1>12. Psl!AttachmentHasFile'
    BY <1>1, <1>10, <1>11, FilesAreKept
<1>13. \A k \in Month : written'[k] = written[k] \/ (HasStored(job[u]) /\ written'[k] = job[u].doc)
    BY <1>3, <1>7 DEF d
<1> QED
    BY <1>1, <1>7, <1>8, <1>9, <1>10, <1>11, <1>12, <1>13, PayGoesOn

LEMMA PayDeleted == ASSUME PayInv, NEW u \in Request, Psl!DeleteAttachment(u) PROVE PayInv'
<1> DEFINE d == job[u].doc
<1>1. /\ job[u].op = "delete" /\ attached' = {a \in attached : a.doc # d}
      /\ slips' = Psl!Cascade(d) /\ job' = [job EXCEPT ![u] = Psl!NoJob]
      /\ UNCHANGED <<files, stored, written, torn, mixed>>
    BY DEF Psl!DeleteAttachment
<1>2. job[u] # Psl!NoJob
    BY <1>1, NoJobIs
<1> HIDE DEF d
<1>3. /\ slips \in [Month -> 0..MaxDocument] /\ written \in [Month -> 0..stored] /\ torn \in BOOLEAN
    BY DEF PayInv, Psl!TypeOK, DocsStored
<1>4. /\ slips' \in [Month -> 0..MaxDocument]
      /\ \A m \in Month : slips'[m] = IF slips[m] = d THEN 0 ELSE slips[m]
    BY <1>1, <1>3, PayNumbers DEF Psl!Cascade
<1>5. \A n, m : [doc |-> n, month |-> m] \in attached' <=> [doc |-> n, month |-> m] \in attached /\ n # d
    BY <1>1
<1>6. Psl!SlipHasAttachment'
    BY <1>4, <1>5 DEF PayInv, Psl!SlipHasAttachment
<1>7. Psl!WrittenStays'
    BY <1>1, <1>4, <1>5 DEF PayInv, Psl!WrittenStays
<1>8. Psl!AttachmentHasFile'
    <2> SUFFICES ASSUME ~torn, NEW a \in attached, a.doc # d
                 PROVE  a.doc \in files \/ \E v \in Request : job'[v].op = "delete" /\ job'[v].doc = a.doc
        BY <1>1 DEF Psl!AttachmentHasFile
    <2>1. \A v \in Request : v # u => job'[v] = job[v]
        BY <1>1, NoJobIs, JobSet DEF PayInv
    <2>2. a.doc \in files \/ \E v \in Request : job[v].op = "delete" /\ job[v].doc = a.doc
        BY DEF PayInv, Psl!AttachmentHasFile
    <2> QED
        BY <2>1, <2>2 DEF d
<1>9. attached' \subseteq attached
    BY <1>1
<1> QED
    BY <1>1, <1>2, <1>3, <1>4, <1>6, <1>7, <1>8, <1>9, NoJobIs, PayGoesOn

LEMMA PayStops == ASSUME PayInv, (\E u \in Request : Psl!Abort(u)) \/ UNCHANGED pay PROVE PayInv'
<1>1. ASSUME NEW u \in Request, Psl!Abort(u) PROVE PayInv'
    <2>1. /\ job[u] # Psl!NoJob /\ torn' = (torn \/ job[u].op = "delete") /\ job' = [job EXCEPT ![u] = Psl!NoJob]
          /\ UNCHANGED <<files, attached, slips, stored, written, mixed>>
        BY <1>1 DEF Psl!Abort
    <2>2. torn' \in BOOLEAN
        BY <2>1 DEF PayInv, Psl!TypeOK
    <2>3. Psl!SlipHasAttachment' /\ Psl!WrittenStays'
        BY <2>1 DEF PayInv, Psl!SlipHasAttachment, Psl!WrittenStays
    <2>4. Psl!AttachmentHasFile'
        <3>1. CASE job[u].op = "delete"
            BY <2>1, <3>1 DEF Psl!AttachmentHasFile
        <3>2. CASE job[u].op # "delete"
            <4>1. torn' = torn
                BY <2>1, <3>2 DEF PayInv, Psl!TypeOK
            <4> QED
                BY <2>1, <3>2, <4>1, NoJobIs, FilesAreKept
        <3> QED
            BY <3>1, <3>2
    <2>5. slips' \in [Month -> 0..MaxDocument] /\ written' \in [Month -> 0..stored]
        BY <2>1 DEF PayInv, Psl!TypeOK, DocsStored
    <2> QED
        BY <2>1, <2>2, <2>3, <2>4, <2>5, NoJobIs, PayGoesOn
<1>2. CASE UNCHANGED pay
    BY <1>2 DEF pay, PayInv, Psl!TypeOK, Psl!SlipHasAttachment, Psl!AttachmentHasFile, Psl!WrittenStays,
                DocsStored, JobsRight, DocsApart, PaySerial
<1> QED
    BY <1>1, <1>2

LEMMA PayStores == ASSUME PayInv, NEW u \in Request, Psl!StoreFile(u) PROVE PayInv'
<1> DEFINE e == [job[u] EXCEPT !.pc = "attach"]
           r == [e EXCEPT !.doc = stored + 1]
<1>1. /\ job[u].op \in {"upload", "import"} /\ Psl!Cardinality(attached) < MaxAttachment /\ stored < MaxDocument
      /\ stored' = stored + 1 /\ files' = files \cup {stored + 1}
      /\ job' = [job EXCEPT ![u].pc = "attach", ![u].doc = stored + 1]
      /\ UNCHANGED <<attached, slips, written, torn, mixed>>
    BY DEF Psl!StoreFile, Psl!AtStore
<1>2. /\ job[u] \in PayJob /\ JobRight(job[u], attached, files, stored, written) /\ stored \in Nat
      /\ stored + 1 \in 0..MaxDocument /\ job \in [Request -> PayJob]
    BY <1>1, PayNumbers DEF PayInv, JobsRight, Psl!TypeOK
<1>3. e \in PayJob /\ e.op = job[u].op /\ e.months = job[u].months /\ e.pc = "attach" /\ e.doc = job[u].doc
    BY <1>2 DEF PayJob
<1>4. r \in PayJob /\ r.op = job[u].op /\ r.months = job[u].months /\ r.pc = "attach" /\ r.doc = stored + 1
    <2> HIDE DEF e
    <2> QED
        BY <1>2, <1>3 DEF PayJob
<1>5. job' = [job EXCEPT ![u] = r]
    BY <1>1, <1>2
<1> HIDE DEF r, e
<1>6. /\ job' \in [Request -> PayJob] /\ job'[u] = r /\ \A v \in Request : v # u => job'[v] = job[v]
    BY <1>2, <1>4, <1>5, JobSet
<1>7. DocsStored'
    BY <1>1, <1>2 DEF PayInv, DocsStored
<1>8. Psl!TypeOK'
    BY <1>1, <1>2, <1>6 DEF PayInv, Psl!TypeOK
<1>9. Psl!SlipHasAttachment' /\ Psl!WrittenStays'
    BY <1>1 DEF PayInv, Psl!SlipHasAttachment, Psl!WrittenStays
<1>10. Psl!AttachmentHasFile'
    BY <1>1, <1>6 DEF PayInv, Psl!AttachmentHasFile
<1>11. \A v \in Request : v # u => JobRight(job'[v], attached', files', stored', written')
    <2> SUFFICES ASSUME NEW v \in Request, v # u PROVE JobRight(job[v], attached, files', stored', written)
        BY <1>1, <1>6
    <2>1. JobRight(job[v], attached, files, stored, written)
        BY DEF PayInv, JobsRight
    <2>2. \A n \in 1..stored : n \in 1..stored'
        BY <1>1, <1>2
    <2> QED
        BY <1>1, <2>1, <2>2 DEF JobRight
<1>12. JobRight(r, attached, files', stored', written)
    <2>1. \A a \in attached : a.doc # stored + 1
        BY <1>2 DEF PayInv, DocsStored
    <2>2. \A m \in Month : written[m] # stored + 1
        BY <1>2 DEF PayInv, DocsStored
    <2>3. stored + 1 \in files' /\ stored + 1 \in 1..stored'
        BY <1>1, <1>2
    <2> QED
        BY <1>1, <1>2, <1>4, <2>1, <2>2, <2>3 DEF JobRight, HasStored
<1>13. JobsRight'
    BY <1>1, <1>6, <1>11, <1>12 DEF JobsRight
<1>14. DocsApart'
    <2>1. ASSUME NEW v \in Request, v # u, HasStored(job[v]) PROVE job[v].doc # r.doc
        <3>1. job[v].doc \in 1..stored
            BY <2>1 DEF PayInv, JobsRight, JobRight
        <3> QED
            BY <1>2, <1>4, <3>1
    <2> QED
        BY <1>6, <2>1 DEF PayInv, DocsApart
<1>15. PaySerial'
    <2>1. Cardinality(attached) < MaxAttachment
        BY <1>1, PayCardinalityIs
    <2>2. job[u] # Psl!NoJob
        BY <1>1, NoJobIs
    <2> QED
        BY <1>1, <1>6, <2>1, <2>2 DEF PayInv, PaySerial
<1> QED
    BY <1>6, <1>7, <1>8, <1>9, <1>10, <1>13, <1>14, <1>15 DEF PayInv

\* A job that has stored a document goes on with it.
LEMMA PayKeeps ==
    ASSUME PayInv, NEW u \in Request, NEW r \in PayJob, job' = [job EXCEPT ![u] = r],
           HasStored(job[u]), HasStored(r), r.pc # "attach", r.doc = job[u].doc, r.op = job[u].op,
           JobRight(r, attached', files, stored, written),
           attached' \subseteq attached \/ (job[u].pc = "attach" /\ \E m \in Month : attached' = attached \cup {[doc |-> job[u].doc, month |-> m]}),
           attached \subseteq attached',
           UNCHANGED <<files, slips, stored, written, torn, mixed>>
    PROVE  PayInv'
<1>1. /\ job' \in [Request -> PayJob] /\ job'[u] = r
      /\ \A v \in Request : v # u => job'[v] = job[v]
    BY JobSet DEF PayInv
<1>2. JobRight(job[u], attached, files, stored, written) /\ job[u] \in PayJob
    BY DEF PayInv, JobsRight
<1>3. job[u].op \in {"upload", "import"} /\ job[u].doc \in 1..stored /\ job[u] # Psl!NoJob
    BY <1>2, NoJobIs DEF JobRight
<1>4. \A a \in attached' : a \in attached \/ (job[u].pc = "attach" /\ \E m \in Month : a = [doc |-> job[u].doc, month |-> m])
    OBVIOUS
<1>5. \A n \in 1..stored : n \in 1..MaxDocument
    BY PayNumbers DEF PayInv, Psl!TypeOK
<1>6. attached' \subseteq [doc : 1..MaxDocument, month : Month]
    BY <1>3, <1>4, <1>5 DEF PayInv, Psl!TypeOK
<1>7. Psl!TypeOK'
    BY <1>1, <1>6 DEF PayInv, Psl!TypeOK
<1>8. IsFiniteSet(attached)
    BY DEF PayInv, DocsStored
<1>9. /\ IsFiniteSet(attached') /\ Cardinality(attached') \in Nat /\ Cardinality(attached) \in Nat
      /\ Cardinality(attached') = Cardinality(attached)
         \/ (job[u].pc = "attach" /\ Cardinality(attached') <= Cardinality(attached) + 1)
    <2>1. CASE attached' \subseteq attached
        BY <1>8, <2>1, FS_CardinalityType
    <2>2. ASSUME job[u].pc = "attach", NEW x, attached' = attached \cup {x}
          PROVE  /\ IsFiniteSet(attached') /\ Cardinality(attached') \in Nat /\ Cardinality(attached) \in Nat
                 /\ Cardinality(attached') <= Cardinality(attached) + 1
        <3>1. CASE x \in attached
            <4>1. attached' = attached
                BY <2>2, <3>1
            <4> QED
                BY <1>8, <4>1, FS_CardinalityType
        <3>2. CASE x \notin attached
            <4>1. IsFiniteSet(attached') /\ Cardinality(attached') = Cardinality(attached) + 1
                BY <1>8, <2>2, <3>2, FS_AddElement
            <4>2. Cardinality(attached) \in Nat /\ Cardinality(attached') \in Nat
                BY <1>8, <4>1, FS_CardinalityType
            <4> QED
                BY <4>1, <4>2
        <3> QED
            BY <3>1, <3>2
    <2> QED
        BY <2>1, <2>2
<1>10. DocsStored'
    BY <1>3, <1>4, <1>9 DEF PayInv, DocsStored
<1>11. Psl!SlipHasAttachment'
    BY DEF PayInv, Psl!SlipHasAttachment
<1>12. Psl!WrittenStays'
    <2> SUFFICES ASSUME NEW k \in Month, [doc |-> written[k], month |-> k] \in attached' PROVE slips[k] = written[k]
        BY DEF Psl!WrittenStays
    <2>1. job[u].pc = "attach" => written[k] # job[u].doc
        BY <1>2 DEF JobRight
    <2>2. [doc |-> written[k], month |-> k].doc = written[k]
        OBVIOUS
    <2>3. [doc |-> written[k], month |-> k] \in attached
        BY <1>4, <2>1, <2>2
    <2> QED
        BY <2>3 DEF PayInv, Psl!WrittenStays
<1>13. Psl!AttachmentHasFile'
    <2> SUFFICES ASSUME ~torn, NEW a \in attached'
                 PROVE  a.doc \in files \/ \E v \in Request : job'[v].op = "delete" /\ job'[v].doc = a.doc
        BY DEF Psl!AttachmentHasFile
    <2>1. CASE a \in attached
        <3>1. a.doc \in files \/ \E v \in Request : job[v].op = "delete" /\ job[v].doc = a.doc
            BY <2>1 DEF PayInv, Psl!AttachmentHasFile
        <3> QED
            BY <1>1, <1>3, <3>1
    <2>2. CASE job[u].pc = "attach" /\ \E m \in Month : a = [doc |-> job[u].doc, month |-> m]
        BY <1>2, <2>2 DEF JobRight
    <2> QED
        BY <1>4, <2>1, <2>2
<1>14. JobsRight'
    <2> SUFFICES ASSUME NEW v \in Request PROVE JobRight(job'[v], attached', files, stored, written)
        BY DEF JobsRight
    <2>1. CASE v = u
        BY <1>1, <2>1
    <2>2. CASE v # u
        <3>1. JobRight(job[v], attached, files, stored, written) /\ job'[v] = job[v]
            BY <1>1, <2>2 DEF PayInv, JobsRight
        <3>2. HasStored(job[v]) => job[u].doc # job[v].doc
            BY <2>2 DEF PayInv, DocsApart
        <3>3. HasStored(job[v]) => \A a \in attached' : a \in attached \/ a.doc # job[v].doc
            BY <1>4, <3>2
        <3> QED
            BY <3>1, <3>3 DEF JobRight, HasStored
    <2> QED
        BY <2>1, <2>2
<1>15. DocsApart'
    BY <1>1 DEF PayInv, DocsApart
<1>16. PaySerial'
    <2> SUFFICES ASSUME ~mixed
                 PROVE  /\ \A v, w \in Request : job'[v] # Psl!NoJob /\ job'[w] # Psl!NoJob => v = w
                        /\ Cardinality(attached') <= MaxAttachment
                        /\ \A v \in Request : job'[v].pc = "attach" => Cardinality(attached') < MaxAttachment
        BY DEF PaySerial
    <2>1. /\ \A v \in Request : v # u => job[v] = Psl!NoJob
          /\ Cardinality(attached) <= MaxAttachment
          /\ job[u].pc = "attach" => Cardinality(attached) < MaxAttachment
        BY <1>3 DEF PayInv, PaySerial
    <2>2. \A v \in Request : v # u => job'[v] = Psl!NoJob
        BY <1>1, <2>1
    <2>3. \A v \in Request : job'[v].pc # "attach"
        BY <1>1, <2>2, NoJobIs
    <2>4. Cardinality(attached') <= MaxAttachment
        BY <1>9, <2>1, PayNumbers
    <2> QED
        BY <2>2, <2>3, <2>4
<1> QED
    BY <1>1, <1>7, <1>10, <1>11, <1>12, <1>13, <1>14, <1>15, <1>16 DEF PayInv

LEMMA PayAttaches == ASSUME PayInv, NEW u \in Request, Psl!Attach(u) PROVE PayInv'
<1> DEFINE pc == IF job[u].op = "import" THEN "find" ELSE "write"
           r == [job[u] EXCEPT !.pc = pc]
           m == Psl!Row(u)
<1>1. /\ job[u].pc = "attach" /\ attached' = attached \cup {[doc |-> job[u].doc, month |-> m]}
      /\ job' = [job EXCEPT ![u].pc = pc] /\ UNCHANGED <<files, slips, stored, written, torn, mixed>>
    BY DEF Psl!Attach
<1>2. JobRight(job[u], attached, files, stored, written) /\ job[u] \in PayJob /\ job \in [Request -> PayJob]
    BY DEF PayInv, JobsRight
<1>3. HasStored(job[u]) /\ job[u].op \in {"upload", "import"} /\ job[u].months \in Seq(Month) /\ job[u].months # <<>>
    BY <1>1, <1>2 DEF HasStored, JobRight, PayJob
<1>4. m \in Month /\ m = Head(job[u].months)
    BY <1>3 DEF Psl!Row
<1>5. /\ r \in PayJob /\ r.pc \in {"find", "write"} /\ r.op = job[u].op /\ r.doc = job[u].doc
      /\ r.months = job[u].months
    BY <1>2 DEF PayJob
<1>6. job' = [job EXCEPT ![u] = r]
    BY <1>1, <1>2
<1> HIDE DEF r, m
<1>7. \A a \in attached' : a.doc = job[u].doc => a.month = m
    BY <1>1, <1>2 DEF JobRight
<1>8. JobRight(r, attached', files, stored, written) /\ HasStored(r)
    BY <1>2, <1>3, <1>4, <1>5, <1>7 DEF JobRight, HasStored
<1>9. \E k \in Month : attached' = attached \cup {[doc |-> job[u].doc, month |-> k]}
    BY <1>1, <1>4
<1>10. attached \subseteq attached' /\ r.pc # "attach"
    BY <1>1, <1>5
<1> QED
    BY <1>1, <1>3, <1>5, <1>6, <1>8, <1>9, <1>10, PayKeeps

LEMMA PayFinds == ASSUME PayInv, NEW u \in Request, Psl!FindPayslip(u) PROVE PayInv'
<1> DEFINE e == [job[u] EXCEPT !.pc = "write"]
           r == [e EXCEPT !.seen = slips[Psl!Row(u)]]
<1>1. /\ job[u].pc = "find" /\ job' = [job EXCEPT ![u].pc = "write", ![u].seen = slips[Psl!Row(u)]]
      /\ UNCHANGED <<files, attached, slips, stored, written, torn, mixed>>
    BY DEF Psl!FindPayslip
<1>2. JobRight(job[u], attached, files, stored, written) /\ job[u] \in PayJob /\ job \in [Request -> PayJob]
    BY DEF PayInv, JobsRight
<1>3. HasStored(job[u]) /\ job[u].op \in {"upload", "import"} /\ job[u].months \in Seq(Month) /\ job[u].months # <<>>
    BY <1>1, <1>2 DEF HasStored, JobRight, PayJob
<1>4. slips[Psl!Row(u)] \in 0..MaxDocument
    <2>1. Psl!Row(u) \in Month
        BY <1>3 DEF Psl!Row
    <2> QED
        BY <2>1 DEF PayInv, Psl!TypeOK
<1>5. e \in PayJob /\ e.pc = "write" /\ e.op = job[u].op /\ e.doc = job[u].doc /\ e.months = job[u].months
    BY <1>2 DEF PayJob
<1>6. r \in PayJob /\ r.pc = "write" /\ r.op = job[u].op /\ r.doc = job[u].doc /\ r.months = job[u].months
    <2> HIDE DEF e
    <2> QED
        BY <1>4, <1>5 DEF PayJob
<1>7. job' = [job EXCEPT ![u] = r]
    BY <1>1, <1>2
<1> HIDE DEF r, e
<1>8. JobRight(r, attached', files, stored, written) /\ HasStored(r)
    BY <1>1, <1>2, <1>3, <1>6 DEF JobRight, HasStored
<1> QED
    BY <1>1, <1>3, <1>6, <1>7, <1>8, PayKeeps

LEMMA PayStep == ASSUME PayInv, Psl!Next \/ UNCHANGED pay PROVE PayInv'
    BY PayAsks, PayLimited, PayStores, PayAttaches, PayFinds, PayWrites, PayDeletes, PayDeleted, PayStops DEF Psl!Next

LEMMA PayslipsKept == PayInv => Psl!TypeOK /\ Psl!PayslipsAreKept
    BY PayCardinalityIs DEF PayInv, PaySerial, Psl!WithinLimit, Psl!PayslipsAreKept

(***************************************************************************)
(* The portal.                                                              *)
(***************************************************************************)
PortalInv == PinInv /\ MobileInv /\ VacationInv /\ PayInv

LEMMA PortalInit == MCInit => PortalInv
    BY PinInit, MobileInit, VacationInit, PayInit DEF MCInit, PortalInv

LEMMA PortalStep ==
    ASSUME PortalInv, MCNext \/ UNCHANGED <<area, vars, pin, mobile, leave, pay, records>>
    PROVE  PortalInv'
<1>1. Lck!Next \/ UNCHANGED pin
    BY DEF MCNext
<1>2. Mob!Next \/ UNCHANGED mobile
    BY DEF MCNext
<1>3. Vac!Next \/ UNCHANGED leave
    BY DEF MCNext
<1>4. Psl!Next \/ UNCHANGED pay
    BY DEF MCNext
<1> QED
    BY <1>1, <1>2, <1>3, <1>4, PinStep, MobileStep, VacationStep, PayStep DEF PortalInv

\* For any requests, PINs, days, months and limits: wrong PINs lock the portal
\* and no lock lasts beyond its minutes, a punch from the portal that came last
\* alternates with the one before it while no two requests overlap and nobody
\* edits or enters a punch there, a vacation is decided once and its working days are those
\* of the calendar of its creation, and a payslip names an attachment of its
\* month (pin service, mobile and vacation routers, attachments service).
THEOREM PortalIsCoherentHolds == MCSpec => []PortalIsCoherent
<1>1. PortalInv => PortalIsCoherent
    BY MobileAlternates, VacationDecided, PayslipsKept DEF PortalInv, PinInv, MobileInv, PortalIsCoherent
<1>2. PortalInv /\ [MCNext]_<<area, vars, pin, mobile, leave, pay, records>> => PortalInv'
    BY PortalStep
<1> QED
    BY <1>1, <1>2, PortalInit, PTL DEF MCSpec

\* A behaviour of the group is one of a tenant's billing, and has the properties
\* that are proved of it (BillingProofs).
THEOREM GroupImplements == MCSpec => Spec
<1>1. MCInit => Init
    BY DEF MCInit
<1>2. [MCNext]_<<area, vars, pin, mobile, leave, pay, records>> => [Next]_vars
    BY DEF MCNext
<1> QED
    BY <1>1, <1>2, PTL DEF MCSpec, Spec
=============================================================================
