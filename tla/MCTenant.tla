-------------------------------- MODULE MCTenant --------------------------------
(***************************************************************************)
(* Small instances of what is kept for one tenant: its billing, its         *)
(* employees' portal (PIN, punches from the telephone, vacations,           *)
(* payslips), and the records of its administration.  They share no row, so *)
(* every area is explored by itself, with the others standing still.        *)
(*                                                                          *)
(* The records have one area each, and one set of variables in common: an   *)
(* area names the first of them, as many as it has, and leaves the others   *)
(* at 0.                                                                    *)
(***************************************************************************)
EXTENDS Billing, FiniteSets, TLC

CONSTANTS
    Pin, PIN_MAX_ATTEMPTS, PIN_LOCKOUT, MaxTime, MaxWrong,   \* PinLockout
    MaxMoment, Day,                                          \* MobilePunch
    Nobody, MaxDate, Feast,                                  \* VacationRequests
    Month, MaxAttachment, MaxDocument, Manifests,            \* Payslips
    Email, MaxRole,                                          \* Accounts
    Cpf, Staff, Pushes, Files, MaxEmployee,                  \* Employees
    MaxClock, MaxVersion, Name,                              \* ErpSync
    Part, TTL_METRICS, TTL_PART, MaxDelay,                   \* DashboardCache
    Person, MaxSave,                                         \* Meetings
    MaxContact, MaxContract                                  \* Registry

\* A PIN, a CPF and a name are never 0, which stands for none.
NamesAssumption ==
    /\ Pin \subseteq Nat \ {0} /\ Cpf \subseteq Nat \ {0} /\ Name \subseteq Nat \ {0}
    /\ Nobody \notin Request
    /\ "metrics" \notin Part

ASSUME NamesAssumption

\* An import names a month at least; people and lists are finite.
DataAssumption ==
    /\ Manifests \subseteq Seq(Month) \ {<<>>}
    /\ Pushes \subseteq SUBSET Staff /\ Files \subseteq Seq({0} \cup Cpf)
    /\ \A people \in Pushes : IsFiniteSet(people)
    /\ IsFiniteSet(Person)

ASSUME DataAssumption

LimitsAssumption ==
    /\ PIN_MAX_ATTEMPTS \in Nat \ {0} /\ PIN_LOCKOUT \in Nat \ {0}
    /\ TTL_METRICS \in Nat \ {0} /\ TTL_PART \in [Part -> Nat \ {0}]
    /\ MaxAttachment \in Nat

ASSUME LimitsAssumption

CapsAssumption ==
    /\ MaxTime \in Nat \ {0} /\ MaxWrong \in Nat /\ MaxMoment \in Nat \ {0}
    /\ MaxDate \in Nat /\ MaxDocument \in Nat
    /\ MaxRole \in Nat \ {0} /\ MaxEmployee \in Nat /\ MaxClock \in Nat /\ MaxVersion \in Nat \ {0}
    /\ MaxDelay \in Nat /\ MaxSave \in Nat /\ MaxContact \in Nat /\ MaxContract \in Nat

ASSUME CapsAssumption

\* Days do not go back.
DayAssumption ==
    /\ Day \in [1..MaxMoment -> Nat]
    /\ \A m, n \in 1..MaxMoment : m <= n => Day[m] <= Day[n]

ASSUME DayAssumption

\* No area tells one request from the other.
Symmetry == Permutations(Request)

\* Values for the constants that a configuration cannot write down.
EveryMonthOnce == {s \in [1..Cardinality(Month) -> Month] : \A i, j \in DOMAIN s : s[i] = s[j] => i = j}

ThreeMomentsThenOne == <<0, 0, 0, 1>>

RowThatFailsFirst == {<<0, 1>>}

TwiceTheMetrics == [p \in Part |-> 2 * TTL_METRICS]

VARIABLES
    area,                                                              \* what moves
    credential, login, now, wrongs, lastWrong, byAdmin, parallel,      \* PinLockout
    place, moment, stamps, tap, settled, doubled,                      \* MobilePunch
    vacation, feasts, review, cancel, decisions, rivals, feastsThen,   \* VacationRequests
    files, attached, slips, job, stored, written, torn, mixed,         \* Payslips
    s1, s2, s3, s4, s5, s6, s7, s8, s9                                 \* the records

pin == <<credential, login, now, wrongs, lastWrong, byAdmin, parallel>>
mobile == <<place, moment, stamps, tap, settled, doubled>>
leave == <<vacation, feasts, review, cancel, decisions, rivals, feastsThen>>
pay == <<files, attached, slips, job, stored, written, torn, mixed>>
records == <<s1, s2, s3, s4, s5, s6, s7, s8, s9>>

Lck == INSTANCE PinLockout WITH User <- Request

Mob == INSTANCE MobilePunch WITH Tap <- Request

Vac == INSTANCE VacationRequests WITH Reviewer <- Request

Psl == INSTANCE Payslips WITH User <- Request

------------------------------------------------------------------------------
(* The records.                                                             *)

Acc == INSTANCE Accounts WITH
    User <- Request, accounts <- s1, roles <- s2, lastRole <- s3, request <- s4, mixed <- s5

Emp == INSTANCE Employees WITH
    User <- Request,
    employees <- s1, link <- s2, request <- s3, imported <- s4, owed <- s5, mixed <- s6, rewritten <- s7

Erp == INSTANCE ErpSync WITH
    User <- Request, MaxTime <- MaxClock,
    now <- s1, contract <- s2, asked <- s3, known <- s4, supplier <- s5, request <- s6,
    last <- s7, skipped <- s8, mixed <- s9

Dsh == INSTANCE DashboardCache WITH
    Viewer <- Request, metrics <- s1, parts <- s2, view <- s3, deleting <- s4, raced <- s5

Hnd == INSTANCE Handoffs WITH
    User <- Request, handoff <- s1, request <- s2, reader <- s3, resolvers <- s4, mixed <- s5

Mtg == INSTANCE Meetings WITH
    User <- Request,
    kind <- s1, rows <- s2, saves <- s3, deleted <- s4, save <- s5, saved <- s6, slipped <- s7, mixed <- s8

Reg == INSTANCE Registry WITH
    User <- Request,
    supplier <- s1, contacts <- s2, contracts <- s3, request <- s4, racing <- s5, mixed <- s6, dropped <- s7,
    byHand <- s8

RecordsInit ==
    \/ area = "accounts" /\ Acc!Init /\ s6 = 0 /\ s7 = 0 /\ s8 = 0 /\ s9 = 0
    \/ area = "employees" /\ Emp!Init /\ s8 = 0 /\ s9 = 0
    \/ area = "erp" /\ Erp!Init
    \/ area = "dashboard" /\ Dsh!Init /\ s6 = 0 /\ s7 = 0 /\ s8 = 0 /\ s9 = 0
    \/ area = "handoff" /\ Hnd!Init /\ s6 = 0 /\ s7 = 0 /\ s8 = 0 /\ s9 = 0
    \/ area = "meeting" /\ Mtg!Init /\ s9 = 0
    \/ area = "registry" /\ Reg!Init /\ s9 = 0

RecordsNext ==
    \/ area = "accounts" /\ Acc!Next /\ UNCHANGED <<s6, s7, s8, s9>>
    \/ area = "employees" /\ Emp!Next /\ UNCHANGED <<s8, s9>>
    \/ area = "erp" /\ Erp!Next
    \/ area = "dashboard" /\ Dsh!Next /\ UNCHANGED <<s6, s7, s8, s9>>
    \/ area = "handoff" /\ Hnd!Next /\ UNCHANGED <<s6, s7, s8, s9>>
    \/ area = "meeting" /\ Mtg!Next /\ UNCHANGED s9
    \/ area = "registry" /\ Reg!Next /\ UNCHANGED s9

------------------------------------------------------------------------------

\* An area that stands still does so in one of its initial states.
MCInit ==
    /\ \/ /\ area \in {"billing", "pin", "mobile", "vacation", "payslip"}
          /\ s1 = 0 /\ s2 = 0 /\ s3 = 0 /\ s4 = 0 /\ s5 = 0 /\ s6 = 0 /\ s7 = 0 /\ s8 = 0 /\ s9 = 0
       \/ RecordsInit
    /\ Init
    /\ Lck!Init /\ (area # "pin" => credential.pin = (CHOOSE p \in Pin : TRUE))
    /\ Mob!Init /\ (area # "mobile" => place = "far")
    /\ Vac!Init /\ (area # "vacation" => feasts = {})
    /\ Psl!Init

MCNext ==
    \/ area = "billing" /\ Next /\ UNCHANGED <<area, pin, mobile, leave, pay, records>>
    \/ area = "pin" /\ Lck!Next /\ UNCHANGED <<area, vars, mobile, leave, pay, records>>
    \/ area = "mobile" /\ Mob!Next /\ UNCHANGED <<area, vars, pin, leave, pay, records>>
    \/ area = "vacation" /\ Vac!Next /\ UNCHANGED <<area, vars, pin, mobile, pay, records>>
    \/ area = "payslip" /\ Psl!Next /\ UNCHANGED <<area, vars, pin, mobile, leave, records>>
    \/ RecordsNext /\ UNCHANGED <<area, vars, pin, mobile, leave, pay>>

\* What is explored: a behaviour is followed as long as it can break a property.
\* Nothing is claimed of punches once taps overlapped; of what employees are but
\* for their CPFs, once requests did (s6); of numbers, once requests overlapped,
\* a contract was deleted or a number given by hand (s6, s7, s8); of customers,
\* once it was not quiet.
StillClaimed ==
    /\ quiet \/ customers <= 1
    /\ ~doubled
    /\ area = "employees" => (s6 => \A i \in DOMAIN s1 : s1[i].field = 1)
    /\ area = "registry" => ~s7 /\ ~s8 /\ (s6 => s3 = <<>>)

MCSpec == MCInit /\ [][MCNext]_<<area, vars, pin, mobile, leave, pay, records>>

\* What the portal records of an employee, each part stated and explained in
\* its module: attempts, punches, vacations, payslips.
PortalIsCoherent ==
    /\ Lck!TypeOK /\ Lck!LockoutCounts
    /\ Mob!TypeOK /\ Mob!PunchesAlternate
    /\ Vac!TypeOK /\ Vac!VacationIsDecided
    /\ Psl!TypeOK /\ Psl!PayslipsAreKept

\* What the administration records, each part stated and explained in its
\* module: e-mails and roles, employees and their twins in the ERP, the age of
\* the dashboard, handoffs, lists, primary contacts and contract numbers.
RecordsAreCoherent ==
    /\ area = "accounts" => Acc!TypeOK /\ Acc!AccountsAreSound
    /\ area = "employees" => Emp!TypeOK /\ Emp!EmployeesAreSound
    /\ area = "erp" => Erp!TypeOK /\ Erp!ErpIsInStep
    /\ area = "dashboard" => Dsh!TypeOK /\ Dsh!DashboardIsFresh
    /\ area = "handoff" => Hnd!TypeOK /\ Hnd!HandoffsAreSound
    /\ area = "meeting" => Mtg!TypeOK /\ Mtg!ListIsWhole
    /\ area = "registry" => Reg!TypeOK /\ Reg!RegistryIsSound
=============================================================================
