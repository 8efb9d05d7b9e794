---------------------------- MODULE VacationRequests ----------------------------
(***************************************************************************)
(* One vacation request of an employee (domain/timeclock/service.py): the   *)
(* employee asks and cancels, managers review, or create it approved; its   *)
(* working days are counted once, from the holidays of that moment.  Day 0  *)
(* is a Monday.  Requests check the status that they loaded and write over  *)
(* whatever it has become.                                                  *)
(***************************************************************************)
EXTENDS Integers, FiniteSets

CONSTANTS
    Reviewer, \* managers
    Nobody,  \* no manager
    MaxDate, \* bound: days
    Feast    \* bound: days that may be holidays

VARIABLES
    vacation,  \* the row of vacation_requests
    feasts,    \* the rows of holidays
    review,    \* the request of each manager
    cancel,    \* a cancellation of the employee is under way
    decisions, \* history: what was committed about the request, in order
    rivals,    \* history: two requests have been under way at once
    feastsThen \* history: the holidays when the working days were counted

vars == <<vacation, feasts, review, cancel, decisions, rivals, feastsThen>>

Date == 0..MaxDate

NoVacation == [status |-> "none", first |-> 0, last |-> 0, working |-> 0, reviewer |-> Nobody]

Init ==
    /\ vacation = NoVacation
    /\ feasts \in SUBSET Feast
    /\ review = [m \in Reviewer |-> "none"]
    /\ cancel = FALSE
    /\ decisions = {}
    /\ rivals = FALSE
    /\ feastsThen = feasts

UnderWay == cancel \/ \E m \in Reviewer : review[m] # "none"

\* (As WorkingDays, with the weekends alone.)
WeekDays(first, last) == Cardinality({d \in first..last : d % 7 < 5})

\* _calc_working_days counts one day after the other.
WorkingDays(first, last) ==
    LET days == last - first + 1
        working[i \in 0..days] ==
            IF i = 0 THEN 0
            ELSE working[i - 1] + (IF (first + i - 1) % 7 < 5 /\ first + i - 1 \notin feasts THEN 1 ELSE 0)
    IN  working[days]

Created(status, reviewer) ==
    /\ vacation = NoVacation
    /\ \E first, last \in Date :
         /\ first <= last
         /\ vacation' = [status |-> status, first |-> first, last |-> last,
                         working |-> WorkingDays(first, last), reviewer |-> reviewer]
    /\ feastsThen' = feasts
    /\ UNCHANGED <<feasts, review, cancel, rivals>>

\* create_vacation_request.
Create == Created("pending", Nobody) /\ UNCHANGED decisions

\* create_vacation_request_for_employee: approved as it is created.
CreateForEmployee ==
    \E m \in Reviewer : Created("approved", m) /\ decisions' = {[status |-> "approved", by |-> m]}

\* (As Pending, with an approved request open to a rejection.)
PendingOrApproved == vacation.status \in {"pending", "approved"}

Pending == vacation.status = "pending"

\* review_vacation_request.
ReviewBegin(m) ==
    /\ Pending /\ review[m] = "none"
    /\ \E status \in {"approved", "rejected"} : review' = [review EXCEPT ![m] = status]
    /\ rivals' = (rivals \/ UnderWay)
    /\ UNCHANGED <<vacation, feasts, cancel, decisions, feastsThen>>

\* (As Reviewed, with the reviewer written only once.)
ReviewedFirst(m) ==
    [vacation EXCEPT !.status = review[m], !.reviewer = IF @ = Nobody THEN m ELSE @]

Reviewed(m) == [vacation EXCEPT !.status = review[m], !.reviewer = m]

ReviewCommit(m) ==
    /\ review[m] # "none"
    /\ vacation' = Reviewed(m)
    /\ decisions' = decisions \cup {[status |-> review[m], by |-> m]}
    /\ review' = [review EXCEPT ![m] = "none"]
    /\ UNCHANGED <<feasts, cancel, rivals, feastsThen>>

\* cancel_vacation_request.
CancelBegin ==
    /\ Pending /\ ~cancel
    /\ cancel' = TRUE
    /\ rivals' = (rivals \/ UnderWay)
    /\ UNCHANGED <<vacation, feasts, review, decisions, feastsThen>>

CancelCommit ==
    /\ cancel
    /\ vacation' = [vacation EXCEPT !.status = "cancelled"]
    /\ decisions' = decisions \cup {[status |-> "cancelled", by |-> Nobody]}
    /\ cancel' = FALSE
    /\ UNCHANGED <<feasts, review, rivals, feastsThen>>

\* A request fails and is rolled back.
Abort ==
    /\ \/ cancel /\ cancel' = FALSE /\ UNCHANGED review
       \/ \E m \in Reviewer : review[m] # "none" /\ review' = [review EXCEPT ![m] = "none"] /\ UNCHANGED cancel
    /\ UNCHANGED <<vacation, feasts, decisions, rivals, feastsThen>>

\* create_holiday (a date once) and delete_holiday.
CreateHoliday ==
    /\ \E d \in Feast \ feasts : feasts' = feasts \cup {d}
    /\ UNCHANGED <<vacation, review, cancel, decisions, rivals, feastsThen>>

DeleteHoliday ==
    /\ \E d \in feasts : feasts' = feasts \ {d}
    /\ UNCHANGED <<vacation, review, cancel, decisions, rivals, feastsThen>>

Next ==
    \/ Create \/ CreateForEmployee
    \/ \E m \in Reviewer : ReviewBegin(m) \/ ReviewCommit(m)
    \/ CancelBegin \/ CancelCommit \/ Abort
    \/ CreateHoliday \/ DeleteHoliday

Spec == Init /\ [][Next]_vars

------------------------------------------------------------------------------
(* Properties.                                                             *)

\* Every variable keeps its type.
TypeOK ==
    /\ vacation \in [status : {"none", "pending", "approved", "rejected", "cancelled"}, first : Date, last : Date,
                     working : 0..(MaxDate + 1), reviewer : Reviewer \cup {Nobody}]
    /\ feasts \subseteq Feast /\ feastsThen \subseteq Feast
    /\ review \in [Reviewer -> {"none", "approved", "rejected"}] /\ cancel \in BOOLEAN /\ rivals \in BOOLEAN

\* However reviews and a cancellation race, the reviewer on record is one who
\* has decided just what the status says.
ReviewerDecidedSo ==
    vacation.status \in {"approved", "rejected"} => [status |-> vacation.status, by |-> vacation.reviewer] \in decisions

\* As long as no two requests overlapped, a vacation is decided once.
DecidedOnce == ~rivals => Cardinality(decisions) <= 1

\* The working days are the days without weekends and the holidays that were
\* known when the vacation was asked for.
WorkingDaysCounted ==
    vacation # NoVacation =>
        vacation.working = Cardinality((vacation.first..vacation.last) \ ({d \in Date : d % 7 \in {5, 6}} \cup feastsThen))

VacationIsDecided == ReviewerDecidedSo /\ DecidedOnce /\ WorkingDaysCounted
=============================================================================
