---------------------------- MODULE PreventivePlans ----------------------------
(***************************************************************************)
(* domain/preventive_plans/service.py: plans with a due date, and the call  *)
(* that creates a work order for every plan that is due and moves its due   *)
(* date one recurrence on.  The call is one transaction over all due plans; *)
(* the new date is computed from the date that was loaded and written over  *)
(* whatever the date has become.  A plan may be given any date by hand,     *)
(* one for which it already had an order included, or none.  Days are       *)
(* numbers.                                                                 *)
(***************************************************************************)
EXTENDS Integers, Sequences

CONSTANTS
    User,        \* users who generate
    Plan,        \* preventive plans
    Recurrence,  \* days between two orders of a plan: RECURRENCE_DAYS
    MaxDay,      \* bound: days
    MaxOrder     \* bound: orders of a plan

VARIABLES
    plan,        \* the rows of preventive_plans
    today,       \* the calendar
    orders,      \* the due date behind each work order of a plan
    loaded,      \* what each user's call has loaded: no plan, no call
    since,       \* history: the due date from which a plan runs as it does, and
                 \* how many orders it had by then
    restart,     \* history: how many orders it had when it was last set back to
                 \* a date that it had served
    callsMet,    \* history: two calls have been under way at once
    editMet      \* history: a plan was edited while a call was under way

vars == <<plan, today, orders, loaded, since, restart, callsMet, editMet>>

\* A plan without a date: next_due is NULL.
NoDate == -1

Plans == [due : Int, recurrence : Recurrence, active : BOOLEAN, deleted : BOOLEAN]

Init ==
    /\ today = 0
    /\ plan \in [Plan -> [due : {0, 1}, recurrence : Recurrence, active : {TRUE}, deleted : {FALSE}]]
    /\ orders = [p \in Plan |-> <<>>]
    /\ loaded = [u \in User |-> <<>>]
    /\ since = [p \in Plan |-> [due |-> plan[p].due, orders |-> 0]]
    /\ restart = [p \in Plan |-> 0]
    /\ callsMet = FALSE
    /\ editMet = FALSE

Due(p) == ~plan[p].deleted /\ plan[p].active /\ plan[p].due # NoDate /\ plan[p].due <= today

\* (As NextDueFrom, counted from the day of the call.)
NextDueFromToday(current, recurrence) == today + recurrence

NextDueFrom(current, recurrence) == current + recurrence

UnderWay(u) == loaded[u] # <<>>

\* generate_due_orders: the plans that are due are loaded.
GenerateBegin(u) ==
    /\ ~UnderWay(u)
    /\ \E p \in Plan : Due(p)
    /\ loaded' = [loaded EXCEPT ![u] = [p \in {p \in Plan : Due(p)} |-> plan[p]]]
    /\ callsMet' = (callsMet \/ \E v \in User : UnderWay(v))
    /\ UNCHANGED <<plan, today, orders, since, restart, editMet>>

\* (As GenerateCommit, with the due dates left for a second commit.)
GenerateInTwo(u) ==
    /\ UnderWay(u)
    /\ \A p \in DOMAIN loaded[u] : Len(orders[p]) < MaxOrder
    /\ orders' = [p \in Plan |-> IF p \in DOMAIN loaded[u] THEN Append(orders[p], loaded[u][p].due) ELSE orders[p]]
    /\ loaded' = [loaded EXCEPT ![u] = <<>>]
    /\ UNCHANGED <<plan, today, since, restart, callsMet, editMet>>

\* One commit: a work order for each plan, and its next due date.
GenerateCommit(u) ==
    /\ UnderWay(u)
    /\ \A p \in DOMAIN loaded[u] : Len(orders[p]) < MaxOrder
    /\ orders' = [p \in Plan |-> IF p \in DOMAIN loaded[u] THEN Append(orders[p], loaded[u][p].due) ELSE orders[p]]
    /\ plan' = [p \in Plan |->
         IF p \in DOMAIN loaded[u]
           THEN [plan[p] EXCEPT !.due = NextDueFrom(loaded[u][p].due, loaded[u][p].recurrence)]
           ELSE plan[p]]
    /\ loaded' = [loaded EXCEPT ![u] = <<>>]
    /\ UNCHANGED <<today, since, restart, callsMet, editMet>>

\* The call fails: nothing of it stays.
GenerateAbort(u) ==
    /\ UnderWay(u)
    /\ loaded' = [loaded EXCEPT ![u] = <<>>]
    /\ UNCHANGED <<plan, today, orders, since, restart, callsMet, editMet>>

\* Set to due date d by hand, plan p starts again if it has served d, or a later date.
RestartAt(p, d) ==
    IF d # NoDate /\ \E i \in DOMAIN orders[p] : i > restart[p] /\ orders[p][i] >= d
      THEN Len(orders[p]) ELSE restart[p]

\* update_plan, for what generation looks at.
UpdatePlan(p) ==
    /\ ~plan[p].deleted
    /\ \E d \in {NoDate, plan[p].due} \cup 0..MaxDay, r \in Recurrence, a \in BOOLEAN :
         plan' = [plan EXCEPT ![p] = [@ EXCEPT !.due = d, !.recurrence = r, !.active = a]]
    /\ since' = [since EXCEPT ![p] = [due |-> plan'[p].due, orders |-> Len(orders[p])]]
    /\ restart' = [restart EXCEPT ![p] = RestartAt(p, plan'[p].due)]
    /\ editMet' = (editMet \/ \E v \in User : UnderWay(v))
    /\ UNCHANGED <<today, orders, loaded, callsMet>>

DeletePlan(p) ==
    /\ ~plan[p].deleted
    /\ plan' = [plan EXCEPT ![p].deleted = TRUE]
    /\ UNCHANGED <<today, orders, loaded, since, restart, callsMet, editMet>>

NextDay ==
    /\ today < MaxDay
    /\ today' = today + 1
    /\ UNCHANGED <<plan, orders, loaded, since, restart, callsMet, editMet>>

Next ==
    \/ \E u \in User : GenerateBegin(u) \/ GenerateCommit(u) \/ GenerateAbort(u)
    \/ \E p \in Plan : UpdatePlan(p) \/ DeletePlan(p)
    \/ NextDay

Spec == Init /\ [][Next]_vars

------------------------------------------------------------------------------
(* Properties.                                                             *)

\* Every variable keeps its type.
TypeOK ==
    /\ plan \in [Plan -> Plans] /\ today \in 0..MaxDay
    /\ orders \in [Plan -> Seq(Int)]
    /\ since \in [Plan -> [due : Int, orders : Nat]] /\ restart \in [Plan -> Nat]
    /\ \A u \in User : DOMAIN loaded[u] \subseteq Plan
    /\ callsMet \in BOOLEAN /\ editMet \in BOOLEAN

\* The dates that p was given an order for since it runs as it does.
Dates(p) == {orders[p][i] : i \in {j \in DOMAIN orders[p] : j > since[p].orders}}

\* However calls race, a plan has an order for every due date that it has
\* passed since it was last edited: a late commit moves the date back, never
\* on.  (Edits that met a call are left out: the call's date goes over theirs.)
NoDateSkipped ==
    ~editMet => \A p \in Plan : \A d \in since[p].due..(plan[p].due - 1) :
                    (d - since[p].due) % plan[p].recurrence = 0 => d \in Dates(p)

\* As long as a call met neither another call nor an edit, a due date has one
\* order, however late the calls came and however plans were rescheduled, until
\* somebody sets a plan back to a date that it has served.
OneOrderPerDate ==
    ~callsMet /\ ~editMet =>
        \A p \in Plan : \A i, j \in DOMAIN orders[p] :
            restart[p] < i /\ i < j => orders[p][i] < orders[p][j]

\* Due dates are neither skipped nor served twice, unless by hand.
EveryDateOnce == NoDateSkipped /\ OneOrderPerDate
=============================================================================
