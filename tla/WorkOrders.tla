------------------------------- MODULE WorkOrders -------------------------------
(***************************************************************************)
(* One work order of domain/work_orders/service.py: its status, the dates   *)
(* that go with it, and its participants, under requests that overlap.  A   *)
(* request checks the status that it loaded and writes the new one over     *)
(* whatever the status has become.  The participants are replaced by a      *)
(* DELETE and INSERTs: the DELETE takes the rows that were committed when   *)
(* it started, and two rows of one participant are a conflict.              *)
(***************************************************************************)
EXTENDS Integers, FiniteSets

CONSTANTS
    User,        \* users who edit the order
    Participant, \* users who may take part in it
    MaxReplace   \* bound: replacements of the participants

VARIABLES
    order,       \* the row of work_orders
    rows,        \* the rows of work_order_participants
    replaced,    \* replacements so far: a row carries the number of its own
    request,     \* the request of each user
    lastList,    \* history: the participants that were asked for last
    concurrent   \* history: two requests have been under way at once

vars == <<order, rows, replaced, request, lastList, concurrent>>

WORK_ORDER_STATUSES == {"aberta", "em_andamento", "aguardando_material", "concluida", "validada"}

\* (As Transitions, with a validated order reopened.)
TransitionsReopening ==
    [s \in WORK_ORDER_STATUSES |->
        CASE s = "aberta" -> {"em_andamento"}
          [] s \in {"em_andamento", "aguardando_material"} -> {"aberta", "concluida"}
          [] OTHER -> {"validada", "em_andamento"}]

Transitions ==
    [s \in WORK_ORDER_STATUSES |->
        CASE s = "aberta"              -> {"em_andamento"}
          [] s = "em_andamento"        -> {"aberta", "aguardando_material", "concluida"}
          [] s = "aguardando_material" -> {"em_andamento", "aberta", "concluida"}
          [] s = "concluida"           -> {"validada", "em_andamento"}
          [] s = "validada"            -> {}]

NoRequest == [op |-> "none", target |-> "aberta", started |-> FALSE, list |-> {}, seen |-> {}]

RowsOf(list, n) == [user : list, by : {n}]

Init ==
    /\ order = [status |-> "aberta", started |-> FALSE, completed |-> FALSE, validated |-> FALSE, deleted |-> FALSE]
    /\ lastList \in SUBSET Participant
    /\ rows = RowsOf(lastList, 0)
    /\ replaced = 0
    /\ request = [u \in User |-> NoRequest]
    /\ concurrent = FALSE

Begin(u, r) ==
    /\ request[u] = NoRequest
    /\ ~order.deleted
    /\ request' = [request EXCEPT ![u] = r]
    /\ concurrent' = (concurrent \/ \E v \in User : request[v] # NoRequest)

Finish(u) == request' = [request EXCEPT ![u] = NoRequest]

\* transition_order: the order is loaded and the transition is allowed.
TransitionBegin(u) ==
    /\ \E target \in Transitions[order.status] :
         Begin(u, [NoRequest EXCEPT !.op = "transition", !.target = target, !.started = order.started])
    /\ UNCHANGED <<order, rows, replaced, lastList>>

\* (As Dated, with a return to work forgetting that the order was concluded.)
DatedAfresh(target, started) ==
    [order EXCEPT !.status = target,
                  !.started = @ \/ (target = "em_andamento" /\ ~started),
                  !.completed = (@ \/ target = "concluida") /\ target # "em_andamento",
                  !.validated = @ \/ target = "validada"]

\* started_at is set once, by the first transition to em_andamento.
Dated(target, started) ==
    [order EXCEPT !.status = target,
                  !.started = @ \/ (target = "em_andamento" /\ ~started),
                  !.completed = @ \/ target = "concluida",
                  !.validated = @ \/ target = "validada"]

TransitionCommit(u) ==
    /\ request[u].op = "transition"
    /\ order' = Dated(request[u].target, request[u].started)
    /\ Finish(u)
    /\ UNCHANGED <<rows, replaced, lastList, concurrent>>

\* update_order with participant_ids and no other change: a change of the
\* order itself would lock its row first and put the requests in a row.
ReplaceBegin(u) ==
    /\ replaced < MaxReplace
    /\ \E list \in SUBSET Participant : Begin(u, [NoRequest EXCEPT !.op = "replace", !.list = list])
    /\ UNCHANGED <<order, rows, replaced, lastList>>

\* (As DeleteRows, with the DELETE left out when there is nothing to insert.)
DeleteRowsIfAny(u) ==
    /\ request[u].op = "replace"
    /\ request' = [request EXCEPT ![u].op = "insert", ![u].seen = IF request[u].list = {} THEN {} ELSE rows]
    /\ UNCHANGED <<order, rows, replaced, lastList, concurrent>>

\* _sync_participants: the DELETE starts, and will take the rows it sees.
DeleteRows(u) ==
    /\ request[u].op = "replace"
    /\ request' = [request EXCEPT ![u].op = "insert", ![u].seen = rows]
    /\ UNCHANGED <<order, rows, replaced, lastList, concurrent>>

Left(u) == rows \ request[u].seen

\* (As ReplaceCommit, with the participants that are there already skipped
\* by name, as seen before the DELETE.)
ReplaceMissing(u) ==
    /\ request[u].op = "insert"
    /\ replaced < MaxReplace
    /\ rows' = {r \in rows : r.user \in request[u].list} \cup
               RowsOf(request[u].list \ {r.user : r \in request[u].seen}, replaced + 1)
    /\ replaced' = replaced + 1
    /\ lastList' = request[u].list
    /\ Finish(u)
    /\ UNCHANGED <<order, concurrent>>

\* The INSERTs: a participant who is there already is a conflict (Abort).
ReplaceCommit(u) ==
    /\ request[u].op = "insert"
    /\ replaced < MaxReplace
    /\ {r.user : r \in Left(u)} \cap request[u].list = {}
    /\ rows' = Left(u) \cup RowsOf(request[u].list, replaced + 1)
    /\ replaced' = replaced + 1
    /\ lastList' = request[u].list
    /\ Finish(u)
    /\ UNCHANGED <<order, concurrent>>

\* A request fails and is rolled back.
Abort(u) ==
    /\ request[u] # NoRequest
    /\ Finish(u)
    /\ UNCHANGED <<order, rows, replaced, lastList, concurrent>>

\* delete_order: the requests under way are written all the same.
Delete ==
    /\ ~order.deleted
    /\ order' = [order EXCEPT !.deleted = TRUE]
    /\ UNCHANGED <<rows, replaced, request, lastList, concurrent>>

Next ==
    \/ \E u \in User :
         \/ TransitionBegin(u) \/ TransitionCommit(u) \/ Abort(u)
         \/ ReplaceBegin(u) \/ DeleteRows(u) \/ ReplaceCommit(u)
    \/ Delete

Spec == Init /\ [][Next]_vars

------------------------------------------------------------------------------
(* Properties.                                                             *)

\* Every variable keeps its type; a participant has one row.
TypeOK ==
    /\ order \in [status : WORK_ORDER_STATUSES, started : BOOLEAN, completed : BOOLEAN,
                  validated : BOOLEAN, deleted : BOOLEAN]
    /\ rows \subseteq [user : Participant, by : 0..MaxReplace]
    /\ \A r, s \in rows : r.user = s.user => r = s
    /\ replaced \in 0..MaxReplace /\ lastList \subseteq Participant /\ concurrent \in BOOLEAN
    /\ DOMAIN request = User

\* However transitions interleave, the dates are those of the way to the
\* status: a status that was written over another's is no exception.
DatesFollowStatus ==
    /\ order.status # "aberta" => order.started
    /\ order.status \in {"concluida", "validada"} => order.completed
    /\ order.status = "validada" => order.validated

\* As long as no two requests overlapped, an order that was validated once is
\* validated for good (docs/domain-model.md: `validada` is terminal).
ValidatedIsFinal == ~concurrent /\ order.validated => order.status = "validada"

\* However replacements interleave, the list that was committed last is there
\* in full (those of a list it raced with may be there as well).
LastListIsThere == \A p \in lastList : \E r \in rows : r.user = p

\* As long as no two requests overlapped, nobody else takes part.
OnlyTheLastList == ~concurrent => {r.user : r \in rows} = lastList

\* Status, dates and participants of an order belong together.
OrderIsCoherent == DatesFollowStatus /\ ValidatedIsFinal /\ LastListIsThere /\ OnlyTheLastList
=============================================================================
