--------------------------------- MODULE Sales ---------------------------------
(***************************************************************************)
(* domain/commercial after the sale: the invoices of one sale, edited by    *)
(* hand, and the payments that settle them.                                 *)
(*                                                                          *)
(* A request runs in one session at READ COMMITTED: it loads, and later     *)
(* writes the columns that it changed.  Payments have no columns that       *)
(* change and neither payments nor invoices are deleted by any code.        *)
(* Installation, delivery and notes of the sale decide nothing here; nor    *)
(* does which of its open statuses a sale or an invoice has ("entregue",    *)
(* "concluida"; "pendente", "atrasada"): they are one.                      *)
(***************************************************************************)
EXTENDS Integers, Sequences, FiniteSets

CONSTANTS
    User,        \* those whose requests may be under way at the same time
    Amount,      \* amounts of invoices and payments
    MaxInvoice,  \* bound: invoices
    MaxPaid,     \* bound: the payments of an invoice, added up
    MaxEdited    \* bound: invoices edited by hand

VARIABLES
    sale,      \* status of the row of sales
    invoices,  \* the rows of sales_invoices, in the order of their commits
    payments,  \* the rows of sales_payments: their sum, for every invoice
    request,   \* the requests
    edited,    \* history: invoices whose status or amount was set by hand
    mixed      \* history: two requests have been under way at once

vars == <<sale, invoices, payments, request, edited, mixed>>

SaleStatus == {"confirmada", "cancelada"}

Status == {"faturada", "paga", "cancelada"}

NoInvoice == [number |-> 0, status |-> "faturada", amount |-> 0]

NoRequest == [op |-> "none", id |-> 0, loaded |-> NoInvoice, new |-> NoInvoice, paid |-> 0]

Init ==
    /\ sale = "confirmada"
    /\ invoices = <<>> /\ payments = [i \in 1..MaxInvoice |-> 0]
    /\ request = [u \in User |-> NoRequest]
    /\ edited = {} /\ mixed = FALSE

Begin(u, r) ==
    /\ request[u] = NoRequest
    /\ request' = [request EXCEPT ![u] = r]
    /\ mixed' = (mixed \/ \E v \in User : request[v] # NoRequest)
    /\ UNCHANGED <<sale, invoices, payments, edited>>

Finish(u) == request' = [request EXCEPT ![u] = NoRequest]

Abort(u) ==
    /\ request[u] # NoRequest
    /\ Finish(u)
    /\ UNCHANGED <<sale, invoices, payments, edited, mixed>>

------------------------------------------------------------------------------
(* The sale and its invoices.                                               *)

\* update_sale: its status may be set to anything, whatever was loaded: one step.
UpdateSale(u) ==
    /\ request[u] = NoRequest
    /\ sale' \in SaleStatus \ {sale}
    /\ mixed' = (mixed \/ \E v \in User : request[v] # NoRequest)
    /\ UNCHANGED <<invoices, payments, request, edited>>

\* (As Count, of the invoices that were not cancelled.)
CountLive == Cardinality({i \in DOMAIN invoices : invoices[i].status # "cancelada"})

Count == Len(invoices)

\* create_invoice, until the INSERT: the sale, and the number that follows the
\* number of rows.
CreateBegin(u) ==
    /\ sale # "cancelada"
    /\ \E a \in Amount :
         Begin(u, [NoRequest EXCEPT !.op = "create",
                                    !.new = [number |-> Count + 1, status |-> "faturada", amount |-> a]])

CreateCommit(u) ==
    /\ request[u].op = "create"
    /\ Len(invoices) < MaxInvoice
    /\ invoices' = Append(invoices, request[u].new)
    /\ Finish(u)
    /\ UNCHANGED <<sale, payments, edited, mixed>>

\* The columns of invoice i that differ from what the request loaded.
Written(u, new) ==
    LET loaded == request[u].loaded
        row == invoices[request[u].id]
    IN  [row EXCEPT !.status = IF new.status # loaded.status THEN new.status ELSE row.status,
                    !.amount = IF new.amount # loaded.amount THEN new.amount ELSE row.amount]

\* update_invoice: status and amount may be set to anything.
UpdateInvoiceBegin(u) ==
    \E i \in DOMAIN invoices, s \in Status, a \in Amount :
        /\ s # invoices[i].status \/ a # invoices[i].amount
        /\ Cardinality(edited \cup {i}) <= MaxEdited
        /\ Begin(u, [NoRequest EXCEPT !.op = "edit", !.id = i, !.loaded = invoices[i],
                                      !.new = [invoices[i] EXCEPT !.status = s, !.amount = a]])

UpdateInvoiceCommit(u) ==
    LET i == request[u].id
        new == request[u].new
    IN  /\ request[u].op = "edit"
        /\ invoices' = [invoices EXCEPT ![i] = Written(u, new)]
        /\ edited' = edited \cup {i}
        /\ Finish(u)
        /\ UNCHANGED <<sale, payments, mixed>>

------------------------------------------------------------------------------
(* Payments.                                                                *)

\* register_payment loads the invoice and refuses a cancelled one.
PayBegin(u) ==
    \E i \in DOMAIN invoices, a \in Amount :
        /\ invoices[i].status # "cancelada"
        /\ Begin(u, [NoRequest EXCEPT !.op = "pay", !.id = i, !.loaded = invoices[i], !.paid = a])

\* (As Settles, with the new payment counted on top of the sum that has it.)
SettlesTwice(u, total) == total + request[u].paid >= request[u].loaded.amount

\* (As Settles, beyond the amount.)
SettlesBeyond(u, total) == total > request[u].loaded.amount

Settles(u, total) == total >= request[u].loaded.amount

\* The INSERT is flushed and the payments are added up: those that have been
\* committed, and its own.
PaySum(u) ==
    /\ request[u].op = "pay"
    /\ LET total == payments[request[u].id] + request[u].paid
           new == [request[u].loaded EXCEPT !.status = IF Settles(u, total) THEN "paga" ELSE @]
       IN  request' = [request EXCEPT ![u].op = "payCommit", ![u].new = new]
    /\ UNCHANGED <<sale, invoices, payments, edited, mixed>>

PayCommit(u) ==
    /\ request[u].op = "payCommit"
    /\ payments[request[u].id] + request[u].paid <= MaxPaid
    /\ payments' = [payments EXCEPT ![request[u].id] = @ + request[u].paid]
    /\ invoices' = [invoices EXCEPT ![request[u].id] = Written(u, request[u].new)]
    /\ Finish(u)
    /\ UNCHANGED <<sale, edited, mixed>>

Next ==
    \E u \in User :
        \/ UpdateSale(u) \/ CreateBegin(u) \/ CreateCommit(u) \/ UpdateInvoiceBegin(u) \/ UpdateInvoiceCommit(u)
        \/ PayBegin(u) \/ PaySum(u) \/ PayCommit(u) \/ Abort(u)

Spec == Init /\ [][Next]_vars

------------------------------------------------------------------------------
(* Properties.                                                              *)

Invoice == [number : Nat, status : Status, amount : Nat]

\* Every variable keeps its type.
TypeOK ==
    /\ sale \in SaleStatus
    /\ invoices \in Seq(Invoice) /\ Len(invoices) <= MaxInvoice
    /\ payments \in [1..MaxInvoice -> 0..MaxPaid]
    /\ request \in [User -> [op : {"none", "create", "edit", "pay", "payCommit"}, id : 0..MaxInvoice,
                             loaded : Invoice, new : Invoice, paid : Amount \cup {0}]]
    /\ edited \subseteq 1..MaxInvoice /\ mixed \in BOOLEAN

\* However payments interleave, an invoice that became "paga" by itself is
\* covered by payments that are on record.
PaidIsCovered ==
    \A i \in DOMAIN invoices \ edited : invoices[i].status = "paga" => payments[i] >= invoices[i].amount

\* As long as no two requests overlapped, an invoice becomes "paga" with the
\* payment that covers it (two partial payments that overlap do not see each
\* other, and the invoice stays open).
CoveredIsPaid ==
    ~mixed => \A i \in DOMAIN invoices \ edited : payments[i] >= invoices[i].amount => invoices[i].status = "paga"

\* As long as no two requests overlapped, no two invoices have one number
\* (which is the number of rows plus one, under no constraint).
NumbersDiffer ==
    ~mixed => \A i, j \in DOMAIN invoices : invoices[i].number = invoices[j].number => i = j

InvoicesAreSettled == PaidIsCovered /\ CoveredIsPaid /\ NumbersDiffer
=============================================================================
