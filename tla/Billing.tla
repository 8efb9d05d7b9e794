-------------------------------- MODULE Billing --------------------------------
(***************************************************************************)
(* One tenant of domain/platform: its company, its subscription and what   *)
(* the payment provider (Asaas) holds for it.  Operators and jobs call the *)
(* endpoints of the platform, the provider calls the webhook.              *)
(*                                                                         *)
(* A request runs in one session at READ COMMITTED: it loads, perhaps      *)
(* calls the provider, and commits.  The SELECTs of the subscription and   *)
(* of its company are taken together.  No code creates rows of invoices,   *)
(* so PAYMENT_CONFIRMED and PAYMENT_RECEIVED find none: with               *)
(* PAYMENT_CREATED and others that are not handled, they are the "other"   *)
(* events of a payment.                                                    *)
(* Left out is what an operator types into the status of a subscription or *)
(* of a tenant (PATCH): it may be any text at any time, and the properties *)
(* are about what the system does by itself.                               *)
(***************************************************************************)
EXTENDS Integers, Sequences

CONSTANTS
    Request,          \* requests that may be under way at the same time
    MaxCustomer,      \* bound: customers created at the provider
    MaxSubscription,  \* bound: subscriptions created at the provider
    MaxPayment        \* bound: payments created at the provider

ASSUME BoundsAssumption == MaxCustomer \in Nat /\ MaxSubscription \in Nat /\ MaxPayment \in Nat

VARIABLES
    sub,         \* the row of subscriptions
    company,     \* the row of companies
    customers,   \* the provider: number of customers with this external reference
    remote,      \* the provider: status of the subscriptions with this external reference
    payments,    \* the provider: the payments, each with its events so far
    events,      \* external_id of the rows of webhook_events
    req,         \* the requests
    answered,    \* history: payments whose overdue event was answered
    quiet        \* history: no two requests have been under way at once, and none has
                 \* failed after its call to the provider

provider == <<customers, remote, payments>>
vars == <<sub, company, provider, events, req, answered, quiet>>

RemoteStatus == {"active", "expired", "inactive"}

Status == {"trial", "past_due", "suspended", "canceled"} \cup RemoteStatus

CompanyStatus == {"active", "suspended", "inactive"}

\* past_due_since: unset, within the days of grace, or before them.
Since == {"none", "recent", "old"}

\* external_id: the id of the payment, whatever happened to it; the event of
\* a deleted subscription has no payment, only an id of its own.
PaymentKey(p) == [kind |-> "payment", id |-> p]
DeletionKey(s) == [kind |-> "deletion", id |-> s]
NoKey == [kind |-> "none", id |-> 0]

\* Columns that a request may write.
Column == {"status", "since", "company"}

NoRequest == [op |-> "none", pc |-> "idle", dirty |-> {}, new |-> "active", remote |-> 0, key |-> NoKey]

Init ==
    /\ sub = [status |-> "trial", since |-> "none", link |-> 0]
    /\ company = [status |-> "active", deleted |-> FALSE, customer |-> 0]
    /\ customers = 0
    /\ remote = <<>>
    /\ payments = <<>>
    /\ events = {}
    /\ req = [r \in Request |-> NoRequest]
    /\ answered = {}
    /\ quiet = TRUE

------------------------------------------------------------------------------
(* Requests.                                                               *)

\* The ORM writes only the columns whose new value differs from what was
\* loaded: which ones is settled when the request begins.
Begin(r, request) ==
    /\ req[r] = NoRequest
    /\ req' = [req EXCEPT ![r] = request]
    /\ quiet' = (quiet /\ \A o \in Request : req[o] = NoRequest)
    /\ UNCHANGED <<sub, company, provider, events, answered>>

Changes(r, op, pc, dirty, new) ==
    Begin(r, [NoRequest EXCEPT !.op = op, !.pc = pc, !.dirty = dirty, !.new = new])

Differs(column, new) ==
    CASE column = "status"  -> IF sub.status # new THEN {column} ELSE {}
      [] column = "since"   -> IF sub.since # new THEN {column} ELSE {}
      [] column = "company" -> IF company.status # new THEN {column} ELSE {}

At(r, op, pc) == req[r].op = op /\ req[r].pc = pc

Written(r, column, current, new) == IF column \in req[r].dirty THEN new ELSE current

Respond(r) == req' = [req EXCEPT ![r] = NoRequest]

\* A request fails; what it did at the provider stays.
Abort(r) ==
    /\ req[r] # NoRequest
    /\ quiet' = (quiet /\ ~(req[r].op \in {"customer", "subscribe"} /\ req[r].pc = "commit"))
    /\ Respond(r)
    /\ UNCHANGED <<sub, company, provider, events, answered>>

------------------------------------------------------------------------------
(* Provisioning at the provider.                                           *)

\* (As CustomerBegin, whether the tenant is at the provider or not.)
CustomerAnyhow(r) ==
    /\ ~company.deleted
    /\ Changes(r, "customer", "call", {}, "active")

CustomerBegin(r) ==
    /\ ~company.deleted
    /\ company.customer = 0
    /\ Changes(r, "customer", "call", {}, "active")

CreateCustomer(r) ==
    /\ At(r, "customer", "call")
    /\ customers < MaxCustomer
    /\ customers' = customers + 1
    /\ req' = [req EXCEPT ![r].pc = "commit", ![r].remote = customers']
    /\ UNCHANGED <<sub, company, remote, payments, events, answered, quiet>>

CustomerCommit(r) ==
    /\ At(r, "customer", "commit")
    /\ company' = [company EXCEPT !.customer = req[r].remote]
    /\ Respond(r)
    /\ UNCHANGED <<sub, provider, events, answered, quiet>>

SubscribeBegin(r) ==
    /\ sub.link = 0
    /\ company.customer # 0
    /\ Changes(r, "subscribe", "call", Differs("status", "active"), "active")

CreateSubscription(r) ==
    /\ At(r, "subscribe", "call")
    /\ Len(remote) < MaxSubscription
    /\ remote' = Append(remote, "active")
    /\ req' = [req EXCEPT ![r].pc = "commit", ![r].remote = Len(remote')]
    /\ UNCHANGED <<sub, company, customers, payments, events, answered, quiet>>

SubscribeCommit(r) ==
    /\ At(r, "subscribe", "commit")
    /\ sub' = [sub EXCEPT !.link = req[r].remote, !.status = Written(r, "status", @, "active")]
    /\ Respond(r)
    /\ UNCHANGED <<company, provider, events, answered, quiet>>

------------------------------------------------------------------------------
(* Trial, suspension, reactivation.                                        *)

\* When the trial ends is left open.
ExpireBegin(r) ==
    /\ sub.status = "trial"
    /\ Changes(r, "expire", "commit", {"status", "since"}, "past_due")

ExpireCommit(r) ==
    /\ At(r, "expire", "commit")
    /\ sub' = [sub EXCEPT !.status = "past_due", !.since = "recent"]
    /\ Respond(r)
    /\ UNCHANGED <<company, provider, events, answered, quiet>>

\* grace_days have passed since past_due_since (which is not NULL).
SuspendBegin(r) ==
    /\ sub.status = "past_due"
    /\ sub.since = "old"
    /\ Changes(r, "suspend", "commit", {"status"} \cup Differs("company", "suspended"), "suspended")

\* (As SuspendCommit, with the company forgotten.)
SuspendOnly(r) ==
    /\ At(r, "suspend", "commit")
    /\ sub' = [sub EXCEPT !.status = "suspended"]
    /\ Respond(r)
    /\ UNCHANGED <<company, provider, events, answered, quiet>>

SuspendCommit(r) ==
    /\ At(r, "suspend", "commit")
    /\ sub' = [sub EXCEPT !.status = "suspended"]
    /\ company' = [company EXCEPT !.status = Written(r, "company", @, "suspended")]
    /\ Respond(r)
    /\ UNCHANGED <<provider, events, answered, quiet>>

ReactivateBegin(r) ==
    Changes(r, "reactivate", "commit",
            Differs("status", "active") \cup Differs("since", "none") \cup Differs("company", "active"),
            "active")

ReactivateCommit(r) ==
    /\ At(r, "reactivate", "commit")
    /\ sub' = [sub EXCEPT !.status = Written(r, "status", @, "active"), !.since = Written(r, "since", @, "none")]
    /\ company' = [company EXCEPT !.status = Written(r, "company", @, "active")]
    /\ Respond(r)
    /\ UNCHANGED <<provider, events, answered, quiet>>

DeleteTenant(r) ==
    /\ ~company.deleted
    /\ Changes(r, "delete", "commit", Differs("company", "inactive"), "inactive")

DeleteCommit(r) ==
    /\ At(r, "delete", "commit")
    /\ company' = [company EXCEPT !.deleted = TRUE, !.status = Written(r, "company", @, "inactive")]
    /\ Respond(r)
    /\ UNCHANGED <<sub, provider, events, answered, quiet>>

------------------------------------------------------------------------------
(* reconcile_billing with auto_correct; without, it changes nothing.       *)

ReconcileBegin(r) ==
    /\ sub.link # 0
    /\ Begin(r, [NoRequest EXCEPT !.op = "reconcile", !.pc = "call", !.new = sub.status, !.remote = sub.link])

\* The status at the provider is compared with the one that was loaded.
FetchRemote(r) ==
    /\ At(r, "reconcile", "call")
    /\ LET new == remote[req[r].remote]
       IN  req' = [req EXCEPT ![r].pc = "commit", ![r].new = new,
                              ![r].dirty = IF new = req[r].new THEN {} ELSE {"status"}]
    /\ UNCHANGED <<sub, company, provider, events, answered, quiet>>

\* The provider's status is written as it is.
ReconcileCommit(r) ==
    /\ At(r, "reconcile", "commit")
    /\ sub' = [sub EXCEPT !.status = Written(r, "status", @, req[r].new)]
    /\ Respond(r)
    /\ UNCHANGED <<company, provider, events, answered, quiet>>

------------------------------------------------------------------------------
(* The webhook.                                                            *)

\* (As IsNew, with the events in process forgotten, as without a constraint.)
IsNotCommitted(key) == \A o \in Request : req[o].key # key

\* The unique constraint on (provider, external_id): an insertion waits for
\* another of the same id, and fails once that is committed.
IsNew(key) == key \notin events /\ \A o \in Request : req[o].key # key

Event(r, type, dirty, new, key) ==
    Begin(r, [NoRequest EXCEPT !.op = "webhook", !.pc = type, !.dirty = dirty, !.new = new, !.key = key])

\* (As PastDue, for a subscription in any status; with the date set anew.)
PastDueAnyhow ==
    IF sub.since # "none" THEN {} ELSE {"since"} \cup Differs("status", "past_due")
PastDueAgain == {"since"} \cup (IF sub.status = "active" THEN {"status"} ELSE {})

\* past_due_since is set when it is not yet, and then an active subscription
\* becomes past due.
PastDue ==
    IF sub.since # "none" THEN {} ELSE {"since"} \cup (IF sub.status = "active" THEN {"status"} ELSE {})

\* (As OverdueStatus, with the status of the provider.)
RawStatus == "overdue"

OverdueStatus == "past_due"

\* The provider delivers an event at least once, in any order.  The event is
\* flushed, and for an overdue payment the subscription is loaded by its link.
PaymentWebhook(r, p) ==
    /\ IsNew(PaymentKey(p))
    /\ \E type \in payments[p].sent :
         LET dirty == IF type = "overdue" /\ sub.link = payments[p].sub THEN PastDue ELSE {}
         IN  Event(r, type, dirty, OverdueStatus, PaymentKey(p))

DeletionWebhook(r, s) ==
    /\ remote[s] = "inactive"
    /\ IsNew(DeletionKey(s))
    /\ LET dirty == IF sub.link = s THEN Differs("status", "canceled") ELSE {}
       IN  Event(r, "deleted", dirty, "canceled", DeletionKey(s))

WebhookCommit(r) ==
    /\ req[r].op = "webhook"
    /\ sub' = [sub EXCEPT !.status = Written(r, "status", @, req[r].new), !.since = Written(r, "since", @, "recent")]
    /\ events' = events \cup {req[r].key}
    /\ answered' = IF req[r].pc = "overdue" THEN answered \cup {req[r].key.id} ELSE answered
    /\ Respond(r)
    /\ UNCHANGED <<company, provider, quiet>>

\* The answer to an overdue event whose payment is known: already_processed.
AlreadyProcessed(p) ==
    /\ "overdue" \in payments[p].sent
    /\ PaymentKey(p) \in events
    /\ p \notin answered
    /\ answered' = answered \cup {p}
    /\ UNCHANGED <<sub, company, provider, events, req, quiet>>

------------------------------------------------------------------------------
(* The provider and the calendar.                                          *)

NewPayment(s) ==
    /\ remote[s] = "active"
    /\ Len(payments) < MaxPayment
    /\ payments' = Append(payments, [sub |-> s, sent |-> {"other"}])
    /\ UNCHANGED <<sub, company, customers, remote, events, req, answered, quiet>>

BecomesOverdue(p) ==
    /\ "overdue" \notin payments[p].sent
    /\ payments' = [payments EXCEPT ![p].sent = @ \cup {"overdue"}]
    /\ UNCHANGED <<sub, company, customers, remote, events, req, answered, quiet>>

SubscriptionEnds(s) ==
    /\ remote[s] = "active"
    /\ \E end \in {"expired", "inactive"} : remote' = [remote EXCEPT ![s] = end]
    /\ UNCHANGED <<sub, company, customers, payments, events, req, answered, quiet>>

GraceEnds ==
    /\ sub.since = "recent"
    /\ sub' = [sub EXCEPT !.since = "old"]
    /\ UNCHANGED <<company, provider, events, req, answered, quiet>>

------------------------------------------------------------------------------

Provision(r) ==
    \/ CustomerBegin(r) \/ CreateCustomer(r) \/ CustomerCommit(r)
    \/ SubscribeBegin(r) \/ CreateSubscription(r) \/ SubscribeCommit(r)

Job(r) == ExpireBegin(r) \/ ExpireCommit(r) \/ SuspendBegin(r) \/ SuspendCommit(r)

Operator(r) ==
    \/ ReactivateBegin(r) \/ ReactivateCommit(r)
    \/ DeleteTenant(r) \/ DeleteCommit(r)
    \/ ReconcileBegin(r) \/ FetchRemote(r) \/ ReconcileCommit(r)

Webhook(r) ==
    \/ \E p \in DOMAIN payments : PaymentWebhook(r, p)
    \/ \E s \in DOMAIN remote : DeletionWebhook(r, s)
    \/ WebhookCommit(r)

Environment ==
    \/ \E p \in DOMAIN payments : AlreadyProcessed(p) \/ BecomesOverdue(p)
    \/ \E s \in DOMAIN remote : NewPayment(s) \/ SubscriptionEnds(s)
    \/ GraceEnds

Next ==
    \/ \E r \in Request : Provision(r) \/ Job(r) \/ Operator(r) \/ Webhook(r) \/ Abort(r)
    \/ Environment

Spec == Init /\ [][Next]_vars

------------------------------------------------------------------------------
(* Properties.                                                             *)

Subscription == [status : Status, since : Since, link : 0..MaxSubscription]

Company == [status : CompanyStatus, deleted : BOOLEAN, customer : 0..MaxCustomer]

Payment == [sub : 1..MaxSubscription, sent : SUBSET {"other", "overdue"}]

Key == [kind : {"none"}, id : {0}] \cup [kind : {"payment"}, id : 1..MaxPayment]
         \cup [kind : {"deletion"}, id : 1..MaxSubscription]

RequestType ==
    [op : {"none", "customer", "subscribe", "expire", "suspend", "reactivate", "delete",
           "reconcile", "webhook"},
     pc : {"idle", "call", "commit", "other", "overdue", "deleted"},
     dirty : SUBSET Column, new : Status \cup CompanyStatus, remote : Nat, key : Key]

\* Every variable keeps its type, and what is linked exists at the provider.
TypeOK ==
    /\ sub \in Subscription /\ sub.link <= Len(remote)
    /\ company \in Company /\ company.customer <= customers
    /\ quiet \in BOOLEAN
    /\ customers \in 0..MaxCustomer
    /\ remote \in Seq(RemoteStatus) /\ Len(remote) <= MaxSubscription
    /\ payments \in Seq(Payment) /\ Len(payments) <= MaxPayment
    /\ events \subseteq Key
    /\ req \in [Request -> RequestType]
    /\ answered \subseteq 1..MaxPayment

\* docs/plataforma-saas.md: a suspended subscription blocks the login.  While
\* it is quiet, the company of a suspended subscription is not active (which
\* the login asks for), whatever operators, jobs and events came in between.
SuspendedIsBlocked == quiet /\ sub.status = "suspended" => company.status # "active"

\* While it is quiet, the date that the suspension job counts from is there
\* and is not set anew: a subscription that is past due has one, and a
\* suspended one is out of its days of grace.
GraceIsCounted ==
    quiet =>
        /\ sub.status = "past_due" => sub.since # "none"
        /\ sub.status = "suspended" => sub.since = "old"

\* While it is quiet, no event and no job brings a canceled subscription back
\* into the dunning.
CanceledIsNotDunned ==
    [][sub.status = "canceled" /\ quiet' => sub'.status \notin {"past_due", "suspended"}]_vars

\* While it is quiet, all that the provider holds for the tenant is linked, or
\* is about to be.
NothingUnlinked ==
    quiet =>
        /\ \A s \in DOMAIN remote : s = sub.link \/ \E r \in Request : req[r].op = "subscribe" /\ req[r].remote = s
        /\ \A c \in 1..customers : c = company.customer \/ \E r \in Request : req[r].op = "customer" /\ req[r].remote = c

\* However often the provider repeats its events, and however requests
\* interleave, the overdue event of a payment counts once: repeated, it does
\* not undo a reactivation.
OverdueCountsOnce ==
    [][\A r \in Request :
         At(r, "webhook", "overdue") /\ req'[r] # req[r] /\ sub'.since # sub.since =>
             req[r].key.id \notin answered]_vars

\* docs/agentes/jarvis-asaas.md: PAYMENT_OVERDUE sets past_due_since.  Once
\* the event is answered, the linked subscription has the date.
OverdueIsDated ==
    [][\A p \in answered' \ answered : quiet /\ sub.link = payments[p].sub => sub'.since # "none"]_vars
=============================================================================
