----------------------------- MODULE BillingProofs -----------------------------
(***************************************************************************)
(* Proofs about Billing, for every set of requests and every bound: type   *)
(* correctness, the overdue event that counts once under every             *)
(* interleaving, and what holds of dunning and of the provider while it is *)
(* quiet.                                                                  *)
(***************************************************************************)
EXTENDS Billing, TLAPS

(***************************************************************************)
(* The inductive invariant.                                                *)
(***************************************************************************)

\* What a request carries when the provider has given out the customers 1..c
\* and the subscriptions 1..n: ids of these, a status that a subscription may
\* have, the key of an event.
Carried(q, c, n) ==
    /\ q.op = "customer" /\ q.pc = "commit" => q.remote \in 1..c
    /\ q.op = "subscribe" /\ q.pc = "commit" => q.remote \in 1..n
    /\ q.op = "reconcile" => q.new \in Status /\ q.remote \in 1..n
    /\ q.op = "webhook" => q.new \in {"past_due", "canceled"} /\ q.key # NoKey
    /\ q.op = "webhook" /\ q.pc = "overdue" => q.key.kind = "payment"
    /\ q.op # "webhook" => q.key = NoKey

AllCarried == \A r \in Request : Carried(req[r], customers, Len(remote))

TypeInv == TypeOK /\ AllCarried

\* The unique constraint: an event in process is not on record, and no other
\* request processes it; a payment that was answered is on record.
EventsOnce ==
    /\ \A r \in Request : req[r].op = "webhook" => req[r].key \notin events
    /\ \A r, o \in Request : r # o /\ req[r].op = "webhook" => req[r].key # req[o].key
    /\ \A p \in answered : PaymentKey(p) \in events

\* One request at a time.
Alone == \A r, o \in Request : req[r] # NoRequest /\ req[o] # NoRequest => r = o

\* A column that request q does not write has the value it would write.
Settled(q, column, current, new) == column \in q.dirty \/ current = new

\* What request q has checked of the rows s and c is still so, and what it
\* does not write needs not be written.
Fresh(q, s, c) ==
    /\ q.op = "customer" => c.customer = 0 /\ (q.pc # "commit" => q.remote = 0)
    /\ q.op = "subscribe" =>
         /\ s.link = 0 /\ (q.pc # "commit" => q.remote = 0)
         /\ Settled(q, "status", s.status, "active")
    /\ q.op = "expire" => s.status = "trial"
    /\ q.op = "suspend" =>
         /\ s.status = "past_due" /\ s.since = "old"
         /\ Settled(q, "company", c.status, "suspended")
    /\ q.op = "reactivate" => Settled(q, "status", s.status, "active")
    /\ q.op = "delete" => Settled(q, "company", c.status, "inactive")
    /\ q.op = "reconcile" /\ q.pc = "commit" => q.new \in RemoteStatus
    /\ q.op = "webhook" =>
         /\ "since" \in q.dirty => s.since = "none"
         /\ "status" \in q.dirty /\ q.new = "past_due" => s.status = "active" /\ "since" \in q.dirty

\* The date that suspension counts from is there, and a suspended
\* subscription blocks the login.
Dunned ==
    /\ sub.status = "past_due" => sub.since # "none"
    /\ sub.status = "suspended" => sub.since = "old" /\ company.status # "active"

Serial ==
    quiet =>
        /\ Alone
        /\ \A r \in Request : Fresh(req[r], sub, company)
        /\ Dunned
        /\ NothingUnlinked

IInv == TypeInv /\ EventsOnce /\ Serial

(***************************************************************************)
(* Types.                                                                  *)
(***************************************************************************)
Op == {"none", "customer", "subscribe", "expire", "suspend", "reactivate", "delete", "reconcile", "webhook"}

LEMMA RequestTypes ==
    ASSUME TypeInv, NEW r \in Request
    PROVE  /\ req[r] \in RequestType /\ Carried(req[r], customers, Len(remote))
           /\ sub.status \in Status /\ sub.since \in Since /\ sub.link \in 0..Len(remote)
           /\ company.status \in CompanyStatus /\ company.customer \in 0..customers
BY BoundsAssumption DEF TypeInv, TypeOK, AllCarried, Subscription, Company

LEMMA NoRequestType == NoRequest \in RequestType /\ \A c, n : Carried(NoRequest, c, n)
BY DEF NoRequest, NoKey, RequestType, Key, Status, RemoteStatus, CompanyStatus, Column, Carried

LEMMA ProviderTypes ==
    TypeInv => /\ customers \in Nat /\ remote \in Seq(RemoteStatus) /\ Len(remote) \in Nat
               /\ payments \in Seq(Payment) /\ Len(payments) \in Nat
BY BoundsAssumption DEF TypeInv, TypeOK

\* What was given out once stays given out.
LEMMA CarriedGrows ==
    ASSUME NEW q \in RequestType, NEW c \in Nat, NEW d \in Nat, NEW m \in Nat, NEW n \in Nat,
           c <= d, m <= n, Carried(q, c, m)
    PROVE  Carried(q, d, n)
<1>1. q.remote \in Nat
  BY DEF RequestType
<1> QED
  BY <1>1 DEF Carried

\* A step that gives request r the value q, and may add to what the provider has.
LEMMA RequestStep ==
    ASSUME TypeInv, NEW r \in Request, NEW q \in RequestType, req' = [req EXCEPT ![r] = q],
           customers' \in Nat, customers <= customers',
           Len(remote') \in Nat, Len(remote) <= Len(remote'),
           Carried(q, customers', Len(remote'))
    PROVE  req' \in [Request -> RequestType] /\ AllCarried'
<1>1. req \in [Request -> RequestType]
  BY DEF TypeInv, TypeOK
<1>2. req' \in [Request -> RequestType]
  BY <1>1
<1>3. ASSUME NEW o \in Request PROVE Carried(req'[o], customers', Len(remote'))
  <2>1. CASE o = r
    BY <1>1, <2>1
  <2>2. CASE o # r
    BY <1>1, <2>2, RequestTypes, ProviderTypes, CarriedGrows
  <2> QED
    BY <2>1, <2>2
<1> QED
  BY <1>2, <1>3 DEF AllCarried

\* The same, when the provider is not called.
LEMMA LocalStep ==
    ASSUME TypeInv, NEW r \in Request, NEW q \in RequestType, req' = [req EXCEPT ![r] = q],
           customers' = customers, remote' = remote, Carried(q, customers, Len(remote))
    PROVE  req' \in [Request -> RequestType] /\ AllCarried'
<1>1. Len(remote') = Len(remote) /\ Len(remote') \in Nat /\ customers' \in Nat
  BY ProviderTypes
<1>2. customers <= customers' /\ Len(remote) <= Len(remote') /\ Carried(q, customers', Len(remote'))
  BY <1>1
<1> QED
  BY <1>1, <1>2, RequestStep

\* A step that begins a request.
LEMMA BeginStep ==
    ASSUME TypeInv, NEW r \in Request, NEW q \in RequestType, Begin(r, q),
           Carried(q, customers, Len(remote))
    PROVE  TypeInv'
<1>1. req' = [req EXCEPT ![r] = q] /\ UNCHANGED <<sub, company, customers, remote, payments, events, answered>>
  BY DEF Begin, provider
<1>2. req' \in [Request -> RequestType] /\ AllCarried'
  BY <1>1, LocalStep
<1>3. quiet' \in BOOLEAN
  BY DEF Begin, TypeInv, TypeOK
<1> QED
  BY <1>1, <1>2, <1>3 DEF TypeInv, TypeOK

LEMMA ChangesStep ==
    ASSUME TypeInv, NEW r \in Request, NEW op \in Op \ {"webhook", "reconcile"}, NEW pc \in {"call", "commit"},
           NEW dirty \in SUBSET Column, NEW new \in Status \cup CompanyStatus,
           op \in {"customer", "subscribe"} => pc = "call",
           Changes(r, op, pc, dirty, new)
    PROVE  TypeInv'
<1> DEFINE q == [NoRequest EXCEPT !.op = op, !.pc = pc, !.dirty = dirty, !.new = new]
<1>1. q = [NoRequest EXCEPT !.op = op, !.pc = pc, !.dirty = dirty, !.new = new]
  OBVIOUS
<1>2. q \in RequestType
  BY NoRequestType DEF RequestType, Op
<1>3. q.op = op /\ q.pc = pc /\ q.key = NoKey
  BY DEF NoRequest
<1>4. Carried(q, customers, Len(remote))
  BY <1>3 DEF Carried
<1>5. Begin(r, q)
  BY DEF Changes
<1> HIDE DEF q
<1> QED
  BY <1>2, <1>4, <1>5, BeginStep

\* A step that ends request r and writes rows.
LEMMA CommitStep ==
    ASSUME TypeInv, NEW r \in Request, Respond(r), UNCHANGED <<provider, quiet>>,
           sub' \in Subscription, sub'.link <= Len(remote),
           company' \in Company, company'.customer <= customers,
           events' \subseteq Key, answered' \subseteq 1..MaxPayment
    PROVE  TypeInv'
<1>1. req' = [req EXCEPT ![r] = NoRequest] /\ UNCHANGED <<customers, remote, payments, quiet>>
  BY DEF Respond, provider
<1>2. req' \in [Request -> RequestType] /\ AllCarried'
  BY <1>1, LocalStep, NoRequestType
<1> QED
  BY <1>1, <1>2 DEF TypeInv, TypeOK

\* A step that writes a status and a date into the subscription.
LEMMA SubscriptionStep ==
    ASSUME TypeInv, NEW status \in Status, NEW since \in Since,
           sub' = [sub EXCEPT !.status = status, !.since = since]
    PROVE  sub' \in Subscription /\ sub'.link <= Len(remote)
BY DEF TypeInv, TypeOK, Subscription

LEMMA CompanyStep ==
    ASSUME TypeInv, NEW status \in CompanyStatus, NEW gone \in BOOLEAN,
           company' = [company EXCEPT !.status = status, !.deleted = gone]
    PROVE  company' \in Company /\ company'.customer <= customers
BY DEF TypeInv, TypeOK, Company

LEMMA WrittenIs ==
    ASSUME NEW r \in Request, NEW column, NEW current, NEW new
    PROVE  Written(r, column, current, new) \in {current, new}
BY DEF Written

LEMMA DiffersIs ==
    ASSUME NEW new
    PROVE  /\ Differs("status", new) = IF sub.status # new THEN {"status"} ELSE {}
           /\ Differs("since", new) = IF sub.since # new THEN {"since"} ELSE {}
           /\ Differs("company", new) = IF company.status # new THEN {"company"} ELSE {}
BY DEF Differs

LEMMA TypeInit == Init => TypeInv
<1> SUFFICES ASSUME Init PROVE TypeInv
  OBVIOUS
<1>1. remote = <<>> /\ payments = <<>> /\ Len(remote) = 0 /\ Len(payments) = 0
  BY DEF Init
<1>2. TypeOK
  BY <1>1, BoundsAssumption, NoRequestType
  DEF Init, TypeOK, Subscription, Company, Status, Since, CompanyStatus, RemoteStatus
<1>3. AllCarried
  BY NoRequestType DEF Init, AllCarried
<1> QED
  BY <1>2, <1>3 DEF TypeInv

LEMMA AbortType == ASSUME TypeInv, NEW r \in Request, Abort(r) PROVE TypeInv'
<1>1. req' = [req EXCEPT ![r] = NoRequest] /\ UNCHANGED <<sub, company, customers, remote, payments, events, answered>>
  BY DEF Abort, Respond, provider
<1>2. req' \in [Request -> RequestType] /\ AllCarried'
  BY <1>1, LocalStep, NoRequestType
<1>3. quiet' \in BOOLEAN
  BY DEF Abort, TypeInv, TypeOK
<1> QED
  BY <1>1, <1>2, <1>3 DEF TypeInv, TypeOK

LEMMA ProvisionType == ASSUME TypeInv, NEW r \in Request, Provision(r) PROVE TypeInv'
<1>1. CASE CustomerBegin(r)
  BY <1>1, ChangesStep DEF CustomerBegin, Op, Status, RemoteStatus
<1>2. CASE CreateCustomer(r)
  <2> DEFINE q == [req[r] EXCEPT !.pc = "commit", !.remote = customers']
  <2>1. customers \in Nat /\ customers' \in Nat /\ customers' \in 0..MaxCustomer /\ customers' = customers + 1
    BY <1>2, ProviderTypes, BoundsAssumption DEF CreateCustomer
  <2>2. remote' = remote /\ Len(remote') \in Nat
    BY <1>2, ProviderTypes DEF CreateCustomer
  <2>3. q \in RequestType /\ q.op = "customer" /\ q.remote = customers' /\ q.key = req[r].key
    BY <1>2, <2>1, RequestTypes DEF CreateCustomer, At, RequestType
  <2>4. Carried(q, customers', Len(remote'))
    BY <1>2, <2>1, <2>3, RequestTypes DEF Carried, CreateCustomer, At
  <2>5. req' = [req EXCEPT ![r] = q]
    BY <1>2 DEF CreateCustomer
  <2> HIDE DEF q
  <2>6. req' \in [Request -> RequestType] /\ AllCarried'
    <3>1. customers' \in Nat /\ customers <= customers' /\ Len(remote) <= Len(remote')
      BY <2>1, <2>2, BoundsAssumption
    <3> QED
      BY <2>2, <2>3, <2>4, <2>5, <3>1, RequestStep
  <2>7. company'.customer <= customers'
    BY <1>2, <2>1, RequestTypes DEF CreateCustomer
  <2> QED
    BY <1>2, <2>1, <2>2, <2>6, <2>7 DEF TypeInv, TypeOK, CreateCustomer
<1>3. CASE CustomerCommit(r)
  <2>1. req[r].remote \in 1..customers
    BY <1>3, RequestTypes DEF CustomerCommit, At, Carried
  <2>2. company' \in Company /\ company'.customer <= customers
    BY <1>3, <2>1, ProviderTypes, BoundsAssumption DEF CustomerCommit, TypeInv, TypeOK, Company
  <2> QED
    BY <1>3, <2>2, CommitStep DEF CustomerCommit, TypeInv, TypeOK
<1>4. CASE SubscribeBegin(r)
  BY <1>4, ChangesStep, DiffersIs DEF SubscribeBegin, Op, Status, RemoteStatus, Column
<1>5. CASE CreateSubscription(r)
  <2> DEFINE q == [req[r] EXCEPT !.pc = "commit", !.remote = Len(remote')]
  <2>1. remote' \in Seq(RemoteStatus) /\ Len(remote') = Len(remote) + 1 /\ Len(remote') \in Nat /\ Len(remote') <= MaxSubscription
    BY <1>5, ProviderTypes, BoundsAssumption DEF CreateSubscription, RemoteStatus
  <2>2. customers' = customers /\ customers \in Nat
    BY <1>5, ProviderTypes DEF CreateSubscription
  <2>3. q \in RequestType /\ q.op = "subscribe" /\ q.remote = Len(remote') /\ q.key = req[r].key
    BY <1>5, <2>1, RequestTypes DEF CreateSubscription, At, RequestType
  <2>4. Carried(q, customers', Len(remote'))
    BY <1>5, <2>1, <2>3, RequestTypes, ProviderTypes DEF Carried, CreateSubscription, At
  <2>5. req' = [req EXCEPT ![r] = q]
    BY <1>5 DEF CreateSubscription
  <2> HIDE DEF q
  <2>6. req' \in [Request -> RequestType] /\ AllCarried'
    <3>1. customers' \in Nat /\ customers <= customers' /\ Len(remote) <= Len(remote')
      BY <2>1, <2>2, ProviderTypes
    <3> QED
      BY <2>1, <2>3, <2>4, <2>5, <3>1, RequestStep
  <2>7. sub'.link <= Len(remote')
    BY <1>5, <2>1, ProviderTypes, RequestTypes DEF CreateSubscription, TypeInv, TypeOK, Subscription
  <2> QED
    BY <1>5, <2>1, <2>2, <2>6, <2>7 DEF TypeInv, TypeOK, CreateSubscription
<1>6. CASE SubscribeCommit(r)
  <2> DEFINE status == Written(r, "status", sub.status, "active")
  <2>1. req[r].remote \in 1..Len(remote) /\ status \in Status
    BY <1>6, RequestTypes, WrittenIs DEF SubscribeCommit, At, Carried, Status, RemoteStatus
  <2>2. sub' = [sub EXCEPT !.link = req[r].remote, !.status = status]
    BY <1>6 DEF SubscribeCommit, Written, TypeInv, TypeOK, Subscription
  <2> HIDE DEF status
  <2>3. req[r].remote \in 0..MaxSubscription
    BY <2>1, ProviderTypes, BoundsAssumption DEF TypeInv, TypeOK
  <2>4. sub' \in Subscription /\ sub'.link = req[r].remote
    <3>1. sub \in Subscription
      BY DEF TypeInv, TypeOK
    <3> QED
      BY <2>1, <2>2, <2>3, <3>1 DEF Subscription
  <2>5. sub'.link <= Len(remote)
    BY <2>1, <2>4, ProviderTypes
  <2> QED
    BY <1>6, <2>4, <2>5, CommitStep DEF SubscribeCommit, TypeInv, TypeOK
<1> QED
  BY <1>1, <1>2, <1>3, <1>4, <1>5, <1>6 DEF Provision

LEMMA JobType == ASSUME TypeInv, NEW r \in Request, Job(r) PROVE TypeInv'
<1>1. CASE ExpireBegin(r)
  BY <1>1, ChangesStep DEF ExpireBegin, Op, Status, Column
<1>2. CASE ExpireCommit(r)
  <2>1. sub' = [sub EXCEPT !.status = "past_due", !.since = "recent"] /\ "past_due" \in Status /\ "recent" \in Since
    BY <1>2 DEF ExpireCommit, Status, Since
  <2> QED
    BY <1>2, <2>1, SubscriptionStep, CommitStep DEF ExpireCommit, TypeInv, TypeOK
<1>3. CASE SuspendBegin(r)
  BY <1>3, ChangesStep, DiffersIs DEF SuspendBegin, Op, Status, CompanyStatus, Column
<1>4. CASE SuspendCommit(r)
  <2> DEFINE status == Written(r, "company", company.status, "suspended")
  <2>1. sub' = [sub EXCEPT !.status = "suspended", !.since = sub.since] /\ "suspended" \in Status /\ sub.since \in Since
    BY <1>4, RequestTypes DEF SuspendCommit, Status, TypeInv, TypeOK, Subscription
  <2>2. company' = [company EXCEPT !.status = status, !.deleted = company.deleted] /\ company.deleted \in BOOLEAN
    BY <1>4 DEF SuspendCommit, TypeInv, TypeOK, Company
  <2>3. status \in CompanyStatus
    BY RequestTypes, WrittenIs DEF CompanyStatus
  <2> HIDE DEF status
  <2>4. sub' \in Subscription /\ sub'.link <= Len(remote)
    BY <2>1, SubscriptionStep
  <2>5. company' \in Company /\ company'.customer <= customers
    BY <2>2, <2>3, CompanyStep
  <2> QED
    BY <1>4, <2>4, <2>5, CommitStep DEF SuspendCommit, TypeInv, TypeOK
<1> QED
  BY <1>1, <1>2, <1>3, <1>4 DEF Job

LEMMA OperatorType == ASSUME TypeInv, NEW r \in Request, Operator(r) PROVE TypeInv'
<1>1. CASE ReactivateBegin(r)
  BY <1>1, ChangesStep, DiffersIs DEF ReactivateBegin, Op, Status, RemoteStatus, Column
<1>2. CASE ReactivateCommit(r)
  <2> DEFINE s == Written(r, "status", sub.status, "active")
             d == Written(r, "since", sub.since, "none")
             c == Written(r, "company", company.status, "active")
  <2>1. s \in Status /\ d \in Since /\ c \in CompanyStatus
    BY RequestTypes, WrittenIs DEF Status, RemoteStatus, Since, CompanyStatus
  <2>2. sub' = [sub EXCEPT !.status = s, !.since = d]
    BY <1>2 DEF ReactivateCommit, TypeInv, TypeOK, Subscription
  <2>3. company' = [company EXCEPT !.status = c, !.deleted = company.deleted] /\ company.deleted \in BOOLEAN
    BY <1>2 DEF ReactivateCommit, TypeInv, TypeOK, Company
  <2> HIDE DEF s, d, c
  <2>4. sub' \in Subscription /\ sub'.link <= Len(remote)
    BY <2>1, <2>2, SubscriptionStep
  <2>5. company' \in Company /\ company'.customer <= customers
    BY <2>1, <2>3, CompanyStep
  <2> QED
    BY <1>2, <2>4, <2>5, CommitStep DEF ReactivateCommit, TypeInv, TypeOK
<1>3. CASE DeleteTenant(r)
  BY <1>3, ChangesStep, DiffersIs DEF DeleteTenant, Op, Status, RemoteStatus, Column
<1>4. CASE DeleteCommit(r)
  <2> DEFINE c == Written(r, "company", company.status, "inactive")
  <2>1. c \in CompanyStatus
    BY RequestTypes, WrittenIs DEF CompanyStatus
  <2>2. company' = [company EXCEPT !.status = c, !.deleted = TRUE]
    BY <1>4 DEF DeleteCommit, TypeInv, TypeOK, Company
  <2> HIDE DEF c
  <2>3. company' \in Company /\ company'.customer <= customers
    BY <2>1, <2>2, CompanyStep
  <2> QED
    BY <1>4, <2>3, CommitStep DEF DeleteCommit, TypeInv, TypeOK
<1>5. CASE ReconcileBegin(r)
  <2> DEFINE q == [NoRequest EXCEPT !.op = "reconcile", !.pc = "call", !.new = sub.status, !.remote = sub.link]
  <2>1. sub.link \in 1..Len(remote) /\ sub.link \in Nat /\ sub.status \in Status
    BY <1>5, RequestTypes, ProviderTypes DEF ReconcileBegin
  <2>2. q \in RequestType
    BY <2>1, NoRequestType DEF RequestType
  <2>3. q.op = "reconcile" /\ q.key = NoKey /\ q.new = sub.status /\ q.remote = sub.link
    BY DEF NoRequest
  <2>4. Begin(r, q)
    BY <1>5 DEF ReconcileBegin
  <2> HIDE DEF q
  <2>5. Carried(q, customers, Len(remote))
    BY <2>1, <2>3 DEF Carried
  <2> QED
    BY <2>2, <2>4, <2>5, BeginStep
<1>6. CASE FetchRemote(r)
  <2> DEFINE new == remote[req[r].remote]
             dirty == IF new = req[r].new THEN {} ELSE {"status"}
             q == [req[r] EXCEPT !.pc = "commit", !.new = new, !.dirty = dirty]
  <2>1. req[r] \in RequestType /\ req[r].op = "reconcile" /\ req[r].remote \in 1..Len(remote) /\ req[r].key = NoKey
    BY <1>6, RequestTypes DEF FetchRemote, At, Carried
  <2>2. new \in RemoteStatus /\ new \in Status
    BY <2>1, ProviderTypes DEF Status
  <2>3. q = [req[r] EXCEPT !.pc = "commit", !.new = new, !.dirty = dirty] /\ dirty \in SUBSET Column
    BY DEF Column
  <2>4. req' = [req EXCEPT ![r] = q]
    BY <1>6, <2>1 DEF FetchRemote, RequestType, TypeInv, TypeOK
  <2> HIDE DEF new, dirty, q
  <2>5. q \in RequestType /\ q.op = "reconcile" /\ q.new = new /\ q.remote = req[r].remote /\ q.key = NoKey
    BY <2>1, <2>2, <2>3 DEF RequestType
  <2>6. Carried(q, customers, Len(remote))
    BY <2>1, <2>2, <2>5 DEF Carried
  <2>7. req' \in [Request -> RequestType] /\ AllCarried'
    BY <1>6, <2>4, <2>5, <2>6, LocalStep DEF FetchRemote, provider
  <2> QED
    BY <1>6, <2>7 DEF FetchRemote, provider, TypeInv, TypeOK
<1>7. CASE ReconcileCommit(r)
  <2> DEFINE s == Written(r, "status", sub.status, req[r].new)
  <2>1. req[r].new \in Status
    BY <1>7, RequestTypes DEF ReconcileCommit, At, Carried
  <2>2. s \in Status /\ sub.since \in Since
    BY <2>1, RequestTypes, WrittenIs
  <2>3. sub' = [sub EXCEPT !.status = s, !.since = sub.since]
    BY <1>7 DEF ReconcileCommit, TypeInv, TypeOK, Subscription
  <2> HIDE DEF s
  <2>4. sub' \in Subscription /\ sub'.link <= Len(remote)
    BY <2>2, <2>3, SubscriptionStep
  <2> QED
    BY <1>7, <2>4, CommitStep DEF ReconcileCommit, TypeInv, TypeOK
<1> QED
  BY <1>1, <1>2, <1>3, <1>4, <1>5, <1>6, <1>7 DEF Operator

\* An event's request carries its key and what it would write.
LEMMA EventStep ==
    ASSUME TypeInv, NEW r \in Request, NEW type \in {"other", "overdue", "deleted"}, NEW dirty \in SUBSET Column,
           NEW new \in {"past_due", "canceled"}, NEW key \in Key \ {NoKey},
           type = "overdue" => key.kind = "payment",
           Event(r, type, dirty, new, key)
    PROVE  TypeInv'
<1> DEFINE q == [NoRequest EXCEPT !.op = "webhook", !.pc = type, !.dirty = dirty, !.new = new, !.key = key]
<1>1. q \in RequestType
  BY NoRequestType DEF RequestType, Status
<1>2. q.op = "webhook" /\ q.pc = type /\ q.new = new /\ q.key = key
  BY DEF NoRequest
<1>3. Begin(r, q)
  BY DEF Event
<1> HIDE DEF q
<1>4. Carried(q, customers, Len(remote))
  BY <1>2 DEF Carried
<1> QED
  BY <1>1, <1>3, <1>4, BeginStep

LEMMA KeyTypes ==
    ASSUME TypeInv
    PROVE  /\ \A p \in DOMAIN payments : PaymentKey(p) \in Key \ {NoKey} /\ PaymentKey(p).kind = "payment"
           /\ \A s \in DOMAIN remote : DeletionKey(s) \in Key \ {NoKey}
<1>1. \A p \in DOMAIN payments : p \in 1..MaxPayment
  BY ProviderTypes, BoundsAssumption DEF TypeInv, TypeOK
<1>2. \A s \in DOMAIN remote : s \in 1..MaxSubscription
  BY ProviderTypes, BoundsAssumption DEF TypeInv, TypeOK
<1> QED
  BY <1>1, <1>2 DEF PaymentKey, DeletionKey, NoKey, Key

LEMMA WebhookType == ASSUME TypeInv, NEW r \in Request, Webhook(r) PROVE TypeInv'
<1>1. ASSUME NEW p \in DOMAIN payments, PaymentWebhook(r, p) PROVE TypeInv'
  <2>1. payments[p] \in Payment
    BY ProviderTypes
  <2> DEFINE dirty(type) == IF type = "overdue" /\ sub.link = payments[p].sub THEN PastDue ELSE {}
  <2>2. PICK type \in payments[p].sent : Event(r, type, dirty(type), OverdueStatus, PaymentKey(p))
    BY <1>1 DEF PaymentWebhook
  <2>3. PastDue \in SUBSET Column /\ payments[p].sent \subseteq {"other", "overdue"}
    BY <2>1 DEF PastDue, Column, Payment
  <2> QED
    BY <2>2, <2>3, EventStep, KeyTypes DEF OverdueStatus
<1>2. ASSUME NEW s \in DOMAIN remote, DeletionWebhook(r, s) PROVE TypeInv'
  <2>1. Event(r, "deleted", IF sub.link = s THEN Differs("status", "canceled") ELSE {}, "canceled", DeletionKey(s))
    BY <1>2 DEF DeletionWebhook
  <2>2. Differs("status", "canceled") \in SUBSET Column
    BY DiffersIs DEF Column
  <2> QED
    BY <2>1, <2>2, EventStep, KeyTypes
<1>3. CASE WebhookCommit(r)
  <2> DEFINE s == Written(r, "status", sub.status, req[r].new)
             d == Written(r, "since", sub.since, "recent")
  <2>1. req[r].new \in Status /\ req[r].key \in Key /\ (req[r].pc = "overdue" => req[r].key.id \in 1..MaxPayment)
    BY <1>3, RequestTypes DEF WebhookCommit, Carried, Status, RequestType, Key
  <2>2. s \in Status /\ d \in Since
    BY <2>1, RequestTypes, WrittenIs DEF Since
  <2>3. sub' = [sub EXCEPT !.status = s, !.since = d]
    BY <1>3 DEF WebhookCommit, TypeInv, TypeOK, Subscription
  <2> HIDE DEF s, d
  <2>4. sub' \in Subscription /\ sub'.link <= Len(remote)
    BY <2>2, <2>3, SubscriptionStep
  <2>5. events' \subseteq Key /\ answered' \subseteq 1..MaxPayment
    BY <1>3, <2>1 DEF WebhookCommit, TypeInv, TypeOK
  <2> QED
    BY <1>3, <2>4, <2>5, CommitStep DEF WebhookCommit, TypeInv, TypeOK
<1> QED
  BY <1>1, <1>2, <1>3 DEF Webhook

LEMMA EnvironmentType == ASSUME TypeInv, Environment PROVE TypeInv'
<1>1. ASSUME NEW p \in DOMAIN payments, AlreadyProcessed(p) PROVE TypeInv'
  <2>1. p \in 1..MaxPayment
    BY ProviderTypes, BoundsAssumption DEF TypeInv, TypeOK
  <2> QED
    BY <1>1, <2>1 DEF AlreadyProcessed, TypeInv, TypeOK, AllCarried, provider
<1>2. ASSUME NEW p \in DOMAIN payments, BecomesOverdue(p) PROVE TypeInv'
  <2>1. payments[p] \in Payment
    BY ProviderTypes
  <2>2. [payments[p] EXCEPT !.sent = @ \cup {"overdue"}] \in Payment
    BY <2>1 DEF Payment
  <2>3. payments' = [payments EXCEPT ![p] = [payments[p] EXCEPT !.sent = @ \cup {"overdue"}]]
    BY <1>2 DEF BecomesOverdue
  <2>4. payments' \in Seq(Payment) /\ Len(payments') = Len(payments)
    BY <2>2, <2>3, ProviderTypes
  <2> QED
    BY <1>2, <2>4 DEF BecomesOverdue, TypeInv, TypeOK, AllCarried
<1>3. ASSUME NEW s \in DOMAIN remote, NewPayment(s) PROVE TypeInv'
  <2>1. [sub |-> s, sent |-> {"other"}] \in Payment
    BY ProviderTypes, BoundsAssumption DEF Payment, TypeInv, TypeOK
  <2>2. payments' \in Seq(Payment) /\ Len(payments') <= MaxPayment
    BY <1>3, <2>1, ProviderTypes, BoundsAssumption DEF NewPayment
  <2> QED
    BY <1>3, <2>2 DEF NewPayment, TypeInv, TypeOK, AllCarried
<1>4. ASSUME NEW s \in DOMAIN remote, SubscriptionEnds(s) PROVE TypeInv'
  <2>1. remote' \in Seq(RemoteStatus) /\ Len(remote') = Len(remote)
    BY <1>4, ProviderTypes DEF SubscriptionEnds, RemoteStatus
  <2> QED
    BY <1>4, <2>1 DEF SubscriptionEnds, TypeInv, TypeOK, AllCarried
<1>5. CASE GraceEnds
  <2>1. sub' = [sub EXCEPT !.status = sub.status, !.since = "old"] /\ sub.status \in Status /\ "old" \in Since
    BY <1>5 DEF GraceEnds, TypeInv, TypeOK, Subscription, Since
  <2>2. sub' \in Subscription /\ sub'.link <= Len(remote)
    BY <2>1, SubscriptionStep
  <2> QED
    BY <1>5, <2>2 DEF GraceEnds, TypeInv, TypeOK, AllCarried, provider
<1> QED
  BY <1>1, <1>2, <1>3, <1>4, <1>5 DEF Environment

LEMMA TypeStep == ASSUME TypeInv, [Next]_vars PROVE TypeInv'
<1>1. CASE UNCHANGED vars
  BY <1>1 DEF vars, provider, TypeInv, TypeOK, AllCarried
<1> QED
  BY <1>1, ProvisionType, JobType, OperatorType, WebhookType, AbortType, EnvironmentType DEF Next

\* Every variable keeps its type, and what is linked exists at the provider.
THEOREM TypeCorrect == Spec => []TypeOK
<1>1. TypeInv => TypeOK
  BY DEF TypeInv
<1> QED
  BY <1>1, TypeInit, TypeStep, PTL DEF Spec

(***************************************************************************)
(* Events.                                                                 *)
(***************************************************************************)

\* What is not a webhook leaves the events alone.
LEMMA OtherRequests ==
    ASSUME TypeInv, NEW r \in Request, Provision(r) \/ Job(r) \/ Operator(r) \/ Abort(r)
    PROVE  /\ UNCHANGED <<events, answered>>
           /\ req'[r].op # "webhook"
           /\ \A o \in Request : o # r => req'[o] = req[o]
<1>1. req \in [Request -> RequestType] /\ req[r] \in RequestType
  BY DEF TypeInv, TypeOK
<1>2. NoRequest.op = "none"
  BY DEF NoRequest
<1>3. ASSUME NEW q, Begin(r, q), q.op # "webhook"
      PROVE  /\ UNCHANGED <<events, answered>> /\ req'[r].op # "webhook"
             /\ \A o \in Request : o # r => req'[o] = req[o]
  BY <1>1, <1>3 DEF Begin
<1>4. ASSUME NEW op \in Op \ {"webhook"}, NEW pc, NEW dirty, NEW new, Changes(r, op, pc, dirty, new)
      PROVE  /\ UNCHANGED <<events, answered>> /\ req'[r].op # "webhook"
             /\ \A o \in Request : o # r => req'[o] = req[o]
  <2> DEFINE q == [NoRequest EXCEPT !.op = op, !.pc = pc, !.dirty = dirty, !.new = new]
  <2>1. q.op = op /\ Begin(r, q)
    BY <1>4 DEF Changes, NoRequest
  <2> HIDE DEF q
  <2> QED
    BY <1>3, <2>1
<1>5. ASSUME Respond(r), UNCHANGED <<events, answered>>
      PROVE  /\ UNCHANGED <<events, answered>> /\ req'[r].op # "webhook"
             /\ \A o \in Request : o # r => req'[o] = req[o]
  BY <1>1, <1>2, <1>5 DEF Respond
<1>6. CASE Provision(r)
  <2>1. CASE CustomerBegin(r) \/ SubscribeBegin(r)
    BY <1>4, <2>1 DEF CustomerBegin, SubscribeBegin, Op
  <2>2. CASE CreateCustomer(r)
    BY <1>1, <2>2 DEF CreateCustomer, At, RequestType
  <2>3. CASE CreateSubscription(r)
    BY <1>1, <2>3 DEF CreateSubscription, At, RequestType
  <2>4. CASE CustomerCommit(r) \/ SubscribeCommit(r)
    BY <1>5, <2>4 DEF CustomerCommit, SubscribeCommit
  <2> QED
    BY <1>6, <2>1, <2>2, <2>3, <2>4 DEF Provision
<1>7. CASE Job(r)
  <2>1. CASE ExpireBegin(r) \/ SuspendBegin(r)
    BY <1>4, <2>1 DEF ExpireBegin, SuspendBegin, Op
  <2>2. CASE ExpireCommit(r) \/ SuspendCommit(r)
    BY <1>5, <2>2 DEF ExpireCommit, SuspendCommit
  <2> QED
    BY <1>7, <2>1, <2>2 DEF Job
<1>8. CASE Operator(r)
  <2>1. CASE ReactivateBegin(r) \/ DeleteTenant(r)
    BY <1>4, <2>1 DEF ReactivateBegin, DeleteTenant, Op
  <2>2. CASE ReconcileBegin(r)
    <3> DEFINE q == [NoRequest EXCEPT !.op = "reconcile", !.pc = "call", !.new = sub.status, !.remote = sub.link]
    <3>1. q.op = "reconcile" /\ Begin(r, q)
      BY <2>2 DEF ReconcileBegin, NoRequest
    <3> HIDE DEF q
    <3> QED
      BY <1>3, <3>1
  <2>3. CASE FetchRemote(r)
    BY <1>1, <2>3 DEF FetchRemote, At, RequestType
  <2>4. CASE ReactivateCommit(r) \/ DeleteCommit(r) \/ ReconcileCommit(r)
    BY <1>5, <2>4 DEF ReactivateCommit, DeleteCommit, ReconcileCommit
  <2> QED
    BY <1>8, <2>1, <2>2, <2>3, <2>4 DEF Operator
<1>9. CASE Abort(r)
  BY <1>5, <1>9 DEF Abort
<1> QED
  BY <1>6, <1>7, <1>8, <1>9

LEMMA EventStart ==
    ASSUME NEW r \in Request, NEW type, NEW dirty, NEW new, NEW key, Event(r, type, dirty, new, key),
           req \in [Request -> RequestType]
    PROVE  /\ req[r] = NoRequest /\ UNCHANGED <<events, answered>>
           /\ req'[r].op = "webhook" /\ req'[r].key = key
           /\ \A o \in Request : o # r => req'[o] = req[o]
BY DEF Event, Begin, NoRequest

LEMMA EventsOnceStep ==
    ASSUME TypeInv, TypeInv', EventsOnce, [Next]_vars
    PROVE  EventsOnce'
<1>1. req \in [Request -> RequestType] /\ \A o \in Request : req[o].op # "webhook" <=> req[o].key = NoKey
  BY DEF TypeInv, TypeOK, AllCarried, Carried
<1>2. \A o \in Request : req'[o].op # "webhook" <=> req'[o].key = NoKey
  BY DEF TypeInv, AllCarried, Carried
<1>3. ASSUME NEW r \in Request, Provision(r) \/ Job(r) \/ Operator(r) \/ Abort(r) PROVE EventsOnce'
  BY <1>1, <1>2, <1>3, OtherRequests DEF EventsOnce
<1>4. ASSUME NEW r \in Request, NEW type, NEW dirty, NEW new, NEW key, Event(r, type, dirty, new, key), IsNew(key)
      PROVE  EventsOnce'
  BY <1>1, <1>2, <1>4, EventStart DEF EventsOnce, IsNew
<1>5. ASSUME NEW r \in Request, Webhook(r) PROVE EventsOnce'
  <2>1. ASSUME NEW p \in DOMAIN payments, PaymentWebhook(r, p) PROVE EventsOnce'
    BY <1>4, <2>1 DEF PaymentWebhook
  <2>2. ASSUME NEW s \in DOMAIN remote, DeletionWebhook(r, s) PROVE EventsOnce'
    BY <1>4, <2>2 DEF DeletionWebhook
  <2>3. CASE WebhookCommit(r)
    <3>1. req'[r] = NoRequest /\ \A o \in Request : o # r => req'[o] = req[o]
      BY <1>1, <2>3 DEF WebhookCommit, Respond
    <3>2. events' = events \cup {req[r].key} /\ req[r].op = "webhook"
      BY <2>3 DEF WebhookCommit
    <3>3. NoRequest.op = "none"
      BY DEF NoRequest
    <3>4. ASSUME NEW p \in answered' PROVE PaymentKey(p) \in events'
      <4>1. CASE p \in answered
        BY <3>2, <4>1 DEF EventsOnce
      <4>2. CASE p \notin answered
        <5>1. p = req[r].key.id /\ req[r].pc = "overdue"
          BY <2>3, <4>2 DEF WebhookCommit
        <5>2. req[r].key \in Key /\ req[r].key.kind = "payment"
          BY <3>2, <5>1, RequestTypes DEF Carried, RequestType
        <5>3. req[r].key = PaymentKey(p)
          BY <5>1, <5>2 DEF PaymentKey, Key
        <5> QED
          BY <3>2, <5>3
      <4> QED
        BY <4>1, <4>2
    <3> QED
      BY <1>1, <1>2, <3>1, <3>2, <3>3, <3>4 DEF EventsOnce
  <2> QED
    BY <1>5, <2>1, <2>2, <2>3 DEF Webhook
<1>6. CASE Environment
  <2>1. UNCHANGED <<events, req>>
    BY <1>6 DEF Environment, AlreadyProcessed, BecomesOverdue, NewPayment, SubscriptionEnds, GraceEnds
  <2>2. \A p \in answered' : p \in answered \/ PaymentKey(p) \in events
    BY <1>6 DEF Environment, AlreadyProcessed, BecomesOverdue, NewPayment, SubscriptionEnds, GraceEnds
  <2> QED
    BY <2>1, <2>2 DEF EventsOnce
<1>7. CASE UNCHANGED vars
  BY <1>7 DEF vars, EventsOnce
<1> QED
  BY <1>3, <1>5, <1>6, <1>7 DEF Next

LEMMA EventsOnceInit == Init => EventsOnce
BY DEF Init, EventsOnce, NoRequest

(***************************************************************************)
(* While it is quiet.                                                      *)
(***************************************************************************)

\* All that the provider has is linked.
Linked ==
    /\ \A s \in DOMAIN remote : s = sub.link
    /\ \A c \in 1..customers : c = company.customer

LEMMA NoRequestIs ==
    /\ NoRequest.op = "none" /\ NoRequest.remote = 0
    /\ \A s, c : Fresh(NoRequest, s, c)
BY DEF NoRequest, Fresh

\* A request begins: when it is still quiet after it, there is no other.
LEMMA BeginSerial ==
    ASSUME TypeInv, Serial, NEW r \in Request, NEW q \in RequestType, Begin(r, q),
           quiet => Fresh(q, sub, company)
    PROVE  Serial'
<1> SUFFICES ASSUME quiet'
             PROVE  /\ Alone' /\ (\A o \in Request : Fresh(req'[o], sub', company')) /\ Dunned'
                    /\ NothingUnlinked'
  BY DEF Serial
<1>1. quiet /\ (\A o \in Request : req[o] = NoRequest) /\ req' = [req EXCEPT ![r] = q]
      /\ UNCHANGED <<sub, company, customers, remote>>
  BY DEF Begin, provider
<1>2. req'[r] = q /\ \A o \in Request : o # r => req'[o] = NoRequest
  BY <1>1 DEF TypeInv, TypeOK
<1>3. Alone'
  BY <1>2 DEF Alone
<1>4. ASSUME NEW o \in Request PROVE Fresh(req'[o], sub', company')
  BY <1>1, <1>2, NoRequestIs
<1>5. Dunned'
  BY <1>1 DEF Serial, Dunned
<1>6. Linked
  BY <1>1, NoRequestIs DEF Serial, NothingUnlinked, Linked
<1>7. NothingUnlinked'
  BY <1>1, <1>6 DEF NothingUnlinked, Linked
<1> QED
  BY <1>3, <1>4, <1>5, <1>7

\* A request ends: then there is none.
LEMMA RespondSerial ==
    ASSUME TypeInv, Serial, NEW r \in Request, req[r] # NoRequest, Respond(r),
           quiet' => quiet /\ Dunned' /\ Linked'
    PROVE  Serial'
<1> SUFFICES ASSUME quiet'
             PROVE  /\ Alone' /\ (\A o \in Request : Fresh(req'[o], sub', company')) /\ Dunned'
                    /\ NothingUnlinked'
  BY DEF Serial
<1>1. \A o \in Request : o # r => req[o] = NoRequest
  BY DEF Serial, Alone
<1>2. \A o \in Request : req'[o] = NoRequest
  BY <1>1 DEF Respond, TypeInv, TypeOK
<1> QED
  BY <1>2, NoRequestIs DEF Alone, Linked, NothingUnlinked

\* A request goes on.
LEMMA ContinueSerial ==
    ASSUME TypeInv, Serial, NEW r \in Request, req[r] # NoRequest, NEW q \in RequestType,
           req' = [req EXCEPT ![r] = q], UNCHANGED <<sub, company, quiet>>,
           quiet => Fresh(q, sub, company) /\ NothingUnlinked'
    PROVE  Serial'
<1> SUFFICES ASSUME quiet'
             PROVE  /\ Alone' /\ (\A o \in Request : Fresh(req'[o], sub', company')) /\ Dunned'
                    /\ NothingUnlinked'
  BY DEF Serial
<1>1. \A o \in Request : o # r => req[o] = NoRequest
  BY DEF Serial, Alone
<1>2. req'[r] = q /\ \A o \in Request : o # r => req'[o] = NoRequest
  BY <1>1 DEF TypeInv, TypeOK
<1> QED
  BY <1>2, NoRequestIs DEF Alone, Serial, Dunned

\* What the provider has, as seen by the only request.
LEMMA OnlyRequest ==
    ASSUME TypeInv, Serial, quiet, NEW r \in Request, req[r] # NoRequest
    PROVE  /\ Fresh(req[r], sub, company) /\ Dunned
           /\ \A s \in DOMAIN remote : s = sub.link \/ (req[r].op = "subscribe" /\ req[r].remote = s)
           /\ \A c \in 1..customers : c = company.customer \/ (req[r].op = "customer" /\ req[r].remote = c)
<1>1. \A o \in Request : o # r => req[o].op = "none"
  BY NoRequestIs DEF Serial, Alone
<1>2. Fresh(req[r], sub, company) /\ Dunned /\ NothingUnlinked
  BY DEF Serial
<1>3. ASSUME NEW s \in DOMAIN remote, s # sub.link PROVE req[r].op = "subscribe" /\ req[r].remote = s
  <2>1. PICK o \in Request : req[o].op = "subscribe" /\ req[o].remote = s
    BY <1>2, <1>3 DEF NothingUnlinked
  <2> QED
    BY <1>1, <2>1
<1>4. ASSUME NEW c \in 1..customers, c # company.customer PROVE req[r].op = "customer" /\ req[r].remote = c
  <2>1. PICK o \in Request : req[o].op = "customer" /\ req[o].remote = c
    BY <1>2, <1>4 DEF NothingUnlinked
  <2> QED
    BY <1>1, <2>1
<1>5. \A s \in DOMAIN remote : s = sub.link \/ (req[r].op = "subscribe" /\ req[r].remote = s)
  BY <1>3
<1>6. \A c \in 1..customers : c = company.customer \/ (req[r].op = "customer" /\ req[r].remote = c)
  BY <1>4
<1> QED
  BY <1>2, <1>5, <1>6

LEMMA ChangesSerial ==
    ASSUME TypeInv, Serial, NEW r \in Request, NEW op \in Op \ {"webhook", "reconcile"}, NEW pc \in {"call", "commit"},
           NEW dirty \in SUBSET Column, NEW new \in Status \cup CompanyStatus, Changes(r, op, pc, dirty, new),
           op \in {"customer", "subscribe"} => pc = "call",
           op = "customer" => company.customer = 0,
           op = "subscribe" => sub.link = 0,
           op \in {"subscribe", "reactivate"} => "status" \in dirty \/ sub.status = "active",
           op = "expire" => sub.status = "trial",
           op = "suspend" => /\ sub.status = "past_due" /\ sub.since = "old"
                             /\ "company" \in dirty \/ company.status = "suspended",
           op = "delete" => "company" \in dirty \/ company.status = "inactive"
    PROVE  Serial'
<1> DEFINE q == [NoRequest EXCEPT !.op = op, !.pc = pc, !.dirty = dirty, !.new = new]
<1>1. q \in RequestType
  BY NoRequestType DEF RequestType, Op
<1>2. q.op = op /\ q.pc = pc /\ q.dirty = dirty /\ q.remote = 0
  BY DEF NoRequest
<1>3. Begin(r, q)
  BY DEF Changes
<1> HIDE DEF q
<1>4. Fresh(q, sub, company)
  BY <1>2 DEF Fresh, Settled
<1> QED
  BY <1>1, <1>3, <1>4, BeginSerial

LEMMA BusyIs == \A r \in Request : req[r].op # "none" => req[r] # NoRequest
BY NoRequestIs

LEMMA ProvisionSerial == ASSUME TypeInv, TypeInv', Serial, NEW r \in Request, Provision(r) PROVE Serial'
<1>1. CASE CustomerBegin(r)
  BY <1>1, ChangesSerial DEF CustomerBegin, Op, Status, RemoteStatus
<1>2. CASE CreateCustomer(r)
  <2> DEFINE q == [req[r] EXCEPT !.pc = "commit", !.remote = customers']
  <2>1. req[r] \in RequestType /\ req[r].op = "customer" /\ req[r].pc = "call" /\ req[r] # NoRequest
    BY <1>2, RequestTypes, BusyIs DEF CreateCustomer, At
  <2>2. customers \in Nat /\ customers' = customers + 1 /\ customers' \in Nat /\ remote' = remote
    BY <1>2, ProviderTypes DEF CreateCustomer
  <2>3. q \in RequestType /\ q.op = "customer" /\ q.pc = "commit" /\ q.remote = customers'
    BY <2>1, <2>2 DEF RequestType
  <2>4. req' = [req EXCEPT ![r] = q] /\ UNCHANGED <<sub, company, quiet>>
    BY <1>2 DEF CreateCustomer
  <2> HIDE DEF q
  <2>5. ASSUME quiet PROVE Fresh(q, sub, company) /\ NothingUnlinked'
    <3>1. company.customer = 0 /\ req[r].remote = 0
      BY <2>1, <2>5, OnlyRequest DEF Fresh
    <3>2. customers = 0
      BY <2>1, <2>2, <2>5, <3>1, OnlyRequest
    <3>3. \A s \in DOMAIN remote : s = sub.link
      BY <2>1, <2>5, OnlyRequest
    <3>4. req'[r] = q
      BY <2>4 DEF TypeInv, TypeOK
    <3>5. Fresh(q, sub, company)
      BY <2>3, <3>1 DEF Fresh
    <3> QED
      BY <2>2, <2>3, <2>4, <3>2, <3>3, <3>4, <3>5 DEF NothingUnlinked
  <2> QED
    BY <2>1, <2>3, <2>4, <2>5, ContinueSerial
<1>3. CASE CustomerCommit(r)
  <2>1. req[r].op = "customer" /\ req[r] # NoRequest
    BY <1>3, BusyIs DEF CustomerCommit, At
  <2>2. company'.customer = req[r].remote /\ company'.status = company.status
        /\ UNCHANGED <<sub, remote, customers, quiet>>
    BY <1>3 DEF CustomerCommit, provider, TypeInv, TypeOK, Company
  <2>3. ASSUME quiet PROVE Dunned' /\ Linked'
    <3>1. company.customer = 0 /\ Dunned
      BY <2>1, <2>3, OnlyRequest DEF Fresh
    <3>2. \A c \in 1..customers : c = req[r].remote
      BY <2>1, <2>3, <3>1, OnlyRequest, ProviderTypes
    <3>3. \A s \in DOMAIN remote : s = sub.link
      BY <2>1, <2>3, OnlyRequest
    <3> QED
      BY <2>2, <3>1, <3>2, <3>3 DEF Linked, Dunned
  <2> QED
    BY <1>3, <2>1, <2>2, <2>3, RespondSerial DEF CustomerCommit
<1>4. CASE SubscribeBegin(r)
  BY <1>4, ChangesSerial, DiffersIs DEF SubscribeBegin, Op, Status, RemoteStatus, Column
<1>5. CASE CreateSubscription(r)
  <2> DEFINE q == [req[r] EXCEPT !.pc = "commit", !.remote = Len(remote')]
  <2>1. req[r] \in RequestType /\ req[r].op = "subscribe" /\ req[r].pc = "call" /\ req[r] # NoRequest
    BY <1>5, RequestTypes, BusyIs DEF CreateSubscription, At
  <2>2. Len(remote) \in Nat /\ Len(remote') = Len(remote) + 1 /\ Len(remote') \in Nat /\ customers' = customers
        /\ DOMAIN remote' = 1..Len(remote')
    BY <1>5, ProviderTypes DEF CreateSubscription
  <2>3. q \in RequestType /\ q.op = "subscribe" /\ q.pc = "commit" /\ q.remote = Len(remote') /\ q.dirty = req[r].dirty
    BY <2>1, <2>2 DEF RequestType
  <2>4. req' = [req EXCEPT ![r] = q] /\ UNCHANGED <<sub, company, quiet>>
    BY <1>5 DEF CreateSubscription
  <2> HIDE DEF q
  <2>5. ASSUME quiet PROVE Fresh(q, sub, company) /\ NothingUnlinked'
    <3>1. sub.link = 0 /\ req[r].remote = 0 /\ Settled(q, "status", sub.status, "active")
      BY <2>1, <2>3, <2>5, OnlyRequest DEF Fresh, Settled
    <3>2. Len(remote) = 0
      <4>1. \A s \in DOMAIN remote : s = 0
        BY <2>1, <2>5, <3>1, OnlyRequest
      <4>2. DOMAIN remote = 1..Len(remote)
        BY ProviderTypes
      <4>3. ASSUME Len(remote) # 0 PROVE FALSE
        <5>1. 1 \in DOMAIN remote
          BY <2>2, <4>2, <4>3
        <5> QED
          BY <4>1, <5>1
      <4> QED
        BY <4>3
    <3>3. \A c \in 1..customers : c = company.customer
      BY <2>1, <2>5, OnlyRequest
    <3>4. req'[r] = q
      BY <2>4 DEF TypeInv, TypeOK
    <3>5. Fresh(q, sub, company)
      BY <2>3, <3>1 DEF Fresh
    <3> QED
      BY <2>2, <2>3, <2>4, <3>2, <3>3, <3>4, <3>5 DEF NothingUnlinked
  <2> QED
    BY <2>1, <2>3, <2>4, <2>5, ContinueSerial
<1>6. CASE SubscribeCommit(r)
  <2>1. req[r].op = "subscribe" /\ req[r] # NoRequest
    BY <1>6, BusyIs DEF SubscribeCommit, At
  <2>2. sub'.link = req[r].remote /\ sub'.status = Written(r, "status", sub.status, "active")
        /\ UNCHANGED <<company, remote, customers, quiet>>
    BY <1>6 DEF SubscribeCommit, provider, Written, TypeInv, TypeOK, Subscription
  <2>3. ASSUME quiet PROVE Dunned' /\ Linked'
    <3>1. sub.link = 0 /\ Settled(req[r], "status", sub.status, "active")
      BY <2>1, <2>3, OnlyRequest DEF Fresh
    <3>2. \A s \in DOMAIN remote : s = req[r].remote
      BY <2>1, <2>3, <3>1, OnlyRequest, ProviderTypes
    <3>3. \A c \in 1..customers : c = company.customer
      BY <2>1, <2>3, OnlyRequest
    <3>4. sub'.status = "active"
      BY <2>2, <3>1 DEF Settled, Written
    <3> QED
      BY <2>2, <3>2, <3>3, <3>4 DEF Linked, Dunned
  <2> QED
    BY <1>6, <2>1, <2>2, <2>3, RespondSerial DEF SubscribeCommit
<1> QED
  BY <1>1, <1>2, <1>3, <1>4, <1>5, <1>6 DEF Provision

LEMMA JobSerial == ASSUME TypeInv, TypeInv', Serial, NEW r \in Request, Job(r) PROVE Serial'
<1>1. CASE ExpireBegin(r)
  BY <1>1, ChangesSerial DEF ExpireBegin, Op, Status, Column
<1>2. CASE ExpireCommit(r)
  <2>1. req[r].op = "expire" /\ req[r] # NoRequest
    BY <1>2, BusyIs DEF ExpireCommit, At
  <2>2. sub'.link = sub.link /\ sub'.status = "past_due" /\ sub'.since = "recent"
        /\ UNCHANGED <<company, remote, customers, quiet>>
    BY <1>2 DEF ExpireCommit, provider, TypeInv, TypeOK, Subscription
  <2>3. ASSUME quiet PROVE Dunned' /\ Linked'
    BY <2>1, <2>2, <2>3, OnlyRequest DEF Linked, Dunned
  <2> QED
    BY <1>2, <2>1, <2>2, <2>3, RespondSerial DEF ExpireCommit
<1>3. CASE SuspendBegin(r)
  BY <1>3, ChangesSerial, DiffersIs DEF SuspendBegin, Op, Status, CompanyStatus, Column
<1>4. CASE SuspendCommit(r)
  <2>1. req[r].op = "suspend" /\ req[r] # NoRequest
    BY <1>4, BusyIs DEF SuspendCommit, At
  <2>2. sub'.link = sub.link /\ sub'.status = "suspended" /\ sub'.since = sub.since
        /\ company'.customer = company.customer
        /\ company'.status = Written(r, "company", company.status, "suspended")
        /\ UNCHANGED <<remote, customers, quiet>>
    BY <1>4 DEF SuspendCommit, provider, Written, TypeInv, TypeOK, Subscription, Company
  <2>3. ASSUME quiet PROVE Dunned' /\ Linked'
    <3>1. sub.since = "old" /\ Settled(req[r], "company", company.status, "suspended") /\ Linked
      BY <2>1, <2>3, OnlyRequest DEF Fresh, Linked
    <3>2. company'.status = "suspended"
      BY <2>2, <3>1 DEF Settled, Written
    <3> QED
      BY <2>2, <3>1, <3>2 DEF Linked, Dunned
  <2> QED
    BY <1>4, <2>1, <2>2, <2>3, RespondSerial DEF SuspendCommit
<1> QED
  BY <1>1, <1>2, <1>3, <1>4 DEF Job

LEMMA OperatorSerial == ASSUME TypeInv, TypeInv', Serial, NEW r \in Request, Operator(r) PROVE Serial'
<1>1. CASE ReactivateBegin(r)
  BY <1>1, ChangesSerial, DiffersIs DEF ReactivateBegin, Op, Status, RemoteStatus, Column
<1>2. CASE ReactivateCommit(r)
  <2>1. req[r].op = "reactivate" /\ req[r] # NoRequest
    BY <1>2, BusyIs DEF ReactivateCommit, At
  <2>2. sub'.link = sub.link /\ sub'.status = Written(r, "status", sub.status, "active")
        /\ company'.customer = company.customer
        /\ UNCHANGED <<remote, customers, quiet>>
    BY <1>2 DEF ReactivateCommit, provider, Written, TypeInv, TypeOK, Subscription, Company
  <2>3. ASSUME quiet PROVE Dunned' /\ Linked'
    <3>1. Settled(req[r], "status", sub.status, "active") /\ Linked
      BY <2>1, <2>3, OnlyRequest DEF Fresh, Linked
    <3>2. sub'.status = "active"
      BY <2>2, <3>1 DEF Settled, Written
    <3> QED
      BY <2>2, <3>1, <3>2 DEF Linked, Dunned
  <2> QED
    BY <1>2, <2>1, <2>2, <2>3, RespondSerial DEF ReactivateCommit
<1>3. CASE DeleteTenant(r)
  BY <1>3, ChangesSerial, DiffersIs DEF DeleteTenant, Op, Status, RemoteStatus, Column
<1>4. CASE DeleteCommit(r)
  <2>1. req[r].op = "delete" /\ req[r] # NoRequest
    BY <1>4, BusyIs DEF DeleteCommit, At
  <2>2. company'.customer = company.customer
        /\ company'.status = Written(r, "company", company.status, "inactive")
        /\ UNCHANGED <<sub, remote, customers, quiet>>
    BY <1>4 DEF DeleteCommit, provider, Written, TypeInv, TypeOK, Company
  <2>3. ASSUME quiet PROVE Dunned' /\ Linked'
    <3>1. Settled(req[r], "company", company.status, "inactive") /\ Linked /\ Dunned
      BY <2>1, <2>3, OnlyRequest DEF Fresh, Linked
    <3>2. company'.status = "inactive"
      BY <2>2, <3>1 DEF Settled, Written
    <3> QED
      BY <2>2, <3>1, <3>2 DEF Linked, Dunned
  <2> QED
    BY <1>4, <2>1, <2>2, <2>3, RespondSerial DEF DeleteCommit
<1>5. CASE ReconcileBegin(r)
  <2> DEFINE q == [NoRequest EXCEPT !.op = "reconcile", !.pc = "call", !.new = sub.status, !.remote = sub.link]
  <2>1. sub.link \in Nat /\ sub.status \in Status
    BY RequestTypes, ProviderTypes
  <2>2. q \in RequestType
    BY <2>1, NoRequestType DEF RequestType
  <2>3. q.op = "reconcile" /\ q.pc = "call" /\ Begin(r, q)
    BY <1>5 DEF ReconcileBegin, NoRequest
  <2> HIDE DEF q
  <2>4. Fresh(q, sub, company)
    BY <2>3 DEF Fresh
  <2> QED
    BY <2>2, <2>3, <2>4, BeginSerial
<1>6. CASE FetchRemote(r)
  <2> DEFINE new == remote[req[r].remote]
             dirty == IF new = req[r].new THEN {} ELSE {"status"}
             q == [req[r] EXCEPT !.pc = "commit", !.new = new, !.dirty = dirty]
  <2>1. req[r] \in RequestType /\ req[r].op = "reconcile" /\ req[r].remote \in 1..Len(remote) /\ req[r] # NoRequest
    BY <1>6, RequestTypes, BusyIs DEF FetchRemote, At, Carried
  <2>2. new \in RemoteStatus /\ new \in Status
    BY <2>1, ProviderTypes DEF Status
  <2>3. q = [req[r] EXCEPT !.pc = "commit", !.new = new, !.dirty = dirty] /\ dirty \in SUBSET Column
    BY DEF Column
  <2>4. req' = [req EXCEPT ![r] = q] /\ UNCHANGED <<sub, company, customers, remote, quiet>>
    BY <1>6, <2>1 DEF FetchRemote, RequestType, provider, TypeInv, TypeOK
  <2> HIDE DEF new, dirty, q
  <2>5. q \in RequestType /\ q.op = "reconcile" /\ q.new = new
    BY <2>1, <2>2, <2>3 DEF RequestType
  <2>6. Fresh(q, sub, company)
    BY <2>2, <2>5 DEF Fresh
  <2>7. ASSUME quiet PROVE NothingUnlinked'
    <3>1. Linked
      BY <2>1, <2>7, OnlyRequest DEF Linked
    <3> QED
      BY <2>4, <3>1 DEF Linked, NothingUnlinked
  <2> QED
    BY <2>1, <2>4, <2>5, <2>6, <2>7, ContinueSerial
<1>7. CASE ReconcileCommit(r)
  <2>1. req[r].op = "reconcile" /\ req[r].pc = "commit" /\ req[r] # NoRequest
    BY <1>7, BusyIs DEF ReconcileCommit, At
  <2>2. sub'.link = sub.link /\ sub'.since = sub.since
        /\ sub'.status = Written(r, "status", sub.status, req[r].new)
        /\ UNCHANGED <<company, remote, customers, quiet>>
    BY <1>7 DEF ReconcileCommit, provider, Written, TypeInv, TypeOK, Subscription
  <2>3. ASSUME quiet PROVE Dunned' /\ Linked'
    <3>1. req[r].new \in RemoteStatus /\ Linked /\ Dunned
      BY <2>1, <2>3, OnlyRequest DEF Fresh, Linked
    <3>2. sub'.status = sub.status \/ sub'.status \in RemoteStatus
      BY <2>2, <3>1 DEF Written
    <3> QED
      BY <2>2, <3>1, <3>2 DEF Linked, Dunned, RemoteStatus
  <2> QED
    BY <1>7, <2>1, <2>2, <2>3, RespondSerial DEF ReconcileCommit
<1> QED
  BY <1>1, <1>2, <1>3, <1>4, <1>5, <1>6, <1>7 DEF Operator

LEMMA EventSerial ==
    ASSUME TypeInv, Serial, NEW r \in Request, NEW type \in {"other", "overdue", "deleted"},
           NEW dirty \in SUBSET Column, NEW new \in {"past_due", "canceled"}, NEW key \in Key,
           Event(r, type, dirty, new, key),
           "since" \in dirty => sub.since = "none",
           "status" \in dirty /\ new = "past_due" => sub.status = "active" /\ "since" \in dirty
    PROVE  Serial'
<1> DEFINE q == [NoRequest EXCEPT !.op = "webhook", !.pc = type, !.dirty = dirty, !.new = new, !.key = key]
<1>1. q \in RequestType
  BY NoRequestType DEF RequestType, Status
<1>2. q.op = "webhook" /\ q.dirty = dirty /\ q.new = new /\ Begin(r, q)
  BY DEF Event, NoRequest
<1> HIDE DEF q
<1>3. Fresh(q, sub, company)
  BY <1>2 DEF Fresh
<1> QED
  BY <1>1, <1>2, <1>3, BeginSerial

LEMMA WebhookSerial == ASSUME TypeInv, TypeInv', Serial, NEW r \in Request, Webhook(r) PROVE Serial'
<1>1. ASSUME NEW p \in DOMAIN payments, PaymentWebhook(r, p) PROVE Serial'
  <2>1. payments[p] \in Payment
    BY ProviderTypes
  <2> DEFINE dirty(type) == IF type = "overdue" /\ sub.link = payments[p].sub THEN PastDue ELSE {}
  <2>2. PICK type \in payments[p].sent : Event(r, type, dirty(type), OverdueStatus, PaymentKey(p))
    BY <1>1 DEF PaymentWebhook
  <2>3. payments[p].sent \subseteq {"other", "overdue"}
    BY <2>1 DEF Payment
  <2>4. /\ dirty(type) \in SUBSET Column
        /\ "since" \in dirty(type) => sub.since = "none"
        /\ "status" \in dirty(type) => sub.status = "active" /\ "since" \in dirty(type)
    BY DEF PastDue, Column
  <2> HIDE DEF dirty
  <2> QED
    BY <2>2, <2>3, <2>4, EventSerial, KeyTypes DEF OverdueStatus
<1>2. ASSUME NEW s \in DOMAIN remote, DeletionWebhook(r, s) PROVE Serial'
  <2> DEFINE dirty == IF sub.link = s THEN Differs("status", "canceled") ELSE {}
  <2>1. Event(r, "deleted", dirty, "canceled", DeletionKey(s))
    BY <1>2 DEF DeletionWebhook
  <2>2. dirty \in SUBSET Column /\ "since" \notin dirty
    BY DiffersIs DEF Column
  <2> HIDE DEF dirty
  <2> QED
    BY <2>1, <2>2, EventSerial, KeyTypes
<1>3. CASE WebhookCommit(r)
  <2>1. req[r].op = "webhook" /\ req[r] # NoRequest /\ req[r].new \in {"past_due", "canceled"}
    BY <1>3, RequestTypes, BusyIs DEF WebhookCommit, Carried
  <2>2. sub'.link = sub.link /\ sub'.since = Written(r, "since", sub.since, "recent")
        /\ sub'.status = Written(r, "status", sub.status, req[r].new)
        /\ UNCHANGED <<company, remote, customers, quiet>>
    BY <1>3 DEF WebhookCommit, provider, Written, TypeInv, TypeOK, Subscription
  <2>3. ASSUME quiet PROVE Dunned' /\ Linked'
    <3>1. /\ "since" \in req[r].dirty => sub.since = "none"
          /\ "status" \in req[r].dirty /\ req[r].new = "past_due" => "since" \in req[r].dirty
          /\ Linked /\ Dunned
      BY <2>1, <2>3, OnlyRequest DEF Fresh, Linked
    <3>2. Linked'
      BY <2>2, <3>1 DEF Linked
    <3>3. Dunned'
      BY <2>1, <2>2, <3>1 DEF Dunned, Written
    <3> QED
      BY <3>2, <3>3
  <2> QED
    BY <1>3, <2>1, <2>2, <2>3, RespondSerial DEF WebhookCommit
<1> QED
  BY <1>1, <1>2, <1>3 DEF Webhook

LEMMA AbortSerial == ASSUME TypeInv, TypeInv', Serial, NEW r \in Request, Abort(r) PROVE Serial'
<1>1. req[r] # NoRequest /\ Respond(r) /\ UNCHANGED <<sub, company, customers, remote>>
  BY DEF Abort, provider
<1>2. ASSUME quiet' PROVE quiet /\ Dunned' /\ Linked'
  <2>1. quiet /\ (req[r].op \in {"customer", "subscribe"} => req[r].pc # "commit")
    BY <1>2 DEF Abort
  <2>2. Dunned
    BY <1>1, <2>1, OnlyRequest
  <2>3. ASSUME NEW s \in DOMAIN remote PROVE s = sub.link
    BY <1>1, <2>1, OnlyRequest DEF Fresh
  <2>4. ASSUME NEW c \in 1..customers PROVE c = company.customer
    BY <1>1, <2>1, OnlyRequest DEF Fresh
  <2> QED
    BY <1>1, <2>1, <2>2, <2>3, <2>4 DEF Dunned, Linked
<1> QED
  BY <1>1, <1>2, RespondSerial

LEMMA EnvironmentSerial == ASSUME TypeInv, TypeInv', Serial, Environment PROVE Serial'
<1>1. ASSUME NEW p \in DOMAIN payments, AlreadyProcessed(p) \/ BecomesOverdue(p) PROVE Serial'
  <2>1. UNCHANGED <<sub, company, customers, remote, req, quiet>>
    BY <1>1 DEF AlreadyProcessed, BecomesOverdue, provider
  <2> QED
    BY <2>1 DEF Serial, Alone, Dunned, NothingUnlinked
<1>2. ASSUME NEW s \in DOMAIN remote, NewPayment(s) PROVE Serial'
  BY <1>2 DEF NewPayment, Serial, Alone, Dunned, NothingUnlinked
<1>3. ASSUME NEW s \in DOMAIN remote, SubscriptionEnds(s) PROVE Serial'
  <2>1. DOMAIN remote' = DOMAIN remote
    BY <1>3, ProviderTypes DEF SubscriptionEnds
  <2> QED
    BY <1>3, <2>1 DEF SubscriptionEnds, Serial, Alone, Dunned, NothingUnlinked
<1>4. CASE GraceEnds
  <2>1. sub.since = "recent" /\ sub'.since = "old" /\ sub'.status = sub.status /\ sub'.link = sub.link
        /\ UNCHANGED <<company, customers, remote, req, quiet>>
    BY <1>4 DEF GraceEnds, provider, TypeInv, TypeOK, Subscription
  <2>2. ASSUME NEW q, Fresh(q, sub, company) PROVE Fresh(q, sub', company)
    BY <2>1, <2>2 DEF Fresh
  <2> QED
    BY <2>1, <2>2 DEF Serial, Alone, Dunned, NothingUnlinked
<1> QED
  BY <1>1, <1>2, <1>3, <1>4 DEF Environment

LEMMA SerialStep == ASSUME TypeInv, TypeInv', Serial, [Next]_vars PROVE Serial'
<1>1. CASE UNCHANGED vars
  BY <1>1 DEF vars, provider, Serial, Alone, Dunned, NothingUnlinked
<1> QED
  BY <1>1, ProvisionSerial, JobSerial, OperatorSerial, WebhookSerial, AbortSerial, EnvironmentSerial DEF Next

LEMMA SerialInit == Init => Serial
<1> SUFFICES ASSUME Init PROVE Serial
  OBVIOUS
<1>1. remote = <<>> /\ customers = 0
  BY DEF Init
<1>2. DOMAIN remote = {} /\ 1..customers = {}
  BY <1>1
<1> QED
  BY <1>2, NoRequestIs DEF Init, Serial, Alone, Dunned, NothingUnlinked

(***************************************************************************)
(* The theorems.                                                           *)
(***************************************************************************)
THEOREM InvariantHolds == Spec => []IInv
<1>1. Init => IInv
  BY TypeInit, EventsOnceInit, SerialInit DEF IInv
<1>2. IInv /\ [Next]_vars => IInv'
  BY TypeStep, EventsOnceStep, SerialStep DEF IInv
<1> QED
  BY <1>1, <1>2, PTL DEF Spec

\* A suspended subscription blocks the login, as long as the requests come
\* one after the other.
THEOREM SuspendedIsBlockedHolds == Spec => []SuspendedIsBlocked
<1>1. IInv => SuspendedIsBlocked
  BY DEF IInv, Serial, Dunned, SuspendedIsBlocked
<1> QED
  BY <1>1, InvariantHolds, PTL

\* The date that the suspension job counts from is there, and is not set anew.
THEOREM GraceIsCountedHolds == Spec => []GraceIsCounted
<1>1. IInv => GraceIsCounted
  BY DEF IInv, Serial, Dunned, GraceIsCounted
<1> QED
  BY <1>1, InvariantHolds, PTL

\* What the provider holds for the tenant is linked, or about to be.
THEOREM NothingUnlinkedHolds == Spec => []NothingUnlinked
<1>1. IInv => NothingUnlinked
  BY DEF IInv, Serial, NothingUnlinked
<1> QED
  BY <1>1, InvariantHolds, PTL

\* No event and no job brings a canceled subscription back into the dunning.
THEOREM CanceledIsNotDunnedHolds == Spec => CanceledIsNotDunned
<1>1. ASSUME IInv, [Next]_vars
      PROVE  [sub.status = "canceled" /\ quiet' => sub'.status \notin {"past_due", "suspended"}]_vars
  <2> SUFFICES ASSUME sub.status = "canceled", quiet' PROVE sub'.status \notin {"past_due", "suspended"}
    OBVIOUS
  <2>1. TypeInv /\ Serial /\ sub \in Subscription
    BY <1>1 DEF IInv, TypeInv, TypeOK
  <2>2. CASE sub' = sub
    BY <2>2
  <2>3. ASSUME NEW r \in Request, Provision(r) \/ Job(r) \/ Operator(r) \/ Webhook(r), sub' # sub
        PROVE  sub'.status \notin {"past_due", "suspended"}
    <3>1. quiet
      BY <2>3 DEF Provision, CustomerBegin, CreateCustomer, CustomerCommit, SubscribeBegin, CreateSubscription,
         SubscribeCommit, Job, ExpireBegin, ExpireCommit, SuspendBegin, SuspendCommit, Operator, ReactivateBegin,
         ReactivateCommit, DeleteTenant, DeleteCommit, ReconcileBegin, FetchRemote, ReconcileCommit,
         Webhook, PaymentWebhook, DeletionWebhook, WebhookCommit, Event, Changes, Begin
    <3>2. \A op \in Op \ {"none"} : req[r].op = op => Fresh(req[r], sub, company)
      BY <2>1, <3>1 DEF Serial
    <3>3. CASE SubscribeCommit(r) \/ ReactivateCommit(r)
      BY <2>1, <3>3 DEF SubscribeCommit, ReactivateCommit, Written, Subscription
    <3>4. CASE ExpireCommit(r)
      BY <3>2, <3>4 DEF ExpireCommit, At, Fresh, Op
    <3>5. CASE SuspendCommit(r)
      BY <3>2, <3>5 DEF SuspendCommit, At, Fresh, Op
    <3>6. CASE ReconcileCommit(r)
      <4>1. req[r].new \in RemoteStatus
        BY <3>2, <3>6 DEF ReconcileCommit, At, Fresh, Op
      <4> QED
        BY <2>1, <3>6, <4>1 DEF ReconcileCommit, Written, Subscription, RemoteStatus
    <3>7. CASE WebhookCommit(r)
      <4>1. /\ req[r].op = "webhook" /\ req[r].new \in {"past_due", "canceled"}
            /\ "status" \in req[r].dirty /\ req[r].new = "past_due" => sub.status = "active"
        BY <2>1, <3>2, <3>7, RequestTypes DEF WebhookCommit, Carried, Fresh, Op
      <4> QED
        BY <2>1, <3>7, <4>1 DEF WebhookCommit, Written, Subscription
    <3> QED
      BY <2>3, <3>3, <3>4, <3>5, <3>6, <3>7
      DEF Provision, CustomerBegin, CreateCustomer, CustomerCommit, SubscribeBegin, CreateSubscription,
          Job, ExpireBegin, SuspendBegin, Operator, ReactivateBegin, DeleteTenant, DeleteCommit,
          ReconcileBegin, FetchRemote, Webhook, PaymentWebhook, DeletionWebhook, Event, Changes, Begin
  <2>4. ASSUME NEW r \in Request, Abort(r) PROVE sub' = sub
    BY <2>4 DEF Abort
  <2>5. CASE Environment
    BY <2>1, <2>5 DEF Environment, AlreadyProcessed, BecomesOverdue, NewPayment, SubscriptionEnds, GraceEnds,
       Subscription
  <2> QED
    BY <1>1, <2>2, <2>3, <2>4, <2>5 DEF Next, vars
<1> QED
  BY <1>1, InvariantHolds, PTL DEF Spec, CanceledIsNotDunned

\* The overdue event of a payment counts once, however requests interleave.
THEOREM OverdueCountsOnceHolds == Spec => OverdueCountsOnce
<1> DEFINE Once == \A r \in Request :
         At(r, "webhook", "overdue") /\ req'[r] # req[r] /\ sub'.since # sub.since =>
             req[r].key.id \notin answered
<1>1. ASSUME IInv, [Next]_vars PROVE [Once]_vars
  <2> SUFFICES ASSUME NEW r \in Request, At(r, "webhook", "overdue"), req[r].key.id \in answered PROVE FALSE
    BY DEF Once
  <2>1. req[r].op = "webhook" /\ req[r].key.kind = "payment" /\ req[r].key \in Key
    BY <1>1, RequestTypes DEF IInv, At, Carried, RequestType
  <2>2. req[r].key = PaymentKey(req[r].key.id)
    BY <2>1 DEF PaymentKey, Key
  <2> QED
    BY <1>1, <2>1, <2>2 DEF IInv, EventsOnce
<1> QED
  BY <1>1, InvariantHolds, PTL DEF Spec, OverdueCountsOnce
=============================================================================
