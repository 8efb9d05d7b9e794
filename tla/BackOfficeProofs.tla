---------------------------- MODULE BackOfficeProofs ----------------------------
(***************************************************************************)
(* Proofs about contracts, and about the back office as MCBackOffice        *)
(* composes it, for any users, approvers, quantities, participants, plans,  *)
(* recurrences, lists of items and bounds.  Those about contracts are about *)
(* ContractApproval by itself; each other area has an invariant of its own, *)
(* which a step of another leaves alone.                                    *)
(***************************************************************************)
EXTENDS MCBackOffice, Counting

(***************************************************************************)
(* Contracts.  The inductive invariant is made of the types, of a decision  *)
(* that stands, and of what an active and a waiting contract have while     *)
(* requests do not overlap; for one editor, of a rejection under every      *)
(* interleaving of the approvers.                                           *)
(***************************************************************************)

Ids(S) == {s.id : s \in S}

Edits == {"submit", "update"}

\* Request q of user u, when S are the steps, n is the last id and D are the
\* steps that were decided while somebody else had found them: what a request
\* decides is pending, but for those, and an update carries a list of approvers.
Sound(q, u, S, n, D) ==
    /\ q.rows \subseteq 1..n
    /\ q.op = "update" => q.list \in ApproverLists
    /\ q.op = "decide" => u \in Decider
    /\ q.op = "decide" /\ q.pc # "begun" =>
         /\ \E x \in 1..n : q.rows = {x}
         /\ \A s \in S : s.id \in q.rows => s.status = "pendente" \/ s.id \in D

AllSound == \A u \in User : Sound(req[u], u, steps, nextStep, doubled)

TypeInv == TypeOK /\ AllSound

\* One request at a time.
Alone == \A u, v \in User : req[u] # NoRequest /\ req[v] # NoRequest => u = v

\* What request q has read of the status now and of the steps S is still so.
Fresh(q, now, S) ==
    /\ q.op \in Edits => now = "rascunho"
    /\ q.op \in Edits /\ q.pc # "begun" => Ids(S) \subseteq q.rows
    /\ q.op = "decide" => now = "aguardando_aprovacao"
    /\ q.op = "decide" /\ q.pc = "flushed" /\ q.last => \A s \in Pending(S) : s.id \in q.rows
    /\ q.op = "decide" /\ q.pc = "flushed" /\ ~q.last => \E s \in Pending(S) : s.id \notin q.rows

\* An active contract has only approvals; one that waits, no rejection and
\* someone it waits for.
Approved(now, S) ==
    /\ now \in {"ativo", "em_renovacao"} => \A s \in S : s.status = "aprovado"
    /\ now = "aguardando_aprovacao" => Pending(S) # {} /\ \A s \in S : s.status # "rejeitado"

Serial ==
    ~overlapped =>
        /\ Alone
        /\ \A u \in User : Fresh(req[u], status, steps)
        /\ ~manual => Approved(status, steps)

IInv == TypeInv /\ Serial

\* What an editor has read are all the steps there are.
EditorReadsAll ==
    \A e \in Editor : req[e].op \in Edits /\ req[e].pc # "begun" => Ids(steps) \subseteq req[e].rows

OneEditorInv == TypeInv /\ EditorReadsAll /\ RejectedMeansNotAwaiting

(***************************************************************************)
(* Types.                                                                  *)
(***************************************************************************)
LEMMA RequestTypes ==
    ASSUME TypeInv, NEW u \in User
    PROVE  req[u] \in Request /\ Sound(req[u], u, steps, nextStep, doubled)
BY DEF TypeInv, TypeOK, AllSound

LEMMA StepTypes ==
    ASSUME TypeInv
    PROVE  /\ nextStep \in Nat /\ nextStep \in 0..MaxStep /\ steps \subseteq Step
           /\ \A s \in steps : s.id \in Nat /\ s.id \in 1..nextStep
           /\ \A s, t \in steps : s.id = t.id => s = t
BY BoundAssumption DEF TypeInv, TypeOK, Step

LEMMA NoApprovalIs ==
    /\ NoRequest \in Request
    /\ NoRequest.op = "none" /\ NoRequest.pc = "idle" /\ NoRequest.rows = {}
    /\ \A u, S, n, D : Sound(NoRequest, u, S, n, D)
    /\ \A now, S : Fresh(NoRequest, now, S)
BY DEF NoRequest, Request, Lists, Status, Sound, Fresh, Edits

LEMMA LockedIs ==
    ASSUME NEW u \in User, NEW x
    PROVE  x \in Locked(u) <=> \E v \in User \ {u} : req[v].pc = "flushed" /\ x \in req[v].rows
BY DEF Locked

\* Flushed rows are held by one request.
Disjoint(r) ==
    \A u, v \in User : u # v /\ r[u].pc = "flushed" /\ r[v].pc = "flushed" => r[u].rows \cap r[v].rows = {}

LEMMA DisjointIs ==
    Disjoint(req) <=> \A u \in User : req[u].pc = "flushed" => req[u].rows \cap Locked(u) = {}
BY LockedIs DEF Disjoint

\* A step that gives user u the request q.
LEMMA RequestStep ==
    ASSUME TypeInv, NEW u \in User, NEW q \in Request, req' = [req EXCEPT ![u] = q],
           Sound(q, u, steps', nextStep', doubled'),
           \A v \in User \ {u} : Sound(req[v], v, steps', nextStep', doubled'),
           q.pc = "flushed" => q.rows \cap Locked(u) = {}
    PROVE  req' \in [User -> Request] /\ AllSound' /\ Disjoint(req')
<1>1. req \in [User -> Request] /\ Disjoint(req)
  BY DisjointIs DEF TypeInv, TypeOK
<1>2. req' \in [User -> Request] /\ req'[u] = q /\ \A v \in User : v # u => req'[v] = req[v]
  BY <1>1
<1>3. AllSound'
  BY <1>2 DEF AllSound
<1>4. \A v \in User \ {u} : q.pc = "flushed" /\ req[v].pc = "flushed" => q.rows \cap req[v].rows = {}
  BY LockedIs
<1>5. Disjoint(req')
  BY <1>1, <1>2, <1>4 DEF Disjoint
<1> QED
  BY <1>2, <1>3, <1>5

\* What another request relies on, when steps are removed or added.
LEMMA SoundKept ==
    ASSUME TypeInv, NEW v \in User, NEW S, NEW n \in Nat, nextStep <= n,
           \A s \in S : s.id \in req[v].rows => s \in steps
    PROVE  Sound(req[v], v, S, n, doubled)
<1>1. 1..nextStep \subseteq 1..n
  BY StepTypes
<1> QED
  BY <1>1, RequestTypes DEF Sound

\* A step of one request that leaves the rows alone.
LEMMA LocalStep ==
    ASSUME TypeInv, NEW u \in User, NEW q \in Request, req' = [req EXCEPT ![u] = q],
           UNCHANGED <<steps, nextStep, doubled>>, Sound(q, u, steps, nextStep, doubled),
           q.pc = "flushed" => q.rows \cap Locked(u) = {}
    PROVE  req' \in [User -> Request] /\ AllSound' /\ Disjoint(req')
<1>1. Sound(q, u, steps', nextStep', doubled') /\ \A v \in User \ {u} : Sound(req[v], v, steps', nextStep', doubled')
  BY RequestTypes
<1> QED
  BY <1>1, RequestStep

\* The next state keeps its types.
LEMMA NextTypes ==
    ASSUME status' \in Status, deleted' \in BOOLEAN, autoRenew' \in BOOLEAN, notified' \in BOOLEAN,
           endDate' \in {"far", "near", "past"}, manual' \in BOOLEAN, overlapped' \in BOOLEAN,
           doubled' \subseteq 1..MaxStep, nextStep' \in 0..MaxStep, steps' \subseteq Step,
           \A s \in steps' : s.id <= nextStep' /\ \A t \in steps' : s.id = t.id => s = t,
           req' \in [User -> Request], Disjoint(req'), AllSound'
    PROVE  TypeInv'
<1>1. \A u \in User : req'[u].pc = "flushed" => req'[u].rows \cap Locked(u)' = {}
  BY DEF Disjoint, Locked
<1> QED
  BY <1>1 DEF TypeInv, TypeOK

\* A step of one request that leaves the contract and its steps alone.
LEMMA QuietStep ==
    ASSUME TypeInv, NEW u \in User, NEW q \in Request, req' = [req EXCEPT ![u] = q],
           Sound(q, u, steps, nextStep, doubled), q.pc = "flushed" => q.rows \cap Locked(u) = {},
           UNCHANGED <<contract, steps, nextStep, notified, manual, doubled>>, overlapped' \in BOOLEAN
    PROVE  TypeInv'
<1>1. UNCHANGED <<status, deleted, autoRenew, endDate, steps, nextStep, notified, manual, doubled>>
  BY DEF contract
<1>2. req' \in [User -> Request] /\ AllSound' /\ Disjoint(req')
  BY LocalStep
<1> QED
  BY <1>1, <1>2, NextTypes DEF TypeInv, TypeOK

\* A request that is answered.
LEMMA RespondStep ==
    ASSUME TypeInv, NEW u \in User, Respond(u),
           \A v \in User \ {u} : Sound(req[v], v, steps', nextStep', doubled')
    PROVE  req' \in [User -> Request] /\ AllSound' /\ Disjoint(req')
BY RequestStep, NoApprovalIs DEF Respond

LEMMA LoadType ==
    ASSUME TypeInv, NEW u \in User, NEW op \in {"submit", "update", "decide", "status"}, NEW list \in Lists,
           op = "update" => list \in ApproverLists, op = "decide" => u \in Decider,
           Load(u, op, list)
    PROVE  TypeInv'
<1> DEFINE q == [NoRequest EXCEPT !.op = op, !.pc = "begun", !.loaded = status, !.list = list]
<1>1. q \in Request
  BY NoApprovalIs DEF Request, TypeInv, TypeOK
<1>2. q.op = op /\ q.pc = "begun" /\ q.list = list /\ q.rows = {}
  BY DEF NoRequest
<1>3. req' = [req EXCEPT ![u] = q] /\ overlapped' \in BOOLEAN
  BY DEF Load, TypeInv, TypeOK
<1> HIDE DEF q
<1>4. Sound(q, u, steps, nextStep, doubled)
  BY <1>2 DEF Sound
<1> QED
  BY <1>1, <1>2, <1>3, <1>4, QuietStep DEF Load

LEMMA ReadType == ASSUME TypeInv, NEW u \in User, ReadSteps(u) \/ FindStep(u) PROVE TypeInv'
<1> DEFINE Q(ids) == [req[u] EXCEPT !.pc = "read", !.rows = ids]
<1>1. PICK ids \in SUBSET (1..nextStep) :
        /\ req' = [req EXCEPT ![u] = Q(ids)]
        /\ req[u].op = "decide" =>
             \E s \in steps : ids = {s.id} /\ s.status = "pendente"
  <2>1. CASE ReadSteps(u)
    <3>1. req[u].op # "decide" /\ {s.id : s \in steps} \in SUBSET (1..nextStep)
      BY <2>1, StepTypes DEF ReadSteps, At
    <3> QED
      BY <2>1, <3>1 DEF ReadSteps
  <2>2. CASE FindStep(u)
    <3>1. PICK a \in Approver, s \in steps : MyStep(a, s) /\ req' = [req EXCEPT ![u] = Q({s.id})]
      BY <2>2 DEF FindStep
    <3>2. {s.id} \in SUBSET (1..nextStep)
      BY <3>1, StepTypes
    <3> QED
      BY <3>1, <3>2 DEF MyStep
  <2> QED
    BY <2>1, <2>2
<1>2. req[u] \in Request /\ Sound(req[u], u, steps, nextStep, doubled) /\ req[u].op # "none"
  BY RequestTypes DEF ReadSteps, FindStep, At
<1>3. /\ Q(ids) \in Request /\ Q(ids).op = req[u].op /\ Q(ids).pc = "read" /\ Q(ids).rows = ids
      /\ Q(ids).list = req[u].list
  <2>1. 1..nextStep \subseteq 1..MaxStep
    BY StepTypes, BoundAssumption
  <2> QED
    BY <1>2, <2>1 DEF Request
<1>4. UNCHANGED <<contract, steps, nextStep, notified, manual, overlapped, doubled>> /\ overlapped \in BOOLEAN
  BY DEF ReadSteps, FindStep, TypeInv, TypeOK
<1> HIDE DEF Q
<1>5. Sound(Q(ids), u, steps, nextStep, doubled)
  <2>1. CASE req[u].op = "decide"
    <3>1. PICK s \in steps : ids = {s.id} /\ s.status = "pendente"
      BY <1>1, <2>1
    <3>2. \A t \in steps : t.id \in ids => t = s
      BY <3>1, StepTypes
    <3> QED
      BY <1>2, <1>3, <2>1, <3>1, <3>2, StepTypes DEF Sound
  <2>2. CASE req[u].op # "decide"
    BY <1>2, <1>3, <2>2 DEF Sound
  <2> QED
    BY <2>1, <2>2
<1> QED
  BY <1>1, <1>3, <1>4, <1>5, QuietStep

LEMMA FlushType == ASSUME TypeInv, NEW u \in User, DeleteSteps(u) \/ FlushAndCount(u) PROVE TypeInv'
<1> DEFINE Q(last) == [req[u] EXCEPT !.pc = "flushed", !.last = last]
<1>1. req[u] \in Request /\ Sound(req[u], u, steps, nextStep, doubled) /\ req[u].pc = "read"
  BY RequestTypes DEF DeleteSteps, FlushAndCount, At
<1>2. PICK last \in BOOLEAN : req' = [req EXCEPT ![u] = Q(last)]
  <2>1. CASE DeleteSteps(u)
    <3>1. Q(req[u].last) = [req[u] EXCEPT !.pc = "flushed"] /\ req[u].last \in BOOLEAN
      BY <1>1 DEF Request
    <3> QED
      BY <2>1, <3>1 DEF DeleteSteps
  <2>2. CASE FlushAndCount(u)
    BY <2>2 DEF FlushAndCount
  <2> QED
    BY <2>1, <2>2
<1>3. /\ Q(last) \in Request /\ Q(last).op = req[u].op /\ Q(last).pc = "flushed" /\ Q(last).rows = req[u].rows
      /\ Q(last).list = req[u].list
  BY <1>1 DEF Request
<1> HIDE DEF Q
<1>4. Sound(Q(last), u, steps, nextStep, doubled)
  BY <1>1, <1>3 DEF Sound
<1>5. req[u].rows \cap Locked(u) = {}
  <2>1. CASE DeleteSteps(u)
    BY <2>1 DEF DeleteSteps
  <2>2. CASE FlushAndCount(u)
    <3>1. PICK s \in steps : s.id \in req[u].rows /\ s.id \notin Locked(u)
      BY <2>2 DEF FlushAndCount, Writable
    <3>2. req[u].rows = {s.id}
      BY <1>1, <2>2, <3>1 DEF Sound, FlushAndCount, At
    <3> QED
      BY <3>1, <3>2
  <2> QED
    BY <2>1, <2>2
<1>6. UNCHANGED <<contract, steps, nextStep, notified, manual, overlapped, doubled>> /\ overlapped \in BOOLEAN
  BY DEF DeleteSteps, FlushAndCount, TypeInv, TypeOK
<1> QED
  BY <1>2, <1>3, <1>4, <1>5, <1>6, QuietStep

LEMMA AbortType == ASSUME TypeInv, NEW u \in User, Abort(u) PROVE TypeInv'
<1>1. req' = [req EXCEPT ![u] = NoRequest] /\ overlapped' \in BOOLEAN
  BY DEF Abort, Respond, TypeInv, TypeOK
<1> QED
  BY <1>1, NoApprovalIs, QuietStep DEF Abort

(***************************************************************************)
(* Steps that rewrite the approval steps.                                  *)
(***************************************************************************)

\* A decision: the rows of the request get it, the others are as they were.
LEMMA DecidedIs ==
    ASSUME TypeInv, NEW u \in User, NEW decision \in {"aprovado", "rejeitado"}, Decided(u, decision)
    PROVE  /\ steps' \subseteq Step /\ Ids(steps') = Ids(steps) /\ doubled' \subseteq 1..MaxStep
           /\ \A t \in steps' : \E s \in steps :
                /\ s.id = t.id /\ s.approver = t.approver
                /\ IF s.id \in req[u].rows THEN t.status = decision ELSE t = s
           /\ \A s, t \in steps' : s.id = t.id => s = t
<1> DEFINE New(s) == IF s.id \in req[u].rows THEN [s EXCEPT !.status = decision] ELSE s
<1>1. steps' = {New(s) : s \in steps}
  BY DEF Decided
<1>2. ASSUME NEW s \in Step
      PROVE  /\ New(s) \in Step /\ New(s).id = s.id /\ New(s).approver = s.approver
             /\ IF s.id \in req[u].rows THEN New(s).status = decision ELSE New(s) = s
  BY DEF Step
<1> HIDE DEF New
<1>3. steps \subseteq Step
  BY StepTypes
<1>4. steps' \subseteq Step
  BY <1>1, <1>2, <1>3
<1>5. Ids(steps') = Ids(steps)
  BY <1>1, <1>2, <1>3 DEF Ids
<1>6. ASSUME NEW t \in steps'
      PROVE  \E s \in steps :
                /\ s.id = t.id /\ s.approver = t.approver
                /\ IF s.id \in req[u].rows THEN t.status = decision ELSE t = s
  BY <1>1, <1>2, <1>3
<1>7. ASSUME NEW s \in steps', NEW t \in steps', s.id = t.id PROVE s = t
  <2>1. PICK a \in steps, b \in steps : s = New(a) /\ t = New(b)
    BY <1>1
  <2>2. a.id = b.id
    BY <1>2, <1>3, <1>7, <2>1
  <2> QED
    BY <2>1, <2>2, StepTypes
<1>8. doubled' \subseteq 1..MaxStep
  <2>1. doubled' \subseteq doubled \cup req[u].rows
    BY DEF Decided
  <2>2. doubled \subseteq 1..MaxStep /\ req[u].rows \subseteq 1..MaxStep
    BY RequestTypes DEF TypeInv, TypeOK, Request
  <2> QED
    BY <2>1, <2>2
<1> QED
  BY <1>4, <1>5, <1>6, <1>7, <1>8

\* The steps are replaced: those that were read go, new ones get new ids.
LEMMA ReplacedIs ==
    ASSUME TypeInv, NEW u \in User, NEW list \in Seq(Approver), ReplaceSteps(u, list)
    PROVE  /\ steps' \subseteq Step /\ nextStep' \in 0..MaxStep /\ nextStep' \in Nat /\ nextStep <= nextStep'
           /\ \A t \in steps' : \/ t \in steps /\ t.id \notin req[u].rows
                                \/ t.id \in (nextStep + 1)..nextStep' /\ t.status = "pendente"
           /\ \A s, t \in steps' : s.id = t.id => s = t
           /\ IF list = <<>> THEN nextStep' = nextStep ELSE \E t \in steps' : t.status = "pendente"
<1> DEFINE New(i) == [id |-> nextStep + i, order |-> i, approver |-> list[i], status |-> "pendente"]
           Remaining == {s \in steps : s.id \notin req[u].rows}
<1>1. Len(list) \in Nat /\ DOMAIN list = 1..Len(list) /\ nextStep \in Nat /\ MaxStep \in Nat
      /\ nextStep + Len(list) <= MaxStep /\ nextStep' = nextStep + Len(list)
  BY StepTypes, BoundAssumption DEF ReplaceSteps
<1>2. steps' = Remaining \cup {New(i) : i \in 1..Len(list)}
  BY <1>1 DEF ReplaceSteps, StepsFor
<1>3. ASSUME NEW i \in 1..Len(list)
      PROVE  New(i) \in Step /\ New(i).id = nextStep + i /\ New(i).status = "pendente"
             /\ nextStep + i \in (nextStep + 1)..nextStep'
  <2>1. list[i] \in Approver
    OBVIOUS
  <2>2. nextStep + i \in 1..MaxStep /\ i \in 1..MaxStep /\ nextStep + i \in (nextStep + 1)..nextStep'
    BY <1>1
  <2> QED
    BY <2>1, <2>2 DEF Step
<1>4. \A i, j \in 1..Len(list) : New(i).id = New(j).id => i = j
  BY <1>1, <1>3
<1> HIDE DEF New
<1>5. steps' \subseteq Step
  BY <1>2, <1>3, StepTypes
<1>6. nextStep' \in 0..MaxStep /\ nextStep' \in Nat /\ nextStep <= nextStep'
  BY <1>1
<1>7. \A t \in steps' : \/ t \in steps /\ t.id \notin req[u].rows
                        \/ t.id \in (nextStep + 1)..nextStep' /\ t.status = "pendente"
  BY <1>2, <1>3
<1>8. ASSUME NEW s \in steps', NEW t \in steps', s.id = t.id PROVE s = t
  <2>1. CASE s \in steps /\ t \in steps
    BY <1>8, <2>1, StepTypes
  <2>2. CASE s \notin steps /\ t \notin steps
    BY <1>2, <1>4, <1>8, <2>2
  <2>3. CASE s \in steps /\ t \notin steps
    <3>1. s.id \in Nat /\ s.id <= nextStep /\ t.id \in (nextStep + 1)..nextStep'
      BY <1>7, <2>3, StepTypes
    <3> QED
      BY <1>1, <1>8, <3>1
  <2>4. CASE s \notin steps /\ t \in steps
    <3>1. t.id \in Nat /\ t.id <= nextStep /\ s.id \in (nextStep + 1)..nextStep'
      BY <1>7, <2>4, StepTypes
    <3> QED
      BY <1>1, <1>8, <3>1
  <2> QED
    BY <2>1, <2>2, <2>3, <2>4
<1>9. ASSUME list # <<>> PROVE \E t \in steps' : t.status = "pendente"
  <2>1. 1 \in 1..Len(list)
    BY <1>1, <1>9
  <2> QED
    BY <1>2, <1>3, <2>1
<1>10. list = <<>> => nextStep' = nextStep
  BY <1>1
<1> QED
  BY <1>5, <1>6, <1>7, <1>8, <1>9, <1>10

\* What the other requests rely on.
LEMMA DecidedKeeps ==
    ASSUME TypeInv, NEW u \in User, NEW decision \in {"aprovado", "rejeitado"}, Decided(u, decision),
           req[u].op = "decide", req[u].pc # "begun", nextStep' = nextStep
    PROVE  \A v \in User \ {u} : Sound(req[v], v, steps', nextStep', doubled')
<1> SUFFICES ASSUME NEW v \in User \ {u} PROVE Sound(req[v], v, steps', nextStep', doubled')
  OBVIOUS
<1>1. /\ Sound(req[u], u, steps, nextStep, doubled) /\ Sound(req[v], v, steps, nextStep, doubled)
      /\ \A t \in steps' : \E s \in steps : s.id = t.id /\ (s.id \notin req[u].rows => t = s)
  BY RequestTypes, DecidedIs
<1>2. ASSUME req[v].op = "decide", req[v].pc # "begun", NEW t \in steps', t.id \in req[v].rows
      PROVE  t.status = "pendente" \/ t.id \in doubled'
  <2>1. PICK s \in steps : s.id = t.id /\ (s.id \notin req[u].rows => t = s)
    BY <1>1
  <2>2. s.status = "pendente" \/ s.id \in doubled
    BY <1>1, <1>2, <2>1 DEF Sound
  <2>3. CASE s.id \in req[u].rows
    BY <1>2, <2>1, <2>3 DEF Decided
  <2>4. CASE s.id \notin req[u].rows
    BY <2>1, <2>2, <2>4 DEF Decided
  <2> QED
    BY <2>3, <2>4
<1> QED
  BY <1>1, <1>2 DEF Sound

LEMMA ReplacedKeeps ==
    ASSUME TypeInv, NEW u \in User, NEW list \in Seq(Approver), ReplaceSteps(u, list), doubled' = doubled
    PROVE  \A v \in User \ {u} : Sound(req[v], v, steps', nextStep', doubled')
<1> SUFFICES ASSUME NEW v \in User \ {u} PROVE Sound(req[v], v, steps', nextStep', doubled')
  OBVIOUS
<1>1. nextStep \in Nat /\ nextStep' \in Nat /\ nextStep <= nextStep' /\ req[v].rows \subseteq 1..nextStep
  BY StepTypes, ReplacedIs, RequestTypes DEF Sound
<1>2. ASSUME NEW t \in steps', t.id \in req[v].rows PROVE t \in steps
  <2>1. t.id \notin (nextStep + 1)..nextStep'
    BY <1>1, <1>2
  <2> QED
    BY <2>1, ReplacedIs
<1> QED
  BY <1>1, <1>2, SoundKept

\* The list of a request that replaces the steps.
LEMMA ListTypes ==
    /\ <<>> \in Seq(Approver) /\ ApproverLists \subseteq Seq(Approver)
    /\ \A list \in Lists : list # Unspecified => list \in Seq(Approver)
BY ListsAssumption DEF Lists

LEMMA Replacing ==
    ASSUME TypeInv, NEW u \in User, SubmitCommit(u) \/ UpdateCommit(u)
    PROVE  \E list \in Seq(Approver) : ReplaceSteps(u, list)
<1>1. CASE SubmitCommit(u)
  <2>1. req[u].list \in Lists
    BY RequestTypes DEF Request
  <2>2. (IF req[u].list = Unspecified THEN <<>> ELSE req[u].list) \in Seq(Approver)
    BY <2>1, ListTypes
  <2> QED
    BY <1>1, <2>2 DEF SubmitCommit
<1>2. CASE UpdateCommit(u)
  BY <1>2, RequestTypes, ListTypes DEF UpdateCommit, At, Sound
<1> QED
  BY <1>1, <1>2

LEMMA EditCommitType == ASSUME TypeInv, NEW u \in User, SubmitCommit(u) \/ UpdateCommit(u) PROVE TypeInv'
<1>1. PICK list \in Seq(Approver) : ReplaceSteps(u, list)
  BY Replacing
<1>2. Respond(u) /\ UNCHANGED <<deleted, autoRenew, endDate, notified, overlapped, doubled>>
  BY DEF SubmitCommit, UpdateCommit, contract
<1>3. status' \in Status /\ manual' \in BOOLEAN
  <2>1. status' \in {"ativo", "aguardando_aprovacao"} \/ status' = status
    BY DEF SubmitCommit, UpdateCommit, contract
  <2>2. manual' = FALSE \/ manual' = manual
    BY DEF SubmitCommit, UpdateCommit
  <2> QED
    BY <2>1, <2>2 DEF TypeInv, TypeOK, Status
<1>4. /\ steps' \subseteq Step /\ nextStep' \in 0..MaxStep
      /\ \A s, t \in steps' : s.id = t.id => s = t
  BY <1>1, ReplacedIs
<1>5. ASSUME NEW t \in steps' PROVE t.id <= nextStep'
  BY <1>1, ReplacedIs, StepTypes
<1>6. req' \in [User -> Request] /\ AllSound' /\ Disjoint(req')
  BY <1>1, <1>2, RespondStep, ReplacedKeeps
<1> QED
  BY <1>2, <1>3, <1>4, <1>5, <1>6, NextTypes DEF TypeInv, TypeOK

LEMMA DecideCommitType == ASSUME TypeInv, NEW u \in User, CommitApproval(u) \/ CommitRejection(u) PROVE TypeInv'
<1>1. PICK decision \in {"aprovado", "rejeitado"} : Decided(u, decision)
  BY DEF CommitApproval, CommitRejection
<1>2. /\ req[u].op = "decide" /\ req[u].pc # "begun" /\ Respond(u)
      /\ UNCHANGED <<deleted, autoRenew, endDate, nextStep, notified, manual, overlapped>>
  BY DEF CommitApproval, CommitRejection, At
<1>3. status' \in Status
  BY DEF CommitApproval, CommitRejection, TypeInv, TypeOK, Status
<1>4. /\ steps' \subseteq Step /\ Ids(steps') = Ids(steps) /\ \A s, t \in steps' : s.id = t.id => s = t
      /\ doubled' \subseteq 1..MaxStep
  BY <1>1, DecidedIs
<1>5. ASSUME NEW t \in steps' PROVE t.id <= nextStep'
  <2>1. t.id \in Ids(steps)
    BY <1>4 DEF Ids
  <2> QED
    BY <1>2, <2>1, StepTypes DEF Ids
<1>6. req' \in [User -> Request] /\ AllSound' /\ Disjoint(req')
  BY <1>1, <1>2, RespondStep, DecidedKeeps
<1> QED
  BY <1>2, <1>3, <1>4, <1>5, <1>6, NextTypes DEF TypeInv, TypeOK

LEMMA StatusCommitType == ASSUME TypeInv, NEW u \in User, StatusCommit(u) PROVE TypeInv'
<1>1. Respond(u) /\ UNCHANGED <<steps, nextStep, doubled>>
  BY DEF StatusCommit
<1>2. \A v \in User \ {u} : Sound(req[v], v, steps', nextStep', doubled')
  BY <1>1, RequestTypes
<1>3. req' \in [User -> Request] /\ AllSound' /\ Disjoint(req')
  BY <1>1, <1>2, RespondStep
<1> QED
  BY <1>1, <1>3, NextTypes DEF StatusCommit, TypeInv, TypeOK

LEMMA OtherType == ASSUME TypeInv, Delete \/ Amend \/ TimePasses \/ RunExpiryAlerts PROVE TypeInv'
<1>1. UNCHANGED <<steps, nextStep, req, manual, overlapped, autoRenew, doubled>>
  BY DEF Delete, Amend, TimePasses, RunExpiryAlerts
<1>2. status' = status
  BY DEF Delete, Amend, TimePasses, RunExpiryAlerts, SystemUserExists
<1>3. /\ deleted' \in BOOLEAN /\ notified' \in {TRUE, FALSE, notified, notified \/ endDate = "near"}
      /\ endDate' \in {"far", "near", "past"}
  BY DEF Delete, Amend, TimePasses, RunExpiryAlerts, TypeInv, TypeOK
<1>4. Disjoint(req') /\ AllSound'
  BY <1>1, DisjointIs DEF TypeInv, TypeOK, AllSound
<1> QED
  BY <1>1, <1>2, <1>3, <1>4, NextTypes DEF TypeInv, TypeOK

LEMMA TypeInit == Init => TypeInv
<1> SUFFICES ASSUME Init PROVE TypeInv
  OBVIOUS
<1> DEFINE Row(list, i) == [id |-> i, order |-> i, approver |-> list[i], status |-> "pendente"]
<1>1. PICK list \in ApproverLists \cup {<<>>} :
        steps = {Row(list, i) : i \in DOMAIN list} /\ nextStep = Len(list)
  BY DEF Init
<1>2. list \in Seq(Approver) /\ Len(list) \in Nat /\ Len(list) <= MaxStep /\ DOMAIN list = 1..Len(list)
  <2>1. list \in Seq(Approver)
    BY ListTypes
  <2>2. list = <<>> => Len(list) = 0
    OBVIOUS
  <2>3. list \in ApproverLists => Len(list) <= MaxStep
    BY BoundAssumption
  <2> QED
    BY <2>1, <2>2, <2>3, BoundAssumption
<1>3. ASSUME NEW i \in DOMAIN list
      PROVE  Row(list, i) \in Step /\ Row(list, i).id = i /\ i <= nextStep
  <2>1. list[i] \in Approver /\ i \in 1..MaxStep
    BY <1>2, BoundAssumption
  <2> QED
    BY <1>1, <1>2, <2>1 DEF Step
<1> HIDE DEF Row
<1>4. /\ steps \subseteq Step
      /\ \A s \in steps : s.id <= nextStep /\ \A t \in steps : s.id = t.id => s = t
  BY <1>1, <1>3
<1>5. req \in [User -> Request] /\ AllSound
  BY NoApprovalIs DEF Init, AllSound
<1>6. \A u \in User : req[u].pc # "flushed"
  BY NoApprovalIs DEF Init
<1>7. nextStep \in 0..MaxStep
  BY <1>1, <1>2, BoundAssumption
<1> QED
  BY <1>4, <1>5, <1>6, <1>7 DEF Init, TypeInv, TypeOK, Status

LEMMA TypeStep == ASSUME TypeInv, [Next]_vars PROVE TypeInv'
<1>1. ASSUME NEW u \in Decider, Approve(u) PROVE TypeInv'
  <2>1. u \in User /\ Unspecified \in Lists
    BY DEF User, Lists
  <2> QED
    BY <1>1, <2>1, LoadType, ReadType, FlushType, DecideCommitType DEF Approve, DecideBegin
<1>2. ASSUME NEW u \in Editor, Edit(u) PROVE TypeInv'
  <2>1. u \in User /\ Unspecified \in Lists /\ ApproverLists \subseteq Lists
    BY DEF User, Lists
  <2> QED
    BY <1>2, <2>1, LoadType, ReadType, FlushType, EditCommitType, StatusCommitType
    DEF Edit, SubmitBegin, UpdateBegin, StatusBegin
<1>3. CASE UNCHANGED vars
  <2>1. \A u \in User : Locked(u)' = Locked(u)
    BY <1>3 DEF vars, Locked
  <2> QED
    BY <1>3, <2>1 DEF vars, contract, TypeInv, TypeOK, AllSound
<1> QED
  BY <1>1, <1>2, <1>3, AbortType, OtherType DEF Next

\* Every variable keeps its type, step ids are given out once, and a flushed
\* row is held by one request.
THEOREM TypeCorrect == Spec => []TypeOK
<1>1. TypeInv => TypeOK
  BY DEF TypeInv
<1> QED
  BY <1>1, TypeInit, TypeStep, PTL DEF Spec

(***************************************************************************)
(* A decision stands.                                                      *)
(***************************************************************************)
LEMMA KeptDecision ==
    ASSUME TypeInv, [Next]_vars, NEW s \in steps, s.status # "pendente", s.id \notin doubled, NEW t \in steps', t.id = s.id
    PROVE  t = s
<1>1. s.id \in Nat /\ s.id <= nextStep /\ \A w \in steps : w.id = s.id => w = s
  BY StepTypes
<1>2. CASE steps' = steps
  BY <1>1, <1>2
<1>3. ASSUME NEW u \in User, SubmitCommit(u) \/ UpdateCommit(u) PROVE t = s
  <2>1. PICK list \in Seq(Approver) : ReplaceSteps(u, list)
    BY <1>3, Replacing
  <2>2. t \in steps \/ t.id \in (nextStep + 1)..nextStep'
    BY <2>1, ReplacedIs
  <2>3. nextStep \in Nat /\ nextStep' \in Nat
    BY <2>1, ReplacedIs, StepTypes
  <2> QED
    BY <1>1, <2>2, <2>3
<1>4. ASSUME NEW u \in User, CommitApproval(u) \/ CommitRejection(u) PROVE t = s
  <2>1. PICK decision \in {"aprovado", "rejeitado"} : Decided(u, decision)
    BY <1>4 DEF CommitApproval, CommitRejection
  <2>2. s.id \notin req[u].rows
    BY <1>4, RequestTypes DEF CommitApproval, CommitRejection, At, Sound
  <2>3. PICK w \in steps : w.id = t.id /\ (w.id \notin req[u].rows => t = w)
    BY <2>1, DecidedIs
  <2> QED
    BY <1>1, <2>2, <2>3
<1> QED
  BY <1>2, <1>3, <1>4
  DEF Next, vars, Approve, Edit, User, DecideBegin, FindStep, FlushAndCount, SubmitBegin, UpdateBegin, ReadSteps,
      DeleteSteps, StatusBegin, StatusCommit, Load, Abort, Delete, Amend, TimePasses, RunExpiryAlerts

\* A decided step is not decided again, nor does it change in any other way,
\* however any number of requests interleave: only one that had found it pending
\* when it was decided, a second request of its approver, may write over it.
THEOREM StepDecidedOnceHolds == Spec => StepDecidedOnce
<1>1. ASSUME TypeInv, [Next]_vars
      PROVE  [\A s \in steps : s.status # "pendente" /\ s.id \notin doubled => \A t \in steps' : t.id = s.id => t = s]_vars
  BY <1>1, KeptDecision
<1> QED
  BY <1>1, TypeInit, TypeStep, PTL DEF Spec, StepDecidedOnce

(***************************************************************************)
(* While requests do not overlap.                                          *)
(***************************************************************************)
LEMMA BusyIs == \A u \in User : req[u].op # "none" => req[u] # NoRequest
BY NoApprovalIs

\* A request begins: when nothing has overlapped after it, there is no other.
LEMMA LoadSerial ==
    ASSUME TypeInv, Serial, NEW u \in User, NEW op \in {"submit", "update", "decide", "status"}, NEW list,
           op \in Edits => status = "rascunho", op = "decide" => status = "aguardando_aprovacao",
           Load(u, op, list)
    PROVE  Serial'
<1> DEFINE q == [NoRequest EXCEPT !.op = op, !.pc = "begun", !.loaded = status, !.list = list]
<1> SUFFICES ASSUME ~overlapped'
             PROVE  /\ Alone' /\ (\A v \in User : Fresh(req'[v], status', steps'))
                    /\ ~manual' => Approved(status', steps')
  BY DEF Serial
<1>1. ~overlapped /\ (\A v \in User : req[v] = NoRequest) /\ req' = [req EXCEPT ![u] = q]
      /\ UNCHANGED <<status, steps, manual>>
  BY DEF Load, contract
<1>2. q.op = op /\ q.pc = "begun"
  BY DEF NoRequest
<1> HIDE DEF q
<1>3. req'[u] = q /\ \A v \in User : v # u => req'[v] = NoRequest
  BY <1>1 DEF TypeInv, TypeOK
<1>4. Fresh(q, status, steps)
  BY <1>2 DEF Fresh
<1> QED
  BY <1>1, <1>3, <1>4, NoApprovalIs DEF Alone, Serial

\* A request goes on.
LEMMA ContinueSerial ==
    ASSUME TypeInv, Serial, NEW u \in User, req[u] # NoRequest, NEW q, req' = [req EXCEPT ![u] = q],
           UNCHANGED <<contract, steps, manual, overlapped>>,
           ~overlapped => Fresh(q, status, steps)
    PROVE  Serial'
<1> SUFFICES ASSUME ~overlapped'
             PROVE  /\ Alone' /\ (\A v \in User : Fresh(req'[v], status', steps'))
                    /\ ~manual' => Approved(status', steps')
  BY DEF Serial
<1>1. ~overlapped /\ UNCHANGED <<status, steps, manual>> /\ \A v \in User : v # u => req[v] = NoRequest
  BY DEF Serial, Alone, contract
<1>2. req'[u] = q /\ \A v \in User : v # u => req'[v] = NoRequest
  BY <1>1 DEF TypeInv, TypeOK
<1> QED
  BY <1>1, <1>2, NoApprovalIs DEF Alone, Serial

\* A request ends: then there is none.
LEMMA RespondSerial ==
    ASSUME TypeInv, Serial, NEW u \in User, req[u] # NoRequest, Respond(u), overlapped' = overlapped,
           ~overlapped /\ ~manual' => Approved(status', steps')
    PROVE  Serial'
<1> SUFFICES ASSUME ~overlapped'
             PROVE  /\ Alone' /\ (\A v \in User : Fresh(req'[v], status', steps'))
                    /\ ~manual' => Approved(status', steps')
  BY DEF Serial
<1>1. ~overlapped /\ \A v \in User : v # u => req[v] = NoRequest
  BY DEF Serial, Alone
<1>2. \A v \in User : req'[v] = NoRequest
  BY <1>1 DEF Respond, TypeInv, TypeOK
<1> QED
  BY <1>1, <1>2, NoApprovalIs DEF Alone

LEMMA ReadSerial == ASSUME TypeInv, Serial, NEW u \in User, ReadSteps(u) \/ FindStep(u) PROVE Serial'
<1>1. PICK ids :
        /\ req' = [req EXCEPT ![u] = [req[u] EXCEPT !.pc = "read", !.rows = ids]]
        /\ req[u].op \in Edits => Ids(steps) \subseteq ids
  BY DEF ReadSteps, FindStep, At, Ids, Edits
<1> DEFINE q == [req[u] EXCEPT !.pc = "read", !.rows = ids]
<1>2. req[u] \in Request /\ req[u] # NoRequest /\ UNCHANGED <<contract, steps, manual, overlapped>>
  BY RequestTypes, BusyIs DEF ReadSteps, FindStep, At
<1>3. q.op = req[u].op /\ q.pc = "read" /\ q.rows = ids
  BY <1>2 DEF Request
<1>4. req' = [req EXCEPT ![u] = q]
  BY <1>1
<1> HIDE DEF q
<1>5. ASSUME ~overlapped PROVE Fresh(q, status, steps)
  BY <1>1, <1>3, <1>5 DEF Serial, Fresh
<1> QED
  BY <1>2, <1>4, <1>5, ContinueSerial

LEMMA FlushSerial == ASSUME TypeInv, Serial, NEW u \in User, DeleteSteps(u) \/ FlushAndCount(u) PROVE Serial'
<1> DEFINE Q(last) == [req[u] EXCEPT !.pc = "flushed", !.last = last]
<1>1. req[u] \in Request /\ req[u] # NoRequest /\ UNCHANGED <<contract, steps, manual, overlapped>>
      /\ req[u].pc = "read" /\ Sound(req[u], u, steps, nextStep, doubled)
  BY RequestTypes, BusyIs DEF DeleteSteps, FlushAndCount, At
<1>2. PICK last \in BOOLEAN :
        /\ req' = [req EXCEPT ![u] = Q(last)]
        /\ req[u].op = "decide" => \E s \in steps : s.id \in req[u].rows /\ last = (Pending(steps \ {s}) = {})
  <2>1. CASE DeleteSteps(u)
    <3>1. Q(req[u].last) = [req[u] EXCEPT !.pc = "flushed"] /\ req[u].last \in BOOLEAN
      BY <1>1 DEF Request
    <3> QED
      BY <2>1, <3>1 DEF DeleteSteps, At
  <2>2. CASE FlushAndCount(u)
    BY <2>2 DEF FlushAndCount, Writable
  <2> QED
    BY <2>1, <2>2
<1>3. Q(last).op = req[u].op /\ Q(last).pc = "flushed" /\ Q(last).rows = req[u].rows /\ Q(last).last = last
  BY <1>1 DEF Request
<1> HIDE DEF Q
<1>4. ASSUME ~overlapped PROVE Fresh(Q(last), status, steps)
  <2>1. Fresh(req[u], status, steps)
    BY <1>4 DEF Serial
  <2>2. CASE req[u].op # "decide"
    BY <1>1, <1>3, <2>1, <2>2 DEF Fresh
  <2>3. CASE req[u].op = "decide"
    <3>1. PICK s \in steps : s.id \in req[u].rows /\ last = (Pending(steps \ {s}) = {})
      BY <1>2, <2>3
    <3>2. req[u].rows = {s.id}
      BY <1>1, <2>3, <3>1 DEF Sound
    <3>3. \A t \in Pending(steps) : t.id \notin req[u].rows <=> t \in Pending(steps \ {s})
      BY <3>2, StepTypes DEF Pending
    <3>4. Pending(steps \ {s}) \subseteq Pending(steps)
      BY DEF Pending
    <3> QED
      BY <1>3, <2>1, <2>3, <3>1, <3>3, <3>4 DEF Fresh, Edits
  <2> QED
    BY <2>2, <2>3
<1> QED
  BY <1>1, <1>2, <1>4, ContinueSerial

LEMMA SubmitSerial == ASSUME TypeInv, Serial, NEW u \in User, SubmitCommit(u) PROVE Serial'
<1> DEFINE list == IF req[u].list = Unspecified THEN <<>> ELSE req[u].list
<1>1. req[u].op = "submit" /\ req[u].pc = "flushed" /\ req[u] # NoRequest
  BY BusyIs DEF SubmitCommit, At
<1>2. ReplaceSteps(u, list) /\ status' = IF list = <<>> THEN "ativo" ELSE "aguardando_aprovacao"
  BY DEF SubmitCommit
<1>3. list \in Seq(Approver)
  BY RequestTypes, ListTypes DEF Request
<1> HIDE DEF list
<1>4. ASSUME ~overlapped PROVE Approved(status', steps')
  <2>1. Ids(steps) \subseteq req[u].rows
    BY <1>1, <1>4 DEF Serial, Fresh, Edits
  <2>2. \A t \in steps' : t.id \in (nextStep + 1)..nextStep' /\ t.status = "pendente"
    BY <1>2, <1>3, <2>1, ReplacedIs DEF Ids
  <2>3. CASE list = <<>>
    <3>1. nextStep' = nextStep /\ nextStep \in Nat
      BY <1>2, <1>3, <2>3, ReplacedIs, StepTypes
    <3>2. (nextStep + 1)..nextStep' = {}
      BY <3>1
    <3>3. steps' = {}
      BY <2>2, <3>2
    <3>4. status' = "ativo"
      BY <1>2, <2>3
    <3> QED
      BY <3>3, <3>4 DEF Approved
  <2>4. CASE list # <<>>
    <3>1. Pending(steps') # {}
      BY <1>2, <1>3, <2>4, ReplacedIs DEF Pending
    <3> QED
      BY <1>2, <2>2, <2>4, <3>1 DEF Approved
  <2> QED
    BY <2>3, <2>4
<1> QED
  BY <1>1, <1>4, RespondSerial DEF SubmitCommit

LEMMA UpdateSerial == ASSUME TypeInv, Serial, NEW u \in User, UpdateCommit(u) PROVE Serial'
<1>1. req[u].op = "update" /\ req[u] # NoRequest /\ status' = status
  BY BusyIs DEF UpdateCommit, At, contract
<1>2. ASSUME ~overlapped PROVE Approved(status', steps')
  <2>1. status' = "rascunho"
    BY <1>1, <1>2 DEF Serial, Fresh, Edits
  <2> QED
    BY <2>1 DEF Approved
<1> QED
  BY <1>1, <1>2, RespondSerial DEF UpdateCommit

LEMMA ApprovalSerial == ASSUME TypeInv, Serial, NEW u \in User, CommitApproval(u) PROVE Serial'
<1>1. req[u].op = "decide" /\ req[u].pc = "flushed" /\ req[u] # NoRequest /\ Decided(u, "aprovado")
      /\ UNCHANGED <<manual, overlapped>>
  BY BusyIs DEF CommitApproval, At
<1>2. /\ steps' \subseteq Step /\ Ids(steps') = Ids(steps)
      /\ \A t \in steps' : \E s \in steps : s.id = t.id /\ IF s.id \in req[u].rows THEN t.status = "aprovado" ELSE t = s
  BY <1>1, DecidedIs
<1>3. ASSUME ~overlapped, ~manual PROVE Approved(status', steps')
  <2>1. status = "aguardando_aprovacao" /\ Fresh(req[u], status, steps) /\ Approved(status, steps)
    BY <1>1, <1>3 DEF Serial, Fresh
  <2>2. \A t \in steps' : t.status # "rejeitado"
    BY <1>2, <2>1 DEF Approved
  <2>3. CASE req[u].last
    <3>1. \A t \in steps' : t.status # "pendente"
      BY <1>1, <1>2, <2>1, <2>3 DEF Fresh, Pending
    <3>2. \A t \in steps' : t.status = "aprovado"
      BY <1>2, <2>2, <3>1 DEF Step
    <3> QED
      BY <2>3, <3>2 DEF CommitApproval, Approved
  <2>4. CASE ~req[u].last
    <3>1. PICK s \in steps : s.status = "pendente" /\ s.id \notin req[u].rows
      BY <1>1, <2>1, <2>4 DEF Fresh, Pending
    <3>2. PICK t \in steps' : t.id = s.id
      BY <1>2 DEF Ids
    <3>3. t = s
      BY <1>2, <3>1, <3>2, StepTypes
    <3>4. Pending(steps') # {}
      BY <3>1, <3>3 DEF Pending
    <3> QED
      BY <2>1, <2>2, <2>4, <3>4 DEF CommitApproval, Approved
  <2> QED
    BY <2>3, <2>4
<1> QED
  BY <1>1, <1>3, RespondSerial DEF CommitApproval

LEMMA OtherCommitSerial ==
    ASSUME TypeInv, Serial, NEW u \in User, CommitRejection(u) \/ StatusCommit(u) \/ Abort(u)
    PROVE  Serial'
<1>1. req[u] # NoRequest /\ Respond(u) /\ overlapped' = overlapped
  BY BusyIs DEF CommitRejection, StatusCommit, Abort, At
<1>2. ASSUME ~overlapped, ~manual' PROVE Approved(status', steps')
  <2>1. CASE CommitRejection(u)
    BY <2>1 DEF CommitRejection, Approved
  <2>2. CASE StatusCommit(u)
    BY <1>2, <2>2 DEF StatusCommit
  <2>3. CASE Abort(u)
    BY <1>2, <2>3 DEF Abort, contract, Serial
  <2> QED
    BY <2>1, <2>2, <2>3
<1> QED
  BY <1>1, <1>2, RespondSerial

LEMMA SerialStep == ASSUME TypeInv, Serial, [Next]_vars PROVE Serial'
<1>1. CASE UNCHANGED <<status, steps, req, manual, overlapped>>
  BY <1>1 DEF Serial, Alone
<1>2. ASSUME NEW u \in Decider, Approve(u) PROVE Serial'
  <2>1. u \in User
    BY DEF User
  <2> QED
    BY <1>2, <2>1, LoadSerial, ReadSerial, FlushSerial, ApprovalSerial, OtherCommitSerial
    DEF Approve, DecideBegin, Edits
<1>3. ASSUME NEW u \in Editor, Edit(u) PROVE Serial'
  <2>1. u \in User
    BY DEF User
  <2> QED
    BY <1>3, <2>1, LoadSerial, ReadSerial, FlushSerial, SubmitSerial, UpdateSerial, OtherCommitSerial
    DEF Edit, SubmitBegin, UpdateBegin, StatusBegin, Edits
<1>4. CASE Delete \/ Amend \/ TimePasses \/ RunExpiryAlerts \/ UNCHANGED vars
  <2>1. UNCHANGED <<status, steps, req, manual, overlapped>>
    BY <1>4 DEF Delete, Amend, TimePasses, RunExpiryAlerts, SystemUserExists, vars, contract
  <2> QED
    BY <1>1, <2>1
<1> QED
  BY <1>2, <1>3, <1>4, OtherCommitSerial DEF Next

LEMMA SerialInit == Init => Serial
BY NoApprovalIs DEF Init, Serial, Alone, Approved

THEOREM InvariantHolds == Spec => []IInv
<1>1. Init => IInv
  BY TypeInit, SerialInit DEF IInv
<1>2. IInv /\ [Next]_vars => IInv'
  BY TypeStep, SerialStep DEF IInv
<1> QED
  BY <1>1, <1>2, PTL DEF Spec

\* While requests do not overlap, all steps of an active contract are approved.
THEOREM ActiveMeansAllApprovedHolds == Spec => []ActiveMeansAllApproved
<1>1. IInv => ActiveMeansAllApproved
  BY DEF IInv, Serial, Approved, ActiveMeansAllApproved
<1> QED
  BY <1>1, InvariantHolds, PTL

\* While requests do not overlap, a contract that waits has someone it waits for.
THEOREM AwaitingHasPendingHolds == Spec => []AwaitingHasPending
<1>1. IInv => AwaitingHasPending
  BY DEF IInv, Serial, Approved, AwaitingHasPending
<1> QED
  BY <1>1, InvariantHolds, PTL

(***************************************************************************)
(* One editor.                                                             *)
(***************************************************************************)
LEMMA OneEditorStep ==
    ASSUME OneEditorInv, NEW e, Editor = {e}, [Next]_vars
    PROVE  EditorReadsAll' /\ RejectedMeansNotAwaiting'
<1>1. TypeInv /\ e \in User /\ e \notin Decider /\ req \in [User -> Request] /\ req[e] \in Request
  BY RequestsAssumption, RequestTypes DEF OneEditorInv, User, TypeInv, TypeOK
<1>2. req[e].op \in Edits /\ req[e].pc # "begun" => Ids(steps) \subseteq req[e].rows
  BY DEF OneEditorInv, EditorReadsAll
<1> SUFFICES /\ req'[e].op \in Edits /\ req'[e].pc # "begun" => Ids(steps') \subseteq req'[e].rows
             /\ RejectedMeansNotAwaiting'
  BY DEF EditorReadsAll
<1>3. CASE /\ UNCHANGED <<status, steps, manual>>
           /\ req'[e].op \in Edits /\ req'[e].pc # "begun" => Ids(steps) \subseteq req'[e].rows
  BY <1>3 DEF OneEditorInv, RejectedMeansNotAwaiting
<1>4. ASSUME NEW u \in Decider, Approve(u)
      PROVE  req'[e] = req[e] /\ (UNCHANGED <<status, steps, manual>> \/ CommitApproval(u) \/ CommitRejection(u))
  BY <1>1, <1>4 DEF Approve, DecideBegin, FindStep, FlushAndCount, CommitApproval, CommitRejection, Load, Respond, contract
<1>5. ASSUME NEW u \in Decider, CommitApproval(u) \/ CommitRejection(u), req'[e] = req[e]
      PROVE  /\ req'[e].op \in Edits /\ req'[e].pc # "begun" => Ids(steps') \subseteq req'[e].rows
             /\ RejectedMeansNotAwaiting'
  <2>1. u \in User
    BY DEF User
  <2>2. CASE CommitApproval(u)
    <3>1. Ids(steps') = Ids(steps)
      BY <1>1, <2>1, <2>2, DecidedIs DEF CommitApproval
    <3>2. ASSUME NEW t \in steps', t.status = "rejeitado" PROVE t \in steps
      BY <1>1, <2>1, <2>2, <3>2, DecidedIs DEF CommitApproval
    <3>3. RejectedMeansNotAwaiting'
      BY <2>2, <3>2 DEF CommitApproval, OneEditorInv, RejectedMeansNotAwaiting
    <3> QED
      BY <1>2, <1>5, <3>1, <3>3
  <2>3. CASE CommitRejection(u)
    <3>1. Ids(steps') = Ids(steps)
      BY <1>1, <2>1, <2>3, DecidedIs DEF CommitRejection
    <3> QED
      BY <1>2, <1>5, <2>3, <3>1 DEF CommitRejection, RejectedMeansNotAwaiting
  <2> QED
    BY <1>5, <2>2, <2>3
<1>6. CASE Edit(e)
  <2>1. CASE SubmitBegin(e) \/ UpdateBegin(e) \/ StatusBegin(e)
    <3>1. UNCHANGED <<status, steps, manual>> /\ req'[e].pc = "begun"
      BY <1>1, <2>1 DEF SubmitBegin, UpdateBegin, StatusBegin, Load, contract, NoRequest
    <3> QED
      BY <1>3, <3>1
  <2>2. CASE ReadSteps(e)
    <3>1. UNCHANGED <<status, steps, manual>> /\ req'[e].rows = Ids(steps)
      BY <1>1, <2>2 DEF ReadSteps, contract, Request, Ids
    <3> QED
      BY <1>3, <3>1
  <2>3. CASE DeleteSteps(e)
    <3>1. UNCHANGED <<status, steps, manual>> /\ req'[e].rows = req[e].rows /\ req[e].op \in Edits
          /\ req[e].pc = "read"
      BY <1>1, <2>3 DEF DeleteSteps, contract, Request, At, Edits
    <3> QED
      BY <1>2, <1>3, <3>1
  <2>4. CASE SubmitCommit(e) \/ UpdateCommit(e)
    <3>1. PICK list \in Seq(Approver) : ReplaceSteps(e, list)
      BY <1>1, <2>4, Replacing
    <3>2. Ids(steps) \subseteq req[e].rows
      BY <1>2, <2>4 DEF SubmitCommit, UpdateCommit, At, Edits
    <3>3. \A t \in steps' : t.status = "pendente"
      BY <1>1, <3>1, <3>2, ReplacedIs DEF Ids
    <3>4. req'[e] = NoRequest
      BY <1>1, <2>4 DEF SubmitCommit, UpdateCommit, Respond
    <3> QED
      BY <3>3, <3>4, NoApprovalIs DEF RejectedMeansNotAwaiting, Edits
  <2>5. CASE StatusCommit(e)
    BY <1>1, <2>5, NoApprovalIs DEF StatusCommit, Respond, Edits, RejectedMeansNotAwaiting
  <2> QED
    BY <1>6, <2>1, <2>2, <2>3, <2>4, <2>5 DEF Edit
<1>7. ASSUME NEW u \in User, Abort(u)
      PROVE  /\ req'[e].op \in Edits /\ req'[e].pc # "begun" => Ids(steps') \subseteq req'[e].rows
             /\ RejectedMeansNotAwaiting'
  <2>1. UNCHANGED <<status, steps, manual>> /\ (req'[e] = NoRequest \/ req'[e] = req[e])
    BY <1>1, <1>7 DEF Abort, Respond, contract
  <2> QED
    BY <1>2, <1>3, <2>1, NoApprovalIs DEF Edits
<1>8. CASE Delete \/ Amend \/ TimePasses \/ RunExpiryAlerts \/ UNCHANGED vars
  <2>1. UNCHANGED <<status, steps, manual, req>>
    BY <1>8 DEF Delete, Amend, TimePasses, RunExpiryAlerts, SystemUserExists, vars, contract
  <2> QED
    BY <1>2, <1>3, <2>1
<1> QED
  BY <1>2, <1>3, <1>4, <1>5, <1>6, <1>7, <1>8 DEF Next

\* However the requests of the approvers interleave with those of the one
\* editor, a contract with a rejection on record does not wait for the others.
THEOREM RejectedMeansNotAwaitingHolds ==
    ASSUME NEW e, Editor = {e}
    PROVE  Spec => []RejectedMeansNotAwaiting
<1>1. Init => OneEditorInv
  BY TypeInit, NoApprovalIs DEF Init, OneEditorInv, EditorReadsAll, RejectedMeansNotAwaiting, Edits, User
<1>2. OneEditorInv /\ [Next]_vars => OneEditorInv'
  BY OneEditorStep, TypeStep DEF OneEditorInv
<1>3. OneEditorInv => RejectedMeansNotAwaiting
  BY DEF OneEditorInv
<1> QED
  BY <1>1, <1>2, <1>3, PTL DEF Spec

(***************************************************************************)
(* Work orders.  A transition writes over whatever the status has become,   *)
(* but the dates only accumulate: what the loaded status had is there when  *)
(* the new one is written.                                                  *)
(***************************************************************************)
OrderRow ==
    [status : Wo!WORK_ORDER_STATUSES, started : BOOLEAN, completed : BOOLEAN, validated : BOOLEAN, deleted : BOOLEAN]

ParticipantRow == [user : Participant, by : Nat]

OrderRequest ==
    [op : {"none", "transition", "replace", "insert"}, target : Wo!WORK_ORDER_STATUSES, started : BOOLEAN,
     list : SUBSET Participant, seen : SUBSET ParticipantRow]

OrderType ==
    /\ order \in OrderRow
    /\ request \in [Users -> OrderRequest]
    /\ rows \subseteq ParticipantRow
    /\ replaced \in Nat /\ lastList \subseteq Participant /\ concurrent \in BOOLEAN

\* The dates that the transition q builds on are those of the row o.
Builds(q, o) ==
    q.op = "transition" =>
        /\ q.started => o.started
        /\ q.target \notin {"aberta", "em_andamento"} => o.started
        /\ q.target = "validada" => o.completed

\* The request q, when it is alone, decides on the order and the rows as they are.
UpToDate(q, o, S) ==
    /\ q.op = "transition" => q.target \in Wo!Transitions[o.status]
    /\ q.op = "insert" => q.seen = S

OrderSerial ==
    ~concurrent =>
        /\ \A u, v \in Users : request[u] # Wo!NoRequest /\ request[v] # Wo!NoRequest => u = v
        /\ \A u \in Users : UpToDate(request[u], order, rows)

OrderInv ==
    /\ OrderType
    /\ \A u \in Users : Builds(request[u], order)
    /\ OrderSerial
    /\ Wo!OrderIsCoherent

LEMMA NoRequestIs ==
    /\ Wo!NoRequest \in OrderRequest
    /\ \A o, S : Builds(Wo!NoRequest, o) /\ UpToDate(Wo!NoRequest, o, S)
    BY DEF Wo!NoRequest, OrderRequest, Wo!WORK_ORDER_STATUSES, Builds, UpToDate

LEMMA TakingPart == ASSUME NEW list, NEW n PROVE {r.user : r \in Wo!RowsOf(list, n)} = list
<1>1. ASSUME NEW p \in list PROVE \E r \in Wo!RowsOf(list, n) : r.user = p
    <2> DEFINE r == [user |-> p, by |-> n]
    <2>1. r \in Wo!RowsOf(list, n) /\ r.user = p
        BY DEF Wo!RowsOf
    <2> QED
        BY <2>1
<1>2. \A r \in Wo!RowsOf(list, n) : r.user \in list
    BY DEF Wo!RowsOf
<1> QED
    BY <1>1, <1>2

LEMMA OrderInit == Wo!Init => OrderInv
<1> SUFFICES ASSUME Wo!Init PROVE OrderInv
    OBVIOUS
<1>1. order \in OrderRow
    BY DEF Wo!Init, OrderRow, Wo!WORK_ORDER_STATUSES
<1>2. rows \subseteq ParticipantRow /\ lastList \subseteq Participant
    BY DEF Wo!Init, ParticipantRow, Wo!RowsOf
<1>3. OrderType
    BY <1>1, <1>2, NoRequestIs DEF Wo!Init, OrderType
<1>4. \A u \in Users : request[u] = Wo!NoRequest
    BY DEF Wo!Init
<1>5. {r.user : r \in rows} = lastList
    BY TakingPart DEF Wo!Init
<1>6. Wo!OrderIsCoherent
    BY <1>5 DEF Wo!Init, Wo!OrderIsCoherent, Wo!DatesFollowStatus, Wo!ValidatedIsFinal,
           Wo!LastListIsThere, Wo!OnlyTheLastList
<1> QED
    BY <1>3, <1>4, <1>6, NoRequestIs DEF OrderInv, OrderSerial

LEMMA TransitionsAllowed ==
    ASSUME NEW s \in Wo!WORK_ORDER_STATUSES, NEW t \in Wo!Transitions[s]
    PROVE  /\ t \in Wo!WORK_ORDER_STATUSES
           /\ s # "validada"
           /\ t \notin {"aberta", "em_andamento"} => s # "aberta"
           /\ t = "validada" => s = "concluida"
    BY DEF Wo!Transitions, Wo!WORK_ORDER_STATUSES

\* A request of u begins, as r: nothing else changes.
LEMMA OrderBegin ==
    ASSUME OrderInv, NEW u \in Users, NEW r \in OrderRequest, Wo!Begin(u, r),
           Builds(r, order), UpToDate(r, order, rows),
           UNCHANGED <<order, rows, replaced, lastList>>
    PROVE  OrderInv'
<1>1. OrderType'
    BY DEF OrderInv, OrderType, Wo!Begin
<1>2. \A v \in Users : request'[v] = IF v = u THEN r ELSE request[v]
    BY DEF OrderInv, OrderType, Wo!Begin
<1>3. (\A v \in Users : Builds(request[v], order))'
    BY <1>2 DEF OrderInv, Builds
<1>4. OrderSerial'
    BY <1>2 DEF OrderInv, OrderSerial, Wo!Begin, UpToDate
<1>5. Wo!OrderIsCoherent'
    BY DEF OrderInv, Wo!OrderIsCoherent, Wo!DatesFollowStatus, Wo!ValidatedIsFinal,
           Wo!LastListIsThere, Wo!OnlyTheLastList, Wo!Begin
<1> QED
    BY <1>1, <1>3, <1>4, <1>5 DEF OrderInv

LEMMA OrderBegins ==
    ASSUME OrderInv, NEW u \in Users, Wo!TransitionBegin(u) \/ Wo!ReplaceBegin(u)
    PROVE  OrderInv'
<1>1. CASE Wo!TransitionBegin(u)
    <2>1. PICK target \in Wo!Transitions[order.status] :
             Wo!Begin(u, [Wo!NoRequest EXCEPT !.op = "transition", !.target = target, !.started = order.started])
        BY <1>1 DEF Wo!TransitionBegin
    <2> DEFINE r == [Wo!NoRequest EXCEPT !.op = "transition", !.target = target, !.started = order.started]
    <2>2. order \in OrderRow /\ order.status \in Wo!WORK_ORDER_STATUSES /\ order.started \in BOOLEAN
        BY DEF OrderInv, OrderType, OrderRow
    <2>3. r \in OrderRequest
        BY <2>2, TransitionsAllowed DEF OrderRequest, Wo!NoRequest
    <2>4. r.op = "transition" /\ r.target = target /\ r.started = order.started
        BY DEF Wo!NoRequest
    <2>5. Builds(r, order)
        BY <2>2, <2>4, TransitionsAllowed DEF Builds, OrderInv, Wo!OrderIsCoherent, Wo!DatesFollowStatus
    <2>6. UpToDate(r, order, rows)
        BY <2>4 DEF UpToDate
    <2> QED
        BY <1>1, <2>1, <2>3, <2>5, <2>6, OrderBegin DEF Wo!TransitionBegin
<1>2. CASE Wo!ReplaceBegin(u)
    <2>1. PICK list \in SUBSET Participant : Wo!Begin(u, [Wo!NoRequest EXCEPT !.op = "replace", !.list = list])
        BY <1>2 DEF Wo!ReplaceBegin
    <2> DEFINE r == [Wo!NoRequest EXCEPT !.op = "replace", !.list = list]
    <2>2. r \in OrderRequest
        BY NoRequestIs DEF OrderRequest
    <2>3. r.op = "replace"
        BY DEF Wo!NoRequest
    <2> QED
        BY <1>2, <2>1, <2>2, <2>3, OrderBegin DEF Wo!ReplaceBegin, Builds, UpToDate
<1> QED
    BY <1>1, <1>2

LEMMA OrderTransition ==
    ASSUME OrderInv, NEW u \in Users, Wo!TransitionCommit(u)
    PROVE  OrderInv'
<1> DEFINE q == request[u]
<1>1. q \in OrderRequest /\ order \in OrderRow
    BY DEF OrderInv, OrderType
<1>2. order' = Wo!Dated(q.target, q.started) /\ q.op = "transition" /\ q # Wo!NoRequest
    BY DEF Wo!TransitionCommit, Wo!NoRequest
<1>3. /\ order' \in OrderRow
      /\ order'.status = q.target
      /\ order'.started = (order.started \/ (q.target = "em_andamento" /\ ~q.started))
      /\ order'.completed = (order.completed \/ q.target = "concluida")
      /\ order'.validated = (order.validated \/ q.target = "validada")
    BY <1>1, <1>2 DEF Wo!Dated, OrderRow, OrderRequest
<1>4. Builds(q, order)
    BY DEF OrderInv
<1>5. request' = [request EXCEPT ![u] = Wo!NoRequest] /\ UNCHANGED <<rows, replaced, lastList, concurrent>>
    BY DEF Wo!TransitionCommit, Wo!Finish
<1>6. \A v \in Users : request'[v] = IF v = u THEN Wo!NoRequest ELSE request[v]
    BY <1>5 DEF OrderInv, OrderType
<1>7. OrderType'
    BY <1>3, <1>5, NoRequestIs DEF OrderInv, OrderType
<1>8. (\A v \in Users : Builds(request[v], order))'
    BY <1>1, <1>3, <1>6, NoRequestIs DEF OrderInv, Builds, OrderRow
<1>9. OrderSerial'
    <2> SUFFICES ASSUME ~concurrent PROVE OrderSerial'
        BY <1>5 DEF OrderSerial
    <2>1. \A v \in Users : request'[v] = Wo!NoRequest
        BY <1>2, <1>6 DEF OrderInv, OrderSerial
    <2> QED
        BY <2>1, NoRequestIs DEF OrderSerial
<1>10. Wo!OrderIsCoherent'
    <2>1. Wo!DatesFollowStatus'
        BY <1>1, <1>2, <1>3, <1>4 DEF Wo!DatesFollowStatus, Builds, OrderRequest, Wo!WORK_ORDER_STATUSES,
            OrderInv, Wo!OrderIsCoherent, OrderRow
    <2>2. Wo!ValidatedIsFinal'
        <3> SUFFICES ASSUME ~concurrent, order'.validated, q.target # "validada" PROVE FALSE
            BY <1>3, <1>5 DEF Wo!ValidatedIsFinal
        <3>1. order.status = "validada"
            BY <1>1, <1>3 DEF OrderInv, Wo!OrderIsCoherent, Wo!ValidatedIsFinal, OrderRow
        <3>2. q.target \in Wo!Transitions[order.status]
            BY <1>2 DEF OrderInv, OrderSerial, UpToDate
        <3> QED
            BY <1>1, <3>1, <3>2, TransitionsAllowed DEF OrderRow
    <2> QED
        BY <1>5, <2>1, <2>2 DEF OrderInv, Wo!OrderIsCoherent, Wo!LastListIsThere, Wo!OnlyTheLastList
<1> QED
    BY <1>7, <1>8, <1>9, <1>10 DEF OrderInv

LEMMA OrderRows ==
    ASSUME OrderInv, NEW u \in Users, Wo!DeleteRows(u) \/ Wo!ReplaceCommit(u)
    PROVE  OrderInv'
<1> DEFINE q == request[u]
<1>1. q \in OrderRequest
    BY DEF OrderInv, OrderType
<1>2. CASE Wo!DeleteRows(u)
    <2> DEFINE r == [q EXCEPT !.op = "insert", !.seen = rows]
    <2>1. request' = [request EXCEPT ![u] = r] /\ UNCHANGED <<order, rows, replaced, lastList, concurrent>>
        BY <1>2 DEF Wo!DeleteRows, OrderInv, OrderType
    <2>2. r \in OrderRequest /\ r.op = "insert" /\ r.seen = rows
        BY <1>1 DEF OrderRequest, OrderInv, OrderType
    <2> HIDE DEF r
    <2>3. \A v \in Users : request'[v] = IF v = u THEN r ELSE request[v]
        BY <2>1 DEF OrderInv, OrderType
    <2>4. OrderType'
        BY <2>1, <2>2 DEF OrderInv, OrderType
    <2>5. (\A v \in Users : Builds(request[v], order))'
        BY <2>1, <2>2, <2>3 DEF OrderInv, Builds
    <2>6. q # Wo!NoRequest
        BY <1>2 DEF Wo!DeleteRows, Wo!NoRequest
    <2>7. OrderSerial'
        BY <2>1, <2>2, <2>3, <2>6 DEF OrderInv, OrderSerial, UpToDate
    <2> QED
        BY <2>1, <2>4, <2>5, <2>7 DEF OrderInv, Wo!OrderIsCoherent, Wo!DatesFollowStatus,
            Wo!ValidatedIsFinal, Wo!LastListIsThere, Wo!OnlyTheLastList
<1>3. CASE Wo!ReplaceCommit(u)
    <2>1. /\ q.op = "insert" /\ q # Wo!NoRequest
          /\ rows' = (rows \ q.seen) \cup Wo!RowsOf(q.list, replaced + 1)
          /\ replaced' = replaced + 1 /\ lastList' = q.list
          /\ request' = [request EXCEPT ![u] = Wo!NoRequest]
          /\ UNCHANGED <<order, concurrent>>
        BY <1>3 DEF Wo!ReplaceCommit, Wo!Left, Wo!Finish, Wo!NoRequest
    <2>2. \A v \in Users : request'[v] = IF v = u THEN Wo!NoRequest ELSE request[v]
        BY <2>1 DEF OrderInv, OrderType
    <2>3. q.list \subseteq Participant /\ replaced + 1 \in Nat
        BY <1>1 DEF OrderRequest, OrderInv, OrderType
    <2>4. rows' \subseteq ParticipantRow
        BY <2>1, <2>3 DEF OrderInv, OrderType, ParticipantRow, Wo!RowsOf
    <2>5. OrderType'
        BY <2>1, <2>3, <2>4, NoRequestIs DEF OrderInv, OrderType
    <2>6. (\A v \in Users : Builds(request[v], order))'
        BY <2>1, <2>2, NoRequestIs DEF OrderInv
    <2>7. OrderSerial'
        <3> SUFFICES ASSUME ~concurrent PROVE OrderSerial'
            BY <2>1 DEF OrderSerial
        <3>1. \A v \in Users : request'[v] = Wo!NoRequest
            BY <2>1, <2>2 DEF OrderInv, OrderSerial
        <3> QED
            BY <3>1, NoRequestIs DEF OrderSerial
    <2>8. Wo!LastListIsThere'
        BY <2>1, TakingPart DEF Wo!LastListIsThere
    <2>9. Wo!OnlyTheLastList'
        <3> SUFFICES ASSUME ~concurrent PROVE {r.user : r \in rows'} = q.list
            BY <2>1 DEF Wo!OnlyTheLastList
        <3>1. q.seen = rows
            BY <2>1 DEF OrderInv, OrderSerial, UpToDate
        <3>2. rows' = Wo!RowsOf(q.list, replaced + 1)
            BY <2>1, <3>1
        <3> QED
            BY <3>2, TakingPart
    <2> QED
        BY <2>1, <2>5, <2>6, <2>7, <2>8, <2>9 DEF OrderInv, Wo!OrderIsCoherent, Wo!DatesFollowStatus,
            Wo!ValidatedIsFinal
<1> QED
    BY <1>2, <1>3

LEMMA OrderOther ==
    ASSUME OrderInv, \/ \E u \in Users : Wo!Abort(u)
                     \/ Wo!Delete
    PROVE  OrderInv'
<1>1. ASSUME NEW u \in Users, Wo!Abort(u) PROVE OrderInv'
    <2>1. request' = [request EXCEPT ![u] = Wo!NoRequest] /\ UNCHANGED <<order, rows, replaced, lastList, concurrent>>
        BY <1>1 DEF Wo!Abort, Wo!Finish
    <2>2. \A v \in Users : request'[v] = IF v = u THEN Wo!NoRequest ELSE request[v]
        BY <2>1 DEF OrderInv, OrderType
    <2>3. OrderType'
        BY <2>1, NoRequestIs DEF OrderInv, OrderType
    <2>4. (\A v \in Users : Builds(request[v], order))'
        BY <2>1, <2>2, NoRequestIs DEF OrderInv
    <2>5. OrderSerial'
        BY <2>1, <2>2, NoRequestIs DEF OrderInv, OrderSerial
    <2> QED
        BY <2>1, <2>3, <2>4, <2>5 DEF OrderInv, Wo!OrderIsCoherent, Wo!DatesFollowStatus,
            Wo!ValidatedIsFinal, Wo!LastListIsThere, Wo!OnlyTheLastList
<1>2. CASE Wo!Delete
    <2>1. order' = [order EXCEPT !.deleted = TRUE] /\ UNCHANGED <<rows, replaced, request, lastList, concurrent>>
        BY <1>2 DEF Wo!Delete
    <2>2. /\ order' \in OrderRow /\ order'.status = order.status /\ order'.started = order.started
          /\ order'.completed = order.completed /\ order'.validated = order.validated
        BY <2>1 DEF OrderInv, OrderType, OrderRow
    <2>3. OrderType'
        BY <2>1, <2>2 DEF OrderInv, OrderType
    <2>4. (\A v \in Users : Builds(request[v], order))'
        BY <2>1, <2>2 DEF OrderInv, Builds
    <2>5. OrderSerial'
        BY <2>1, <2>2 DEF OrderInv, OrderSerial, UpToDate
    <2> QED
        BY <2>1, <2>2, <2>3, <2>4, <2>5 DEF OrderInv, Wo!OrderIsCoherent, Wo!DatesFollowStatus,
            Wo!ValidatedIsFinal, Wo!LastListIsThere, Wo!OnlyTheLastList
<1> QED
    BY <1>1, <1>2

LEMMA OrderStep ==
    ASSUME OrderInv, Wo!Next \/ UNCHANGED workOrders
    PROVE  OrderInv'
<1>1. CASE UNCHANGED workOrders
    BY <1>1 DEF workOrders, OrderInv, OrderType, OrderSerial, Wo!OrderIsCoherent,
        Wo!DatesFollowStatus, Wo!ValidatedIsFinal, Wo!LastListIsThere, Wo!OnlyTheLastList
<1>2. CASE Wo!Next
    BY <1>2, OrderBegins, OrderTransition, OrderRows, OrderOther DEF Wo!Next
<1> QED
    BY <1>1, <1>2

(***************************************************************************)
(* Preventive plans.  The dates of a plan are those at whole recurrences    *)
(* from the date since which it runs as it does.  A call that loaded a date *)
(* knows that all before it have their order, and moves the date to the     *)
(* next, however late it commits.                                           *)
(***************************************************************************)
LEMMA DividedByRecurrence ==
    ASSUME NEW r \in Nat \ {0}, NEW a \in Int
    PROVE  a = r * (a \div r) + (a % r) /\ a \div r \in Int /\ a % r \in Int /\ 0 <= a % r /\ a % r < r
    OBVIOUS

LEMMA NoMultipleBetween ==
    ASSUME NEW r \in Nat \ {0}, NEW k \in Int, 0 <= r * k, r * k < r
    PROVE  k = 0
<1>1. CASE k >= 1
    <2>1. r * k = r + r * (k - 1)
        OBVIOUS
    <2>2. r * (k - 1) >= 0
        BY <1>1
    <2> QED
        BY <2>1, <2>2
<1>2. CASE k <= -1
    <2>1. r * k = (r * (k + 1)) - r
        OBVIOUS
    <2>2. r * (k + 1) <= 0
        BY <1>2
    <2> QED
        BY <2>1, <2>2
<1> QED
    BY <1>1, <1>2

LEMMA NextMultiple ==
    ASSUME NEW r \in Nat \ {0}, NEW a \in Int, a % r = 0
    PROVE  (a + r) % r = 0
<1> DEFINE q == a \div r
           p == (a + r) \div r
           m == (a + r) % r
<1>1. a = r * q /\ q \in Int
    BY DividedByRecurrence
<1>2. a + r = r * p + m /\ p \in Int /\ 0 <= m /\ m < r /\ m \in Int
    BY DividedByRecurrence, a + r \in Int
<1> HIDE DEF q, p, m
<1>3. r * (q + 1 - p) = r * q + r - r * p
    BY <1>1, <1>2
<1>4. r * (q + 1 - p) = m
    BY <1>1, <1>2, <1>3
<1>5. q + 1 - p = 0
    BY <1>1, <1>2, <1>4, NoMultipleBetween
<1> QED
    BY <1>1, <1>2, <1>5 DEF m

LEMMA SameMultiple ==
    ASSUME NEW r \in Nat \ {0}, NEW a \in Int, NEW b \in Int, a % r = 0, b % r = 0, a <= b, b < a + r
    PROVE  a = b
<1> DEFINE q == a \div r
           p == b \div r
<1>1. a = r * q /\ q \in Int
    BY DividedByRecurrence
<1>2. b = r * p /\ p \in Int
    BY DividedByRecurrence
<1> HIDE DEF q, p
<1>3. r * (p - q) = b - a
    BY <1>1, <1>2
<1>4. p - q = 0
    BY <1>1, <1>2, <1>3, NoMultipleBetween
<1> QED
    BY <1>1, <1>2, <1>4

\* The dates from the first up to due, at every recurrence, are in the list, after
\* its first n.
Served(first, due, recurrence, list, n) ==
    /\ first <= due /\ (due - first) % recurrence = 0
    /\ \A d \in first..(due - 1) : (d - first) % recurrence = 0 => \E i \in DOMAIN list : n < i /\ list[i] = d

\* After its first n, the list rises, and is below d.
Rising(list, n) == \A i, j \in DOMAIN list : n < i /\ i < j => list[i] < list[j]

Below(list, d, n) == \A i \in DOMAIN list : n < i => list[i] < d

LEMMA NothingServed == ASSUME NEW d \in Int, NEW r \in Recurrence, NEW list, NEW n PROVE Served(d, d, r, list, n)
<1>1. (d - d) % r = 0
    BY NumbersAssumption, 0 % r = 0 DEF NumbersAssumption
<1> QED
    BY <1>1 DEF Served

LEMMA AppendIs ==
    ASSUME NEW list \in Seq(Int), NEW d \in Int
    PROVE  /\ Append(list, d) \in Seq(Int)
           /\ DOMAIN Append(list, d) = DOMAIN list \cup {Len(list) + 1} /\ DOMAIN list = 1..Len(list) /\ Len(list) \in Nat
           /\ \A i \in DOMAIN list : Append(list, d)[i] = list[i]
           /\ Append(list, d)[Len(list) + 1] = d
    OBVIOUS

LEMMA ServedOn ==
    ASSUME NEW first \in Int, NEW due \in Int, NEW r \in Recurrence, NEW list \in Seq(Int), NEW d \in Int,
           NEW n \in Nat, n <= Len(list)
    PROVE  /\ Served(first, due, r, list, n) => Served(first, due, r, Append(list, d), n)
           /\ Served(first, due, r, list, n) => Served(first, due + r, r, Append(list, due), n)
<1>1. Served(first, due, r, list, n) => Served(first, due, r, Append(list, d), n)
    BY AppendIs DEF Served
<1>2. ASSUME Served(first, due, r, list, n) PROVE Served(first, due + r, r, Append(list, due), n)
    <2>1. r \in Nat \ {0}
        BY NumbersAssumption DEF NumbersAssumption
    <2>2. ((due + r) - first) % r = 0 /\ first <= due + r
        <3> DEFINE a == due - first
        <3>1. a \in Int /\ a % r = 0 /\ first <= due
            BY <1>2 DEF Served
        <3>2. (a + r) % r = 0
            BY <2>1, <3>1, NextMultiple
        <3>3. a + r = (due + r) - first
            BY <2>1
        <3> QED
            BY <2>1, <3>1, <3>2, <3>3
    <2>3. ASSUME NEW x \in first..((due + r) - 1), (x - first) % r = 0
          PROVE  \E i \in DOMAIN Append(list, due) : n < i /\ Append(list, due)[i] = x
        <3>1. CASE x < due
            BY <1>2, <2>3, <3>1, AppendIs DEF Served
        <3>2. CASE x >= due
            <4> DEFINE a == due - first
                       b == x - first
            <4>1. a \in Int /\ a % r = 0 /\ b \in Int /\ b % r = 0 /\ a <= b /\ b < a + r
                BY <1>2, <2>1, <2>3, <3>2 DEF Served
            <4>2. a = b
                <5> HIDE DEF a, b
                <5> QED
                    BY <2>1, <4>1, SameMultiple
            <4>3. x = due
                BY <2>3, <4>2
            <4> QED
                BY <4>3, AppendIs
        <3> QED
            BY <2>1, <3>1, <3>2
    <2>4. \A x \in first..((due + r) - 1) :
            (x - first) % r = 0 => \E i \in DOMAIN Append(list, due) : n < i /\ Append(list, due)[i] = x
        BY <2>3
    <2> QED
        BY <2>2, <2>4 DEF Served
<1> QED
    BY <1>1, <1>2

LEMMA RisingOn ==
    ASSUME NEW list \in Seq(Int), NEW d \in Int, NEW r \in Recurrence, NEW n \in Nat, Rising(list, n), Below(list, d, n)
    PROVE  Rising(Append(list, d), n) /\ Below(Append(list, d), d + r, n)
<1>1. r \in Nat \ {0}
    BY NumbersAssumption DEF NumbersAssumption
<1>2. \A i \in DOMAIN list : list[i] \in Int
    OBVIOUS
<1> QED
    BY <1>1, <1>2, AppendIs DEF Rising, Below

PlanType ==
    /\ plan \in [Plan -> Pp!Plans] /\ today \in Int
    /\ orders \in [Plan -> Seq(Int)] /\ since \in [Plan -> [due : Int, orders : Nat]] /\ restart \in [Plan -> Nat]
    /\ \A p \in Plan : since[p].orders <= Len(orders[p])
    /\ loaded = [u \in Users |-> loaded[u]]
    /\ \A u \in Users : Pp!UnderWay(u) =>
         DOMAIN loaded[u] \subseteq Plan /\ \A p \in DOMAIN loaded[u] : loaded[u][p] \in Pp!Plans
    /\ callsMet \in BOOLEAN /\ editMet \in BOOLEAN

\* What is loaded, row, is of a plan that runs as the plan now does, with an
\* order for every date before the one that is loaded.
StillRuns(row, now, from, list) ==
    row.recurrence = now.recurrence /\ Served(from.due, row.due, row.recurrence, list, from.orders)

DatesServed ==
    ~editMet =>
        \A p \in Plan :
            /\ StillRuns(plan[p], plan[p], since[p], orders[p])
            /\ \A u \in Users : Pp!UnderWay(u) /\ p \in DOMAIN loaded[u] =>
                   StillRuns(loaded[u][p], plan[p], since[p], orders[p])

\* While calls meet neither calls nor edits, the date to come, if there is one, is
\* later than those served since the last restart, and is the one that a call has
\* loaded.
DatesRising ==
    ~callsMet /\ ~editMet =>
        /\ \A u, v \in Users : Pp!UnderWay(u) /\ Pp!UnderWay(v) => u = v
        /\ \A p \in Plan :
             /\ Rising(orders[p], restart[p])
             /\ plan[p].due # Pp!NoDate => Below(orders[p], plan[p].due, restart[p])
             /\ \A u \in Users : Pp!UnderWay(u) /\ p \in DOMAIN loaded[u] =>
                    loaded[u][p].due = plan[p].due /\ plan[p].due # Pp!NoDate

PlanInv == PlanType /\ DatesServed /\ DatesRising

LEMMA PlanRow ==
    ASSUME NEW row \in Pp!Plans
    PROVE  row.due \in Int /\ row.recurrence \in Recurrence /\ row.active \in BOOLEAN /\ row.deleted \in BOOLEAN
    BY DEF Pp!Plans

LEMMA NextDate == ASSUME NEW row \in Pp!Plans PROVE row.due + row.recurrence \in Int
<1>1. \A r \in Recurrence : r \in Int
    BY NumbersAssumption DEF NumbersAssumption
<1>2. ASSUME NEW d \in Int, NEW r \in Int PROVE d + r \in Int
    OBVIOUS
<1> QED
    BY <1>1, <1>2, PlanRow

LEMMA NewPlan ==
    ASSUME NEW row \in [due : {0, 1}, recurrence : Recurrence, active : {TRUE}, deleted : {FALSE}]
    PROVE  row \in Pp!Plans
<1>1. row = [due |-> row.due, recurrence |-> row.recurrence, active |-> row.active, deleted |-> row.deleted]
    OBVIOUS
<1>2. row.due \in Int /\ row.recurrence \in Recurrence
    OBVIOUS
<1>3. row.active = TRUE /\ row.deleted = FALSE
    OBVIOUS
<1> QED
    BY <1>1, <1>2, <1>3 DEF Pp!Plans

LEMMA PlanInit == Pp!Init => PlanInv
<1> SUFFICES ASSUME Pp!Init PROVE PlanInv
    OBVIOUS
<1>1. plan \in [Plan -> Pp!Plans]
    <2>1. plan = [p \in Plan |-> plan[p]]
        BY DEF Pp!Init
    <2>2. \A p \in Plan : plan[p] \in [due : {0, 1}, recurrence : Recurrence, active : {TRUE}, deleted : {FALSE}]
        BY DEF Pp!Init
    <2>3. \A p \in Plan : plan[p] \in Pp!Plans
        BY <2>2, NewPlan
    <2> QED
        BY <2>1, <2>3
<1>2. /\ since \in [Plan -> [due : Int, orders : Nat]] /\ restart \in [Plan -> Nat]
      /\ \A p \in Plan : since[p].due = plan[p].due /\ since[p].orders = 0
    BY <1>1, PlanRow DEF Pp!Init
<1>3. orders \in [Plan -> Seq(Int)] /\ \A p \in Plan : orders[p] = <<>>
    BY DEF Pp!Init
<1>4. \A u \in Users : ~Pp!UnderWay(u)
    BY DEF Pp!Init, Pp!UnderWay
<1>5. PlanType
    <2>1. loaded = [u \in Users |-> loaded[u]]
        BY DEF Pp!Init
    <2>2. today = 0 /\ callsMet = FALSE /\ editMet = FALSE
        BY DEF Pp!Init
    <2>3. \A u \in Users : Pp!UnderWay(u) =>
            DOMAIN loaded[u] \subseteq Plan /\ \A p \in DOMAIN loaded[u] : loaded[u][p] \in Pp!Plans
        BY <1>4
    <2>4. today \in Int
        BY <2>2
    <2>5. callsMet \in BOOLEAN /\ editMet \in BOOLEAN
        BY <2>2, Zenon
    <2>6. \A p \in Plan : since[p].orders <= Len(orders[p])
        BY <1>2, <1>3
    <2> QED
        BY <1>1, <1>2, <1>3, <2>1, <2>3, <2>4, <2>5, <2>6, Zenon DEF PlanType
<1>6. DatesServed
    BY <1>1, <1>2, <1>4, PlanRow, NothingServed DEF DatesServed, StillRuns
<1>7. \A d, n : Rising(<<>>, n) /\ Below(<<>>, d, n)
    BY DEF Rising, Below
<1>8. DatesRising
    BY <1>3, <1>4, <1>7 DEF DatesRising
<1> QED
    BY <1>5, <1>6, <1>8 DEF PlanInv

LEMMA PlanBegin ==
    ASSUME PlanInv, NEW u \in Users, Pp!GenerateBegin(u)
    PROVE  PlanInv'
<1> DEFINE D == {p \in Plan : Pp!Due(p)}
           c == [p \in D |-> plan[p]]
<1>1. /\ loaded' = [loaded EXCEPT ![u] = c]
      /\ callsMet' = (callsMet \/ \E v \in Users : Pp!UnderWay(v))
      /\ UNCHANGED <<plan, today, orders, since, restart, editMet>> /\ ~Pp!UnderWay(u)
    BY DEF Pp!GenerateBegin
<1>2. D \subseteq Plan /\ DOMAIN c = D /\ \A p \in D : c[p] = plan[p] /\ plan[p].due # Pp!NoDate
    BY DEF Pp!Due
<1> HIDE DEF c, D
<1>3. \A v \in Users : loaded'[v] = IF v = u THEN c ELSE loaded[v]
    BY <1>1 DEF PlanInv, PlanType
<1>4. \A v \in Users : v # u => (Pp!UnderWay(v)' <=> Pp!UnderWay(v))
    BY <1>3 DEF Pp!UnderWay
<1>5. PlanType'
    <2>1. loaded' = [v \in Users |-> loaded'[v]]
        BY <1>1 DEF PlanInv, PlanType
    <2>2. \A v \in Users : Pp!UnderWay(v)' =>
            DOMAIN loaded'[v] \subseteq Plan /\ \A p \in DOMAIN loaded'[v] : loaded'[v][p] \in Pp!Plans
        BY <1>2, <1>3, <1>4 DEF PlanInv, PlanType
    <2> QED
        BY <1>1, <2>1, <2>2 DEF PlanInv, PlanType
<1>6. DatesServed'
    BY <1>1, <1>2, <1>3, <1>4 DEF PlanInv, DatesServed
<1>7. DatesRising'
    BY <1>1, <1>2, <1>3, <1>4 DEF PlanInv, PlanType, DatesRising
<1> QED
    BY <1>5, <1>6, <1>7 DEF PlanInv

LEMMA PlanCommit ==
    ASSUME PlanInv, NEW u \in Users, Pp!GenerateCommit(u)
    PROVE  PlanInv'
<1> DEFINE c == loaded[u]
           made(p) == IF p \in DOMAIN c THEN Append(orders[p], c[p].due) ELSE orders[p]
           moved(p) == IF p \in DOMAIN c THEN [plan[p] EXCEPT !.due = c[p].due + c[p].recurrence] ELSE plan[p]
<1>1. /\ Pp!UnderWay(u)
      /\ orders' = [p \in Plan |-> made(p)] /\ plan' = [p \in Plan |-> moved(p)]
      /\ loaded' = [loaded EXCEPT ![u] = <<>>]
      /\ UNCHANGED <<today, since, restart, callsMet, editMet>>
    BY DEF Pp!GenerateCommit, Pp!NextDueFrom
<1>2. DOMAIN c \subseteq Plan /\ \A p \in DOMAIN c : c[p] \in Pp!Plans
    BY <1>1 DEF PlanInv, PlanType
<1>3. \A v \in Users : loaded'[v] = IF v = u THEN <<>> ELSE loaded[v]
    BY <1>1 DEF PlanInv, PlanType
<1>4. /\ ~Pp!UnderWay(u)'
      /\ \A v \in Users : v # u => (Pp!UnderWay(v)' <=> Pp!UnderWay(v))
    BY <1>3 DEF Pp!UnderWay
<1>5. \A p \in Plan :
        /\ plan[p] \in Pp!Plans /\ orders[p] \in Seq(Int) /\ restart[p] \in Nat
        /\ since[p].due \in Int /\ since[p].orders \in Nat /\ since[p].orders <= Len(orders[p])
    BY DEF PlanInv, PlanType
<1>6. \A p \in DOMAIN c : c[p].due + c[p].recurrence \in Int
    BY <1>2, NextDate
<1>7. \A p \in Plan :
        /\ moved(p) \in Pp!Plans /\ made(p) \in Seq(Int) /\ Len(orders[p]) <= Len(made(p))
        /\ moved(p).recurrence = plan[p].recurrence
        /\ p \in DOMAIN c => moved(p).due = c[p].due + c[p].recurrence
    BY <1>2, <1>5, <1>6, PlanRow, AppendIs DEF Pp!Plans
<1>8. \A p \in Plan : plan'[p] = moved(p) /\ orders'[p] = made(p)
    BY <1>1
<1>9. PlanType'
    <2>1. plan' \in [Plan -> Pp!Plans] /\ orders' \in [Plan -> Seq(Int)]
        <3> HIDE DEF made, moved
        <3> QED
            BY <1>1, <1>7
    <2>2. loaded' = [v \in Users |-> loaded'[v]]
        BY <1>1 DEF PlanInv, PlanType
    <2>3. \A v \in Users : Pp!UnderWay(v)' =>
            DOMAIN loaded'[v] \subseteq Plan /\ \A p \in DOMAIN loaded'[v] : loaded'[v][p] \in Pp!Plans
        BY <1>3, <1>4 DEF PlanInv, PlanType
    <2>4. \A p \in Plan : since[p].orders <= Len(orders'[p])
        <3>1. \A p \in Plan : Len(orders[p]) \in Nat /\ Len(made(p)) \in Nat
            BY <1>5, <1>7
        <3> HIDE DEF made, moved
        <3> QED
            BY <1>5, <1>7, <1>8, <3>1
    <2> QED
        BY <1>1, <2>1, <2>2, <2>3, <2>4 DEF PlanInv, PlanType
<1>10. DatesServed'
    <2> SUFFICES ASSUME ~editMet, NEW p \in Plan
                 PROVE  /\ StillRuns(moved(p), moved(p), since[p], made(p))
                        /\ \A v \in Users : v # u /\ Pp!UnderWay(v) /\ p \in DOMAIN loaded[v] =>
                              StillRuns(loaded[v][p], moved(p), since[p], made(p))
        BY <1>1, <1>3, <1>4, <1>8 DEF DatesServed
    <2>1. /\ StillRuns(plan[p], plan[p], since[p], orders[p])
          /\ \A v \in Users : Pp!UnderWay(v) /\ p \in DOMAIN loaded[v] =>
                StillRuns(loaded[v][p], plan[p], since[p], orders[p])
        BY DEF PlanInv, DatesServed
    <2>2. CASE p \notin DOMAIN c
        BY <2>1, <2>2
    <2>3. CASE p \in DOMAIN c
        <3>1. c[p].due \in Int /\ c[p].recurrence \in Recurrence
            BY <1>2, <2>3, PlanRow
        <3>2. c[p].recurrence = plan[p].recurrence /\ Served(since[p].due, c[p].due, c[p].recurrence, orders[p], since[p].orders)
            BY <1>1, <2>1, <2>3 DEF StillRuns
        <3>3. Served(since[p].due, c[p].due + c[p].recurrence, c[p].recurrence, made(p), since[p].orders)
            BY <1>5, <2>3, <3>1, <3>2, ServedOn
        <3>4. \A v \in Users : Pp!UnderWay(v) /\ p \in DOMAIN loaded[v] =>
                loaded[v][p].due \in Int /\ loaded[v][p].recurrence \in Recurrence
            BY PlanRow DEF PlanInv, PlanType
        <3>5. \A v \in Users : Pp!UnderWay(v) /\ p \in DOMAIN loaded[v] =>
                Served(since[p].due, loaded[v][p].due, loaded[v][p].recurrence, made(p), since[p].orders)
            BY <1>5, <2>1, <2>3, <3>1, <3>4, ServedOn DEF StillRuns
        <3>6. moved(p).recurrence = plan[p].recurrence /\ moved(p).due = c[p].due + c[p].recurrence
            BY <1>7, <2>3
        <3> HIDE DEF moved, made
        <3> QED
            BY <2>1, <3>2, <3>3, <3>5, <3>6 DEF StillRuns
    <2> QED
        BY <2>2, <2>3
<1>11. DatesRising'
    <2> SUFFICES ASSUME ~callsMet, ~editMet PROVE DatesRising'
        BY <1>1 DEF DatesRising
    <2>1. \A v \in Users : ~Pp!UnderWay(v)'
        BY <1>1, <1>4 DEF PlanInv, DatesRising
    <2>2. ASSUME NEW p \in Plan
          PROVE  /\ Rising(made(p), restart[p])
                 /\ moved(p).due # Pp!NoDate => Below(made(p), moved(p).due, restart[p])
        <3>1. Rising(orders[p], restart[p]) /\ (plan[p].due # Pp!NoDate => Below(orders[p], plan[p].due, restart[p]))
            BY DEF PlanInv, DatesRising
        <3>2. CASE p \notin DOMAIN c
            BY <3>1, <3>2
        <3>3. CASE p \in DOMAIN c
            <4>1. c[p].due = plan[p].due /\ plan[p].due # Pp!NoDate
                BY <1>1, <3>3 DEF PlanInv, DatesRising
            <4>2. c[p].due \in Int /\ c[p].recurrence \in Recurrence
                BY <1>2, <3>3, PlanRow
            <4>3. /\ Rising(Append(orders[p], c[p].due), restart[p])
                  /\ Below(Append(orders[p], c[p].due), c[p].due + c[p].recurrence, restart[p])
                BY <1>5, <3>1, <4>1, <4>2, RisingOn
            <4> QED
                BY <1>7, <3>3, <4>3
        <3> QED
            BY <3>2, <3>3
    <2> HIDE DEF made, moved
    <2> QED
        BY <1>1, <1>8, <2>1, <2>2 DEF DatesRising
<1> QED
    BY <1>9, <1>10, <1>11 DEF PlanInv

\* After a restart, if that is one, all that was served is before the date.
LEMMA RestartIs ==
    ASSUME NEW p \in Plan, NEW d \in Int, orders[p] \in Seq(Int), restart[p] \in Nat
    PROVE  /\ Pp!RestartAt(p, d) \in Nat
           /\ Rising(orders[p], restart[p]) => Rising(orders[p], Pp!RestartAt(p, d))
           /\ d # Pp!NoDate => Below(orders[p], d, Pp!RestartAt(p, d))
<1>1. DOMAIN orders[p] = 1..Len(orders[p]) /\ Len(orders[p]) \in Nat /\ \A i \in DOMAIN orders[p] : orders[p][i] \in Int
    OBVIOUS
<1> QED
    BY <1>1 DEF Pp!RestartAt, Rising, Below

LEMMA PlanEdited ==
    ASSUME PlanInv, NEW p \in Plan, Pp!UpdatePlan(p)
    PROVE  PlanInv'
<1>1. /\ since' = [since EXCEPT ![p] = [due |-> plan'[p].due, orders |-> Len(orders[p])]]
      /\ restart' = [restart EXCEPT ![p] = Pp!RestartAt(p, plan'[p].due)]
      /\ editMet' = (editMet \/ \E v \in Users : Pp!UnderWay(v))
      /\ UNCHANGED <<today, orders, loaded, callsMet>>
    BY DEF Pp!UpdatePlan
<1>2. plan \in [Plan -> Pp!Plans] /\ plan[p].due \in Int /\ orders[p] \in Seq(Int) /\ Len(orders[p]) \in Nat
      /\ restart[p] \in Nat
    BY PlanRow DEF PlanInv, PlanType
<1>3. plan' \in [Plan -> Pp!Plans] /\ \A o \in Plan : o # p => plan'[o] = plan[o]
    <2>1. PICK d \in {Pp!NoDate, plan[p].due} \cup 0..MaxDay, r \in Recurrence, a \in BOOLEAN :
            plan' = [plan EXCEPT ![p] = [@ EXCEPT !.due = d, !.recurrence = r, !.active = a]]
        BY DEF Pp!UpdatePlan
    <2>2. d \in Int
        BY <1>2 DEF Pp!NoDate
    <2>3. [plan[p] EXCEPT !.due = d, !.recurrence = r, !.active = a] \in Pp!Plans
        BY <1>2, <2>2 DEF Pp!Plans
    <2> QED
        BY <1>2, <2>1, <2>3
<1>4. plan'[p].due \in Int /\ plan'[p].recurrence \in Recurrence
    BY <1>3, PlanRow
<1>5. \A v \in Users : Pp!UnderWay(v)' <=> Pp!UnderWay(v)
    BY <1>1 DEF Pp!UnderWay
<1>6. /\ since' \in [Plan -> [due : Int, orders : Nat]]
      /\ since'[p].due = plan'[p].due /\ since'[p].orders = Len(orders[p])
      /\ \A o \in Plan : o # p => since'[o] = since[o]
    BY <1>1, <1>2, <1>4 DEF PlanInv, PlanType
<1>7. /\ restart' \in [Plan -> Nat] /\ restart'[p] = Pp!RestartAt(p, plan'[p].due)
      /\ \A o \in Plan : o # p => restart'[o] = restart[o]
    BY <1>1, <1>2, <1>4, RestartIs DEF PlanInv, PlanType
<1>8. PlanType'
    <2>1. ASSUME NEW o \in Plan PROVE since'[o].orders <= Len(orders[o])
        <3>1. CASE o = p
            BY <1>2, <1>6, <3>1
        <3>2. CASE o # p
            <4>1. since'[o] = since[o]
                BY <1>6, <3>2
            <4> QED
                BY <4>1 DEF PlanInv, PlanType
        <3> QED
            BY <3>1, <3>2
    <2> QED
        BY <1>1, <1>3, <1>5, <1>6, <1>7, <2>1 DEF PlanInv, PlanType
<1>9. DatesServed'
    <2> SUFFICES ASSUME ~editMet', NEW o \in Plan PROVE StillRuns(plan'[o], plan'[o], since'[o], orders[o])
        BY <1>1, <1>5 DEF DatesServed
    <2>1. CASE o = p
        BY <1>4, <1>6, <2>1, NothingServed DEF StillRuns
    <2>2. CASE o # p
        BY <1>1, <1>3, <1>6, <2>2 DEF PlanInv, DatesServed
    <2> QED
        BY <2>1, <2>2
<1>10. DatesRising'
    <2> SUFFICES ASSUME ~callsMet, ~editMet' PROVE DatesRising'
        BY <1>1 DEF DatesRising
    <2>1. \A v \in Users : ~Pp!UnderWay(v)'
        BY <1>1, <1>5
    <2>2. ASSUME NEW o \in Plan
          PROVE  /\ Rising(orders[o], restart'[o])
                 /\ plan'[o].due # Pp!NoDate => Below(orders[o], plan'[o].due, restart'[o])
        <3>1. Rising(orders[o], restart[o]) /\ (plan[o].due # Pp!NoDate => Below(orders[o], plan[o].due, restart[o]))
            BY <1>1 DEF PlanInv, DatesRising
        <3>2. CASE o = p
            BY <1>2, <1>4, <1>7, <3>1, <3>2, RestartIs
        <3>3. CASE o # p
            BY <1>3, <1>7, <3>1, <3>3
        <3> QED
            BY <3>2, <3>3
    <2> QED
        BY <1>1, <2>1, <2>2 DEF DatesRising
<1> QED
    BY <1>8, <1>9, <1>10 DEF PlanInv

LEMMA PlanOther ==
    ASSUME PlanInv, \/ \E u \in Users : Pp!GenerateAbort(u)
                    \/ \E p \in Plan : Pp!DeletePlan(p)
                    \/ Pp!NextDay
    PROVE  PlanInv'
<1>1. ASSUME NEW u \in Users, Pp!GenerateAbort(u) PROVE PlanInv'
    <2>1. loaded' = [loaded EXCEPT ![u] = <<>>] /\ UNCHANGED <<plan, today, orders, since, restart, callsMet, editMet>>
        BY <1>1 DEF Pp!GenerateAbort
    <2>2. \A v \in Users : loaded'[v] = IF v = u THEN <<>> ELSE loaded[v]
        BY <2>1 DEF PlanInv, PlanType
    <2>3. \A v \in Users : Pp!UnderWay(v)' => Pp!UnderWay(v) /\ loaded'[v] = loaded[v]
        BY <2>2 DEF Pp!UnderWay
    <2>4. loaded' = [v \in Users |-> loaded'[v]]
        BY <2>1 DEF PlanInv, PlanType
    <2>5. PlanType'
        BY <2>1, <2>3, <2>4 DEF PlanInv, PlanType
    <2>6. DatesServed'
        BY <2>1, <2>3 DEF PlanInv, DatesServed
    <2>7. DatesRising'
        BY <2>1, <2>3 DEF PlanInv, DatesRising
    <2> QED
        BY <2>5, <2>6, <2>7 DEF PlanInv
<1>2. ASSUME NEW p \in Plan, Pp!DeletePlan(p) PROVE PlanInv'
    <2>1. plan' = [plan EXCEPT ![p].deleted = TRUE] /\ UNCHANGED <<today, orders, loaded, since, restart, callsMet, editMet>>
        BY <1>2 DEF Pp!DeletePlan
    <2>2. plan' \in [Plan -> Pp!Plans] /\ \A o \in Plan : plan'[o].due = plan[o].due /\ plan'[o].recurrence = plan[o].recurrence
        BY <2>1 DEF PlanInv, PlanType, Pp!Plans
    <2>3. \A v \in Users : Pp!UnderWay(v)' <=> Pp!UnderWay(v)
        BY <2>1 DEF Pp!UnderWay
    <2>4. PlanType'
        BY <2>1, <2>2, <2>3 DEF PlanInv, PlanType
    <2>5. DatesServed'
        BY <2>1, <2>2, <2>3 DEF PlanInv, DatesServed, StillRuns
    <2>6. DatesRising'
        BY <2>1, <2>2, <2>3 DEF PlanInv, DatesRising
    <2> QED
        BY <2>4, <2>5, <2>6 DEF PlanInv
<1>3. CASE Pp!NextDay
    BY <1>3 DEF Pp!NextDay, PlanInv, PlanType, DatesServed, DatesRising, Pp!UnderWay
<1> QED
    BY <1>1, <1>2, <1>3

LEMMA PlanStep ==
    ASSUME PlanInv, Pp!Next \/ UNCHANGED plans
    PROVE  PlanInv'
<1>1. CASE UNCHANGED plans
    BY <1>1 DEF plans, PlanInv, PlanType, DatesServed, DatesRising, Pp!UnderWay
<1>2. CASE Pp!Next
    BY <1>2, PlanBegin, PlanCommit, PlanEdited, PlanOther DEF Pp!Next
<1> QED
    BY <1>1, <1>2

LEMMA PlansDone == PlanInv => Pp!EveryDateOnce
<1> SUFFICES ASSUME PlanInv PROVE Pp!EveryDateOnce
    OBVIOUS
<1>1. Pp!NoDateSkipped
    BY DEF PlanInv, DatesServed, StillRuns, Served, Pp!NoDateSkipped, Pp!Dates
<1>2. Pp!OneOrderPerDate
    BY DEF PlanInv, DatesRising, Rising, Pp!OneOrderPerDate
<1> QED
    BY <1>1, <1>2 DEF Pp!EveryDateOnce

(***************************************************************************)
(* Checklists.  The last list of a template is there as a whole in every    *)
(* committed state, whatever two replacements leave beside it, and that is  *)
(* what an execution copies.                                                *)
(***************************************************************************)
ItemRow == Label \X Nat

ExecutionRow ==
    [due : Int, status : {"pendente", "concluido"}, items : SUBSET ItemRow, checked : SUBSET ItemRow, dated : SUBSET ItemRow]

\* What a request may leave as it is.
OrKept(S) == S \cup {Kept}

ChecklistRequest ==
    [op : {"none", "update", "insert", "generate", "create", "toggle"}, list : OrKept(SUBSET Label), due : OrKept(Int),
     every : OrKept(Every), active : OrKept(BOOLEAN), rows : SUBSET ItemRow, on : Nat, item : ItemRow \cup {<<>>},
     check : BOOLEAN, wasChecked : BOOLEAN, wasDated : BOOLEAN]

TemplateRow == [due : Int, every : Every, active : BOOLEAN, deleted : BOOLEAN]

ChecklistType ==
    /\ template \in TemplateRow /\ setBack \in Nat
    /\ items \subseteq ItemRow
    /\ versions \in Seq(SUBSET Label)
    /\ executions \in Seq(ExecutionRow)
    /\ work \in [Users -> ChecklistRequest]
    /\ overlap \in BOOLEAN

\* The rows S have every item of one of the lists vs.
Whole(S, vs) == \E n \in DOMAIN vs : Cl!RowsOf(n, vs[n]) \subseteq S

LastIsThere(S, vs) == Len(vs) > 0 /\ Cl!RowsOf(Len(vs), vs[Len(vs)]) \subseteq S

\* What the request q has read, by the lists vs and the executions ex.
ReadWhole(q, vs, ex) ==
    /\ q.op = "create" => Whole(q.rows, vs)
    /\ q.op = "insert" => q.list \in SUBSET Label
    /\ q.op \in {"generate", "create"} => q.due \in Int /\ q.every \in Every
    /\ q.op = "toggle" => q.on \in DOMAIN ex /\ q.item \in ex[q.on].items

\* When it is alone, what it has read is still so.
StillSo(q, due, ex) ==
    /\ q.op \in {"generate", "create"} => q.due = due /\ due # Cl!NoDate
    /\ q.op = "toggle" => /\ q.wasChecked = (q.item \in ex[q.on].checked)
                          /\ q.wasDated = (q.item \in ex[q.on].dated)

\* Executions in step, and after the first n rising and before the date that is
\* due next, if there is one.
InStep(ex, due, n) ==
    /\ \A e \in DOMAIN ex : ex[e].checked = ex[e].dated
    /\ due # Cl!NoDate => \A e \in DOMAIN ex : n < e => ex[e].due < due
    /\ \A d, e \in DOMAIN ex : n < d /\ d < e => ex[d].due < ex[e].due

ChecklistSerial ==
    ~overlap =>
        /\ \A u, v \in Users : work[u] # Cl!Idle /\ work[v] # Cl!Idle => u = v
        /\ \A u \in Users : StillSo(work[u], template.due, executions)
        /\ InStep(executions, template.due, setBack)

ChecklistInv ==
    /\ ChecklistType
    /\ LastIsThere(items, versions)
    /\ \A e \in DOMAIN executions : Whole(executions[e].items, versions)
    /\ \A u \in Users : ReadWhole(work[u], versions, executions)
    /\ ChecklistSerial

LEMMA MaybeKept == ASSUME NEW S PROVE S \subseteq OrKept(S) /\ Kept \in OrKept(S) /\ \A x \in OrKept(S) : x # Kept => x \in S
    BY DEF OrKept

LEMMA IdleIs ==
    /\ Cl!Idle \in ChecklistRequest
    /\ \A vs, ex, due : ReadWhole(Cl!Idle, vs, ex) /\ StillSo(Cl!Idle, due, ex)
<1>1. Cl!Idle.op = "none"
    BY DEF Cl!Idle
<1>2. Cl!Idle \in ChecklistRequest
    <2>1. /\ Kept \in OrKept(SUBSET Label) /\ Kept \in OrKept(Int) /\ Kept \in OrKept(Every) /\ Kept \in OrKept(BOOLEAN)
          /\ <<>> \in ItemRow \cup {<<>>} /\ {} \in SUBSET ItemRow
        BY MaybeKept
    <2> QED
        BY <2>1 DEF Cl!Idle, ChecklistRequest
<1> QED
    BY <1>1, <1>2 DEF ReadWhole, StillSo

LEMMA RowsAre == ASSUME NEW list \in SUBSET Label, NEW n \in Nat PROVE Cl!RowsOf(n, list) \subseteq ItemRow
    BY DEF Cl!RowsOf, ItemRow

\* Appending to a sequence, and replacing one of its elements.
LEMMA ReplaceIn ==
    ASSUME NEW S, NEW s \in Seq(S), NEW i \in DOMAIN s, NEW x \in S
    PROVE  /\ [s EXCEPT ![i] = x] \in Seq(S)
           /\ DOMAIN [s EXCEPT ![i] = x] = DOMAIN s
           /\ \A j \in DOMAIN s : [s EXCEPT ![i] = x][j] = IF j = i THEN x ELSE s[j]
    OBVIOUS

LEMMA ChecklistInit == Cl!Init => ChecklistInv
<1> SUFFICES ASSUME Cl!Init PROVE ChecklistInv
    OBVIOUS
<1>1. PICK list \in ItemLists : versions = <<list>> /\ items = Cl!RowsOf(1, list)
    BY DEF Cl!Init
<1>2. list \in SUBSET Label
    BY NumbersAssumption DEF NumbersAssumption
<1>3. versions \in Seq(SUBSET Label) /\ Len(versions) = 1 /\ versions[1] = list /\ items \subseteq ItemRow
    BY <1>1, <1>2, RowsAre
<1>4. executions = <<>> /\ executions \in Seq(ExecutionRow) /\ DOMAIN executions = {}
    BY DEF Cl!Init
<1>5. work \in [Users -> ChecklistRequest] /\ \A u \in Users : work[u] = Cl!Idle
    BY IdleIs DEF Cl!Init
<1>6. template \in TemplateRow /\ setBack \in Nat /\ overlap \in BOOLEAN
    <2>1. PICK r \in Every : template = [due |-> 0, every |-> r, active |-> TRUE, deleted |-> FALSE]
        BY DEF Cl!Init
    <2>2. template \in TemplateRow /\ setBack \in Nat /\ overlap = FALSE
        BY <2>1 DEF TemplateRow, Cl!Init
    <2> QED
        BY <2>2, Zenon
<1>7. ChecklistType
    BY <1>3, <1>4, <1>5, <1>6 DEF ChecklistType
<1>8. ChecklistSerial
    BY <1>4, <1>5, IdleIs DEF ChecklistSerial, InStep
<1> QED
    BY <1>1, <1>3, <1>4, <1>5, <1>7, <1>8, IdleIs DEF ChecklistInv, LastIsThere

LEMMA ChecklistBegin ==
    ASSUME ChecklistInv, NEW u \in Users, NEW r \in ChecklistRequest, Cl!Begin(u, r),
           ReadWhole(r, versions, executions), StillSo(r, template.due, executions),
           UNCHANGED <<template, items, versions, executions, setBack>>
    PROVE  ChecklistInv'
<1>1. /\ work' = [work EXCEPT ![u] = r] /\ work[u] = Cl!Idle
      /\ overlap' = (overlap \/ \E v \in Users : work[v] # Cl!Idle)
    BY DEF Cl!Begin
<1>2. \A v \in Users : work'[v] = IF v = u THEN r ELSE work[v]
    BY <1>1 DEF ChecklistInv, ChecklistType
<1>3. ChecklistType'
    BY <1>1 DEF ChecklistInv, ChecklistType
<1>4. \A v \in Users : ReadWhole(work'[v], versions, executions)
    BY <1>2 DEF ChecklistInv
<1>5. ChecklistSerial'
    BY <1>1, <1>2 DEF ChecklistInv, ChecklistSerial
<1> QED
    BY <1>3, <1>4, <1>5 DEF ChecklistInv

LEMMA ChecklistBegins ==
    ASSUME ChecklistInv, NEW u \in Users, Cl!UpdateBegin(u) \/ Cl!GenerateBegin(u) \/ Cl!ToggleBegin(u)
    PROVE  ChecklistInv'
<1>0. template.due \in Int /\ template.every \in Every
    BY DEF ChecklistInv, ChecklistType, TemplateRow
<1>1. CASE Cl!UpdateBegin(u)
    <2>1. PICK list \in ItemLists \cup {Kept}, d \in {Cl!NoDate, template.due} \cup 0..MaxDay,
               n \in Every, a \in BOOLEAN :
             Cl!Begin(u, [Cl!Idle EXCEPT !.op = "update", !.list = list, !.due = Cl!Change(template.due, d),
                                         !.every = Cl!Change(template.every, n),
                                         !.active = Cl!Change(template.active, a)])
        BY <1>1 DEF Cl!UpdateBegin
    <2> DEFINE due == Cl!Change(template.due, d)
               every == Cl!Change(template.every, n)
               inUse == Cl!Change(template.active, a)
               r == [Cl!Idle EXCEPT !.op = "update", !.list = list, !.due = due, !.every = every, !.active = inUse]
    <2>2. list \in OrKept(SUBSET Label)
        <3>1. list \in ItemLists \/ list = Kept
            OBVIOUS
        <3>2. ItemLists \subseteq SUBSET Label
            BY NumbersAssumption DEF NumbersAssumption
        <3> QED
            BY <3>1, <3>2, MaybeKept
    <2>3. due \in OrKept(Int)
        BY <1>0, MaybeKept DEF Cl!Change, Cl!NoDate
    <2>4. every \in OrKept(Every) /\ inUse \in OrKept(BOOLEAN)
        BY MaybeKept, Zenon DEF Cl!Change
    <2>5. Cl!Begin(u, r)
        BY <2>1
    <2> HIDE DEF due, every, inUse
    <2>6. r \in ChecklistRequest /\ r.op = "update"
        BY <2>2, <2>3, <2>4, IdleIs DEF ChecklistRequest
    <2>7. ReadWhole(r, versions, executions) /\ StillSo(r, template.due, executions)
        BY <2>6 DEF ReadWhole, StillSo
    <2> HIDE DEF r
    <2> QED
        BY <1>1, <2>5, <2>6, <2>7, ChecklistBegin DEF Cl!UpdateBegin
<1>2. CASE Cl!GenerateBegin(u)
    <2> DEFINE r == [Cl!Idle EXCEPT !.op = "generate", !.due = template.due, !.every = template.every]
    <2>1. r \in ChecklistRequest /\ r.op = "generate" /\ r.due = template.due /\ r.every = template.every
        <3>1. template.due \in OrKept(Int) /\ template.every \in OrKept(Every)
            BY <1>0, MaybeKept
        <3> QED
            BY <3>1, IdleIs DEF ChecklistRequest
    <2>2. template.due # Cl!NoDate
        BY <1>2 DEF Cl!GenerateBegin, Cl!Due
    <2>3. ReadWhole(r, versions, executions) /\ StillSo(r, template.due, executions)
        BY <1>0, <2>1, <2>2 DEF ReadWhole, StillSo
    <2> QED
        BY <1>2, <2>1, <2>3, ChecklistBegin DEF Cl!GenerateBegin
<1>3. CASE Cl!ToggleBegin(u)
    <2>1. PICK e \in DOMAIN executions : \E i \in executions[e].items, check \in BOOLEAN :
             Cl!Begin(u, [Cl!Idle EXCEPT !.op = "toggle", !.on = e, !.item = i, !.check = check,
                                         !.wasChecked = i \in executions[e].checked,
                                         !.wasDated = i \in executions[e].dated])
        BY <1>3 DEF Cl!ToggleBegin
    <2>2. PICK i \in executions[e].items, check \in BOOLEAN :
             Cl!Begin(u, [Cl!Idle EXCEPT !.op = "toggle", !.on = e, !.item = i, !.check = check,
                                         !.wasChecked = i \in executions[e].checked,
                                         !.wasDated = i \in executions[e].dated])
        BY <2>1
    <2> DEFINE was == i \in executions[e].checked
               dat == i \in executions[e].dated
               r == [Cl!Idle EXCEPT !.op = "toggle", !.on = e, !.item = i, !.check = check,
                                    !.wasChecked = was, !.wasDated = dat]
    <2>3. e \in Nat /\ executions[e] \in ExecutionRow
        BY DEF ChecklistInv, ChecklistType
    <2>4. i \in ItemRow
        BY <2>3 DEF ExecutionRow
    <2>5. was \in BOOLEAN /\ dat \in BOOLEAN
        OBVIOUS
    <2>6. Cl!Begin(u, r)
        BY <2>2
    <2>7. /\ r.op = "toggle" /\ r.on = e /\ r.item = i
          /\ r.wasChecked = was /\ r.wasDated = dat
        BY DEF Cl!Idle
    <2>8. r \in ChecklistRequest
        <3> HIDE DEF was, dat
        <3> QED
            BY <2>3, <2>4, <2>5, IdleIs DEF ChecklistRequest
    <2>9. ReadWhole(r, versions, executions) /\ StillSo(r, template.due, executions)
        <3> HIDE DEF r
        <3> QED
            BY <2>7 DEF ReadWhole, StillSo
    <2> HIDE DEF r
    <2> QED
        BY <1>3, <2>6, <2>8, <2>9, ChecklistBegin DEF Cl!ToggleBegin
<1> QED
    BY <1>1, <1>2, <1>3

\* Lists are only added: what is whole stays so.
LEMMA WholeStays ==
    ASSUME NEW vs \in Seq(SUBSET Label), NEW list \in SUBSET Label, NEW S, Whole(S, vs)
    PROVE  Whole(S, Append(vs, list))
<1>1. PICK n \in DOMAIN vs : Cl!RowsOf(n, vs[n]) \subseteq S
    BY DEF Whole
<1>2. n \in DOMAIN Append(vs, list) /\ Append(vs, list)[n] = vs[n]
    BY AppendTo
<1> QED
    BY <1>1, <1>2 DEF Whole

\* One request ends, or goes on as r; what the others have read is still so.
LEMMA WorkIs ==
    ASSUME ChecklistType, NEW u \in Users, NEW r, work' = [work EXCEPT ![u] = r]
    PROVE  /\ \A v \in Users : work'[v] = IF v = u THEN r ELSE work[v]
           /\ r \in ChecklistRequest => work' \in [Users -> ChecklistRequest]
    BY DEF ChecklistType

LEMMA ChecklistRows ==
    ASSUME ChecklistInv, NEW u \in Users, Cl!DeleteItems(u) \/ Cl!ReadItems(u)
    PROVE  ChecklistInv'
<1> DEFINE q == work[u]
           op == IF q.op = "update" THEN "insert" ELSE "create"
           r == [q EXCEPT !.op = op, !.rows = items]
<1>1. /\ q.op \in {"update", "generate"}
      /\ work' = [work EXCEPT ![u] = r]
      /\ q.op = "update" => q.list # Kept
      /\ UNCHANGED <<template, items, versions, executions, overlap, setBack>>
    BY DEF Cl!DeleteItems, Cl!ReadItems, Cl!At, ChecklistInv, ChecklistType
<1>2. q \in ChecklistRequest /\ items \subseteq ItemRow
    BY DEF ChecklistInv, ChecklistType
<1>3. /\ r \in ChecklistRequest /\ r.op \in {"insert", "create"}
      /\ r.rows = items /\ r.due = q.due /\ r.every = q.every
      /\ r.op = "create" => q.op = "generate"
      /\ r.op = "insert" => r.list \in SUBSET Label
    <2>1. r \in ChecklistRequest /\ r.op = op /\ r.rows = items /\ r.due = q.due /\ r.every = q.every /\ r.list = q.list
        BY <1>1, <1>2 DEF ChecklistRequest
    <2>2. q.list \in OrKept(SUBSET Label)
        BY <1>2 DEF ChecklistRequest
    <2>3. q.op = "update" => q.list \in SUBSET Label
        BY <1>1, <2>2, MaybeKept
    <2> QED
        BY <1>1, <2>1, <2>3
<1>4. q # Cl!Idle
    BY <1>1 DEF Cl!Idle
<1>5. ReadWhole(r, versions, executions)
    <2>1. Len(versions) \in DOMAIN versions
        BY DEF ChecklistInv, ChecklistType, LastIsThere
    <2> QED
        BY <1>3, <2>1 DEF ChecklistInv, LastIsThere, ReadWhole, Whole
<1> HIDE DEF r
<1>6. \A v \in Users : work'[v] = IF v = u THEN r ELSE work[v]
    BY <1>1, WorkIs DEF ChecklistInv
<1>7. ChecklistType'
    BY <1>1, <1>3, WorkIs DEF ChecklistInv, ChecklistType
<1>8. ChecklistSerial'
    BY <1>1, <1>3, <1>4, <1>6 DEF ChecklistInv, ChecklistSerial, StillSo
<1> QED
    BY <1>1, <1>5, <1>6, <1>7, <1>8 DEF ChecklistInv

\* The row of the template is written, with all executions since it was last set
\* back before its date.
LEMMA WriteIs ==
    ASSUME ChecklistType, NEW w \in ChecklistRequest, Cl!WriteRow(w)
    PROVE  /\ template' \in TemplateRow /\ setBack' \in Nat
           /\ InStep(executions, template.due, setBack) => InStep(executions, template'.due, setBack')
<1> DEFINE due == Cl!Written(template.due, w.due)
           every == Cl!Written(template.every, w.every)
           inUse == Cl!Written(template.active, w.active)
<1>1. /\ template \in TemplateRow /\ template.due \in Int /\ template.every \in Every /\ template.active \in BOOLEAN
      /\ w.due \in OrKept(Int) /\ w.every \in OrKept(Every) /\ w.active \in OrKept(BOOLEAN)
    BY DEF ChecklistType, TemplateRow, ChecklistRequest
<1>2. due \in Int /\ every \in Every
    BY <1>1, MaybeKept DEF Cl!Written
<1>3. inUse \in BOOLEAN
    BY <1>1, MaybeKept, Zenon DEF Cl!Written
<1>4. template' = [template EXCEPT !.due = due, !.every = every, !.active = inUse]
    BY DEF Cl!WriteRow
<1>5. due = IF w.due = Kept THEN template.due ELSE w.due
    BY DEF Cl!Written
<1> HIDE DEF due, every, inUse
<1>6. template' \in TemplateRow /\ template'.due = due
    BY <1>1, <1>2, <1>3, <1>4 DEF TemplateRow
<1>7. /\ executions \in Seq(ExecutionRow) /\ setBack \in Nat /\ Len(executions) \in Nat
      /\ DOMAIN executions = 1..Len(executions)
    BY DEF ChecklistType
<1>8. \A e \in DOMAIN executions : executions[e].due \in Int
    <2>1. \A e \in DOMAIN executions : executions[e] \in ExecutionRow
        BY <1>7
    <2> QED
        BY <2>1 DEF ExecutionRow
<1>9. setBack' = IF /\ w.due \notin {Kept, Cl!NoDate}
                    /\ \E e \in DOMAIN executions : e > setBack /\ executions[e].due >= w.due
                   THEN Len(executions) ELSE setBack
    BY DEF Cl!WriteRow
<1>10. setBack' \in Nat
    BY <1>7, <1>9
<1>11. ASSUME InStep(executions, template.due, setBack) PROVE InStep(executions, due, setBack')
    <2>1. CASE w.due = Kept
        BY <1>5, <1>9, <1>11, <2>1
    <2>2. CASE w.due # Kept /\ setBack' = setBack
        <3>1. w.due = due
            BY <1>5, <2>2
        <3>2. ASSUME due # Cl!NoDate, NEW e \in DOMAIN executions, setBack < e PROVE executions[e].due < due
            <4>1. ~(e > setBack /\ executions[e].due >= due) \/ setBack' = Len(executions)
                BY <1>9, <2>2, <3>1, <3>2
            <4>2. setBack' = Len(executions) => ~(setBack < e)
                BY <1>7, <2>2
            <4> QED
                BY <1>2, <1>7, <1>8, <3>2, <4>1, <4>2
        <3> QED
            BY <1>11, <2>2, <3>2 DEF InStep
    <2>3. CASE setBack' = Len(executions)
        BY <1>7, <1>11, <2>3 DEF InStep
    <2> QED
        BY <1>9, <2>1, <2>2, <2>3
<1> QED
    BY <1>6, <1>10, <1>11

LEMMA ChecklistUpdate ==
    ASSUME ChecklistInv, NEW u \in Users, Cl!UpdateCommit(u)
    PROVE  ChecklistInv'
<1> DEFINE q == work[u]
           n == Len(versions)
           vs == Append(versions, q.list)
<1>1. /\ q.op = "insert" /\ q # Cl!Idle
      /\ items' = (items \ q.rows) \cup Cl!RowsOf(n + 1, q.list)
      /\ versions' = vs
      /\ Cl!WriteRow(q)
      /\ work' = [work EXCEPT ![u] = Cl!Idle]
      /\ UNCHANGED <<executions, overlap>>
    BY DEF Cl!UpdateCommit, Cl!At, Cl!Finish, Cl!Idle
<1>2. /\ q \in ChecklistRequest /\ q.list \in SUBSET Label
      /\ versions \in Seq(SUBSET Label) /\ items \subseteq ItemRow
    BY <1>1 DEF ChecklistInv, ChecklistType, ReadWhole
<1>3. vs \in Seq(SUBSET Label) /\ Len(vs) = n + 1 /\ vs[n + 1] = q.list /\ n \in Nat
    BY <1>2, AppendTo
<1>4. Cl!RowsOf(n + 1, q.list) \subseteq ItemRow
    BY <1>2, <1>3, RowsAre
<1>5. \A v \in Users : work'[v] = IF v = u THEN Cl!Idle ELSE work[v]
    BY <1>1, WorkIs DEF ChecklistInv
<1>6. /\ template' \in TemplateRow /\ setBack' \in Nat
      /\ InStep(executions, template.due, setBack) => InStep(executions, template'.due, setBack')
    BY <1>1, <1>2, WriteIs DEF ChecklistInv
<1>7. ChecklistType'
    BY <1>1, <1>2, <1>3, <1>4, <1>6, WorkIs, IdleIs DEF ChecklistInv, ChecklistType
<1>8. LastIsThere(items, versions)'
    BY <1>1, <1>3 DEF LastIsThere
<1>9. \A S : Whole(S, versions) => Whole(S, vs)
    BY <1>2, WholeStays
<1> HIDE DEF vs
<1>10. \A e \in DOMAIN executions : Whole(executions[e].items, vs)
    BY <1>9 DEF ChecklistInv
<1>11. \A v \in Users : ReadWhole(work'[v], vs, executions)
    BY <1>5, <1>9, IdleIs DEF ChecklistInv, ReadWhole
<1>12. ChecklistSerial'
    <2> SUFFICES ASSUME ~overlap PROVE ChecklistSerial'
        BY <1>1 DEF ChecklistSerial
    <2>1. \A v \in Users : work'[v] = Cl!Idle
        BY <1>1, <1>5 DEF ChecklistInv, ChecklistSerial
    <2> QED
        BY <1>1, <1>6, <2>1, IdleIs DEF ChecklistInv, ChecklistSerial
<1> QED
    BY <1>1, <1>7, <1>8, <1>10, <1>11, <1>12 DEF ChecklistInv

LEMMA ChecklistRow ==
    ASSUME ChecklistInv, NEW u \in Users, Cl!UpdateRow(u)
    PROVE  ChecklistInv'
<1>1. /\ work[u].op = "update" /\ work[u] # Cl!Idle
      /\ Cl!WriteRow(work[u])
      /\ work' = [work EXCEPT ![u] = Cl!Idle]
      /\ UNCHANGED <<items, versions, executions, overlap>>
    BY DEF Cl!UpdateRow, Cl!At, Cl!Finish, Cl!Idle
<1>2. work[u] \in ChecklistRequest
    BY DEF ChecklistInv, ChecklistType
<1>3. \A v \in Users : work'[v] = IF v = u THEN Cl!Idle ELSE work[v]
    BY <1>1, WorkIs DEF ChecklistInv
<1>4. /\ template' \in TemplateRow /\ setBack' \in Nat
      /\ InStep(executions, template.due, setBack) => InStep(executions, template'.due, setBack')
    BY <1>1, <1>2, WriteIs DEF ChecklistInv
<1>5. ChecklistType'
    BY <1>1, <1>4, WorkIs, IdleIs DEF ChecklistInv, ChecklistType
<1>6. ChecklistSerial'
    <2> SUFFICES ASSUME ~overlap PROVE ChecklistSerial'
        BY <1>1 DEF ChecklistSerial
    <2>1. \A v \in Users : work'[v] = Cl!Idle
        BY <1>1, <1>3 DEF ChecklistInv, ChecklistSerial
    <2> QED
        BY <1>1, <1>4, <2>1, IdleIs DEF ChecklistInv, ChecklistSerial
<1> QED
    BY <1>1, <1>3, <1>5, <1>6, IdleIs DEF ChecklistInv

LEMMA OneMore ==
    ASSUME NEW k \in Nat
    PROVE  /\ \A i \in 1..(k + 1) : (i \in 1..k /\ i < k + 1) \/ i = k + 1
           /\ \A i, j \in 1..(k + 1) : i < j => i \in 1..k
    OBVIOUS

LEMMA ChecklistGenerate ==
    ASSUME ChecklistInv, NEW u \in Users, Cl!GenerateCommit(u)
    PROVE  ChecklistInv'
<1> DEFINE q == work[u]
           n == Len(executions)
           x == Cl!Execution(q.due, q.rows)
           ex == Append(executions, x)
           due == q.due + q.every
<1>1. /\ q.op = "create" /\ q # Cl!Idle
      /\ executions' = ex
      /\ template' = [template EXCEPT !.due = due]
      /\ work' = [work EXCEPT ![u] = Cl!Idle]
      /\ UNCHANGED <<items, versions, overlap, setBack>>
    BY DEF Cl!GenerateCommit, Cl!At, Cl!Finish, Cl!Idle
<1>2. /\ q.due \in Int /\ q.rows \in SUBSET ItemRow /\ q.every \in Nat \ {0} /\ due \in Int
      /\ executions \in Seq(ExecutionRow) /\ setBack \in Nat
    <2>1. q.due \in Int /\ q.every \in Nat \ {0}
        BY <1>1, NumbersAssumption DEF ChecklistInv, ReadWhole, NumbersAssumption
    <2>2. \A i \in Int, j \in Nat \ {0} : i + j \in Int
        OBVIOUS
    <2>3. due \in Int
        BY <2>1, <2>2
    <2> QED
        BY <2>1, <2>3 DEF ChecklistInv, ChecklistType, ChecklistRequest
<1>3. /\ x \in ExecutionRow /\ x.due = q.due /\ x.items = q.rows /\ x.checked = {} /\ x.dated = {}
    BY <1>2 DEF Cl!Execution, ExecutionRow
<1>4. /\ ex \in Seq(ExecutionRow) /\ n \in Nat
      /\ DOMAIN executions = 1..n /\ DOMAIN ex = 1..(n + 1)
      /\ \A e \in 1..n : ex[e] = executions[e]
      /\ ex[n + 1] = x
    BY <1>2, <1>3, AppendTo
<1>5. template' \in TemplateRow /\ template'.due = due
    BY <1>1, <1>2 DEF ChecklistInv, ChecklistType, TemplateRow
<1>6. \A v \in Users : work'[v] = IF v = u THEN Cl!Idle ELSE work[v]
    BY <1>1, WorkIs DEF ChecklistInv
<1> HIDE DEF x, ex, due
<1>7. ChecklistType'
    BY <1>1, <1>4, <1>5, WorkIs, IdleIs DEF ChecklistInv, ChecklistType
<1>8. \A e \in DOMAIN ex : Whole(ex[e].items, versions)
    <2>1. Whole(x.items, versions)
        BY <1>1, <1>3 DEF ChecklistInv, ReadWhole
    <2>2. \A e \in 1..n : Whole(ex[e].items, versions)
        BY <1>4 DEF ChecklistInv
    <2>3. \A e \in 1..(n + 1) : e \in 1..n \/ e = n + 1
        BY <1>4
    <2> HIDE DEF n
    <2> QED
        BY <1>4, <2>1, <2>2, <2>3
<1>9. \A v \in Users : ReadWhole(work'[v], versions, ex)
    <2>1. \A e \in DOMAIN executions : e \in DOMAIN ex /\ ex[e] = executions[e]
        BY <1>4
    <2> QED
        BY <1>6, <2>1, IdleIs DEF ChecklistInv, ReadWhole
<1>10. ChecklistSerial'
    <2> SUFFICES ASSUME ~overlap PROVE ChecklistSerial'
        BY <1>1 DEF ChecklistSerial
    <2>1. \A v \in Users : work'[v] = Cl!Idle
        BY <1>1, <1>6 DEF ChecklistInv, ChecklistSerial
    <2>2. q.due = template.due /\ template.due # Cl!NoDate /\ InStep(executions, template.due, setBack)
        BY <1>1 DEF ChecklistInv, ChecklistSerial, StillSo
    <2>3. InStep(ex, due, setBack)
        <3>1. \A e \in 1..n : executions[e].due \in Int
            <4>1. \A e \in DOMAIN executions : executions[e] \in ExecutionRow
                BY <1>2
            <4> HIDE DEF n
            <4> QED
                BY <1>4, <4>1 DEF ExecutionRow
        <3>2. q.due < due
            <4>1. \A a \in Int, b \in Nat \ {0} : a < a + b
                OBVIOUS
            <4> QED
                BY <1>2, <4>1 DEF due
        <3>3. \A e \in 1..n : /\ ex[e].checked = ex[e].dated /\ ex[e].due \in Int
                              /\ setBack < e => ex[e].due < q.due
            BY <1>4, <2>2, <3>1 DEF InStep
        <3>4. ex[n + 1].checked = ex[n + 1].dated /\ ex[n + 1].due = q.due
            BY <1>3, <1>4
        <3>5. \A d, e \in 1..n : setBack < d /\ d < e => ex[d].due < ex[e].due
            BY <1>4, <2>2 DEF InStep
        <3>6. /\ \A e \in DOMAIN ex : e \in 1..n \/ e = n + 1
              /\ \A d, e \in DOMAIN ex : d < e => d \in 1..n
            <4> HIDE DEF n
            <4> QED
                BY <1>4, OneMore
        <3> HIDE DEF n
        <3>7. \A e \in DOMAIN ex : ex[e].checked = ex[e].dated /\ (setBack < e => ex[e].due < due)
            <4>1. ASSUME NEW e \in 1..n, setBack < e PROVE ex[e].due < due
                BY <1>2, <3>2, <3>3, <4>1
            <4> QED
                BY <3>2, <3>3, <3>4, <3>6, <4>1
        <3>8. ASSUME NEW d \in DOMAIN ex, NEW e \in DOMAIN ex, setBack < d, d < e PROVE ex[d].due < ex[e].due
            <4>1. d \in 1..n /\ (e \in 1..n \/ e = n + 1)
                BY <3>6, <3>8
            <4> QED
                BY <3>3, <3>4, <3>5, <3>8, <4>1
        <3> QED
            BY <3>7, <3>8 DEF InStep
    <2> QED
        BY <1>1, <1>5, <2>1, <2>3, IdleIs DEF ChecklistSerial
<1> QED
    BY <1>1, <1>7, <1>8, <1>9, <1>10 DEF ChecklistInv

\* An item that was checked with its date, ticked or unticked by one that
\* knows so, is again.
LEMMA ToggledIs ==
    ASSUME NEW w \in ChecklistRequest, NEW e \in ExecutionRow, w.item \in e.items
    PROVE  LET t == Cl!Toggled(w, e) IN
           /\ t \in ExecutionRow /\ t.items = e.items /\ t.due = e.due
           /\ (/\ e.checked = e.dated
               /\ w.wasChecked = (w.item \in e.checked) /\ w.wasDated = (w.item \in e.dated))
              => t.checked = t.dated
<1> DEFINE c == IF w.check = w.wasChecked THEN e.checked ELSE Cl!Put(e.checked, w.item, w.check)
           d == IF w.check \/ w.wasDated THEN Cl!Put(e.dated, w.item, w.check) ELSE e.dated
           t == [e EXCEPT !.checked = c, !.dated = d]
<1>1. t = Cl!Toggled(w, e)
    BY DEF Cl!Toggled, ExecutionRow
<1>2. w.item \in ItemRow /\ e.checked \in SUBSET ItemRow /\ e.dated \in SUBSET ItemRow
    BY DEF ExecutionRow
<1>3. c \in SUBSET ItemRow /\ d \in SUBSET ItemRow
    BY <1>2 DEF Cl!Put
<1>4. /\ w.check \in BOOLEAN /\ w.wasChecked \in BOOLEAN /\ w.wasDated \in BOOLEAN
    BY DEF ChecklistRequest
<1>5. ASSUME e.checked = e.dated, w.wasChecked = (w.item \in e.checked), w.wasDated = (w.item \in e.dated)
      PROVE  c = d
    <2>1. CASE w.check
        BY <1>4, <1>5, <2>1 DEF Cl!Put
    <2>2. CASE ~w.check
        BY <1>4, <1>5, <2>2 DEF Cl!Put
    <2> QED
        BY <2>1, <2>2
<1> HIDE DEF c, d
<1>6. t \in ExecutionRow /\ t.items = e.items /\ t.due = e.due /\ t.checked = c /\ t.dated = d
    BY <1>3 DEF ExecutionRow
<1> HIDE DEF t
<1> QED
    BY <1>1, <1>5, <1>6

LEMMA ChecklistToggle ==
    ASSUME ChecklistInv, NEW u \in Users, Cl!ToggleCommit(u)
    PROVE  ChecklistInv'
<1> DEFINE q == work[u]
           o == q.on
           t == Cl!Toggled(q, executions[o])
           ex == [executions EXCEPT ![o] = t]
<1>1. /\ q.op = "toggle" /\ q # Cl!Idle
      /\ executions' = ex
      /\ work' = [work EXCEPT ![u] = Cl!Idle]
      /\ UNCHANGED <<template, items, versions, overlap, setBack>>
    BY DEF Cl!ToggleCommit, Cl!At, Cl!Finish, Cl!Idle
<1>2. q \in ChecklistRequest /\ executions \in Seq(ExecutionRow)
    BY DEF ChecklistInv, ChecklistType
<1>3. o \in DOMAIN executions /\ q.item \in executions[o].items
    BY <1>1 DEF ChecklistInv, ReadWhole
<1>4. \A e \in DOMAIN executions : executions[e] \in ExecutionRow
    BY <1>2
<1>5. /\ t \in ExecutionRow /\ t.items = executions[o].items /\ t.due = executions[o].due
      /\ (/\ executions[o].checked = executions[o].dated
          /\ q.wasChecked = (q.item \in executions[o].checked)
          /\ q.wasDated = (q.item \in executions[o].dated)) => t.checked = t.dated
    BY <1>2, <1>3, <1>4, ToggledIs
<1> HIDE DEF t
<1>6. /\ ex \in Seq(ExecutionRow) /\ DOMAIN ex = DOMAIN executions
      /\ \A e \in DOMAIN executions : ex[e] = IF e = o THEN t ELSE executions[e]
    <2> HIDE DEF o
    <2> QED
        BY <1>2, <1>3, <1>5, ReplaceIn
<1> HIDE DEF ex
<1>7. \A e \in DOMAIN executions : ex[e].items = executions[e].items /\ ex[e].due = executions[e].due
    BY <1>5, <1>6
<1>8. \A v \in Users : work'[v] = IF v = u THEN Cl!Idle ELSE work[v]
    BY <1>1, WorkIs DEF ChecklistInv
<1>9. ChecklistType'
    BY <1>1, <1>6, WorkIs, IdleIs DEF ChecklistInv, ChecklistType
<1>10. \A e \in DOMAIN ex : Whole(ex[e].items, versions)
    BY <1>6, <1>7 DEF ChecklistInv
<1>11. \A v \in Users : ReadWhole(work'[v], versions, ex)
    BY <1>6, <1>7, <1>8, IdleIs DEF ChecklistInv, ReadWhole
<1>12. ChecklistSerial'
    <2> SUFFICES ASSUME ~overlap PROVE ChecklistSerial'
        BY <1>1 DEF ChecklistSerial
    <2>1. \A v \in Users : work'[v] = Cl!Idle
        BY <1>1, <1>8 DEF ChecklistInv, ChecklistSerial
    <2>2. StillSo(q, template.due, executions) /\ InStep(executions, template.due, setBack)
        BY DEF ChecklistInv, ChecklistSerial
    <2>3. t.checked = t.dated
        BY <1>1, <1>3, <1>5, <2>2 DEF StillSo, InStep
    <2>4. InStep(ex, template.due, setBack)
        BY <1>6, <1>7, <2>2, <2>3 DEF InStep
    <2> QED
        BY <1>1, <2>1, <2>4, IdleIs DEF ChecklistSerial
<1> QED
    BY <1>1, <1>9, <1>10, <1>11, <1>12 DEF ChecklistInv

LEMMA ChecklistComplete ==
    ASSUME ChecklistInv, Cl!Complete
    PROVE  ChecklistInv'
<1>1. PICK o \in DOMAIN executions : executions' = [executions EXCEPT ![o].status = "concluido"]
    BY DEF Cl!Complete
<1> DEFINE t == [executions[o] EXCEPT !.status = "concluido"]
           ex == [executions EXCEPT ![o] = t]
<1>2. executions' = ex /\ UNCHANGED <<template, items, versions, work, overlap, setBack>>
    BY <1>1 DEF Cl!Complete
<1>3. executions \in Seq(ExecutionRow) /\ executions[o] \in ExecutionRow
    BY DEF ChecklistInv, ChecklistType
<1>4. /\ t \in ExecutionRow /\ t.items = executions[o].items /\ t.due = executions[o].due
      /\ t.checked = executions[o].checked /\ t.dated = executions[o].dated
    BY <1>3 DEF ExecutionRow
<1> HIDE DEF t
<1>5. /\ ex \in Seq(ExecutionRow) /\ DOMAIN ex = DOMAIN executions
      /\ \A e \in DOMAIN executions : ex[e] = IF e = o THEN t ELSE executions[e]
    BY <1>3, <1>4, ReplaceIn
<1> HIDE DEF ex
<1>6. \A e \in DOMAIN executions :
        /\ ex[e].items = executions[e].items /\ ex[e].due = executions[e].due
        /\ ex[e].checked = executions[e].checked /\ ex[e].dated = executions[e].dated
    BY <1>4, <1>5
<1>7. ChecklistType'
    BY <1>2, <1>5 DEF ChecklistInv, ChecklistType
<1>8. \A e \in DOMAIN ex : Whole(ex[e].items, versions)
    BY <1>5, <1>6 DEF ChecklistInv
<1>9. \A v \in Users : ReadWhole(work[v], versions, ex)
    BY <1>5, <1>6 DEF ChecklistInv, ReadWhole
<1>10. ChecklistSerial'
    <2>1. InStep(executions, template.due, setBack) => InStep(ex, template.due, setBack)
        BY <1>5, <1>6 DEF InStep
    <2>2. ASSUME NEW v \in Users, StillSo(work[v], template.due, executions)
          PROVE  StillSo(work[v], template.due, ex)
        BY <1>6, <2>2 DEF StillSo, ChecklistInv, ReadWhole
    <2> QED
        BY <1>2, <2>1, <2>2 DEF ChecklistInv, ChecklistSerial
<1> QED
    BY <1>2, <1>7, <1>8, <1>9, <1>10 DEF ChecklistInv

LEMMA ChecklistAbort ==
    ASSUME ChecklistInv, NEW u \in Users, Cl!Abort(u)
    PROVE  ChecklistInv'
<1>1. work' = [work EXCEPT ![u] = Cl!Idle] /\ UNCHANGED <<template, items, versions, executions, overlap, setBack>>
    BY DEF Cl!Abort, Cl!Finish
<1>2. \A v \in Users : work'[v] = IF v = u THEN Cl!Idle ELSE work[v]
    BY <1>1, WorkIs DEF ChecklistInv
<1>3. ChecklistType'
    BY <1>1, WorkIs, IdleIs DEF ChecklistInv, ChecklistType
<1>4. ChecklistSerial'
    BY <1>1, <1>2, IdleIs DEF ChecklistInv, ChecklistSerial
<1> QED
    BY <1>1, <1>2, <1>3, <1>4, IdleIs DEF ChecklistInv

LEMMA ChecklistOther ==
    ASSUME ChecklistInv, Cl!DeleteTemplate \/ Cl!NextDay \/ UNCHANGED checklists
    PROVE  ChecklistInv'
<1>1. /\ UNCHANGED <<items, versions, executions, work, overlap, setBack>>
      /\ template' = template \/ template' = [template EXCEPT !.deleted = TRUE]
    BY DEF Cl!DeleteTemplate, Cl!NextDay, checklists
<1>2. template' \in TemplateRow /\ template'.due = template.due
    BY <1>1 DEF ChecklistInv, ChecklistType, TemplateRow
<1> QED
    BY <1>1, <1>2 DEF ChecklistInv, ChecklistType, ChecklistSerial

LEMMA ChecklistStep ==
    ASSUME ChecklistInv, Cl!Next \/ UNCHANGED checklists
    PROVE  ChecklistInv'
<1>1. ASSUME NEW u \in Users,
             \/ Cl!UpdateBegin(u) \/ Cl!UpdateRow(u) \/ Cl!DeleteItems(u) \/ Cl!UpdateCommit(u)
             \/ Cl!GenerateBegin(u) \/ Cl!ReadItems(u) \/ Cl!GenerateCommit(u)
             \/ Cl!ToggleBegin(u) \/ Cl!ToggleCommit(u) \/ Cl!Abort(u)
      PROVE  ChecklistInv'
    BY <1>1, ChecklistBegins, ChecklistRows, ChecklistUpdate, ChecklistRow, ChecklistGenerate, ChecklistToggle, ChecklistAbort
<1> QED
    BY <1>1, ChecklistComplete, ChecklistOther DEF Cl!Next

LEMMA ChecklistsSound == ChecklistInv => Cl!ExecutionsAreSound
<1> SUFFICES ASSUME ChecklistInv PROVE Cl!ExecutionsAreSound
    OBVIOUS
<1>1. Cl!WholeList
    BY DEF ChecklistInv, Whole, Cl!WholeList
<1>2. Cl!CheckedHasDate
    BY DEF ChecklistInv, ChecklistSerial, InStep, Cl!CheckedHasDate
<1>3. Cl!OneExecutionPerDate
    BY DEF ChecklistInv, ChecklistSerial, InStep, Cl!OneExecutionPerDate
<1> QED
    BY <1>1, <1>2, <1>3 DEF Cl!ExecutionsAreSound

(***************************************************************************)
(* Stock. The quantity on record is the stocktake of the movements on      *)
(* record but for those whose quantity another one overwrote; what a       *)
(* request has loaded is the stocktake of some movements.                  *)
(***************************************************************************)

Floor == IF opening < 0 THEN opening ELSE 0

StockRequest == {Stk!NoMovement} \cup [type : {"entrada", "saida", "ajuste"}, quantity : Quantity, loaded : Int]

StockType ==
    /\ quantity \in Int /\ opening \in Int /\ itemDeleted \in BOOLEAN /\ raced \in BOOLEAN
    /\ movements \in Seq(Stk!Movement)
    /\ moving \in [Users -> StockRequest]

\* The quantity that a request has loaded was committed once.
LoadedOnce(mv, list, first) ==
    mv # Stk!NoMovement =>
        /\ mv.loaded >= (IF first < 0 THEN first ELSE 0)
        /\ Stk!Covered(mv, mv.loaded)
        /\ \E I \in SUBSET DOMAIN list : mv.loaded = Stk!Stocktake(list, first, I)

StockSerial ==
    ~raced =>
        /\ \A u, v \in Users : moving[u] # Stk!NoMovement /\ moving[v] # Stk!NoMovement => u = v
        /\ \A u \in Users : moving[u] # Stk!NoMovement => moving[u].loaded = quantity

StockInv ==
    /\ StockType
    /\ \A u \in Users : LoadedOnce(moving[u], movements, opening)
    /\ StockSerial
    /\ StockIsAccounted

LEMMA NoMovementIs == Stk!NoMovement.type = "none" /\ \A mv \in StockRequest : mv.type = "none" => mv = Stk!NoMovement
    BY DEF Stk!NoMovement, StockRequest

LEMMA QuantitiesCount == \A q \in Quantity : q \in Int /\ q > 0
    BY NumbersAssumption DEF NumbersAssumption

\* What each movement adds to the stocktake.
Adds(list, I) ==
    [i \in 1..Len(list) |-> IF i \in I /\ Stk!Counts(list, I, i) THEN Stk!Signed(list[i]) ELSE 0]

Starts(list, first, I) == IF Stk!Counts(list, I, 0) THEN first ELSE 0

LEMMA SignedIs == ASSUME NEW mv \in Stk!Movement PROVE Stk!Signed(mv) \in Int
    BY QuantitiesCount DEF Stk!Movement, Stk!Signed

LEMMA AddsIs ==
    ASSUME NEW list \in Seq(Stk!Movement), NEW first \in Int, NEW I
    PROVE  Adds(list, I) \in [1..Len(list) -> Int] /\ Starts(list, first, I) \in Int /\ Len(list) \in Nat
<1>1. \A i \in 1..Len(list) : list[i] \in Stk!Movement
    OBVIOUS
<1> QED
    BY <1>1, SignedIs DEF Adds, Starts

\* f counts the first n movements.
Counted(list, first, I, n, f) ==
    /\ Stk!Stocktake(list, first, I) = f[n]
    /\ f[0] = Starts(list, first, I)
    /\ \A i \in 1..n : f[i] = f[i - 1] + Adds(list, I)[i]
    /\ \A i \in 0..n : f[i] \in Int

LEMMA StocktakeIs ==
    ASSUME NEW list \in Seq(Stk!Movement), NEW first \in Int, NEW I
    PROVE  \E f : Counted(list, first, I, Len(list), f)
<1> DEFINE Is(g) == g = [n \in 0..Len(list) |->
                            IF n = 0 THEN (IF Stk!Counts(list, I, 0) THEN first ELSE 0)
                            ELSE g[n - 1] + (IF n \in I /\ Stk!Counts(list, I, n) THEN Stk!Signed(list[n]) ELSE 0)]
           total == CHOOSE g : Is(g)
<1>1. Stk!Stocktake(list, first, I) = total[Len(list)]
    BY DEF Stk!Stocktake
<1>2. ASSUME NEW g, Running(Len(list), Starts(list, first, I), Adds(list, I), g) PROVE Is(g)
    <2>1. \A i \in 0..Len(list) : i # 0 =>
            Adds(list, I)[i] = IF i \in I /\ Stk!Counts(list, I, i) THEN Stk!Signed(list[i]) ELSE 0
        BY DEF Adds
    <2> QED
        BY <1>2, <2>1 DEF Running, Starts
<1>3. ASSUME NEW g, Is(g) PROVE Running(Len(list), Starts(list, first, I), Adds(list, I), g)
    <2>1. \A i \in 0..Len(list) : i # 0 =>
            Adds(list, I)[i] = IF i \in I /\ Stk!Counts(list, I, i) THEN Stk!Signed(list[i]) ELSE 0
        BY DEF Adds
    <2> QED
        BY <1>3, <2>1 DEF Running, Starts
<1>4. \E g : Running(Len(list), Starts(list, first, I), Adds(list, I), g)
    BY AddsIs, RunningIsThere
<1> HIDE DEF Is
<1>5. Is(total)
    BY <1>2, <1>4
<1>6. Running(Len(list), Starts(list, first, I), Adds(list, I), total)
    BY <1>3, <1>5
<1> HIDE DEF total
<1>7. /\ total[0] = Starts(list, first, I)
      /\ \A i \in 1..Len(list) : total[i] = total[i - 1] + Adds(list, I)[i]
      /\ \A i \in 0..Len(list) : total[i] \in Int
    BY <1>6, AddsIs, RunningSteps
<1>8. Counted(list, first, I, Len(list), total)
    BY <1>1, <1>7 DEF Counted
<1> QED
    BY <1>8

\* A stocktake of nothing is the opening quantity.
LEMMA StocktakeOfNone ==
    ASSUME NEW first \in Int
    PROVE  Stk!Stocktake(<<>>, first, {}) = first
<1>1. <<>> \in Seq(Stk!Movement) /\ Len(<<>>) = 0
    OBVIOUS
<1>2. Starts(<<>>, first, {}) = first
    BY DEF Starts, Stk!Counts
<1>3. PICK f : Counted(<<>>, first, {}, 0, f)
    BY <1>1, StocktakeIs
<1> QED
    BY <1>2, <1>3 DEF Counted

Sums(n, c, f) == \A i \in 1..n : f[i] = f[i - 1] + c[i]

SameSteps(n, c, d) == \A i \in 1..n : c[i] = d[i]

\* Two totals whose steps are the same.
LEMMA SameTotals ==
    ASSUME NEW n \in Nat, NEW f, NEW g, NEW c, NEW d, f[0] = g[0], Sums(n, c, f), Sums(n, d, g), SameSteps(n, c, d)
    PROVE  f[n] = g[n]
<1> DEFINE S == {k \in 0..n : f[k] = g[k]}
<1>1. 0 \in S
    OBVIOUS
<1>2. ASSUME NEW k \in 0..(n - 1), k \in S PROVE k + 1 \in S
    <2>1. k + 1 \in 1..n /\ k + 1 \in 0..n /\ (k + 1) - 1 = k
        OBVIOUS
    <2>2. f[k + 1] = f[k] + c[k + 1] /\ g[k + 1] = g[k] + d[k + 1] /\ c[k + 1] = d[k + 1]
        BY <2>1 DEF Sums, SameSteps
    <2> QED
        BY <1>2, <2>1, <2>2
<1>3. \A k \in 0..n : k \in S
    <2> HIDE DEF S
    <2> QED
        BY <1>1, <1>2, CountingUp
<1> QED
    BY <1>3

\* A total that starts with nothing and to which nothing is added.
LEMMA NoTotal ==
    ASSUME NEW n \in Nat, NEW f, NEW c, f[0] = 0, Sums(n, c, f), \A i \in 1..n : c[i] = 0
    PROVE  f[n] = 0
<1> DEFINE S == {k \in 0..n : f[k] = 0}
<1>1. 0 \in S
    OBVIOUS
<1>2. ASSUME NEW k \in 0..(n - 1), k \in S PROVE k + 1 \in S
    <2>1. k + 1 \in 1..n /\ k + 1 \in 0..n /\ (k + 1) - 1 = k
        OBVIOUS
    <2>2. f[k + 1] = f[k] + c[k + 1] /\ c[k + 1] = 0
        BY <2>1 DEF Sums
    <2> QED
        BY <1>2, <2>1, <2>2
<1>3. \A k \in 0..n : k \in S
    <2> HIDE DEF S
    <2> QED
        BY <1>1, <1>2, CountingUp
<1> QED
    BY <1>3

\* A movement that does not count leaves the stocktake, and one that counts makes
\* of it what it makes of the quantity.
TakenOn(list, mv, first, I) ==
    /\ Stk!Stocktake(Append(list, mv), first, I) = Stk!Stocktake(list, first, I)
    /\ Stk!Stocktake(Append(list, mv), first, I \cup {Len(list) + 1}) = Stk!NewQuantity(mv, Stk!Stocktake(list, first, I))
    /\ Stk!Stocktake(list, first, I) \in Int

LEMMA StocktakeOn ==
    ASSUME NEW list \in Seq(Stk!Movement), NEW mv \in Stk!Movement, NEW first \in Int,
           NEW I, I \subseteq 1..Len(list)
    PROVE  TakenOn(list, mv, first, I)
<1> PICK more : more = Append(list, mv)
    OBVIOUS
<1>0. PICK n : n = Len(list)
    OBVIOUS
<1>1. /\ more \in Seq(Stk!Movement) /\ Len(more) = n + 1 /\ n \in Nat
      /\ \A i \in 1..n : more[i] = list[i]
      /\ more[n + 1] = mv
    BY <1>0, AppendTo
<1>a. PICK f : Counted(list, first, I, n, f)
    BY <1>0, StocktakeIs
<1>2. /\ Stk!Stocktake(list, first, I) = f[n]
      /\ f[0] = Starts(list, first, I)
      /\ \A i \in 1..n : f[i] = f[i - 1] + Adds(list, I)[i]
      /\ \A i \in 0..n : f[i] \in Int
    BY <1>a DEF Counted
<1> DEFINE J == I \cup {n + 1}
<1>b. PICK g : Counted(more, first, I, n + 1, g)
    BY <1>1, StocktakeIs
<1>3. /\ Stk!Stocktake(more, first, I) = g[n + 1]
      /\ g[0] = Starts(more, first, I)
      /\ \A i \in 1..(n + 1) : g[i] = g[i - 1] + Adds(more, I)[i]
      /\ \A i \in 0..(n + 1) : g[i] \in Int
    BY <1>b DEF Counted
<1>c. PICK h : Counted(more, first, J, n + 1, h)
    <2> HIDE DEF J
    <2> QED
        BY <1>1, StocktakeIs
<1>4. /\ Stk!Stocktake(more, first, J) = h[n + 1]
      /\ h[0] = Starts(more, first, J)
      /\ \A i \in 1..(n + 1) : h[i] = h[i - 1] + Adds(more, J)[i]
      /\ \A i \in 0..(n + 1) : h[i] \in Int
    BY <1>c DEF Counted
<1>5. f[n] \in Int /\ n + 1 \in 1..(n + 1) /\ (n + 1) - 1 = n /\ n \in 0..n /\ (\A i \in 1..n : i \in 1..(n + 1) /\ i # n + 1)
    BY <1>1, <1>2
<1>d. Sums(n, Adds(list, I), f)
    BY <1>2 DEF Sums
<1>6. \A i : Stk!Counts(more, I, i) <=> Stk!Counts(list, I, i)
    BY <1>1 DEF Stk!Counts
<1>7. Stk!Stocktake(more, first, I) = Stk!Stocktake(list, first, I)
    <2>1. g[0] = f[0]
        BY <1>2, <1>3, <1>6 DEF Starts
    <2>2. SameSteps(n, Adds(more, I), Adds(list, I))
        BY <1>1, <1>5, <1>6 DEF Adds, SameSteps
    <2>3. Sums(n, Adds(more, I), g)
        BY <1>3, <1>5 DEF Sums
    <2>4. g[n] = f[n]
        BY <1>1, <1>d, <2>1, <2>2, <2>3, SameTotals
    <2>5. Adds(more, I)[n + 1] = 0
        BY <1>1, <1>5 DEF Adds
    <2>6. g[n + 1] = g[n] + Adds(more, I)[n + 1]
        BY <1>3, <1>5
    <2> QED
        BY <1>2, <1>3, <1>5, <2>4, <2>5, <2>6
<1>8. Stk!Counts(more, J, n + 1)
    BY <1>1, <1>5 DEF Stk!Counts
<1>9. Adds(more, J)[n + 1] = Stk!Signed(mv)
    BY <1>1, <1>5, <1>8 DEF Adds
<1>10. h[n + 1] = h[n] + Stk!Signed(mv)
    BY <1>4, <1>5, <1>9
<1>11. Sums(n, Adds(more, J), h)
    BY <1>4, <1>5 DEF Sums
<1>12. h[n + 1] = Stk!NewQuantity(mv, f[n])
    <2>0. mv.quantity \in Int
        BY QuantitiesCount DEF Stk!Movement
    <2>1. CASE mv.type = "ajuste"
        <3>1. \A i \in 0..n : ~Stk!Counts(more, J, i)
            BY <1>1, <1>5, <2>1 DEF Stk!Counts
        <3>2. h[0] = 0
            <4>1. ~Stk!Counts(more, J, 0)
                <5>1. 0 \in 0..n
                    BY <1>1
                <5> HIDE DEF J
                <5> QED
                    BY <3>1, <5>1
            <4> HIDE DEF J
            <4> QED
                BY <1>4, <4>1 DEF Starts
        <3>3. \A i \in 1..n : Adds(more, J)[i] = 0
            <4>1. ASSUME NEW i \in 1..n PROVE i \in 0..n /\ i \in 1..Len(more) /\ ~Stk!Counts(more, J, i)
                <5>1. i \in 0..n /\ i \in 1..Len(more)
                    BY <1>1, <1>5
                <5> HIDE DEF J
                <5> QED
                    BY <3>1, <5>1
            <4> HIDE DEF J
            <4> QED
                BY <4>1 DEF Adds
        <3>4. h[n] = 0
            BY <1>1, <1>11, <3>2, <3>3, NoTotal
        <3> QED
            BY <1>10, <2>0, <2>1, <3>4 DEF Stk!NewQuantity, Stk!Signed
    <2>2. CASE mv.type # "ajuste"
        <3>1. \A i \in 0..n : Stk!Counts(more, J, i) <=> Stk!Counts(list, I, i)
            BY <1>1, <1>5, <2>2 DEF Stk!Counts
        <3>2. h[0] = f[0]
            <4>1. Stk!Counts(more, J, 0) <=> Stk!Counts(list, I, 0)
                <5>1. 0 \in 0..n
                    BY <1>1
                <5> HIDE DEF J
                <5> QED
                    BY <3>1, <5>1
            <4> HIDE DEF J
            <4> QED
                BY <1>2, <1>4, <4>1 DEF Starts
        <3>3. SameSteps(n, Adds(more, J), Adds(list, I))
            <4>1. ASSUME NEW i \in 1..n PROVE i \in 0..n /\ (i \in J <=> i \in I)
                BY <1>1, <1>5
            <4>2. ASSUME NEW i \in 1..n PROVE i \in 1..Len(list) /\ i \in 1..Len(more) /\ more[i] = list[i]
                BY <1>0, <1>1, <1>5
            <4>3. ASSUME NEW i \in 1..n PROVE Adds(more, J)[i] = Adds(list, I)[i]
                <5>1. Stk!Counts(more, J, i) <=> Stk!Counts(list, I, i)
                    BY <3>1, <4>1
                <5> HIDE DEF J
                <5> QED
                    BY <4>1, <4>2, <5>1 DEF Adds
            <4> QED
                BY <4>3 DEF SameSteps
        <3>4. h[n] = f[n]
            BY <1>1, <1>d, <1>11, <3>2, <3>3, SameTotals
        <3>5. mv.type = "entrada" \/ mv.type = "saida"
            BY <2>2 DEF Stk!Movement
        <3> QED
            BY <1>5, <1>10, <2>0, <3>4, <3>5 DEF Stk!NewQuantity, Stk!Signed
    <2> QED
        BY <2>1, <2>2
<1>13. /\ Stk!Stocktake(more, first, J) = Stk!NewQuantity(mv, Stk!Stocktake(list, first, I))
       /\ Stk!Stocktake(list, first, I) \in Int
    BY <1>2, <1>4, <1>5, <1>12
<1>14. J = I \cup {Len(list) + 1}
    BY <1>0
<1> HIDE DEF J
<1> QED
    BY <1>7, <1>13, <1>14 DEF TakenOn

LEMMA StockInit == Stk!Init => StockInv
<1> SUFFICES ASSUME Stk!Init PROVE StockInv
    OBVIOUS
<1>1. /\ opening \in Opening /\ quantity = opening /\ itemDeleted = FALSE /\ movements = <<>> /\ raced = FALSE
      /\ moving = [u \in Users |-> Stk!NoMovement]
    BY DEF Stk!Init
<1>2. opening \in Int
    BY <1>1, NumbersAssumption DEF NumbersAssumption
<1>3. StockType
    <2>1. moving \in [Users -> StockRequest]
        BY <1>1 DEF StockRequest
    <2>2. movements \in Seq(Stk!Movement) /\ quantity \in Int /\ itemDeleted \in BOOLEAN /\ raced \in BOOLEAN
        <3>1. <<>> \in Seq(Stk!Movement)
            OBVIOUS
        <3> QED
            BY <1>1, <1>2, <3>1
    <2> QED
        BY <1>2, <2>1, <2>2 DEF StockType
<1>4. \A u \in Users : moving[u] = Stk!NoMovement
    BY <1>1
<1>5. \A u \in Users : LoadedOnce(moving[u], movements, opening)
    BY <1>4 DEF LoadedOnce
<1>6. StockSerial
    BY <1>4 DEF StockSerial
<1>7. quantity = Stk!Stocktake(movements, opening, {}) /\ DOMAIN movements = {}
    BY <1>1, <1>2, StocktakeOfNone
<1>8. StockIsAccounted
    BY <1>1, <1>2, <1>7 DEF StockIsAccounted, Stk!StockIsAccounted, Stk!NotOverdrawn, Stk!QuantityIsStocktake, Stk!LostAsAWhole
<1> QED
    BY <1>3, <1>5, <1>6, <1>8 DEF StockInv

LEMMA StockBegin ==
    ASSUME StockInv, NEW u \in Users, Stk!BeginMovement(u)
    PROVE  StockInv'
<1>1. /\ moving[u] = Stk!NoMovement
      /\ raced' = (raced \/ \E v \in Users : moving[v] # Stk!NoMovement)
      /\ UNCHANGED <<quantity, itemDeleted, movements, opening>>
    BY DEF Stk!BeginMovement
<1>2. PICK mv \in Stk!Movement :
        /\ Stk!Covered(mv, quantity)
        /\ moving' = [moving EXCEPT ![u] = [type |-> mv.type, quantity |-> mv.quantity, loaded |-> quantity]]
    BY DEF Stk!BeginMovement
<1> DEFINE mine == [type |-> mv.type, quantity |-> mv.quantity, loaded |-> quantity]
<1>3. /\ StockType /\ StockSerial /\ StockIsAccounted
      /\ \A v \in Users : LoadedOnce(moving[v], movements, opening)
    BY DEF StockInv
<1>4. mine \in StockRequest
    BY <1>3 DEF StockType, StockRequest, Stk!Movement
<1>5. mine.loaded = quantity /\ mine.type = mv.type /\ mine.quantity = mv.quantity
    OBVIOUS
<1> HIDE DEF mine
<1>6. \A v \in Users : moving'[v] = IF v = u THEN mine ELSE moving[v]
    BY <1>2, <1>3 DEF StockType, mine
<1>7. StockType'
    <2>1. moving' \in [Users -> StockRequest]
        BY <1>2, <1>3, <1>4 DEF StockType, mine
    <2>2. raced' \in BOOLEAN
        BY <1>1, <1>3 DEF StockType
    <2> QED
        BY <1>1, <1>3, <2>1, <2>2 DEF StockType
<1>8. StockIsAccounted'
    <2>1. raced' \in BOOLEAN /\ (~raced' => ~raced)
        BY <1>1, <1>3 DEF StockType
    <2> QED
        BY <1>1, <1>3, <2>1 DEF StockIsAccounted, Stk!StockIsAccounted, Stk!NotOverdrawn, Stk!QuantityIsStocktake, Stk!LostAsAWhole
<1>9. LoadedOnce(mine, movements, opening)
    <2>1. Stk!Covered(mine, mine.loaded)
        BY <1>2, <1>5 DEF Stk!Covered
    <2> QED
        BY <1>3, <1>5, <2>1 DEF LoadedOnce, StockIsAccounted, Stk!StockIsAccounted, Stk!NotOverdrawn, Stk!LostAsAWhole
<1>10. (\A v \in Users : LoadedOnce(moving[v], movements, opening))'
    BY <1>1, <1>3, <1>6, <1>9
<1>11. StockSerial'
    <2>1. SUFFICES ASSUME ~raced' PROVE StockSerial'
        BY DEF StockSerial
    <2>2. \A v \in Users : moving[v] = Stk!NoMovement
        BY <1>1, <2>1
    <2>3. \A v \in Users : moving'[v] # Stk!NoMovement => v = u
        BY <1>6, <2>2
    <2>4. moving'[u] = mine /\ quantity' = quantity
        BY <1>1, <1>6
    <2> QED
        BY <1>5, <2>3, <2>4 DEF StockSerial
<1> QED
    BY <1>7, <1>8, <1>10, <1>11 DEF StockInv

LEMMA StockCommit ==
    ASSUME StockInv, NEW u \in Users, Stk!CommitMovement(u)
    PROVE  StockInv'
<1> DEFINE mv == moving[u]
           row == Stk!Written(mv)
           new == Stk!NewQuantity(mv, mv.loaded)
           n == Len(movements)
<1>1. /\ mv # Stk!NoMovement
      /\ quantity' = (IF new = mv.loaded THEN quantity ELSE new)
      /\ movements' = Append(movements, row)
      /\ moving' = [moving EXCEPT ![u] = Stk!NoMovement]
      /\ UNCHANGED <<itemDeleted, opening, raced>>
    BY DEF Stk!CommitMovement
<1>2. /\ StockType /\ StockSerial /\ StockIsAccounted
      /\ \A v \in Users : LoadedOnce(moving[v], movements, opening)
    BY DEF StockInv
<1>3. /\ mv \in [type : {"entrada", "saida", "ajuste"}, quantity : Quantity, loaded : Int]
      /\ mv.quantity \in Int /\ mv.quantity > 0 /\ mv.loaded \in Int
    <2>1. mv \in StockRequest
        BY <1>2 DEF StockType
    <2> HIDE DEF mv
    <2>2. mv \in [type : {"entrada", "saida", "ajuste"}, quantity : Quantity, loaded : Int]
        <3>1. mv # Stk!NoMovement
            BY <1>1
        <3> QED
            BY <2>1, <3>1 DEF StockRequest
    <2>3. mv.quantity \in Quantity /\ mv.loaded \in Int
        BY <2>2
    <2> QED
        BY <2>2, <2>3, QuantitiesCount
<1>4. row \in Stk!Movement /\ row.type = mv.type /\ row.quantity = mv.quantity
    BY <1>3 DEF Stk!Written, Stk!Movement
<1>5. mv.loaded >= (IF opening < 0 THEN opening ELSE 0) /\ Stk!Covered(mv, mv.loaded)
    BY <1>1, <1>2 DEF LoadedOnce
<1>6. PICK I \in SUBSET DOMAIN movements : mv.loaded = Stk!Stocktake(movements, opening, I)
    BY <1>1, <1>2 DEF LoadedOnce
<1>7. \A q \in Int : Stk!NewQuantity(row, q) = Stk!NewQuantity(mv, q)
    BY <1>4 DEF Stk!NewQuantity
<1>8. new \in Int /\ new >= (IF opening < 0 THEN opening ELSE 0)
    <2>1. mv.type = "entrada" \/ mv.type = "saida" \/ mv.type = "ajuste"
        BY <1>3
    <2>2. opening \in Int
        BY <1>2 DEF StockType
    <2>3. mv.type = "entrada" => new = mv.loaded + mv.quantity
        BY DEF Stk!NewQuantity
    <2>4. mv.type = "saida" => new = mv.loaded - mv.quantity /\ mv.loaded >= mv.quantity
        BY <1>5 DEF Stk!NewQuantity, Stk!Covered
    <2>5. mv.type = "ajuste" => new = mv.quantity
        BY DEF Stk!NewQuantity
    <2> HIDE DEF new, mv
    <2> QED
        BY <1>3, <1>5, <2>1, <2>2, <2>3, <2>4, <2>5
<1> HIDE DEF new, row, mv
<1>9. /\ movements \in Seq(Stk!Movement) /\ movements' \in Seq(Stk!Movement) /\ n \in Nat
      /\ DOMAIN movements = 1..n /\ DOMAIN movements' = 1..(n + 1) /\ opening \in Int /\ quantity \in Int
    BY <1>1, <1>2, <1>4, AppendTo DEF StockType
<1> HIDE DEF n
<1>10. ASSUME NEW J \in SUBSET (1..n)
       PROVE  /\ Stk!Stocktake(movements', opening, J) = Stk!Stocktake(movements, opening, J)
              /\ Stk!Stocktake(movements', opening, J \cup {n + 1}) = Stk!NewQuantity(row, Stk!Stocktake(movements, opening, J))
    <2>1. n = Len(movements) /\ J \in SUBSET (1..Len(movements))
        BY DEF n
    <2> QED
        <3>1. /\ movements \in Seq(Stk!Movement) /\ row \in Stk!Movement /\ opening \in Int
              /\ movements' = Append(movements, row)
            BY <1>1, <1>4, <1>9
        <3>2. /\ Stk!Stocktake(Append(movements, row), opening, J) = Stk!Stocktake(movements, opening, J)
              /\ Stk!Stocktake(Append(movements, row), opening, J \cup {Len(movements) + 1})
                   = Stk!NewQuantity(row, Stk!Stocktake(movements, opening, J))
            <4>1. J \subseteq 1..Len(movements)
                BY <2>1
            <4>2. TakenOn(movements, row, opening, J)
                BY <3>1, <4>1, StocktakeOn
            <4> QED
                BY <4>2 DEF TakenOn
        <3>3. /\ Stk!Stocktake(movements', opening, J) = Stk!Stocktake(movements, opening, J)
              /\ Stk!Stocktake(movements', opening, J \cup {Len(movements) + 1})
                   = Stk!NewQuantity(row, Stk!Stocktake(movements, opening, J))
            BY <3>1, <3>2
        <3> QED
            BY <2>1, <3>3
<1>11. \A v \in Users : moving'[v] = IF v = u THEN Stk!NoMovement ELSE moving[v]
    BY <1>1, <1>2 DEF StockType
<1>12. StockType'
    <2>1. moving' \in [Users -> StockRequest]
        BY <1>1, <1>2 DEF StockType, StockRequest
    <2>2. quantity' \in Int
        BY <1>1, <1>8, <1>9
    <2> QED
        BY <1>1, <1>2, <1>9, <2>1, <2>2 DEF StockType
<1>13. (\A v \in Users : LoadedOnce(moving[v], movements, opening))'
    <2>1. SUFFICES ASSUME NEW v \in Users, v # u PROVE LoadedOnce(moving[v], movements', opening)
        BY <1>1, <1>11 DEF LoadedOnce
    <2>2. LoadedOnce(moving[v], movements, opening)
        BY <1>2
    <2>3. ASSUME NEW J \in SUBSET DOMAIN movements
          PROVE  J \in SUBSET DOMAIN movements' /\ Stk!Stocktake(movements', opening, J) = Stk!Stocktake(movements, opening, J)
        <3>1. J \in SUBSET (1..n)
            BY <1>9
        <3>2. J \in SUBSET (1..(n + 1))
            BY <1>9, <3>1
        <3> QED
            BY <1>9, <1>10, <3>1, <3>2
    <2> QED
        BY <2>2, <2>3 DEF LoadedOnce
<1>14. StockSerial'
    <2>1. ~raced => \A v \in Users : moving[v] # Stk!NoMovement => v = u
        BY <1>1, <1>2 DEF StockSerial, mv
    <2>2. ~raced => \A v \in Users : moving'[v] = Stk!NoMovement
        BY <1>11, <2>1
    <2> QED
        BY <1>1, <2>2 DEF StockSerial
<1>15. Stk!NotOverdrawn'
    BY <1>1, <1>2, <1>8 DEF StockIsAccounted, Stk!StockIsAccounted, Stk!NotOverdrawn
<1>16. Stk!QuantityIsStocktake'
    <2>1. SUFFICES ASSUME ~raced PROVE quantity' = Stk!Stocktake(movements', opening, DOMAIN movements')
        BY <1>1 DEF Stk!QuantityIsStocktake
    <2>2. mv.loaded = quantity /\ quantity = Stk!Stocktake(movements, opening, 1..n)
        BY <1>1, <1>2, <1>9, <2>1 DEF StockSerial, mv, StockIsAccounted, Stk!StockIsAccounted, Stk!QuantityIsStocktake
    <2>3. quantity' = new
        BY <1>1, <2>2
    <2>4. Stk!Stocktake(movements', opening, (1..n) \cup {n + 1}) = Stk!NewQuantity(row, quantity)
        BY <1>10, <2>2
    <2>5. (1..n) \cup {n + 1} = DOMAIN movements'
        BY <1>9
    <2>6. Stk!NewQuantity(row, quantity) = new
        BY <1>7, <1>9, <2>2 DEF new
    <2> QED
        BY <2>3, <2>4, <2>5, <2>6
<1>17. Stk!LostAsAWhole'
    <2>1. CASE new = mv.loaded
        <3>1. PICK J \in SUBSET DOMAIN movements : quantity = Stk!Stocktake(movements, opening, J)
            BY <1>2 DEF StockIsAccounted, Stk!StockIsAccounted, Stk!LostAsAWhole
        <3>2. J \in SUBSET DOMAIN movements' /\ quantity' = Stk!Stocktake(movements', opening, J)
            <4>1. J \in SUBSET (1..n)
                BY <1>9, <3>1
            <4>2. J \in SUBSET (1..(n + 1))
                BY <1>9, <4>1
            <4> QED
                BY <1>1, <1>9, <1>10, <2>1, <3>1, <4>1, <4>2
        <3> QED
            BY <1>1, <3>2 DEF Stk!LostAsAWhole
    <2>2. CASE new # mv.loaded
        <3>1. quantity' = new
            BY <1>1, <2>2
        <3>2. I \in SUBSET (1..n) /\ I \cup {n + 1} \in SUBSET DOMAIN movements'
            BY <1>6, <1>9
        <3>3. Stk!Stocktake(movements', opening, I \cup {n + 1}) = Stk!NewQuantity(row, mv.loaded)
            BY <1>6, <1>10, <3>2
        <3>4. Stk!NewQuantity(row, mv.loaded) = new
            BY <1>3, <1>7 DEF new
        <3> QED
            BY <1>1, <3>1, <3>2, <3>3, <3>4 DEF Stk!LostAsAWhole
    <2> QED
        BY <2>1, <2>2
<1>18. StockIsAccounted'
    BY <1>15, <1>16, <1>17 DEF StockIsAccounted, Stk!StockIsAccounted
<1> QED
    BY <1>12, <1>13, <1>14, <1>18 DEF StockInv

LEMMA StockOther ==
    ASSUME StockInv, \/ \E u \in Users : Stk!AbortMovement(u)
                     \/ Stk!DeleteItem
                     \/ UNCHANGED stock
    PROVE  StockInv'
<1>1. UNCHANGED <<quantity, movements, opening, raced>>
    BY DEF Stk!AbortMovement, Stk!DeleteItem, stock
<1>2. \A v \in Users : moving'[v] = moving[v] \/ moving'[v] = Stk!NoMovement
    BY DEF Stk!AbortMovement, Stk!DeleteItem, stock, StockInv, StockType
<1>3. StockType'
    <2>1. moving' \in [Users -> StockRequest] /\ itemDeleted' \in BOOLEAN
        BY DEF Stk!AbortMovement, Stk!DeleteItem, stock, StockInv, StockType, StockRequest
    <2> QED
        BY <1>1, <2>1 DEF StockInv, StockType
<1>4. (\A v \in Users : LoadedOnce(moving[v], movements, opening))'
    BY <1>1, <1>2 DEF StockInv, LoadedOnce
<1>5. StockSerial'
    BY <1>1, <1>2 DEF StockInv, StockSerial
<1>6. StockIsAccounted'
    BY <1>1 DEF StockInv, StockIsAccounted, Stk!StockIsAccounted, Stk!NotOverdrawn, Stk!QuantityIsStocktake, Stk!LostAsAWhole
<1> QED
    BY <1>3, <1>4, <1>5, <1>6 DEF StockInv

LEMMA StockStep ==
    ASSUME StockInv, Stk!Next \/ UNCHANGED stock
    PROVE  StockInv'
    BY StockBegin, StockCommit, StockOther DEF Stk!Next

\* However movements of one item race, its quantity is that of a stocktake of
\* some of the movements on record, and none takes it below zero; while they do
\* not overlap it is the stocktake of them all.
THEOREM StockIsAccountedHolds == MCSpec => []StockIsAccounted
<1>1. MCInit => StockInv
    BY StockInit DEF MCInit
<1>2. StockInv /\ [MCNext]_<<area, vars, stock, workOrders, plans, checklists, pages, web>> => StockInv'
    BY StockStep DEF MCNext
<1>3. StockInv => StockIsAccounted
    BY DEF StockInv
<1> QED
    BY <1>1, <1>2, <1>3, PTL DEF MCSpec

(***************************************************************************)
(* Front ends. A request that is not yet answered has done nothing, or is  *)
(* done once and told so; who renewed has a valid token, and what can be   *)
(* renewed was there while somebody was signed in.                         *)
(***************************************************************************)

Steps3 == {"send", "renew", "answered"}

WebRequest ==
    [step : Steps3, call : Classes, token : {"valid", "lapsed", "none"}, refresh : {"valid", "none"},
     renewed : BOOLEAN, hindered : BOOLEAN, served : {0, 1}, late : BOOLEAN,
     cause : {"served", "away", "session", "unauthorized", "refused", "lost"}]

WebType ==
    /\ app \in {"web", "portal", "desk"}
    /\ jar \in [access : {"valid", "lapsed", "none"}, refresh : {"valid", "none"}]
    /\ active \in BOOLEAN /\ signedIn \in BOOLEAN /\ revived \in BOOLEAN
    /\ app = "portal" => jar.refresh = "none"
    /\ tabs \in [Tab -> {Web!Idle} \cup WebRequest]

\* A request that is not yet answered has done nothing; what was done is said to
\* be done or lost, and who has renewed has a valid token.
Going(r) ==
    r # Web!Idle =>
        /\ r.call.kind \in Kinds
        /\ r.step # "answered" => r.served = 0 /\ r.cause = "served"
        /\ r.step = "answered" => (r.cause = "served" => r.served = 1) /\ (r.served = 1 => r.cause \in {"served", "lost"})
        /\ r.renewed => r.token = "valid"
        /\ (r.renewed \/ r.step = "renew") => r.refresh = "valid"

\* A session that could be renewed was refused for a reason.
Renewable(r, usable) ==
    r # Web!Idle /\ r.step = "answered" /\ r.refresh = "valid" /\ usable /\ ~r.hindered
    /\ r.call.kind \in Web!Renewing \cup {"proxied"} /\ r.cause \in {"session", "unauthorized"}
    => r.call.kind = "proxied" /\ r.cause = "unauthorized" /\ ~r.renewed

\* What a request could renew was there when somebody was signed in.
Owed(r, in) == r # Web!Idle /\ ~r.late /\ r.refresh = "valid" => in

WebInv ==
    /\ WebType
    /\ \A t \in Tab : Going(tabs[t]) /\ Renewable(tabs[t], active) /\ Owed(tabs[t], signedIn \/ revived)
    /\ jar # Web!NoCookies => signedIn \/ revived

LEMMA IdleIsNone == Web!Idle.step = "idle" /\ (\A r \in WebRequest : r # Web!Idle) /\ Web!Idle \notin WebRequest
    BY DEF Web!Idle, WebRequest, Steps3

LEMMA NothingIsDone ==
    ASSUME NEW kind \in Kinds, NEW cause \in {"session", "unauthorized", "refused", "lost"}
    PROVE  /\ cause \in DOMAIN Web!Answers[kind]
           /\ Web!Answers[kind][cause] # "done"
    BY DEF Kinds, Web!Answers, Web!Answer

LEMMA ServedIsShown ==
    ASSUME NEW r, r.call.kind \in Kinds, r.served \in {0, 1},
           r.cause \in {"served", "away", "session", "unauthorized", "refused", "lost"},
           r.cause = "served" => r.served = 1, r.served = 1 => r.cause \in {"served", "lost"}
    PROVE  /\ Web!Shown(r.call, r.cause) = "done" => r.served = 1
           /\ r.served = 1 => Web!Shown(r.call, r.cause) \in {"done", "nothing"} \/ r.cause = "lost"
<1>1. CASE r.cause = "served"
    BY <1>1 DEF Web!Shown
<1>2. CASE r.cause = "away"
    BY <1>2 DEF Web!Shown
<1>3. CASE r.cause \in {"session", "unauthorized", "refused", "lost"}
    <2>1. Web!Shown(r.call, r.cause) = Web!Answers[r.call.kind][r.cause]
        BY <1>3 DEF Web!Shown
    <2>2. Web!Answers[r.call.kind][r.cause] # "done"
        BY <1>3, NothingIsDone
    <2> QED
        BY <1>3, <2>1, <2>2
<1> QED
    BY <1>1, <1>2, <1>3

LEMMA WebSafe == WebInv => Web!RequestsAreRight
<1> SUFFICES ASSUME WebInv PROVE Web!RequestsAreRight
    OBVIOUS
<1>1. \A t \in Tab : tabs[t] # Web!Idle => tabs[t] \in WebRequest
    BY DEF WebInv, WebType
<1>2. \A t \in Tab : tabs[t].step = "answered" => tabs[t] # Web!Idle
    BY IdleIsNone
<1>3. ASSUME NEW t \in Tab, tabs[t] # Web!Idle
      PROVE  /\ tabs[t].served <= 1
             /\ tabs[t].step = "answered" =>
                  /\ Web!Shown(tabs[t].call, tabs[t].cause) = "done" => tabs[t].served = 1
                  /\ tabs[t].served = 1 => Web!Shown(tabs[t].call, tabs[t].cause) \in {"done", "nothing"} \/ tabs[t].cause = "lost"
    <2> DEFINE r == tabs[t]
    <2>1. r \in WebRequest
        BY <1>1, <1>3
    <2>2. r.served \in {0, 1} /\ r.cause \in {"served", "away", "session", "unauthorized", "refused", "lost"}
        BY <2>1 DEF WebRequest
    <2>3. Going(r)
        BY DEF WebInv
    <2> HIDE DEF r
    <2>4. r.step = "answered" =>
            /\ Web!Shown(r.call, r.cause) = "done" => r.served = 1
            /\ r.served = 1 => Web!Shown(r.call, r.cause) \in {"done", "nothing"} \/ r.cause = "lost"
        <3> SUFFICES ASSUME r.step = "answered"
                     PROVE  /\ Web!Shown(r.call, r.cause) = "done" => r.served = 1
                            /\ r.served = 1 => Web!Shown(r.call, r.cause) \in {"done", "nothing"} \/ r.cause = "lost"
            OBVIOUS
        <3>1. r.call.kind \in Kinds /\ (r.cause = "served" => r.served = 1) /\ (r.served = 1 => r.cause \in {"served", "lost"})
            BY <1>3, <2>3 DEF Going, r
        <3> QED
            BY <2>2, <3>1, ServedIsShown
    <2>5. r.served <= 1
        BY <2>2
    <2> QED
        BY <2>4, <2>5 DEF r
<1>4. Web!ShownAsDone
    BY <1>3 DEF Web!ShownAsDone, Web!Answered
<1>5. Web!RenewedWhenPossible
    BY <1>2 DEF WebInv, Renewable, Web!RenewedWhenPossible, Web!Answered
<1>6. Web!SignedOutStaysOut
    BY DEF WebInv, Web!SignedOutStaysOut
<1> QED
    BY <1>4, <1>5, <1>6 DEF Web!RequestsAreRight

LEMMA WebTypes == WebInv => Web!TypeOK
<1> SUFFICES ASSUME WebInv PROVE Web!TypeOK
    OBVIOUS
<1>1. \A t \in Tab : tabs[t] # Web!Idle => tabs[t] \in WebRequest
    BY DEF WebInv, WebType
<1>2. \A t \in Tab : tabs[t].step \in {"idle", "send", "renew", "answered"}
    BY <1>1, IdleIsNone DEF WebRequest, Steps3
<1>3. ASSUME NEW t \in Tab, tabs[t].step = "answered"
      PROVE  tabs[t].cause \in {"served", "away"} \cup DOMAIN Web!Answers[tabs[t].call.kind]
    <2>1. tabs[t] # Web!Idle
        BY <1>3, IdleIsNone
    <2>2. tabs[t].cause \in {"served", "away", "session", "unauthorized", "refused", "lost"}
        BY <1>1, <2>1 DEF WebRequest
    <2>3. tabs[t].call.kind \in Kinds
        BY <2>1 DEF WebInv, Going
    <2> QED
        BY <2>2, <2>3, NothingIsDone
<1>4. /\ jar.access \in {"valid", "lapsed", "none"} /\ jar.refresh \in {"valid", "none"}
      /\ app = "portal" => jar.refresh = "none"
      /\ {active, signedIn, revived} \subseteq BOOLEAN
    BY DEF WebInv, WebType
<1> QED
    BY <1>2, <1>3, <1>4 DEF Web!TypeOK, Web!Answered

LEMMA WebInit == Web!Init => WebInv
<1> SUFFICES ASSUME Web!Init PROVE WebInv
    OBVIOUS
<1>1. \A t \in Tab : tabs[t] = Web!Idle
    BY DEF Web!Init
<1>2. WebType
    BY DEF Web!Init, Web!NoCookies, WebType
<1> QED
    BY <1>1, <1>2 DEF WebInv, Going, Renewable, Owed, Web!Init

\* The request of one tab has become another one, and nothing else has moved.
LEMMA OneTab ==
    ASSUME WebInv, NEW t \in Tab, NEW r, tabs' = [tabs EXCEPT ![t] = r], r = Web!Idle \/ r \in WebRequest,
           UNCHANGED <<app, jar, active, signedIn, revived>>,
           Going(r), Renewable(r, active), Owed(r, signedIn \/ revived)
    PROVE  WebInv'
<1>1. \A v \in Tab : tabs'[v] = IF v = t THEN r ELSE tabs[v]
    BY DEF WebInv, WebType
<1>2. WebType'
    <2>1. tabs' \in [Tab -> {Web!Idle} \cup WebRequest]
        BY DEF WebInv, WebType
    <2> QED
        BY <2>1 DEF WebInv, WebType
<1>3. \A v \in Tab : Going(tabs'[v]) /\ Renewable(tabs'[v], active) /\ Owed(tabs'[v], signedIn \/ revived)
    BY <1>1 DEF WebInv
<1> QED
    BY <1>2, <1>3 DEF WebInv

LEMMA WebClick ==
    ASSUME WebInv, NEW t \in Tab, NEW call \in Classes, Web!Click(t, call)
    PROVE  WebInv'
<1> DEFINE away == call.kind \notin Web!PastMiddleware \cup Web!SignIns /\ jar.access = "none"
           over == call.kind \in {"proxied", "download"} /\ jar.access = "none"
           renews == call.kind = "proxied" /\ jar.refresh = "valid"
           step == IF away \/ (over /\ ~renews) THEN "answered" ELSE IF over THEN "renew" ELSE "send"
           cause == IF away THEN "away" ELSE IF step = "answered" THEN "session" ELSE "served"
           r == [step |-> step, call |-> call, token |-> jar.access, refresh |-> jar.refresh,
                 renewed |-> FALSE, hindered |-> FALSE, served |-> 0, late |-> FALSE, cause |-> cause]
<1>1. /\ tabs' = [tabs EXCEPT ![t] = r] /\ call.kind \in KindsOf[t]
      /\ UNCHANGED <<app, jar, active, signedIn, revived>>
    BY DEF Web!Click
<1>2. call.kind \in Kinds
    BY <1>1, KindsAssumption DEF KindsAssumption
<1>3. step \in Steps3 /\ cause \in {"away", "session", "served"}
    BY DEF Steps3
<1>4. /\ step = "answered" => cause # "served"
      /\ step # "answered" => cause = "served"
      /\ step = "renew" => jar.refresh = "valid"
      /\ cause = "session" => over /\ ~renews
    OBVIOUS
<1>5. jar.access \in {"valid", "lapsed", "none"} /\ jar.refresh \in {"valid", "none"}
    BY DEF WebInv, WebType
<1> HIDE DEF step, cause
<1>6. r \in WebRequest
    BY <1>3, <1>5 DEF WebRequest
<1>7. Going(r)
    BY <1>2, <1>4 DEF Going
<1>8. Renewable(r, active)
    BY <1>4, <1>3 DEF Renewable, Web!Renewing
<1>9. Owed(r, signedIn \/ revived)
    BY DEF Owed, WebInv, Web!NoCookies
<1> HIDE DEF r
<1> QED
    BY <1>1, <1>6, <1>7, <1>8, <1>9, OneTab

LEMMA WebRenew ==
    ASSUME WebInv, NEW t \in Tab, Web!Renew(t)
    PROVE  WebInv'
<1> DEFINE q == tabs[t]
<1>1. q.step = "renew" /\ UNCHANGED <<app, jar, active, signedIn, revived>>
    BY DEF Web!Renew
<1>2. q # Web!Idle /\ q \in WebRequest
    BY <1>1, IdleIsNone DEF WebInv, WebType
<1>3. Going(q) /\ Owed(q, signedIn \/ revived)
    BY DEF WebInv
<1>4. /\ q.call.kind \in Kinds /\ q.served = 0 /\ q.cause = "served" /\ q.refresh = "valid"
      /\ q.renewed => q.token = "valid"
      /\ ~q.late => signedIn \/ revived
    BY <1>1, <1>2, <1>3 DEF Going, Owed
<1>5. CASE active /\ tabs' = [tabs EXCEPT ![t].step = "send", ![t].token = "valid", ![t].renewed = TRUE]
    <2> DEFINE r == [q EXCEPT !.step = "send", !.token = "valid", !.renewed = TRUE]
    <2>1. tabs' = [tabs EXCEPT ![t] = r]
        BY <1>5
    <2>2. /\ r \in WebRequest /\ r.step = "send" /\ r.token = "valid" /\ r.call = q.call /\ r.served = q.served
          /\ r.cause = q.cause /\ r.refresh = q.refresh /\ r.late = q.late
        BY <1>2 DEF WebRequest, Steps3
    <2> HIDE DEF r, q
    <2>3. Going(r) /\ Renewable(r, active) /\ Owed(r, signedIn \/ revived)
        BY <1>4, <2>2 DEF Going, Renewable, Owed
    <2> QED
        BY <1>1, <2>1, <2>2, <2>3, OneTab
<1>6. ASSUME NEW cause \in {"session", "lost"}, NEW h \in BOOLEAN, h \/ ~active,
             NEW r, r = [q EXCEPT !.step = "answered", !.cause = cause, !.hindered = h],
             tabs' = [tabs EXCEPT ![t] = r]
      PROVE  WebInv'
    <2>2. /\ r \in WebRequest /\ r.step = "answered" /\ r.token = q.token /\ r.call = q.call /\ r.served = q.served
          /\ r.cause = cause /\ r.refresh = q.refresh /\ r.late = q.late /\ r.hindered = h /\ r.renewed = q.renewed
        BY <1>2, <1>6 DEF WebRequest, Steps3
    <2> HIDE DEF q
    <2>3. Going(r) /\ Renewable(r, active) /\ Owed(r, signedIn \/ revived)
        BY <1>4, <1>6, <2>2 DEF Going, Renewable, Owed
    <2> QED
        BY <1>1, <1>6, <2>2, <2>3, OneTab
<1>7. CASE ~active /\ tabs' = [tabs EXCEPT ![t].step = "answered", ![t].cause = "session"]
    <2> DEFINE r == [q EXCEPT !.step = "answered", !.cause = "session", !.hindered = q.hindered]
    <2>1. tabs' = [tabs EXCEPT ![t] = r] /\ q.hindered \in BOOLEAN
        BY <1>2, <1>7 DEF WebRequest
    <2> QED
        BY <1>6, <1>7, <2>1
<1>8. ASSUME NEW cause \in {"session", "lost"},
             tabs' = [tabs EXCEPT ![t].step = "answered", ![t].cause = cause, ![t].hindered = TRUE]
      PROVE  WebInv'
    <2> DEFINE r == [q EXCEPT !.step = "answered", !.cause = cause, !.hindered = TRUE]
    <2>1. tabs' = [tabs EXCEPT ![t] = r]
        BY <1>8
    <2> QED
        BY <1>6, <2>1
<1> QED
    BY <1>5, <1>7, <1>8 DEF Web!Renew

\* A request has an answer, which may make it renew.
LEMMA WebReturn ==
    ASSUME WebInv, NEW t \in Tab, tabs[t].step = "send", NEW code \in Int, NEW served \in {0, 1},
           NEW cause \in {"served", "session", "unauthorized", "refused", "lost"},
           Web!Returns(t, code, served, cause), UNCHANGED <<app, jar, active, signedIn, revived>>,
           cause = "served" => served = 1,
           served = 1 => cause \in {"served", "lost"} /\ code # 401,
           cause \in {"session", "unauthorized"} =>
                code = 401 /\ ~(tabs[t].token = "valid" /\ active)
                /\ (cause = "session" <=> tabs[t].call.kind \in Web!Renewing /\ ~tabs[t].renewed)
    PROVE  WebInv'
<1> DEFINE q == tabs[t]
           again == Web!RenewsAfter(t, code)
           r == [q EXCEPT !.step = IF again THEN "renew" ELSE "answered", !.cause = IF again THEN @ ELSE cause, !.served = @ + served]
<1>1. tabs' = [tabs EXCEPT ![t] = r]
    BY DEF Web!Returns
<1>2. q # Web!Idle /\ q \in WebRequest
    BY IdleIsNone DEF WebInv, WebType
<1>3. Going(q) /\ Owed(q, signedIn \/ revived)
    BY DEF WebInv
<1>4. /\ q.call.kind \in Kinds /\ q.served = 0 /\ q.cause = "served"
      /\ q.renewed => q.token = "valid" /\ q.refresh = "valid"
      /\ ~q.late /\ q.refresh = "valid" => signedIn \/ revived
    BY <1>2, <1>3 DEF Going, Owed
<1>5. again <=> code = 401 /\ q.call.kind \in Web!Renewing /\ ~q.renewed /\ q.refresh = "valid"
    BY DEF Web!RenewsAfter
<1>6. /\ cause \in {"session", "unauthorized"} => ~(q.token = "valid" /\ active)
      /\ cause \in {"session", "unauthorized"} => code = 401
      /\ cause = "session" => q.call.kind \in Web!Renewing /\ ~q.renewed
      /\ cause = "unauthorized" => q.call.kind \notin Web!Renewing \/ q.renewed
    OBVIOUS
<1> HIDE DEF again
<1>7. again \in BOOLEAN
    BY <1>5
<1>8. /\ r \in WebRequest /\ r.step = (IF again THEN "renew" ELSE "answered") /\ r.call = q.call
      /\ r.cause = (IF again THEN q.cause ELSE cause) /\ r.served = served /\ r.token = q.token
      /\ r.refresh = q.refresh /\ r.renewed = q.renewed /\ r.late = q.late /\ r.hindered = q.hindered
    <2>1. q.served + served = served
        BY <1>4
    <2> DEFINE to == IF again THEN "renew" ELSE "answered"
               why == IF again THEN q.cause ELSE cause
    <2>2. to \in Steps3 /\ why \in {"served", "away", "session", "unauthorized", "refused", "lost"}
        BY <1>4 DEF Steps3
    <2>3. r = [q EXCEPT !.step = to, !.cause = why, !.served = served]
        BY <2>1
    <2> HIDE DEF q, r, to, why
    <2>4. /\ r \in WebRequest /\ r.step = to /\ r.call = q.call
          /\ r.cause = why /\ r.served = served /\ r.token = q.token
          /\ r.refresh = q.refresh /\ r.renewed = q.renewed /\ r.late = q.late /\ r.hindered = q.hindered
        BY <1>2, <2>2, <2>3 DEF WebRequest
    <2> QED
        BY <2>4 DEF to, why
<1> HIDE DEF q, r
<1>9. Going(r)
    <2>1. again => served = 0 /\ r.refresh = "valid"
        BY <1>5, <1>8
    <2> QED
        BY <1>4, <1>8, <2>1 DEF Going
<1>10. Renewable(r, active)
    <2>1. SUFFICES ASSUME ~again, r.refresh = "valid", active, r.call.kind \in Web!Renewing \cup {"proxied"},
                          r.cause \in {"session", "unauthorized"}
                   PROVE  r.call.kind = "proxied" /\ r.cause = "unauthorized" /\ ~r.renewed
        BY <1>8 DEF Renewable
    <2>2. ~(q.token = "valid") /\ code = 401 /\ r.cause = cause
        BY <1>6, <1>8, <2>1
    <2>3. ~q.renewed
        BY <1>4, <2>2
    <2>4. q.call.kind \notin Web!Renewing
        BY <1>5, <1>8, <2>1, <2>2, <2>3
    <2> QED
        BY <1>6, <1>8, <2>1, <2>2, <2>3, <2>4
<1>11. Owed(r, signedIn \/ revived)
    BY <1>4, <1>8 DEF Owed
<1> QED
    BY <1>1, <1>8, <1>9, <1>10, <1>11, OneTab

LEMMA WebServe ==
    ASSUME WebInv, NEW t \in Tab, Web!Serve(t)
    PROVE  WebInv'
<1>1. tabs[t].step = "send" /\ UNCHANGED <<app, jar, active, signedIn, revived>>
    BY DEF Web!Serve
<1>2. CASE ~Web!Authorized(t) /\
           Web!Returns(t, 401, 0, IF tabs[t].call.kind \in Web!Renewing /\ ~tabs[t].renewed THEN "session" ELSE "unauthorized")
    <2>1. CASE tabs[t].call.kind \in Web!Renewing /\ ~tabs[t].renewed
        <3>1. Web!Returns(t, 401, 0, "session")
            BY <1>2, <2>1
        <3> QED
            BY <1>1, <1>2, <2>1, <3>1, WebReturn DEF Web!Authorized
    <2>2. CASE ~(tabs[t].call.kind \in Web!Renewing /\ ~tabs[t].renewed)
        <3>1. Web!Returns(t, 401, 0, "unauthorized")
            BY <1>2, <2>2
        <3> QED
            BY <1>1, <1>2, <2>2, <3>1, WebReturn DEF Web!Authorized
    <2> QED
        BY <2>1, <2>2
<1>3. CASE Web!Returns(t, 422, 0, "refused")
    BY <1>1, <1>3, WebReturn
<1>4. CASE Web!Returns(t, 200, 1, "served")
    BY <1>1, <1>4, WebReturn
<1>5. CASE Web!Returns(t, 0, 1, "lost")
    BY <1>1, <1>5, WebReturn
<1>6. CASE Web!Returns(t, 0, 0, "lost")
    BY <1>1, <1>6, WebReturn
<1> QED
    BY <1>2, <1>3, <1>4, <1>5, <1>6 DEF Web!Serve

LEMMA WebArrive ==
    ASSUME WebInv, NEW t \in Tab, Web!Arrive(t)
    PROVE  WebInv'
<1> DEFINE r == tabs[t]
<1>1. /\ r.step = "answered" /\ UNCHANGED <<app, active>>
      /\ signedIn' = (signedIn \/ (r.call.kind \in Web!SignIns /\ r.cause = "served"))
      /\ revived' = (revived \/ (r.late /\ jar' # jar /\ jar' # Web!NoCookies))
      /\ tabs' = [tabs EXCEPT ![t] = Web!Idle]
    BY DEF Web!Arrive
<1>2. jar' = Web!CookiesOf(r) \/ (jar' = jar /\ r.cause # "served")
    BY DEF Web!Arrive
<1>3. r # Web!Idle /\ r \in WebRequest /\ Going(r) /\ Owed(r, signedIn \/ revived)
    BY <1>1, IdleIsNone DEF WebInv, WebType
<1>4. \/ Web!CookiesOf(r) = Web!Fresh /\ (r.renewed \/ (r.call.kind \in Web!SignIns /\ r.cause = "served"))
      \/ Web!CookiesOf(r) \in {Web!NoCookies, jar}
    BY DEF Web!CookiesOf
<1>5. \A v \in Tab : tabs'[v] = IF v = t THEN Web!Idle ELSE tabs[v]
    BY <1>1 DEF WebInv, WebType
<1>6. signedIn \in BOOLEAN /\ revived \in BOOLEAN /\ r.late \in BOOLEAN /\ r.renewed \in BOOLEAN
    BY <1>3 DEF WebInv, WebType, WebRequest
<1>7. signedIn' \in BOOLEAN /\ revived' \in BOOLEAN /\ (signedIn => signedIn') /\ (revived => revived')
    BY <1>1, <1>6
<1>8. /\ Web!Fresh \in [access : {"valid", "lapsed", "none"}, refresh : {"valid", "none"}]
      /\ app = "portal" => Web!Fresh.refresh = "none"
      /\ Web!NoCookies \in [access : {"valid", "lapsed", "none"}, refresh : {"valid", "none"}]
      /\ Web!NoCookies.refresh = "none"
    BY DEF Web!Fresh, Web!NoCookies
<1>9. WebType'
    <2>1. tabs' \in [Tab -> {Web!Idle} \cup WebRequest]
        BY <1>1 DEF WebInv, WebType
    <2>2. /\ jar' \in [access : {"valid", "lapsed", "none"}, refresh : {"valid", "none"}]
          /\ app' = "portal" => jar'.refresh = "none"
        BY <1>1, <1>2, <1>4, <1>8 DEF WebInv, WebType
    <2> QED
        BY <1>1, <1>7, <2>1, <2>2 DEF WebInv, WebType
<1>10. jar' # Web!NoCookies => signedIn' \/ revived'
    <2>1. SUFFICES ASSUME jar' # Web!NoCookies, jar' # jar PROVE signedIn' \/ revived'
        BY <1>7 DEF WebInv
    <2>2. r.renewed \/ (r.call.kind \in Web!SignIns /\ r.cause = "served")
        BY <1>2, <1>4, <2>1
    <2>3. CASE r.renewed
        <3>1. r.refresh = "valid"
            BY <1>3, <2>3 DEF Going
        <3>2. r.late \/ signedIn \/ revived
            BY <1>3, <3>1 DEF Owed
        <3> QED
            BY <1>1, <1>7, <2>1, <3>2
    <2>4. CASE r.call.kind \in Web!SignIns /\ r.cause = "served"
        BY <1>1, <2>4
    <2> QED
        BY <2>2, <2>3, <2>4
<1>11. \A v \in Tab : Going(tabs'[v]) /\ Renewable(tabs'[v], active') /\ Owed(tabs'[v], signedIn' \/ revived')
    BY <1>1, <1>5, <1>7 DEF WebInv, Going, Renewable, Owed
<1> QED
    BY <1>9, <1>10, <1>11 DEF WebInv

LEMMA WebLogout ==
    ASSUME WebInv, Web!Logout
    PROVE  WebInv'
<1>1. /\ jar' = Web!NoCookies /\ signedIn' = FALSE /\ revived' = FALSE /\ UNCHANGED <<app, active>>
      /\ tabs' = [t \in Tab |-> IF tabs[t] = Web!Idle THEN Web!Idle ELSE [tabs[t] EXCEPT !.late = TRUE]]
    BY DEF Web!Logout
<1>2. ASSUME NEW t \in Tab
      PROVE  /\ tabs'[t] \in {Web!Idle} \cup WebRequest
             /\ Going(tabs'[t]) /\ Renewable(tabs'[t], active') /\ Owed(tabs'[t], signedIn' \/ revived')
    <2>1. CASE tabs[t] = Web!Idle
        BY <1>1, <2>1 DEF Going, Renewable, Owed
    <2>2. CASE tabs[t] # Web!Idle
        <3> DEFINE q == tabs[t]
                   r == tabs'[t]
        <3>1. q \in WebRequest /\ r = [q EXCEPT !.late = TRUE]
            BY <1>1, <2>2 DEF WebInv, WebType
        <3>2. Going(q) /\ Renewable(q, active) /\ q # Web!Idle
            BY <2>2 DEF WebInv
        <3>3. /\ r \in WebRequest /\ r.step = q.step /\ r.call = q.call /\ r.cause = q.cause /\ r.served = q.served
              /\ r.token = q.token /\ r.refresh = q.refresh /\ r.renewed = q.renewed /\ r.hindered = q.hindered /\ r.late = TRUE
            BY <3>1 DEF WebRequest
        <3> HIDE DEF q, r
        <3>4. Going(r) /\ Renewable(r, active) /\ Owed(r, FALSE)
            BY <3>2, <3>3 DEF Going, Renewable, Owed
        <3> QED
            BY <1>1, <3>3, <3>4 DEF Owed, r
    <2> QED
        BY <2>1, <2>2
<1>3. WebType'
    <2>1. tabs' \in [Tab -> {Web!Idle} \cup WebRequest]
        BY <1>1, <1>2
    <2> QED
        BY <1>1, <2>1 DEF WebInv, WebType, Web!NoCookies
<1> QED
    BY <1>1, <1>2, <1>3 DEF WebInv

LEMMA WebLapse ==
    ASSUME WebInv, Web!Lapse
    PROVE  WebInv'
<1>1. /\ jar' = [jar EXCEPT !.access = IF @ = "valid" THEN "lapsed" ELSE @]
      /\ UNCHANGED <<app, active, signedIn, revived>>
      /\ tabs' = [t \in Tab |-> IF tabs[t] # Web!Idle /\ tabs[t].token = "valid" /\ ~tabs[t].renewed
                                THEN [tabs[t] EXCEPT !.token = "lapsed"] ELSE tabs[t]]
    BY DEF Web!Lapse
<1>2. ASSUME NEW t \in Tab
      PROVE  /\ tabs'[t] \in {Web!Idle} \cup WebRequest
             /\ Going(tabs'[t]) /\ Renewable(tabs'[t], active) /\ Owed(tabs'[t], signedIn \/ revived)
    <2>1. CASE tabs'[t] = tabs[t]
        BY <2>1 DEF WebInv, WebType
    <2>2. CASE tabs[t] # Web!Idle /\ tabs[t].token = "valid" /\ ~tabs[t].renewed
        <3> DEFINE q == tabs[t]
                   r == tabs'[t]
        <3>1. q \in WebRequest /\ r = [q EXCEPT !.token = "lapsed"] /\ ~q.renewed
            BY <1>1, <2>2 DEF WebInv, WebType
        <3>2. Going(q) /\ Renewable(q, active) /\ Owed(q, signedIn \/ revived) /\ q # Web!Idle
            BY <2>2 DEF WebInv
        <3>3. /\ r \in WebRequest /\ r.step = q.step /\ r.call = q.call /\ r.cause = q.cause /\ r.served = q.served
              /\ r.late = q.late /\ r.refresh = q.refresh /\ r.renewed = q.renewed /\ r.hindered = q.hindered
            BY <3>1 DEF WebRequest
        <3> HIDE DEF q, r
        <3>4. Going(r) /\ Renewable(r, active) /\ Owed(r, signedIn \/ revived)
            BY <3>1, <3>2, <3>3 DEF Going, Renewable, Owed
        <3> QED
            BY <3>3, <3>4 DEF r
    <2> QED
        BY <1>1, <2>1, <2>2
<1>3. /\ jar' \in [access : {"valid", "lapsed", "none"}, refresh : {"valid", "none"}]
      /\ jar'.refresh = jar.refresh
      /\ jar' # Web!NoCookies => jar # Web!NoCookies
    BY <1>1 DEF WebInv, WebType, Web!NoCookies
<1>4. WebType'
    <2>1. tabs' \in [Tab -> {Web!Idle} \cup WebRequest]
        BY <1>1, <1>2
    <2> QED
        BY <1>1, <1>3, <2>1 DEF WebInv, WebType
<1> QED
    BY <1>1, <1>2, <1>3, <1>4 DEF WebInv

LEMMA WebOther ==
    ASSUME WebInv, Web!Forget \/ Web!Deactivate \/ UNCHANGED web
    PROVE  WebInv'
<1>1. UNCHANGED <<app, tabs, signedIn, revived>> /\ (active' => active) /\ active' \in BOOLEAN
    <2>1. CASE Web!Forget
        BY <2>1 DEF Web!Forget, WebInv, WebType
    <2>2. CASE Web!Deactivate
        BY <2>2 DEF Web!Deactivate, WebInv, WebType
    <2>3. CASE UNCHANGED web
        BY <2>3 DEF web, WebInv, WebType
    <2> QED
        BY <2>1, <2>2, <2>3
<1>2. /\ jar' \in [access : {"valid", "lapsed", "none"}, refresh : {"valid", "none"}]
      /\ jar.refresh = "none" => jar'.refresh = "none"
      /\ jar' # Web!NoCookies => jar # Web!NoCookies
    <2>1. jar \in [access : {"valid", "lapsed", "none"}, refresh : {"valid", "none"}]
        BY DEF WebInv, WebType
    <2>2. CASE jar' = jar
        BY <2>1, <2>2
    <2>3. CASE jar.access = "lapsed" /\ jar' = [jar EXCEPT !.access = "none"]
        BY <2>1, <2>3 DEF Web!NoCookies
    <2>4. CASE jar.refresh = "valid" /\ jar' = [jar EXCEPT !.refresh = "none"]
        BY <2>1, <2>4 DEF Web!NoCookies
    <2> QED
        BY <2>2, <2>3, <2>4 DEF Web!Forget, Web!Deactivate, web
<1>3. WebType'
    BY <1>1, <1>2 DEF WebInv, WebType
<1>4. \A t \in Tab : Renewable(tabs[t], active) => Renewable(tabs[t], active')
    BY <1>1 DEF Renewable
<1> QED
    BY <1>1, <1>2, <1>3, <1>4 DEF WebInv

LEMMA WebStep ==
    ASSUME WebInv, Web!Next \/ UNCHANGED web
    PROVE  WebInv'
    BY WebClick, WebRenew, WebServe, WebArrive, WebLogout, WebLapse, WebOther DEF Web!Next

(***************************************************************************)
(* Lists read page by page.  What was shown of a list continued by id comes *)
(* before what is left of it; while nothing is written, the pages by number *)
(* are the first rows of the list.  A list in order is one of all rows,     *)
(* each once, which the database finds: every row has as many before it as  *)
(* its place says.                                                          *)
(***************************************************************************)
\* R orders S: of two elements one comes before the other, and none before itself.
Orders(R, S) ==
    /\ \A x \in S : <<x, x>> \notin R
    /\ \A x, y \in S : x # y => <<x, y>> \in R \/ <<y, x>> \in R
    /\ \A x, y, z \in S : <<x, y>> \in R /\ <<y, z>> \in R => <<x, z>> \in R

\* f lists S, which has n elements, as R orders it.
Enumerates(f, n, S, R) ==
    /\ f \in [1..n -> S]
    /\ \A i, j \in 1..n : i < j => <<f[i], f[j]>> \in R

LEMMA SameCardinality == \A S : Pag!Cardinality(S) = Cardinality(S)
    BY DEF Pag!Cardinality, Cardinality

\* What is ordered can be listed: every element has as many before it.
LEMMA ListIsThere ==
    ASSUME NEW S, IsFiniteSet(S), NEW R, Orders(R, S)
    PROVE  /\ Cardinality(S) \in Nat
           /\ \E f : Enumerates(f, Cardinality(S), S, R)
<1> DEFINE Earlier(x) == {y \in S : <<y, x>> \in R}
<1>1. PICK n : n = Cardinality(S)
    OBVIOUS
<1>2. n \in Nat
    BY <1>1, FS_CardinalityType
<1>3. ASSUME NEW x \in S PROVE IsFiniteSet(Earlier(x)) /\ Cardinality(Earlier(x)) \in Nat /\ Cardinality(Earlier(x)) <= n - 1
    <2>1. x \notin Earlier(x) /\ Earlier(x) \in SUBSET (S \ {x})
        BY DEF Orders
    <2>2. IsFiniteSet(S \ {x}) /\ Cardinality(S \ {x}) = n - 1
        BY <1>1, FS_RemoveElement
    <2>3. IsFiniteSet(Earlier(x)) /\ Cardinality(Earlier(x)) <= Cardinality(S \ {x})
        BY <2>1, <2>2, FS_Subset
    <2>4. Cardinality(Earlier(x)) \in Nat
        BY <2>3, FS_CardinalityType
    <2> QED
        BY <2>2, <2>3, <2>4
<1>4. ASSUME NEW x \in S, NEW y \in S, <<x, y>> \in R PROVE Cardinality(Earlier(x)) < Cardinality(Earlier(y))
    <2>1. Earlier(x) \in SUBSET Earlier(y)
        BY <1>4 DEF Orders
    <2>2. x \in Earlier(y) /\ x \notin Earlier(x)
        BY <1>4 DEF Orders
    <2>3. IsFiniteSet(Earlier(y))
        BY <1>3
    <2>4. Cardinality(Earlier(x)) <= Cardinality(Earlier(y)) /\ (Cardinality(Earlier(y)) = Cardinality(Earlier(x)) => Earlier(y) = Earlier(x))
        BY <2>1, <2>3, FS_Subset
    <2>5. Cardinality(Earlier(x)) # Cardinality(Earlier(y))
        BY <2>2, <2>4
    <2> QED
        BY <1>3, <2>4, <2>5
<1> DEFINE rank == [x \in S |-> Cardinality(Earlier(x)) + 1]
<1>5. rank \in [S -> 1..n]
    <2>1. ASSUME NEW x \in S PROVE Cardinality(Earlier(x)) + 1 \in 1..n
        <3>1. PICK c : c = Cardinality(Earlier(x))
            OBVIOUS
        <3>2. c \in Nat /\ c <= n - 1
            BY <1>3, <3>1
        <3>3. c + 1 \in 1..n
            BY <1>2, <3>2
        <3> QED
            BY <3>1, <3>3
    <2> QED
        BY <2>1
<1>6. \A x, y \in S : <<x, y>> \in R => rank[x] < rank[y]
    <2>1. ASSUME NEW x \in S, NEW y \in S, <<x, y>> \in R PROVE rank[x] < rank[y]
        <3>1. Cardinality(Earlier(x)) < Cardinality(Earlier(y)) /\ Cardinality(Earlier(x)) \in Nat /\ Cardinality(Earlier(y)) \in Nat
            BY <1>3, <1>4, <2>1
        <3>2. rank[x] = Cardinality(Earlier(x)) + 1 /\ rank[y] = Cardinality(Earlier(y)) + 1
            OBVIOUS
        <3> HIDE DEF rank, Earlier
        <3> QED
            BY <3>1, <3>2
    <2> QED
        BY <2>1
<1> HIDE DEF rank, Earlier
<1>7. \A x, y \in S : x # y => rank[x] # rank[y]
    <2>1. ASSUME NEW x \in S, NEW y \in S, x # y PROVE rank[x] # rank[y]
        <3>1. rank[x] \in Int /\ rank[y] \in Int
            BY <1>5
        <3>2. <<x, y>> \in R \/ <<y, x>> \in R
            BY <2>1 DEF Orders
        <3>3. rank[x] < rank[y] \/ rank[y] < rank[x]
            BY <1>6, <3>2
        <3> QED
            BY <3>1, <3>3
    <2> QED
        BY <2>1
<1>8. \A i \in 1..n : \E x \in S : rank[x] = i
    <2>1. rank \in Injection(S, 1..n)
        BY <1>5, <1>7 DEF Injection, IsInjective
    <2>2. IsFiniteSet(1..n) /\ Cardinality(1..n) = n
        <3>1. IsFiniteSet(1..n) /\ Cardinality(1..n) = IF 1 > n THEN 0 ELSE n - 1 + 1
            BY <1>2, FS_Interval
        <3> QED
            BY <1>2, <3>1
    <2>3. rank \in Surjection(S, 1..n)
        BY <1>1, <2>1, <2>2, FS_Injection
    <2> QED
        BY <2>3 DEF Surjection
<1> DEFINE f == [i \in 1..n |-> CHOOSE x \in S : rank[x] = i]
<1>9. \A i \in 1..n : f[i] \in S /\ rank[f[i]] = i
    BY <1>8
<1>10. f \in [1..n -> S]
    BY <1>9
<1> HIDE DEF f
<1>11. \A i, j \in 1..n : i < j => <<f[i], f[j]>> \in R
    <2>1. ASSUME NEW i \in 1..n, NEW j \in 1..n, i < j PROVE <<f[i], f[j]>> \in R
        <3>1. f[i] \in S /\ f[j] \in S /\ rank[f[i]] = i /\ rank[f[j]] = j
            BY <1>9
        <3>2. i # j /\ ~(j < i)
            BY <2>1
        <3>3. f[i] # f[j]
            BY <3>1, <3>2
        <3>4. <<f[j], f[i]>> \notin R
            BY <1>6, <3>1, <3>2
        <3> QED
            BY <3>1, <3>3, <3>4 DEF Orders
    <2> QED
        BY <2>1
<1>12. Enumerates(f, n, S, R)
    BY <1>10, <1>11 DEF Enumerates
<1> QED
    BY <1>1, <1>2, <1>12

\* Every element is listed, and once.
LEMMA ListIsWhole ==
    ASSUME NEW S, IsFiniteSet(S), NEW R, Orders(R, S), NEW f, Enumerates(f, Cardinality(S), S, R)
    PROVE  /\ \A x \in S : \E i \in 1..Cardinality(S) : f[i] = x
           /\ \A i, j \in 1..Cardinality(S) : f[i] = f[j] => i = j
<1>1. PICK n : n = Cardinality(S)
    OBVIOUS
<1>2. n \in Nat
    BY <1>1, FS_CardinalityType
<1>3. f \in [1..n -> S] /\ \A i, j \in 1..n : i < j => <<f[i], f[j]>> \in R
    BY <1>1 DEF Enumerates
<1>4. \A i, j \in 1..n : f[i] = f[j] => i = j
    <2>1. ASSUME NEW i \in 1..n, NEW j \in 1..n, f[i] = f[j], i # j PROVE FALSE
        <3>1. i < j \/ j < i
            BY <2>1
        <3>2. <<f[i], f[i]>> \in R /\ f[i] \in S
            BY <1>3, <2>1, <3>1
        <3> QED
            BY <3>2 DEF Orders
    <2> QED
        BY <2>1
<1>5. IsFiniteSet(1..n) /\ Cardinality(1..n) = n
    <2>1. IsFiniteSet(1..n) /\ Cardinality(1..n) = IF 1 > n THEN 0 ELSE n - 1 + 1
        BY <1>2, FS_Interval
    <2> QED
        BY <1>2, <2>1
<1>6. f \in Injection(1..n, S)
    BY <1>3, <1>4 DEF Injection, IsInjective
<1>7. f \in Surjection(1..n, S)
    BY <1>1, <1>5, <1>6, FS_Injection
<1>8. \A x \in S : \E i \in 1..n : f[i] = x
    BY <1>7 DEF Surjection
<1> QED
    BY <1>1, <1>4, <1>8

\* So is what the database orders.
LEMMA OrderedLists ==
    ASSUME NEW S, IsFiniteSet(S), NEW R, Orders(R, S)
    PROVE  /\ Enumerates(Pag!Ordered(S, R), Cardinality(S), S, R)
           /\ Pag!Ordered(S, R) \in Seq(S) /\ Len(Pag!Ordered(S, R)) = Cardinality(S) /\ Cardinality(S) \in Nat
<1>1. PICK n : n = Cardinality(S)
    OBVIOUS
<1>2. n = Pag!Cardinality(S) /\ n \in Nat
    BY <1>1, SameCardinality, FS_CardinalityType
<1>3. PICK f : Enumerates(f, n, S, R)
    BY <1>1, ListIsThere
<1>4. f \in [1..n -> S] /\ DOMAIN f = 1..n /\ \A i, j \in DOMAIN f : i < j => <<f[i], f[j]>> \in R
    BY <1>3 DEF Enumerates
<1> DEFINE g == CHOOSE s \in [1..n -> S] : \A i, j \in DOMAIN s : i < j => <<s[i], s[j]>> \in R
<1>5. g \in [1..n -> S] /\ \A i, j \in DOMAIN g : i < j => <<g[i], g[j]>> \in R
    BY <1>4
<1>6. Pag!Ordered(S, R) = g
    BY <1>2 DEF Pag!Ordered
<1> HIDE DEF g
<1>7. Enumerates(g, n, S, R)
    BY <1>5 DEF Enumerates
<1>8. g \in Seq(S) /\ Len(g) = n
    BY <1>2, <1>5
<1> QED
    BY <1>1, <1>2, <1>6, <1>7, <1>8

\* r are the elements of s after the first 'from', up to number 'end'.
PartOf(r, T, s, from, end) ==
    /\ r \in Seq(T) /\ end \in Nat /\ from <= end /\ Len(r) = end - from
    /\ \A k \in 1..(end - from) : r[k] = s[from + k]

\* The rows from one to another.
LEMMA PartIs ==
    ASSUME NEW T, NEW s \in Seq(T), NEW from \in Nat, NEW to \in Nat, from <= to, from <= Len(s), NEW end, end = IF to < Len(s) THEN to ELSE Len(s)
    PROVE  PartOf(Pag!Rows(s, from + 1, to), T, s, from, end)
<1>1. PICK n : n = Len(s)
    OBVIOUS
<1>2. n \in Nat /\ DOMAIN s = 1..n /\ \A i \in 1..n : s[i] \in T
    BY <1>1
<1>3. end \in Nat /\ from <= end /\ end <= n
    BY <1>1, <1>2
<1>4. Pag!Rows(s, from + 1, to) = SubSeq(s, from + 1, end)
    BY DEF Pag!Rows
<1>5. PICK m : m = from + 1
    OBVIOUS
<1>6. m \in Int /\ end \in Int /\ m >= 1 /\ m <= end + 1
    BY <1>3, <1>5
<1>7. \A i \in m..end : s[i] \in T
    <2>1. \A i \in m..end : i \in 1..n
        BY <1>2, <1>3, <1>6
    <2> QED
        BY <1>2, <2>1
<1>8. /\ SubSeq(s, m, end) \in Seq(T)
      /\ Len(SubSeq(s, m, end)) = IF m <= end THEN end - m + 1 ELSE 0
      /\ \A i \in 1..(end - m + 1) : SubSeq(s, m, end)[i] = s[m + i - 1]
    BY <1>6, <1>7, SubSeqProperties
<1>9. (IF m <= end THEN end - m + 1 ELSE 0) = end - from /\ end - m + 1 = end - from
    BY <1>3, <1>5
<1>10. \A k \in 1..(end - from) : SubSeq(s, m, end)[k] = s[from + k]
    <2>1. ASSUME NEW k \in 1..(end - from) PROVE SubSeq(s, m, end)[k] = s[from + k]
        <3>1. m + k - 1 = from + k /\ k \in 1..(end - m + 1)
            BY <1>3, <1>5, <1>9
        <3> QED
            BY <1>8, <3>1
    <2> QED
        BY <2>1
<1> QED
    BY <1>3, <1>4, <1>5, <1>8, <1>9, <1>10 DEF PartOf

PageType ==
    /\ time \in 0..MaxTime /\ lastId \in 0..MaxRow /\ DOMAIN listed \subseteq 1..lastId
    /\ \A i \in DOMAIN listed : listed[i] \in [created : 1..time, updated : 1..time, deleted : BOOLEAN]
    /\ open \in [Users -> [at : 0..time, id : 0..lastId]]
    /\ \A u \in Users : open[u].id # 0 => open[u].at # 0
    /\ walk \in [list : {"cursor", "page", "timeline"}, next : Nat, shown : Seq(DOMAIN listed), state : {"before", "reading", "done"}]
    /\ walk.state = "before" => walk.next = 0 /\ walk.shown = <<>>
    /\ walk.list = "timeline" => \A i \in DOMAIN listed : ~listed[i].deleted
    /\ atStart \subseteq DOMAIN listed /\ changed \in BOOLEAN

\* An id is given once, and no two rows were written at the same time.
PageOnce ==
    /\ \A i, j \in DOMAIN listed : i # j => listed[i].updated # listed[j].updated
    /\ \A u \in Users, i \in DOMAIN listed : listed[i].updated # open[u].at /\ i # open[u].id
    /\ \A u, v \in Users : u # v =>
          /\ open[u].at # 0 => open[u].at # open[v].at
          /\ open[u].id # 0 => open[u].id # open[v].id

\* In a list continued by id, i comes before j.
Goes(list, i, j) == IF list = "cursor" THEN i > j ELSE i < j

InIdOrder(rws) == \A i, j \in DOMAIN rws : i < j => rws[i].created < rws[j].created

\* A list read by id: what was shown is in order, and comes before what is left.
Walked ==
    walk.list # "page" /\ (walk.list = "timeline" => InIdOrder(listed)) =>
        /\ \A a, b \in DOMAIN walk.shown : a < b => Goes(walk.list, walk.shown[a], walk.shown[b])
        /\ walk.state = "reading" => \A a \in DOMAIN walk.shown : walk.next # 0 /\ ~Goes(walk.list, walk.next, walk.shown[a])
        /\ walk.state # "before" =>
             \A i \in atStart : i \in Pag!Live =>
                \/ \E a \in DOMAIN walk.shown : walk.shown[a] = i
                \/ walk.state = "reading" /\ Pag!After(i)

\* The rows as the pages have them.
NewestFirst(rws, live) == {p \in live \X live : rws[p[1]].updated > rws[p[2]].updated}

\* A list read by page, while nothing is written: the pages so far are its first rows.
Turned(n) == IF walk.state = "reading" THEN walk.next * PageSize ELSE n

Paged ==
    walk.list = "page" /\ ~changed /\ walk.state # "before" =>
        /\ atStart = Pag!Live
        /\ Turned(Cardinality(Pag!Live)) <= Cardinality(Pag!Live)
        /\ Len(walk.shown) = Turned(Cardinality(Pag!Live))
        /\ \A a \in DOMAIN walk.shown : walk.shown[a] = Pag!Ordered(Pag!Live, NewestFirst(listed, Pag!Live))[a]

PageInv == PageType /\ PageOnce /\ Walked /\ Paged

\* The rows as a list continued by id has them.
ById(rws, live, list) ==
    {p \in live \X live :
        IF list = "cursor" THEN p[1] > p[2]
        ELSE \/ rws[p[1]].created < rws[p[2]].created
             \/ rws[p[1]].created = rws[p[2]].created /\ p[1] < p[2]}

Sorted(list, s) == \A a, b \in DOMAIN s : a < b => Goes(list, s[a], s[b])

LEMMA SizeIs == PageSize \in Nat /\ PageSize > 0
    BY PagesAssumption DEF PagesAssumption

LEMMA LongerLists ==
    ASSUME NEW S, NEW T, S \subseteq T
    PROVE  \A s \in Seq(S) : s \in Seq(T)
    OBVIOUS

LEMMA LiveIs ==
    ASSUME PageType
    PROVE  /\ Pag!Live \subseteq DOMAIN listed /\ DOMAIN listed \subseteq Nat \ {0}
           /\ IsFiniteSet(Pag!Live)
<1>1. lastId \in Nat /\ DOMAIN listed \subseteq 1..lastId
    BY PagesAssumption DEF PageType
<1>2. Pag!Live \in SUBSET (1..lastId)
    BY <1>1 DEF Pag!Live
<1>3. IsFiniteSet(1..lastId)
    BY <1>1, FS_Interval
<1>4. IsFiniteSet(Pag!Live)
    BY <1>2, <1>3, FS_Subset
<1>5. DOMAIN listed \subseteq Nat \ {0}
    BY <1>1
<1> QED
    BY <1>4, <1>5 DEF Pag!Live

\* The pairs of an order.
LEMMA ByIdPair ==
    ASSUME NEW rws, NEW live, NEW list, NEW x \in live, NEW y \in live
    PROVE  <<x, y>> \in ById(rws, live, list) <=>
             IF list = "cursor" THEN x > y
             ELSE rws[x].created < rws[y].created \/ (rws[x].created = rws[y].created /\ x < y)
    BY DEF ById

LEMMA NewestPair ==
    ASSUME NEW rws, NEW live, NEW x \in live, NEW y \in live
    PROVE  <<x, y>> \in NewestFirst(rws, live) <=> rws[x].updated > rws[y].updated
    BY DEF NewestFirst

LEMMA ByIdOrders ==
    ASSUME NEW rws, NEW live \in SUBSET Nat, NEW list, NEW S \in SUBSET live, \A x \in live : rws[x].created \in Int
    PROVE  Orders(ById(rws, live, list), S)
<1> DEFINE R == ById(rws, live, list)
<1>1. \A x \in S : x \in live
    OBVIOUS
<1>2. \A x \in live : x \in Nat
    OBVIOUS
<1>3. \A x \in S : x \in Int /\ rws[x].created \in Int
    BY <1>1, <1>2
<1>4. ASSUME NEW x \in S PROVE <<x, x>> \notin R
    <2>1. x \in live /\ x \in Int /\ rws[x].created \in Int
        BY <1>1, <1>3
    <2>2. <<x, x>> \in R <=> IF list = "cursor" THEN x > x ELSE rws[x].created < rws[x].created \/ (rws[x].created = rws[x].created /\ x < x)
        BY <2>1, ByIdPair
    <2> HIDE DEF R
    <2> QED
        BY <2>1, <2>2
<1>5. ASSUME NEW x \in S, NEW y \in S, x # y PROVE <<x, y>> \in R \/ <<y, x>> \in R
    <2>1. x \in live /\ y \in live /\ x \in Int /\ y \in Int /\ rws[x].created \in Int /\ rws[y].created \in Int
        BY <1>1, <1>3
    <2>2. <<x, y>> \in R <=> IF list = "cursor" THEN x > y ELSE rws[x].created < rws[y].created \/ (rws[x].created = rws[y].created /\ x < y)
        BY <2>1, ByIdPair
    <2>3. <<y, x>> \in R <=> IF list = "cursor" THEN y > x ELSE rws[y].created < rws[x].created \/ (rws[y].created = rws[x].created /\ y < x)
        BY <2>1, ByIdPair
    <2> HIDE DEF R
    <2> QED
        BY <1>5, <2>1, <2>2, <2>3
<1>6. ASSUME NEW x \in S, NEW y \in S, NEW z \in S, <<x, y>> \in R, <<y, z>> \in R PROVE <<x, z>> \in R
    <2>1. x \in live /\ y \in live /\ z \in live /\ x \in Int /\ y \in Int /\ z \in Int
          /\ rws[x].created \in Int /\ rws[y].created \in Int /\ rws[z].created \in Int
        BY <1>1, <1>3
    <2>2. IF list = "cursor" THEN x > y ELSE rws[x].created < rws[y].created \/ (rws[x].created = rws[y].created /\ x < y)
        BY <1>6, <2>1, ByIdPair
    <2>3. IF list = "cursor" THEN y > z ELSE rws[y].created < rws[z].created \/ (rws[y].created = rws[z].created /\ y < z)
        BY <1>6, <2>1, ByIdPair
    <2>4. <<x, z>> \in R <=> IF list = "cursor" THEN x > z ELSE rws[x].created < rws[z].created \/ (rws[x].created = rws[z].created /\ x < z)
        BY <2>1, ByIdPair
    <2> HIDE DEF R
    <2> QED
        BY <2>1, <2>2, <2>3, <2>4
<1> QED
    BY <1>4, <1>5, <1>6 DEF Orders

LEMMA NewestOrders ==
    ASSUME NEW rws, NEW live,
           \A x \in live : rws[x].updated \in Int,
           \A x, y \in live : x # y => rws[x].updated # rws[y].updated
    PROVE  Orders(NewestFirst(rws, live), live)
<1> DEFINE R == NewestFirst(rws, live)
<1>1. \A x, y \in live : <<x, y>> \in R <=> rws[x].updated > rws[y].updated
    BY NewestPair
<1> HIDE DEF R
<1>2. ASSUME NEW x \in live PROVE <<x, x>> \notin R
    BY <1>1
<1>3. ASSUME NEW x \in live, NEW y \in live, x # y PROVE <<x, y>> \in R \/ <<y, x>> \in R
    <2>1. rws[x].updated \in Int /\ rws[y].updated \in Int /\ rws[x].updated # rws[y].updated
        BY <1>3
    <2>2. rws[x].updated > rws[y].updated \/ rws[y].updated > rws[x].updated
        BY <2>1
    <2> QED
        BY <1>1, <2>2
<1>4. ASSUME NEW x \in live, NEW y \in live, NEW z \in live, <<x, y>> \in R, <<y, z>> \in R PROVE <<x, z>> \in R
    <2>1. rws[x].updated > rws[y].updated /\ rws[y].updated > rws[z].updated
        BY <1>1, <1>4
    <2>2. rws[x].updated > rws[z].updated
        BY <2>1
    <2> QED
        BY <1>1, <2>2
<1>5. Orders(R, live)
    BY <1>2, <1>3, <1>4 DEF Orders
<1> QED
    BY <1>5 DEF R

\* What is left of a list continued by id, in order.
LEMMA LeftIs ==
    ASSUME PageType, walk.list \in {"cursor", "timeline"}
    PROVE  /\ Pag!Left \in Seq(Pag!Live)
           /\ \A k \in 1..Len(Pag!Left) : Pag!After(Pag!Left[k])
           /\ \A i \in Pag!Live : Pag!After(i) => \E k \in 1..Len(Pag!Left) : Pag!Left[k] = i
           /\ (walk.list = "timeline" => InIdOrder(listed)) => Sorted(walk.list, Pag!Left)
<1> DEFINE S == {i \in Pag!Live : Pag!After(i)}
           R == ById(listed, Pag!Live, walk.list)
<1>1. Pag!Live \subseteq DOMAIN listed /\ Pag!Live \in SUBSET Nat /\ IsFiniteSet(Pag!Live)
    BY LiveIs
<1>2. \A x \in Pag!Live : listed[x].created \in Int
    BY <1>1, PagesAssumption DEF PageType
<1>3. S \in SUBSET Pag!Live /\ IsFiniteSet(S)
    BY <1>1, FS_Subset
<1>4. Orders(R, S)
    BY <1>1, <1>2, <1>3, ByIdOrders
<1>5. Pag!Left = Pag!Ordered(S, R)
    BY DEF Pag!Left, ById
<1>6. \A x, y \in S : <<x, y>> \in R /\ (walk.list = "timeline" => InIdOrder(listed)) => Goes(walk.list, x, y)
    <2>1. ASSUME NEW x \in S, NEW y \in S, <<x, y>> \in R, walk.list = "timeline" => InIdOrder(listed) PROVE Goes(walk.list, x, y)
        <3>1. x \in Pag!Live /\ y \in Pag!Live /\ x \in Int /\ y \in Int
            BY <1>1, <1>3
        <3>2. IF walk.list = "cursor" THEN x > y
              ELSE listed[x].created < listed[y].created \/ (listed[x].created = listed[y].created /\ x < y)
            BY <2>1, <3>1, ByIdPair
        <3>3. CASE walk.list = "cursor"
            BY <3>2, <3>3 DEF Goes
        <3>4. CASE walk.list = "timeline"
            <4>1. listed[x].created \in Int /\ listed[y].created \in Int
                BY <1>2, <3>1
            <4>2. y < x => listed[y].created < listed[x].created
                BY <1>1, <2>1, <3>1, <3>4 DEF InIdOrder
            <4>3. x # y
                BY <3>2, <3>4, <4>1, <3>1
            <4>4. ~(y < x)
                BY <3>2, <3>4, <4>1, <4>2
            <4>5. x < y
                BY <3>1, <4>3, <4>4
            <4> QED
                BY <3>4, <4>5 DEF Goes
        <3> QED
            BY <3>3, <3>4
    <2> QED
        BY <2>1
<1>7. \A i \in S : i \in Pag!Live /\ Pag!After(i)
    OBVIOUS
<1>8. \A i \in Pag!Live : Pag!After(i) => i \in S
    OBVIOUS
<1> HIDE DEF S, R
<1> DEFINE s == Pag!Ordered(S, R)
<1>9. Enumerates(s, Cardinality(S), S, R) /\ s \in Seq(S) /\ Len(s) = Cardinality(S) /\ Cardinality(S) \in Nat
    BY <1>3, <1>4, OrderedLists
<1>10. \A x \in S : \E k \in 1..Cardinality(S) : s[k] = x
    BY <1>3, <1>4, <1>9, ListIsWhole
<1> HIDE DEF s
<1>11. s \in Seq(Pag!Live)
    BY <1>3, <1>9, LongerLists
<1>12. \A k \in 1..Len(s) : s[k] \in S
    BY <1>9 DEF Enumerates
<1>13. \A i \in Pag!Live : Pag!After(i) => \E k \in 1..Len(s) : s[k] = i
    BY <1>8, <1>9, <1>10
<1>14. (walk.list = "timeline" => InIdOrder(listed)) => Sorted(walk.list, s)
    <2>1. \A a, b \in 1..Len(s) : a < b => <<s[a], s[b]>> \in R
        BY <1>9 DEF Enumerates
    <2>2. DOMAIN s = 1..Len(s)
        BY <1>9
    <2>3. ASSUME walk.list = "timeline" => InIdOrder(listed), NEW a \in 1..Len(s), NEW b \in 1..Len(s), a < b
          PROVE  Goes(walk.list, s[a], s[b])
        BY <1>6, <1>12, <2>1, <2>3
    <2> QED
        BY <2>2, <2>3 DEF Sorted
<1> QED
    BY <1>5, <1>7, <1>11, <1>12, <1>13, <1>14 DEF s

JoinedTo(new, S, s, t, l, k) ==
    /\ new \in Seq(S) /\ Len(new) = l + k
    /\ \A a \in 1..l : new[a] = s[a]
    /\ \A a \in 1..k : new[l + a] = t[a]

LEMMA JoinedAs ==
    ASSUME NEW S, NEW s \in Seq(S), NEW t \in Seq(S), NEW l, NEW k, l = Len(s), k = Len(t)
    PROVE  JoinedTo(s \o t, S, s, t, l, k)
    BY DEF JoinedTo

WalkedOn(list, old, s, k, new) ==
    /\ Sorted(list, new)
    /\ k > 0 => s[k] # 0 /\ \A a \in DOMAIN new : ~Goes(list, s[k], new[a])
    /\ \A a \in DOMAIN old : \E b \in DOMAIN new : new[b] = old[a]
    /\ \A a \in 1..k : \E b \in DOMAIN new : new[b] = s[a]

\* A list that is in order stays so with the first rows of what is left.
LEMMA WalkOn ==
    ASSUME NEW list \in {"cursor", "timeline"}, NEW T \in SUBSET (Nat \ {0}), NEW next \in Nat,
           NEW old \in Seq(T), NEW s \in Seq(T), NEW k \in 0..Len(s),
           NEW take \in Seq(T), Len(take) = k, \A a \in 1..k : take[a] = s[a],
           Sorted(list, old), Sorted(list, s),
           \A a \in DOMAIN old : next # 0 /\ ~Goes(list, next, old[a]),
           \A a \in 1..Len(s) : next = 0 \/ Goes(list, next, s[a])
    PROVE  WalkedOn(list, old, s, k, old \o take)
<1> DEFINE new == old \o take
<1>1. \A x \in T : x \in Nat /\ x \in Int /\ x # 0
    <2>1. \A x \in T : x \in Nat \ {0}
        OBVIOUS
    <2>2. \A x \in Nat \ {0} : x \in Nat /\ x \in Int /\ x # 0
        OBVIOUS
    <2> QED
        BY <2>1, <2>2
<1>2. PICK n, l : n = Len(s) /\ l = Len(old)
    OBVIOUS
<1>3. /\ n \in Nat /\ l \in Nat /\ k \in Nat /\ k <= n /\ DOMAIN old = 1..l /\ DOMAIN s = 1..n
      /\ \A a \in 1..l : old[a] \in T
      /\ \A a \in 1..n : s[a] \in T
    BY <1>2
<1>4. /\ new \in Seq(T) /\ Len(new) = l + k
      /\ \A a \in 1..l : new[a] = old[a]
      /\ \A a \in 1..k : new[l + a] = take[a]
    <2>1. old \in Seq(T) /\ take \in Seq(T) /\ l = Len(old) /\ k = Len(take)
        BY <1>2
    <2> QED
        BY <2>1, JoinedAs DEF JoinedTo
<1> HIDE DEF new
<1>5. DOMAIN new = 1..(l + k)
    BY <1>3, <1>4
<1>6. \A a \in 1..k : new[l + a] = s[a] /\ a \in 1..n /\ l + a \in 1..(l + k)
    BY <1>3, <1>4
<1>7. \A c \in 1..(l + k) : c \in 1..l \/ (c - l \in 1..k /\ c = l + (c - l))
    BY <1>3
<1>8. \A a \in 1..l, b \in 1..n : Goes(list, old[a], s[b])
    <2>1. ASSUME NEW a \in 1..l, NEW b \in 1..n PROVE Goes(list, old[a], s[b])
        <3>1. next # 0 /\ ~Goes(list, next, old[a]) /\ Goes(list, next, s[b])
            BY <1>2, <1>3
        <3>2. old[a] \in T /\ s[b] \in T
            BY <1>3
        <3>3. old[a] \in Int /\ s[b] \in Int
            BY <1>1, <3>2
        <3> QED
            BY <3>1, <3>3 DEF Goes
    <2> QED
        BY <2>1
<1>9. \A a, b \in 1..l : a < b => Goes(list, old[a], old[b])
    BY <1>3 DEF Sorted
<1>10. \A a, b \in 1..n : a < b => Goes(list, s[a], s[b])
    BY <1>3 DEF Sorted
<1>11. ASSUME NEW a \in 1..(l + k), NEW b \in 1..(l + k), a < b PROVE Goes(list, new[a], new[b])
    <2>1. CASE a \in 1..l /\ b \in 1..l
        BY <1>4, <1>9, <1>11, <2>1
    <2>2. CASE a \in 1..l /\ b - l \in 1..k /\ b = l + (b - l)
        <3>1. new[b] = s[b - l] /\ b - l \in 1..n
            BY <1>6, <2>2
        <3> QED
            BY <1>4, <1>8, <2>2, <3>1
    <2>3. CASE a - l \in 1..k /\ a = l + (a - l) /\ b - l \in 1..k /\ b = l + (b - l)
        <3>1. new[a] = s[a - l] /\ new[b] = s[b - l] /\ a - l \in 1..n /\ b - l \in 1..n
            BY <1>6, <2>3
        <3>2. a - l < b - l
            BY <1>3, <1>11
        <3> QED
            BY <1>10, <3>1, <3>2
    <2>4. ~(a - l \in 1..k /\ b \in 1..l)
        BY <1>3, <1>11
    <2> QED
        BY <1>7, <2>1, <2>2, <2>3, <2>4
<1>12. Sorted(list, new)
    BY <1>5, <1>11 DEF Sorted
<1>13. ASSUME k > 0 PROVE s[k] # 0 /\ \A a \in DOMAIN new : ~Goes(list, s[k], new[a])
    <2>1. k \in 1..n /\ s[k] \in Int /\ s[k] # 0
        <3>1. k \in 1..n
            BY <1>3, <1>13
        <3> QED
            BY <1>1, <1>3, <3>1
    <2>2. ASSUME NEW a \in 1..(l + k) PROVE ~Goes(list, s[k], new[a])
        <3>1. CASE a \in 1..l
            <4>1. Goes(list, old[a], s[k]) /\ new[a] = old[a] /\ old[a] \in Int
                BY <1>1, <1>3, <1>4, <1>8, <2>1, <3>1
            <4> QED
                BY <2>1, <4>1 DEF Goes
        <3>2. CASE a - l \in 1..k /\ a = l + (a - l)
            <4>1. PICK c : c = a - l
                OBVIOUS
            <4>2. new[a] = s[c] /\ c \in 1..n /\ c <= k
                BY <1>6, <3>2, <4>1
            <4>3. c = k \/ Goes(list, s[c], s[k])
                BY <1>3, <1>10, <2>1, <4>2
            <4>4. s[c] \in Int
                BY <1>1, <1>3, <4>2
            <4> QED
                BY <2>1, <4>2, <4>3, <4>4 DEF Goes
        <3> QED
            BY <1>7, <3>1, <3>2
    <2> QED
        BY <1>5, <2>1, <2>2
<1>14. \A a \in DOMAIN old : \E b \in DOMAIN new : new[b] = old[a]
    <2>1. ASSUME NEW a \in 1..l PROVE a \in 1..(l + k) /\ new[a] = old[a]
        BY <1>3, <1>4
    <2> QED
        BY <1>3, <1>5, <2>1
<1>15. \A a \in 1..k : \E b \in DOMAIN new : new[b] = s[a]
    BY <1>5, <1>6
<1> QED
    BY <1>12, <1>13, <1>14, <1>15 DEF new, WalkedOn
LEMMA PageInit == Pag!Init => PageInv
<1> SUFFICES ASSUME Pag!Init PROVE PageInv
    OBVIOUS
<1>1. /\ listed = <<>> /\ time = 0 /\ lastId = 0 /\ atStart = {} /\ changed = FALSE
      /\ open = [u \in Users |-> [at |-> 0, id |-> 0]]
      /\ walk \in [list : {"cursor", "page", "timeline"}, next : {0}, shown : {<<>>}, state : {"before"}]
    BY DEF Pag!Init, Pag!Closed
<1>2. DOMAIN listed = {} /\ 0 \in 0..MaxTime /\ 0 \in 0..MaxRow
    BY <1>1, PagesAssumption DEF PagesAssumption
<1>3. walk.next = 0 /\ walk.shown = <<>> /\ walk.state = "before"
    BY <1>1
<1>4. <<>> \in Seq(DOMAIN listed) /\ 0 \in Nat
    OBVIOUS
<1>5. walk \in [list : {"cursor", "page", "timeline"}, next : Nat, shown : Seq(DOMAIN listed), state : {"before", "reading", "done"}]
    BY <1>1, <1>4
<1>6. open \in [Users -> [at : 0..time, id : 0..lastId]] /\ \A u \in Users : open[u].id = 0 /\ open[u].at = 0
    <2>1. [at |-> 0, id |-> 0] \in [at : 0..0, id : 0..0]
        OBVIOUS
    <2> QED
        BY <1>1, <2>1
<1>7. PageType
    <2>1. DOMAIN listed \subseteq 1..lastId /\ atStart \subseteq DOMAIN listed /\ changed \in BOOLEAN
        BY <1>1, <1>2
    <2> QED
        BY <1>1, <1>2, <1>3, <1>5, <1>6, <2>1 DEF PageType
<1>8. PageOnce
    BY <1>2, <1>6 DEF PageOnce
<1>9. DOMAIN walk.shown = {}
    BY <1>3
<1>10. Walked /\ Paged
    BY <1>3, <1>9 DEF Walked, Paged
<1> QED
    BY <1>7, <1>8, <1>10 DEF PageInv

\* Whoever writes leaves a list by id in order.
LEMMA WalkedKept ==
    ASSUME PageType, Walked, walk' = walk, atStart' = atStart, DOMAIN listed \subseteq DOMAIN listed',
           \A i \in DOMAIN listed : /\ listed'[i].created = listed[i].created
                                    /\ listed[i].deleted => listed'[i].deleted
    PROVE  Walked'
<1>1. (walk.list = "timeline" => InIdOrder(listed))' => (walk.list = "timeline" => InIdOrder(listed))
    BY DEF InIdOrder
<1>2. \A i \in atStart : i \in Pag!Live' => i \in Pag!Live
    BY DEF PageType, Pag!Live
<1>3. \A i : Pag!After(i)' <=> Pag!After(i)
    BY DEF Pag!After
<1>4. SUFFICES ASSUME (walk.list # "page" /\ (walk.list = "timeline" => InIdOrder(listed)))'
      PROVE /\ \A a, b \in DOMAIN walk'.shown : a < b => Goes(walk'.list, walk'.shown[a], walk'.shown[b])
            /\ walk'.state = "reading" => \A a \in DOMAIN walk'.shown : walk'.next # 0 /\ ~Goes(walk'.list, walk'.next, walk'.shown[a])
            /\ walk'.state # "before" =>
                 \A i \in atStart' : i \in Pag!Live' =>
                    \/ \E a \in DOMAIN walk'.shown : walk'.shown[a] = i
                    \/ walk'.state = "reading" /\ Pag!After(i)'
    BY DEF Walked
<1>5. walk.list # "page" /\ (walk.list = "timeline" => InIdOrder(listed))
    BY <1>1, <1>4
<1> QED
    BY <1>2, <1>3, <1>5 DEF Walked

\* Where nothing was written, the pages stay as they are.
LEMMA PagedKept ==
    ASSUME Paged, UNCHANGED <<listed, walk, atStart, changed>>
    PROVE  Paged'
<1>1. Pag!Live' = Pag!Live
    BY DEF Pag!Live
<1>2. NewestFirst(listed, Pag!Live)' = NewestFirst(listed, Pag!Live)
    BY <1>1 DEF NewestFirst
<1>3. Pag!Ordered(Pag!Live, NewestFirst(listed, Pag!Live))' = Pag!Ordered(Pag!Live, NewestFirst(listed, Pag!Live))
    BY <1>1, <1>2 DEF Pag!Ordered
<1>4. Cardinality(Pag!Live)' = Cardinality(Pag!Live)
    BY <1>1
<1> QED
    BY <1>1, <1>3, <1>4 DEF Paged, Turned

LEMMA PageStutter == PageInv /\ UNCHANGED pages => PageInv'
<1> SUFFICES ASSUME PageInv, UNCHANGED pages PROVE PageInv'
    OBVIOUS
<1>1. UNCHANGED <<listed, time, lastId, open, walk, atStart, changed>>
    BY DEF pages
<1>2. PageType' /\ PageOnce'
    BY <1>1 DEF PageInv, PageType, PageOnce
<1>3. Walked'
    BY <1>1, WalkedKept DEF PageInv
<1>4. Paged'
    BY <1>1, PagedKept DEF PageInv
<1> QED
    BY <1>2, <1>3, <1>4 DEF PageInv

LEMMA PageBegin ==
    ASSUME PageInv, NEW u \in Users, Pag!Begin(u)
    PROVE  PageInv'
<1>1. /\ open[u] = [at |-> 0, id |-> 0] /\ time < MaxTime /\ time' = time + 1
      /\ open' = [open EXCEPT ![u] = [at |-> time + 1, id |-> 0]]
      /\ UNCHANGED <<listed, lastId, walk, atStart, changed>>
    BY DEF Pag!Begin, Pag!Closed
<1>2. time \in Nat /\ MaxTime \in Nat /\ time' \in 0..MaxTime /\ 0..time \subseteq 0..(time + 1) /\ 1..time \subseteq 1..(time + 1) /\ time + 1 \in 0..(time + 1)
    BY <1>1, PagesAssumption DEF PagesAssumption, PageInv, PageType
<1>3. open \in [Users -> [at : 0..time, id : 0..lastId]] /\ lastId \in Nat
    BY PagesAssumption DEF PageInv, PageType, PagesAssumption
<1>4. open' \in [Users -> [at : 0..time', id : 0..lastId']]
    <2>1. [at |-> time + 1, id |-> 0] \in [at : 0..(time + 1), id : 0..lastId]
        BY <1>2, <1>3
    <2>2. open \in [Users -> [at : 0..(time + 1), id : 0..lastId]]
        BY <1>2, <1>3
    <2> QED
        BY <1>1, <2>1, <2>2
<1>5. \A i \in DOMAIN listed : listed[i] \in [created : 1..(time + 1), updated : 1..(time + 1), deleted : BOOLEAN]
    BY <1>2 DEF PageInv, PageType
<1>6. open'[u].at = time + 1 /\ open'[u].id = 0 /\ \A v \in Users : v # u => open'[v] = open[v]
    BY <1>1, <1>3
<1>7. \A v \in Users : open'[v].id # 0 => open'[v].at # 0
    BY <1>6 DEF PageInv, PageType
<1>8. PageType'
    BY <1>1, <1>2, <1>4, <1>5, <1>7 DEF PageInv, PageType
<1>9. \A i \in DOMAIN listed : listed[i].updated # time + 1 /\ listed[i].updated # 0 /\ i # 0
    <2>1. \A i \in DOMAIN listed : listed[i].updated \in 1..time /\ i \in 1..lastId
        BY DEF PageInv, PageType
    <2> QED
        BY <1>2, <1>3, <2>1
<1>10. \A v \in Users : open[v].at # time + 1
    BY <1>2, <1>3
<1>11. PageOnce'
    <2>1. \A i, j \in DOMAIN listed : i # j => listed[i].updated # listed[j].updated
        BY DEF PageInv, PageOnce
    <2>2. \A v \in Users, i \in DOMAIN listed : listed[i].updated # open'[v].at /\ i # open'[v].id
        BY <1>6, <1>9 DEF PageInv, PageOnce
    <2>3. ASSUME NEW v \in Users, NEW w \in Users, v # w
          PROVE  /\ open'[v].at # 0 => open'[v].at # open'[w].at
                 /\ open'[v].id # 0 => open'[v].id # open'[w].id
        <3>1. CASE v # u /\ w # u
            BY <1>6, <2>3, <3>1 DEF PageInv, PageOnce
        <3>2. CASE v = u
            BY <1>6, <1>10, <2>3, <3>2
        <3>3. CASE w = u
            BY <1>6, <1>10, <2>3, <3>3
        <3> QED
            BY <3>1, <3>2, <3>3
    <2> QED
        BY <1>1, <2>1, <2>2, <2>3 DEF PageOnce
<1>12. Walked' /\ Paged'
    BY <1>1, WalkedKept, PagedKept DEF PageInv
<1> QED
    BY <1>8, <1>11, <1>12 DEF PageInv

LEMMA PageInsert ==
    ASSUME PageInv, NEW u \in Users, Pag!Insert(u)
    PROVE  PageInv'
<1>1. /\ open[u].at > 0 /\ open[u].id = 0 /\ lastId < MaxRow /\ lastId' = lastId + 1
      /\ open' = [open EXCEPT ![u].id = lastId + 1]
      /\ UNCHANGED <<listed, time, walk, atStart, changed>>
    BY DEF Pag!Insert
<1>2. lastId \in Nat /\ lastId' \in 0..MaxRow /\ 0..lastId \subseteq 0..(lastId + 1) /\ 1..lastId \subseteq 1..(lastId + 1) /\ lastId + 1 \in 0..(lastId + 1)
    BY <1>1, PagesAssumption DEF PagesAssumption, PageInv, PageType
<1>3. open \in [Users -> [at : 0..time, id : 0..lastId]] /\ time \in Nat
    BY PagesAssumption DEF PageInv, PageType, PagesAssumption
<1>4. open[u].at \in 0..time /\ open[u].at # 0
    BY <1>1, <1>3
<1>5. open'[u].at = open[u].at /\ open'[u].id = lastId + 1 /\ \A v \in Users : v # u => open'[v] = open[v]
    BY <1>1, <1>3
<1>6. open' \in [Users -> [at : 0..time', id : 0..lastId']]
    <2>1. open \in [Users -> [at : 0..time, id : 0..(lastId + 1)]]
        BY <1>2, <1>3
    <2> QED
        BY <1>1, <1>2, <2>1
<1>7. \A v \in Users : open'[v].id # 0 => open'[v].at # 0
    BY <1>4, <1>5 DEF PageInv, PageType
<1>8. DOMAIN listed' \subseteq 1..lastId'
    BY <1>1, <1>2 DEF PageInv, PageType
<1>9. PageType'
    BY <1>1, <1>2, <1>6, <1>7, <1>8 DEF PageInv, PageType
<1>10. \A i \in DOMAIN listed : i # lastId + 1
    <2>1. DOMAIN listed \subseteq 1..lastId
        BY DEF PageInv, PageType
    <2> QED
        BY <1>2, <2>1
<1>11. \A v \in Users : open[v].id # lastId + 1
    BY <1>2, <1>3
<1>12. PageOnce'
    <2>1. \A i, j \in DOMAIN listed : i # j => listed[i].updated # listed[j].updated
        BY DEF PageInv, PageOnce
    <2>2. \A v \in Users, i \in DOMAIN listed : listed[i].updated # open'[v].at /\ i # open'[v].id
        BY <1>5, <1>10 DEF PageInv, PageOnce
    <2>3. ASSUME NEW v \in Users, NEW w \in Users, v # w
          PROVE  /\ open'[v].at # 0 => open'[v].at # open'[w].at
                 /\ open'[v].id # 0 => open'[v].id # open'[w].id
        <3>1. \A x \in Users : open'[x].at = open[x].at
            BY <1>5
        <3>2. open'[v].at # 0 => open'[v].at # open'[w].at
            BY <2>3, <3>1 DEF PageInv, PageOnce
        <3>3. open'[v].id # 0 => open'[v].id # open'[w].id
            <4>1. CASE v # u /\ w # u
                BY <1>5, <2>3, <4>1 DEF PageInv, PageOnce
            <4>2. CASE v = u
                BY <1>5, <1>11, <2>3, <4>2
            <4>3. CASE w = u
                BY <1>5, <1>11, <2>3, <4>3
            <4> QED
                BY <4>1, <4>2, <4>3
        <3> QED
            BY <3>2, <3>3
    <2> QED
        BY <1>1, <2>1, <2>2, <2>3 DEF PageOnce
<1>13. Walked' /\ Paged'
    BY <1>1, WalkedKept, PagedKept DEF PageInv
<1> QED
    BY <1>9, <1>12, <1>13 DEF PageInv

LEMMA PageCommit ==
    ASSUME PageInv, NEW u \in Users, Pag!Commit(u)
    PROVE  PageInv'
<1> DEFINE id == open[u].id
           row == [created |-> open[u].at, updated |-> open[u].at, deleted |-> FALSE]
<1>1. /\ id > 0 /\ changed' = TRUE
      /\ listed' = [i \in DOMAIN listed \cup {id} |-> IF i = id THEN row ELSE listed[i]]
      /\ open' = [open EXCEPT ![u] = [at |-> 0, id |-> 0]]
      /\ UNCHANGED <<time, lastId, walk, atStart>>
    BY DEF Pag!Commit, Pag!Closed
<1>2. /\ open \in [Users -> [at : 0..time, id : 0..lastId]] /\ lastId \in Nat /\ time \in Nat
      /\ DOMAIN listed \subseteq 1..lastId
    BY PagesAssumption DEF PageInv, PageType, PagesAssumption
<1>3. id \in 1..lastId /\ id # 0 /\ open[u].at \in 1..time /\ open[u].at # 0
    <2>1. open[u].at \in 0..time /\ open[u].id \in 0..lastId
        BY <1>2
    <2>2. open[u].at # 0
        BY <1>1, <2>1 DEF PageInv, PageType
    <2> QED
        BY <1>1, <1>2, <2>1, <2>2
<1>4. id \notin DOMAIN listed
    BY DEF PageInv, PageOnce
<1>5. row \in [created : 1..time, updated : 1..time, deleted : BOOLEAN]
    BY <1>3
<1>6. /\ DOMAIN listed' = DOMAIN listed \cup {id} /\ listed'[id] = row
      /\ \A i \in DOMAIN listed : listed'[i] = listed[i]
    BY <1>1, <1>4
<1>7. row.updated = open[u].at /\ row.deleted = FALSE
    OBVIOUS
<1>8. open'[u].at = 0 /\ open'[u].id = 0 /\ \A v \in Users : v # u => open'[v] = open[v]
    BY <1>1, <1>2
<1>9. open' \in [Users -> [at : 0..time, id : 0..lastId]]
    BY <1>1, <1>2
<1> HIDE DEF row, id
<1>10. PageType'
    <2>1. DOMAIN listed' \subseteq 1..lastId
        BY <1>2, <1>3, <1>6
    <2>2. \A i \in DOMAIN listed' : listed'[i] \in [created : 1..time, updated : 1..time, deleted : BOOLEAN]
        BY <1>5, <1>6 DEF PageInv, PageType
    <2>3. \A v \in Users : open'[v].id # 0 => open'[v].at # 0
        BY <1>8 DEF PageInv, PageType
    <2>4. walk \in [list : {"cursor", "page", "timeline"}, next : Nat, shown : Seq(DOMAIN listed'), state : {"before", "reading", "done"}]
        <3>1. walk \in [list : {"cursor", "page", "timeline"}, next : Nat, shown : Seq(DOMAIN listed), state : {"before", "reading", "done"}]
            BY DEF PageInv, PageType
        <3>2. walk.shown \in Seq(DOMAIN listed')
            BY <1>6, <3>1, LongerLists
        <3> QED
            BY <3>1, <3>2
    <2>5. walk.list = "timeline" => \A i \in DOMAIN listed' : ~listed'[i].deleted
        BY <1>6, <1>7 DEF PageInv, PageType
    <2>6. atStart \subseteq DOMAIN listed'
        BY <1>6 DEF PageInv, PageType
    <2> QED
        BY <1>1, <1>9, <2>1, <2>2, <2>3, <2>4, <2>5, <2>6 DEF PageInv, PageType
<1>11. PageOnce'
    <2>1. ASSUME NEW i \in DOMAIN listed', NEW j \in DOMAIN listed', i # j PROVE listed'[i].updated # listed'[j].updated
        <3>1. CASE i \in DOMAIN listed /\ j \in DOMAIN listed
            BY <1>6, <2>1, <3>1 DEF PageInv, PageOnce
        <3>2. CASE i = id /\ j \in DOMAIN listed
            BY <1>6, <1>7, <3>2 DEF PageInv, PageOnce
        <3>3. CASE j = id /\ i \in DOMAIN listed
            BY <1>6, <1>7, <3>3 DEF PageInv, PageOnce
        <3> QED
            BY <1>6, <2>1, <3>1, <3>2, <3>3
    <2>2. ASSUME NEW v \in Users, NEW i \in DOMAIN listed' PROVE listed'[i].updated # open'[v].at /\ i # open'[v].id
        <3>1. CASE v = u
            <4>1. listed'[i].updated # 0 /\ i # 0
                <5>1. listed'[i].updated \in 1..time /\ i \in 1..lastId
                    BY <1>1, <1>10 DEF PageType
                <5> QED
                    BY <1>2, <5>1
            <4> QED
                BY <1>8, <3>1, <4>1
        <3>2. CASE v # u /\ i \in DOMAIN listed
            BY <1>6, <1>8, <3>2 DEF PageInv, PageOnce
        <3>3. CASE v # u /\ i = id
            <4>1. open[u].at # open[v].at /\ open[u].id # open[v].id
                BY <1>3, <3>3 DEF PageInv, PageOnce, id
            <4> QED
                BY <1>6, <1>7, <1>8, <3>3, <4>1 DEF id
        <3> QED
            BY <1>6, <3>1, <3>2, <3>3
    <2>3. ASSUME NEW v \in Users, NEW w \in Users, v # w
          PROVE  /\ open'[v].at # 0 => open'[v].at # open'[w].at
                 /\ open'[v].id # 0 => open'[v].id # open'[w].id
        <3>1. CASE v # u /\ w # u
            BY <1>8, <2>3, <3>1 DEF PageInv, PageOnce
        <3>2. CASE v = u
            BY <1>8, <3>2
        <3>3. CASE w = u
            BY <1>8, <3>3
        <3> QED
            BY <3>1, <3>2, <3>3
    <2> QED
        BY <2>1, <2>2, <2>3 DEF PageOnce
<1>12. Walked'
    BY <1>1, <1>6, WalkedKept DEF PageInv
<1>13. Paged'
    BY <1>1 DEF Paged
<1> QED
    BY <1>10, <1>11, <1>12, <1>13 DEF PageInv
LEMMA PageUpdate ==
    ASSUME PageInv, NEW x \in DOMAIN listed, Pag!Update(x)
    PROVE  PageInv'
<1>1. /\ walk.list = "page" /\ time < MaxTime /\ time' = time + 1 /\ changed' = TRUE
      /\ listed' = [listed EXCEPT ![x].updated = time + 1]
      /\ UNCHANGED <<lastId, open, walk, atStart>>
    BY DEF Pag!Update
<1>2. time \in Nat /\ time' \in 0..MaxTime /\ 0..time \subseteq 0..(time + 1) /\ 1..time \subseteq 1..(time + 1) /\ time + 1 \in 1..(time + 1)
    BY <1>1, PagesAssumption DEF PagesAssumption, PageInv, PageType
<1>3. /\ DOMAIN listed' = DOMAIN listed
      /\ listed'[x] = [listed[x] EXCEPT !.updated = time + 1]
      /\ \A i \in DOMAIN listed : i # x => listed'[i] = listed[i]
    BY <1>1
<1>4. \A i \in DOMAIN listed : listed[i] \in [created : 1..time, updated : 1..time, deleted : BOOLEAN]
    BY DEF PageInv, PageType
<1>5. /\ listed'[x].updated = time + 1 /\ listed'[x].deleted = listed[x].deleted
      /\ listed'[x] \in [created : 1..(time + 1), updated : 1..(time + 1), deleted : BOOLEAN]
    <2>1. listed[x] \in [created : 1..time, updated : 1..time, deleted : BOOLEAN]
        BY <1>4
    <2>2. listed[x] \in [created : 1..(time + 1), updated : 1..(time + 1), deleted : BOOLEAN]
        BY <1>2, <2>1
    <2> QED
        BY <1>2, <1>3, <2>2
<1>6. PageType'
    <2>1. \A i \in DOMAIN listed' : listed'[i] \in [created : 1..(time + 1), updated : 1..(time + 1), deleted : BOOLEAN]
        BY <1>2, <1>3, <1>4, <1>5
    <2>2. open \in [Users -> [at : 0..(time + 1), id : 0..lastId]]
        <3>1. open \in [Users -> [at : 0..time, id : 0..lastId]]
            BY DEF PageInv, PageType
        <3> QED
            BY <1>2, <3>1
    <2> QED
        BY <1>1, <1>2, <1>3, <2>1, <2>2 DEF PageInv, PageType
<1>7. \A i \in DOMAIN listed : i # x => listed[i].updated # time + 1
    BY <1>2, <1>4
<1>8. \A v \in Users : open[v].at # time + 1
    BY <1>2 DEF PageInv, PageType
<1>9. PageOnce'
    <2>1. ASSUME NEW i \in DOMAIN listed, NEW j \in DOMAIN listed, i # j PROVE listed'[i].updated # listed'[j].updated
        <3>1. CASE i # x /\ j # x
            BY <1>3, <2>1, <3>1 DEF PageInv, PageOnce
        <3>2. CASE i = x
            BY <1>3, <1>5, <1>7, <2>1, <3>2
        <3>3. CASE j = x
            BY <1>3, <1>5, <1>7, <2>1, <3>3
        <3> QED
            BY <3>1, <3>2, <3>3
    <2>2. ASSUME NEW v \in Users, NEW i \in DOMAIN listed PROVE listed'[i].updated # open[v].at /\ i # open[v].id
        <3>1. i # open[v].id /\ listed[i].updated # open[v].at
            BY DEF PageInv, PageOnce
        <3> QED
            BY <1>3, <1>5, <1>8, <3>1
    <2> QED
        BY <1>1, <1>3, <2>1, <2>2 DEF PageInv, PageOnce
<1>10. Walked' /\ Paged'
    BY <1>1 DEF Walked, Paged
<1> QED
    BY <1>6, <1>9, <1>10 DEF PageInv

LEMMA PageDelete ==
    ASSUME PageInv, NEW x \in DOMAIN listed, Pag!Delete(x)
    PROVE  PageInv'
<1>1. /\ walk.list # "timeline" /\ changed' = TRUE
      /\ listed' = [listed EXCEPT ![x].deleted = TRUE]
      /\ UNCHANGED <<lastId, time, open, walk, atStart>>
    BY DEF Pag!Delete
<1>2. /\ DOMAIN listed' = DOMAIN listed
      /\ listed'[x] = [listed[x] EXCEPT !.deleted = TRUE]
      /\ \A i \in DOMAIN listed : i # x => listed'[i] = listed[i]
    BY <1>1
<1>3. \A i \in DOMAIN listed : listed[i] \in [created : 1..time, updated : 1..time, deleted : BOOLEAN]
    BY DEF PageInv, PageType
<1>4. /\ listed'[x].updated = listed[x].updated /\ listed'[x].created = listed[x].created /\ listed'[x].deleted = TRUE
      /\ listed'[x] \in [created : 1..time, updated : 1..time, deleted : BOOLEAN]
    BY <1>2, <1>3
<1>5. PageType'
    BY <1>1, <1>2, <1>3, <1>4 DEF PageInv, PageType
<1>6. \A i \in DOMAIN listed : listed'[i].updated = listed[i].updated
    BY <1>2, <1>4
<1>7. PageOnce'
    BY <1>1, <1>2, <1>6 DEF PageInv, PageOnce
<1>8. \A i \in DOMAIN listed : listed'[i].created = listed[i].created /\ (listed[i].deleted => listed'[i].deleted)
    BY <1>2, <1>4
<1>9. Walked'
    BY <1>1, <1>2, <1>8, WalkedKept DEF PageInv
<1>10. Paged'
    BY <1>1 DEF Paged
<1> QED
    BY <1>5, <1>7, <1>9, <1>10 DEF PageInv

\* Without what the reader does not touch.
LEMMA ReaderKeeps ==
    ASSUME PageInv, UNCHANGED <<listed, time, lastId, open>>
    PROVE  PageOnce' /\ Pag!Live' = Pag!Live
           /\ (walk' \in [list : {"cursor", "page", "timeline"}, next : Nat, shown : Seq(DOMAIN listed), state : {"reading", "done"}]
               /\ walk'.list = walk.list /\ atStart' \subseteq DOMAIN listed /\ changed' \in BOOLEAN => PageType')
<1>1. PageOnce' /\ Pag!Live' = Pag!Live
    BY DEF PageInv, PageOnce, Pag!Live
<1>2. ASSUME walk' \in [list : {"cursor", "page", "timeline"}, next : Nat, shown : Seq(DOMAIN listed), state : {"reading", "done"}],
             walk'.list = walk.list, atStart' \subseteq DOMAIN listed, changed' \in BOOLEAN
      PROVE  PageType'
    <2>1. walk' \in [list : {"cursor", "page", "timeline"}, next : Nat, shown : Seq(DOMAIN listed), state : {"before", "reading", "done"}] /\ walk'.state # "before"
        BY <1>2
    <2> QED
        BY <1>2, <2>1 DEF PageInv, PageType
<1> QED
    BY <1>1, <1>2

LEMMA PageStart ==
    ASSUME PageInv, Pag!Start
    PROVE  PageInv'
<1>1. /\ walk.state = "before" /\ walk' = [walk EXCEPT !.state = "reading"] /\ atStart' = Pag!Live /\ changed' = FALSE
      /\ UNCHANGED <<listed, time, lastId, open>>
    BY DEF Pag!Start
<1>2. walk \in [list : {"cursor", "page", "timeline"}, next : Nat, shown : Seq(DOMAIN listed), state : {"before", "reading", "done"}]
      /\ walk.next = 0 /\ walk.shown = <<>>
    BY <1>1 DEF PageInv, PageType
<1>3. walk' \in [list : {"cursor", "page", "timeline"}, next : Nat, shown : Seq(DOMAIN listed), state : {"reading", "done"}]
      /\ walk'.next = 0 /\ walk'.shown = <<>> /\ walk'.state = "reading" /\ walk'.list = walk.list
    BY <1>1, <1>2
<1>4. Pag!Live \subseteq DOMAIN listed /\ IsFiniteSet(Pag!Live)
    BY LiveIs DEF PageInv
<1>5. PageType' /\ PageOnce' /\ Pag!Live' = Pag!Live
    BY <1>1, <1>3, <1>4, ReaderKeeps
<1>6. \A i : Pag!After(i)'
    BY <1>3 DEF Pag!After
<1>7. DOMAIN walk'.shown = {}
    BY <1>3
<1>8. Walked'
    BY <1>3, <1>6, <1>7 DEF Walked
<1>9. Paged'
    <2>1. Turned(Cardinality(Pag!Live))' = 0
        BY <1>3, SizeIs DEF Turned
    <2>2. Cardinality(Pag!Live)' = Cardinality(Pag!Live) /\ Cardinality(Pag!Live) \in Nat
        BY <1>4, <1>5, FS_CardinalityType
    <2>3. Len(walk'.shown) = 0
        BY <1>3
    <2>4. atStart' = Pag!Live'
        BY <1>1, <1>5
    <2> QED
        BY <1>7, <2>1, <2>2, <2>3, <2>4 DEF Paged
<1> QED
    BY <1>5, <1>8, <1>9 DEF PageInv
LEMMA PageByCursor ==
    ASSUME PageInv, Pag!CursorPage
    PROVE  PageInv'
<1> DEFINE s == Pag!Left
           read == Pag!Rows(s, 1, PageSize + 1)
           more == Len(read) > PageSize
           take == IF more THEN SubSeq(read, 1, PageSize) ELSE read
<1>1. /\ walk.state = "reading" /\ walk.list \in {"cursor", "timeline"}
      /\ walk' = IF more THEN [walk EXCEPT !.shown = @ \o SubSeq(read, 1, PageSize), !.next = read[PageSize]]
                 ELSE [walk EXCEPT !.shown = @ \o read, !.state = "done"]
      /\ UNCHANGED <<listed, time, lastId, open, atStart, changed>>
    BY DEF Pag!CursorPage, Pag!NextCursor
<1>2. /\ Pag!Live \subseteq DOMAIN listed /\ DOMAIN listed \in SUBSET (Nat \ {0})
    BY LiveIs DEF PageInv
<1>3. /\ s \in Seq(Pag!Live)
      /\ \A k \in 1..Len(s) : Pag!After(s[k])
      /\ \A i \in Pag!Live : Pag!After(i) => \E k \in 1..Len(s) : s[k] = i
      /\ (walk.list = "timeline" => InIdOrder(listed)) => Sorted(walk.list, s)
    BY <1>1, LeftIs DEF PageInv
<1> HIDE DEF s
<1>4. s \in Seq(DOMAIN listed)
    BY <1>2, <1>3, LongerLists
<1>5. PICK n, L : n = Len(s) /\ L = PageSize
    OBVIOUS
<1>6. n \in Nat /\ L \in Nat /\ L > 0 /\ DOMAIN s = 1..n
    BY <1>4, <1>5, SizeIs
<1>7. PICK end : end = IF L + 1 < n THEN L + 1 ELSE n
    OBVIOUS
<1>8. end \in Nat /\ end <= n
    BY <1>6, <1>7
<1>9. read \in Seq(DOMAIN listed) /\ Len(read) = end /\ \A k \in 1..end : read[k] = s[k]
    <2>1. 0 \in Nat /\ L + 1 \in Nat /\ 0 <= L + 1 /\ 0 <= Len(s) /\ end = IF L + 1 < Len(s) THEN L + 1 ELSE Len(s)
        BY <1>5, <1>6, <1>7
    <2>2. PartOf(Pag!Rows(s, 0 + 1, L + 1), DOMAIN listed, s, 0, end)
        BY <1>4, <2>1, PartIs
    <2>3. 0 + 1 = 1 /\ end - 0 = end /\ \A k \in 1..end : 0 + k = k
        BY <1>8
    <2> QED
        BY <1>5, <2>2, <2>3 DEF PartOf
<1> HIDE DEF read
<1>10. PICK k : k = IF more THEN L ELSE n
    OBVIOUS
<1>11. /\ k \in 0..n /\ (more => k > 0 /\ k = L /\ k \in 1..end) /\ (~more => end = n /\ k = n)
    BY <1>5, <1>6, <1>7, <1>8, <1>9, <1>10
<1>12. take \in Seq(DOMAIN listed) /\ Len(take) = k /\ \A a \in 1..k : take[a] = s[a]
    <2>1. CASE more
        <3>1. 1 \in Int /\ L \in Int /\ L <= end /\ \A i \in 1..L : i \in 1..end
            BY <1>6, <1>8, <1>11, <2>1
        <3>2. \A i \in 1..L : read[i] \in DOMAIN listed
            BY <1>9, <3>1
        <3>3. /\ SubSeq(read, 1, L) \in Seq(DOMAIN listed)
              /\ Len(SubSeq(read, 1, L)) = IF 1 <= L THEN L - 1 + 1 ELSE 0
              /\ \A i \in 1..(L - 1 + 1) : SubSeq(read, 1, L)[i] = read[1 + i - 1]
            BY <3>1, <3>2, SubSeqProperties
        <3>4. (IF 1 <= L THEN L - 1 + 1 ELSE 0) = L /\ L - 1 + 1 = L /\ \A i \in 1..L : 1 + i - 1 = i
            BY <1>6
        <3>5. take = SubSeq(read, 1, L) /\ k = L
            BY <1>5, <1>11, <2>1
        <3> HIDE DEF take, more
        <3>6. \A a \in 1..L : SubSeq(read, 1, L)[a] = s[a]
            BY <1>9, <3>1, <3>3, <3>4
        <3> QED
            BY <3>3, <3>4, <3>5, <3>6
    <2>2. CASE ~more
        <3>1. take = read /\ k = end
            BY <1>11, <2>2
        <3> HIDE DEF take, more
        <3> QED
            BY <1>9, <3>1
    <2> QED
        BY <2>1, <2>2
<1>13. more => read[PageSize] = s[k]
    BY <1>5, <1>9, <1>11
<1>14. walk \in [list : {"cursor", "page", "timeline"}, next : Nat, shown : Seq(DOMAIN listed), state : {"before", "reading", "done"}]
    BY DEF PageInv, PageType
<1>15. /\ walk' = IF more THEN [walk EXCEPT !.shown = @ \o take, !.next = s[k]] ELSE [walk EXCEPT !.shown = @ \o take, !.state = "done"]
    BY <1>1, <1>13
<1> HIDE DEF take, more
<1>16. walk.shown \in Seq(DOMAIN listed) /\ walk.next \in Nat /\ walk.shown \o take \in Seq(DOMAIN listed)
    <2>1. walk.shown \in Seq(DOMAIN listed) /\ walk.next \in Nat
        BY <1>14
    <2>2. PICK a, b : a = Len(walk.shown) /\ b = Len(take)
        OBVIOUS
    <2>3. JoinedTo(walk.shown \o take, DOMAIN listed, walk.shown, take, a, b)
        BY <1>12, <2>1, <2>2, JoinedAs
    <2> QED
        BY <2>1, <2>3 DEF JoinedTo
<1>17. more => s[k] \in DOMAIN listed /\ s[k] \in Nat
    <2>1. more => k \in 1..n
        BY <1>6, <1>11
    <2>2. \A i \in 1..n : s[i] \in DOMAIN listed
        BY <1>4, <1>5
    <2>3. \A x \in DOMAIN listed : x \in Nat
        BY <1>2
    <2> QED
        BY <2>1, <2>2, <2>3
<1>18. /\ walk'.list = walk.list /\ walk'.shown = walk.shown \o take
       /\ walk'.next = (IF more THEN s[k] ELSE walk.next) /\ walk'.state = (IF more THEN "reading" ELSE "done")
       /\ walk' \in [list : {"cursor", "page", "timeline"}, next : Nat, shown : Seq(DOMAIN listed), state : {"reading", "done"}]
    <2>1. CASE more
        <3>1. walk' = [walk EXCEPT !.shown = walk.shown \o take, !.next = s[k]]
            BY <1>15, <2>1
        <3> QED
            BY <1>1, <1>14, <1>16, <1>17, <2>1, <3>1
    <2>2. CASE ~more
        <3>1. walk' = [walk EXCEPT !.shown = walk.shown \o take, !.state = "done"]
            BY <1>15, <2>2
        <3> QED
            BY <1>1, <1>14, <1>16, <2>2, <3>1
    <2> QED
        BY <2>1, <2>2
<1>19. PageType' /\ PageOnce' /\ Pag!Live' = Pag!Live
    <2>1. atStart' \subseteq DOMAIN listed /\ changed' \in BOOLEAN
        BY <1>1 DEF PageInv, PageType
    <2> QED
        BY <1>1, <1>18, <2>1, ReaderKeeps
<1>20. Walked'
    <2>1. SUFFICES ASSUME walk.list = "timeline" => InIdOrder(listed)
          PROVE /\ \A a, b \in DOMAIN walk'.shown : a < b => Goes(walk'.list, walk'.shown[a], walk'.shown[b])
                /\ walk'.state = "reading" => \A a \in DOMAIN walk'.shown : walk'.next # 0 /\ ~Goes(walk'.list, walk'.next, walk'.shown[a])
                /\ walk'.state # "before" =>
                     \A i \in atStart' : i \in Pag!Live' =>
                        \/ \E a \in DOMAIN walk'.shown : walk'.shown[a] = i
                        \/ walk'.state = "reading" /\ Pag!After(i)'
        <3>1. (walk.list = "timeline" => InIdOrder(listed))' => (walk.list = "timeline" => InIdOrder(listed))
            BY <1>1, <1>18 DEF InIdOrder
        <3> QED
            BY <3>1 DEF Walked
    <2>2. /\ \A a, b \in DOMAIN walk.shown : a < b => Goes(walk.list, walk.shown[a], walk.shown[b])
          /\ \A a \in DOMAIN walk.shown : walk.next # 0 /\ ~Goes(walk.list, walk.next, walk.shown[a])
          /\ \A i \in atStart : i \in Pag!Live => (\E a \in DOMAIN walk.shown : walk.shown[a] = i) \/ Pag!After(i)
        BY <1>1, <2>1 DEF PageInv, Walked
    <2>3. Sorted(walk.list, walk.shown) /\ Sorted(walk.list, s)
        BY <1>3, <2>1, <2>2 DEF Sorted
    <2>4. \A i : Pag!After(i) <=> walk.next = 0 \/ Goes(walk.list, walk.next, i)
        BY <1>1, <1>16 DEF Pag!After, Goes
    <2>5. \A a \in 1..Len(s) : walk.next = 0 \/ Goes(walk.list, walk.next, s[a])
        BY <1>3, <2>4
    <2> DEFINE new == walk.shown \o take
    <2>6. /\ Sorted(walk.list, new)
          /\ k > 0 => s[k] # 0 /\ \A a \in DOMAIN new : ~Goes(walk.list, s[k], new[a])
          /\ \A a \in DOMAIN walk.shown : \E b \in DOMAIN new : new[b] = walk.shown[a]
          /\ \A a \in 1..k : \E b \in DOMAIN new : new[b] = s[a]
        <3>1. PICK list, next, old, T : list = walk.list /\ next = walk.next /\ old = walk.shown /\ T = DOMAIN listed
            OBVIOUS
        <3>2. /\ list \in {"cursor", "timeline"} /\ T \in SUBSET (Nat \ {0}) /\ next \in Nat /\ old \in Seq(T) /\ s \in Seq(T)
              /\ k \in 0..Len(s) /\ take \in Seq(T) /\ Len(take) = k
            BY <1>1, <1>2, <1>4, <1>5, <1>11, <1>12, <1>16, <3>1
        <3>3. Sorted(list, old) /\ Sorted(list, s)
            BY <2>3, <3>1
        <3>4. \A a \in DOMAIN old : next # 0 /\ ~Goes(list, next, old[a])
            BY <2>2, <3>1
        <3>5. \A a \in 1..Len(s) : next = 0 \/ Goes(list, next, s[a])
            BY <2>5, <3>1
        <3>6. \A a \in 1..k : take[a] = s[a]
            BY <1>12
        <3>7. WalkedOn(list, old, s, k, old \o take)
            BY <3>2, <3>3, <3>4, <3>5, <3>6, WalkOn
        <3> QED
            BY <3>1, <3>7 DEF WalkedOn
    <2> HIDE DEF new
    <2>7. walk'.shown = new /\ walk'.list = walk.list
        BY <1>18 DEF new
    <2>8. \A a, b \in DOMAIN walk'.shown : a < b => Goes(walk'.list, walk'.shown[a], walk'.shown[b])
        BY <2>6, <2>7 DEF Sorted
    <2>9. walk'.state = "reading" => \A a \in DOMAIN walk'.shown : walk'.next # 0 /\ ~Goes(walk'.list, walk'.next, walk'.shown[a])
        <3>1. walk'.state = "reading" => more
            BY <1>18
        <3> QED
            BY <1>11, <1>18, <2>6, <2>7, <3>1
    <2>10. ASSUME NEW i \in atStart, i \in Pag!Live
           PROVE  (\E a \in DOMAIN new : new[a] = i) \/ (walk'.state = "reading" /\ Pag!After(i)')
        <3>1. CASE \E a \in DOMAIN walk.shown : walk.shown[a] = i
            BY <2>6, <3>1
        <3>2. CASE Pag!After(i)
            <4>1. PICK c \in 1..n : s[c] = i
                BY <1>3, <1>5, <2>10, <3>2
            <4>2. CASE c \in 1..k
                BY <2>6, <4>1, <4>2
            <4>3. CASE c \notin 1..k
                <5>1. more /\ k \in 1..n /\ k < c
                    BY <1>6, <1>11, <4>3
                <5>2. Goes(walk.list, s[k], s[c])
                    BY <1>6, <2>3, <5>1 DEF Sorted
                <5>3. walk'.state = "reading" /\ walk'.next = s[k]
                    BY <1>18, <5>1
                <5>4. i \in Nat /\ s[k] \in Nat
                    BY <1>2, <1>17, <2>10, <5>1
                <5>5. Pag!After(i)'
                    BY <1>1, <2>7, <4>1, <5>2, <5>3, <5>4 DEF Pag!After, Goes
                <5> QED
                    BY <5>3, <5>5
            <4> QED
                BY <4>2, <4>3
        <3> QED
            BY <2>2, <2>10, <3>1, <3>2
    <2>11. walk'.state # "before" =>
             \A i \in atStart' : i \in Pag!Live' =>
                \/ \E a \in DOMAIN walk'.shown : walk'.shown[a] = i
                \/ walk'.state = "reading" /\ Pag!After(i)'
        BY <1>1, <1>19, <2>7, <2>10
    <2> QED
        BY <2>8, <2>9, <2>11
<1>21. Paged'
    BY <1>1, <1>18 DEF Paged
<1> QED
    BY <1>19, <1>20, <1>21 DEF PageInv

LEMMA PageByNumber ==
    ASSUME PageInv, Pag!NumberedPage
    PROVE  PageInv'
<1> DEFINE live == Pag!Live
           s == Pag!Ordered(live, NewestFirst(listed, live))
           page == Pag!Rows(s, walk.next * PageSize + 1, (walk.next + 1) * PageSize)
<1>1. /\ walk.state = "reading" /\ walk.list = "page"
      /\ walk' = [walk EXCEPT !.shown = @ \o page, !.next = @ + 1,
                              !.state = IF (walk.next + 1) * PageSize >= Len(s) THEN "done" ELSE @]
      /\ UNCHANGED <<listed, time, lastId, open, atStart, changed>>
    BY DEF Pag!NumberedPage, NewestFirst
<1>2. live \subseteq DOMAIN listed /\ IsFiniteSet(live)
    BY LiveIs DEF PageInv
<1>3. \A x \in live : listed[x].updated \in Int
    BY <1>2, PagesAssumption DEF PageInv, PageType
<1>4. \A x, y \in live : x # y => listed[x].updated # listed[y].updated
    BY <1>2 DEF PageInv, PageOnce
<1>5. PICK R : R = NewestFirst(listed, live)
    OBVIOUS
<1>6. Orders(R, live)
    BY <1>3, <1>4, <1>5, NewestOrders
<1>7. s \in Seq(live) /\ Len(s) = Cardinality(live) /\ Cardinality(live) \in Nat
    BY <1>2, <1>5, <1>6, OrderedLists
<1> HIDE DEF s
<1>8. PICK n, L : n = Len(s) /\ L = PageSize
    OBVIOUS
<1>9. n \in Nat /\ L \in Nat /\ L > 0
    BY <1>7, <1>8, SizeIs
<1>10. walk \in [list : {"cursor", "page", "timeline"}, next : Nat, shown : Seq(DOMAIN listed), state : {"before", "reading", "done"}]
    BY DEF PageInv, PageType
<1>11. PICK from, to : from = walk.next * L /\ to = (walk.next + 1) * L
    OBVIOUS
<1>12. from \in Nat /\ to = from + L
    <2>1. walk.next \in Nat
        BY <1>10
    <2> QED
        BY <1>9, <1>11, <2>1
<1>13. s \in Seq(DOMAIN listed)
    BY <1>2, <1>7, LongerLists
<1>14. page = Pag!Rows(s, from + 1, to)
    BY <1>8, <1>11
<1> HIDE DEF page
<1>15. page \in Seq(DOMAIN listed)
    <2>1. PICK end : end = IF to < n THEN to ELSE n
        OBVIOUS
    <2>2. page = SubSeq(s, from + 1, end)
        BY <1>8, <1>14, <2>1 DEF Pag!Rows
    <2>3. \A i \in (from + 1)..end : s[i] \in DOMAIN listed
        <3>1. \A i \in 1..n : s[i] \in DOMAIN listed
            BY <1>8, <1>13
        <3>2. \A i \in (from + 1)..end : i \in 1..n
            BY <1>9, <1>12, <2>1
        <3> QED
            BY <3>1, <3>2
    <2>4. from + 1 \in Int /\ end \in Int
        BY <1>9, <1>12, <2>1
    <2>5. PICK m : m = from + 1
        OBVIOUS
    <2>6. SubSeq(s, m, end) \in Seq(DOMAIN listed)
        BY <2>3, <2>4, <2>5, SubSeqProperties
    <2> QED
        BY <2>2, <2>5, <2>6
<1>16. /\ walk' \in [list : {"cursor", "page", "timeline"}, next : Nat, shown : Seq(DOMAIN listed), state : {"reading", "done"}]
       /\ walk'.list = "page" /\ walk'.shown = walk.shown \o page /\ walk'.next = walk.next + 1
       /\ walk'.state = IF to >= n THEN "done" ELSE "reading"
    <2>1. PICK st : st = IF to >= n THEN "done" ELSE "reading"
        OBVIOUS
    <2>2. st \in {"reading", "done"}
        BY <2>1
    <2>3. walk' = [walk EXCEPT !.shown = walk.shown \o page, !.next = walk.next + 1, !.state = st]
        BY <1>1, <1>8, <1>11, <2>1
    <2>4. walk.shown \in Seq(DOMAIN listed) /\ walk.next \in Nat
        BY <1>10
    <2>5. PICK a, b : a = Len(walk.shown) /\ b = Len(page)
        OBVIOUS
    <2>6. JoinedTo(walk.shown \o page, DOMAIN listed, walk.shown, page, a, b)
        BY <1>15, <2>4, <2>5, JoinedAs
    <2>7. walk.shown \o page \in Seq(DOMAIN listed) /\ walk.next + 1 \in Nat
        BY <2>4, <2>6 DEF JoinedTo
    <2> QED
        BY <1>1, <1>10, <2>1, <2>2, <2>3, <2>7
<1>17. PageType' /\ PageOnce' /\ Pag!Live' = live
    <2>1. atStart' \subseteq DOMAIN listed /\ changed' \in BOOLEAN
        BY <1>1 DEF PageInv, PageType
    <2>2. walk'.list = walk.list
        BY <1>1, <1>16
    <2> QED
        BY <1>1, <1>16, <2>1, <2>2, ReaderKeeps
<1>18. Walked'
    BY <1>16 DEF Walked
<1>19. Paged'
    <2>1. SUFFICES ASSUME ~changed
          PROVE  /\ atStart' = live
                 /\ Turned(n)' <= n /\ Len(walk'.shown) = Turned(n)'
                 /\ \A a \in DOMAIN walk'.shown : walk'.shown[a] = s[a]
        <3>1. Pag!Ordered(Pag!Live, NewestFirst(listed, Pag!Live))' = s
            BY <1>1, <1>17 DEF s, Pag!Ordered, NewestFirst
        <3>2. Cardinality(Pag!Live)' = n
            BY <1>7, <1>8, <1>17
        <3> QED
            BY <1>1, <1>17, <3>1, <3>2 DEF Paged, Turned
    <2>2. /\ atStart = live /\ Len(walk.shown) = from /\ from <= n
          /\ \A a \in DOMAIN walk.shown : walk.shown[a] = s[a]
        BY <1>1, <1>7, <1>8, <1>11, <2>1 DEF PageInv, Paged, Turned, s
    <2>3. PICK end : end = IF to < n THEN to ELSE n
        OBVIOUS
    <2>4. /\ end \in Nat /\ from <= end /\ end <= n /\ Len(page) = end - from
          /\ \A k \in 1..(end - from) : page[k] = s[from + k]
        <3>1. from \in Nat /\ to \in Nat /\ from <= to /\ from <= Len(s) /\ end = IF to < Len(s) THEN to ELSE Len(s)
            BY <1>8, <1>9, <1>12, <2>2, <2>3
        <3>2. PartOf(page, DOMAIN listed, s, from, end)
            BY <1>13, <1>14, <3>1, PartIs
        <3> QED
            BY <1>9, <1>12, <2>3, <3>2 DEF PartOf
    <2>5. walk.shown \in Seq(DOMAIN listed)
        BY <1>10
    <2>6. PICK b : b = end - from
        OBVIOUS
    <2>7. b \in Nat /\ from + b = end
        BY <1>12, <2>4, <2>6
    <2>8. JoinedTo(walk'.shown, DOMAIN listed, walk.shown, page, from, b)
        BY <1>15, <1>16, <2>2, <2>4, <2>5, <2>6, JoinedAs
    <2>9. /\ Len(walk'.shown) = end /\ walk'.shown \in Seq(DOMAIN listed)
          /\ \A a \in 1..from : walk'.shown[a] = walk.shown[a]
          /\ \A a \in 1..b : walk'.shown[from + a] = page[a]
        BY <2>7, <2>8 DEF JoinedTo
    <2>10. DOMAIN walk'.shown = 1..end /\ DOMAIN walk.shown = 1..from
        BY <2>2, <2>5, <2>9
    <2>11. ASSUME NEW a \in 1..end PROVE walk'.shown[a] = s[a]
        <3>1. CASE a \in 1..from
            BY <2>2, <2>9, <2>10, <3>1
        <3>2. CASE a \notin 1..from
            <4>1. PICK c : c = a - from
                OBVIOUS
            <4>2. c \in 1..b /\ a = from + c
                BY <1>12, <2>4, <2>7, <3>2, <4>1
            <4> QED
                BY <2>4, <2>6, <2>9, <4>2
        <3> QED
            BY <3>1, <3>2
    <2>12. Turned(n)' = end
        <3>1. CASE to >= n
            <4>1. walk'.state = "done" /\ end = n
                BY <1>9, <1>12, <1>16, <2>3, <3>1
            <4> QED
                BY <4>1 DEF Turned
        <3>2. CASE ~(to >= n)
            <4>1. walk'.state = "reading" /\ end = to
                BY <1>9, <1>12, <1>16, <2>3, <3>2
            <4> QED
                BY <1>8, <1>11, <1>16, <4>1 DEF Turned
        <3> QED
            BY <3>1, <3>2
    <2> QED
        BY <1>1, <2>2, <2>4, <2>9, <2>10, <2>11, <2>12
<1> QED
    BY <1>17, <1>18, <1>19 DEF PageInv

LEMMA PageStep == PageInv /\ (UNCHANGED pages \/ Pag!Next) => PageInv'
<1> SUFFICES ASSUME PageInv, UNCHANGED pages \/ Pag!Next PROVE PageInv'
    OBVIOUS
<1>1. CASE UNCHANGED pages
    BY <1>1, PageStutter
<1>2. ASSUME NEW u \in Users, Pag!Begin(u) \/ Pag!Insert(u) \/ Pag!Commit(u) PROVE PageInv'
    BY <1>2, PageBegin, PageInsert, PageCommit
<1>3. ASSUME NEW i \in DOMAIN listed, Pag!Update(i) \/ Pag!Delete(i) PROVE PageInv'
    BY <1>3, PageUpdate, PageDelete
<1>4. CASE Pag!Start \/ Pag!CursorPage \/ Pag!NumberedPage
    BY <1>4, PageStart, PageByCursor, PageByNumber
<1> QED
    BY <1>1, <1>2, <1>3, <1>4 DEF Pag!Next

\* What is shown is right at every point of the walk.
LEMMA PagesRight == PageInv => Pag!PagesAreRight
<1> SUFFICES ASSUME PageInv PROVE Pag!PagesAreRight
    OBVIOUS
<1>1. walk \in [list : {"cursor", "page", "timeline"}, next : Nat, shown : Seq(DOMAIN listed), state : {"before", "reading", "done"}]
    BY DEF PageInv, PageType
<1>2. PICK l : l = Len(walk.shown)
    OBVIOUS
<1>3. l \in Nat /\ DOMAIN walk.shown = 1..l /\ \A a \in 1..l : walk.shown[a] \in DOMAIN listed
    BY <1>1, <1>2
<1>4. Pag!Live \subseteq DOMAIN listed /\ DOMAIN listed \subseteq Nat \ {0} /\ IsFiniteSet(Pag!Live)
    BY LiveIs DEF PageInv
<1>5. ASSUME walk.list # "page", walk.list = "timeline" => InIdOrder(listed)
      PROVE  /\ Pag!ShownOnce
             /\ walk.state = "done" => \A i \in atStart : i \in Pag!Live => i \in Pag!ToSet(walk.shown)
    <2>1. \A a, b \in DOMAIN walk.shown : a < b => Goes(walk.list, walk.shown[a], walk.shown[b])
        BY <1>5 DEF PageInv, Walked
    <2>2. ASSUME NEW a \in 1..l, NEW b \in 1..l, walk.shown[a] = walk.shown[b], a # b PROVE FALSE
        <3>1. a < b \/ b < a
            BY <2>2
        <3>2. Goes(walk.list, walk.shown[a], walk.shown[a])
            BY <1>3, <2>1, <2>2, <3>1
        <3>3. walk.shown[a] \in Int
            BY <1>3, <1>4
        <3> QED
            BY <3>2, <3>3 DEF Goes
    <2>3. Pag!ShownOnce
        BY <1>3, <2>2 DEF Pag!ShownOnce
    <2>4. walk.state = "done" => \A i \in atStart : i \in Pag!Live => \E a \in DOMAIN walk.shown : walk.shown[a] = i
        BY <1>5 DEF PageInv, Walked
    <2> QED
        BY <2>3, <2>4 DEF Pag!ToSet
<1>6. Pag!WalkIsWhole
    BY <1>5 DEF Pag!WalkIsWhole
<1>7. Pag!TimelineIsWhole
    <2>1. walk.list = "timeline" => \A i \in atStart : i \in Pag!Live
        BY DEF PageInv, PageType, Pag!Live
    <2> QED
        BY <1>5, <2>1 DEF Pag!TimelineIsWhole, InIdOrder
<1>8. Pag!PagesAreWhole
    <2>1. SUFFICES ASSUME walk.list = "page", ~changed PROVE Pag!ShownOnce /\ (walk.state = "done" => atStart = Pag!ToSet(walk.shown))
        BY DEF Pag!PagesAreWhole
    <2>2. CASE walk.state = "before"
        BY <2>2 DEF PageInv, PageType, Pag!ShownOnce
    <2>3. CASE walk.state # "before"
        <3> DEFINE live == Pag!Live
                   s == Pag!Ordered(live, NewestFirst(listed, live))
        <3>1. PICK R : R = NewestFirst(listed, live)
            OBVIOUS
        <3>2. Orders(R, live)
            <4>1. \A x \in live : listed[x].updated \in Int
                BY <1>4, PagesAssumption DEF PageInv, PageType
            <4>2. \A x, y \in live : x # y => listed[x].updated # listed[y].updated
                BY <1>4 DEF PageInv, PageOnce
            <4> QED
                BY <3>1, <4>1, <4>2, NewestOrders
        <3>3. PICK n : n = Cardinality(live)
            OBVIOUS
        <3>4. Enumerates(s, n, live, R) /\ n \in Nat
            BY <1>4, <3>1, <3>2, <3>3, OrderedLists
        <3>5. /\ \A x \in live : \E i \in 1..n : s[i] = x
              /\ \A i, j \in 1..n : s[i] = s[j] => i = j
            BY <1>4, <3>2, <3>3, <3>4, ListIsWhole
        <3>6. /\ atStart = live /\ l <= n /\ (walk.state = "done" => l = n)
              /\ \A a \in 1..l : walk.shown[a] = s[a]
            BY <1>2, <1>3, <2>1, <2>3, <3>3 DEF PageInv, Paged, Turned
        <3>7. \A i \in 1..n : s[i] \in live
            BY <3>4 DEF Enumerates
        <3> HIDE DEF s, live
        <3>8. \A a \in 1..l : a \in 1..n
            BY <1>3, <3>4, <3>6
        <3>9. Pag!ShownOnce
            BY <1>3, <3>5, <3>6, <3>8 DEF Pag!ShownOnce
        <3>10. walk.state = "done" => \A x : x \in atStart <=> \E a \in DOMAIN walk.shown : walk.shown[a] = x
            BY <1>3, <3>5, <3>6, <3>7
        <3> QED
            BY <3>9, <3>10 DEF Pag!ToSet
    <2> QED
        BY <2>2, <2>3
<1> QED
    BY <1>6, <1>7, <1>8 DEF Pag!PagesAreRight

LEMMA PagesTyped == PageInv => Pag!TypeOK
<1> SUFFICES ASSUME PageInv PROVE Pag!TypeOK
    OBVIOUS
<1>1. walk \in [list : {"cursor", "page", "timeline"}, next : Nat, shown : Seq(DOMAIN listed), state : {"before", "reading", "done"}]
    BY DEF PageInv, PageType
<1>2. walk.state \in {"before", "reading", "done"} /\ Pag!ToSet(walk.shown) \subseteq DOMAIN listed
    <2>1. walk.shown \in Seq(DOMAIN listed)
        BY <1>1
    <2> QED
        BY <1>1, <2>1 DEF Pag!ToSet
<1>3. lastId \in 0..MaxRow /\ MaxRow \in Nat
    BY PagesAssumption DEF PageInv, PageType, PagesAssumption
<1>4. 1..lastId \subseteq 1..MaxRow /\ 0..lastId \subseteq 0..MaxRow
    BY <1>3
<1>5. DOMAIN listed \subseteq 1..MaxRow
    BY <1>4 DEF PageInv, PageType
<1>6. open \in [Users -> [at : 0..time, id : 0..MaxRow]]
    <2>1. open \in [Users -> [at : 0..time, id : 0..lastId]]
        BY DEF PageInv, PageType
    <2> QED
        BY <1>4, <2>1
<1> QED
    BY <1>2, <1>5, <1>6 DEF PageInv, PageType, Pag!TypeOK

(***************************************************************************)
(* The areas together.                                                      *)
(***************************************************************************)

\* However transitions interleave, a work order has the dates of its status, and
\* the participants that were asked for last take part; while requests do not
\* overlap, validated is final and nobody else takes part.  Whoever generates,
\* edits and works off what in whatever order: while no edit met a call, no date
\* of a preventive plan is skipped, and while no call met another either, none
\* has two orders; an execution of a checklist is never the middle of a
\* replacement, and while requests do not meet it is worked off in step and is
\* alone on its date.
THEOREM WorkIsCoherentHolds == MCSpec => []WorkIsCoherent
<1> DEFINE Inv == OrderInv /\ PlanInv /\ ChecklistInv
<1>1. MCInit => Inv
    BY OrderInit, PlanInit, ChecklistInit DEF MCInit
<1>2. Inv /\ [MCNext]_<<area, vars, stock, workOrders, plans, checklists, pages, web>> => Inv'
    BY OrderStep, PlanStep, ChecklistStep DEF MCNext
<1>3. Inv => WorkIsCoherent
    BY PlansDone, ChecklistsSound DEF OrderInv, WorkIsCoherent
<1> QED
    BY <1>1, <1>2, <1>3, PTL DEF MCSpec

\* Whatever is written while a list is read, nothing is shown twice and all that
\* stays is shown, of a list continued by id; of a list by page number or of a
\* timeline as long as nothing of what orders it moves.  In every tab a request
\* is carried out once at most and shown as done only if it was; a session that
\* can be renewed is, and who has logged out stays so.
THEOREM ShownIsTrueHolds == MCSpec => []ShownIsTrue
<1> DEFINE Inv == PageInv /\ WebInv
<1>1. MCInit => Inv
    BY PageInit, WebInit DEF MCInit
<1>2. Inv /\ [MCNext]_<<area, vars, stock, workOrders, plans, checklists, pages, web>> => Inv'
    BY PageStep, WebStep DEF MCNext
<1>3. Inv => ShownIsTrue
    BY PagesRight, WebSafe DEF ShownIsTrue
<1> QED
    BY <1>1, <1>2, <1>3, PTL DEF MCSpec

\* What the types of the areas say of their bounds.
OrderNumbers ==
    /\ replaced \in 0..MaxReplace
    /\ rows \subseteq [user : Participant, by : 0..replaced]
    /\ \A r, s \in rows : r.user = s.user => r = s

ChecklistNumbers ==
    /\ day \in 0..MaxDay
    /\ items \subseteq Label \X (1..MaxVersion)
    /\ \A e \in DOMAIN executions : executions[e].checked \cup executions[e].dated \subseteq executions[e].items

AreaNumbers == opening \in Opening /\ OrderNumbers /\ today \in 0..MaxDay /\ ChecklistNumbers

LEMMA BoundsAre == MaxReplace \in Nat /\ MaxDay \in Nat /\ MaxVersion \in Nat /\ 1 <= MaxVersion
    BY NumbersAssumption DEF NumbersAssumption

LEMMA NumbersInit == MCInit => AreaNumbers
<1> SUFFICES ASSUME MCInit PROVE AreaNumbers
    OBVIOUS
<1>1. opening \in Opening
    BY DEF MCInit, Stk!Init
<1>2. OrderNumbers
    <2>1. rows = [user : lastList, by : {0}] /\ replaced = 0 /\ lastList \subseteq Participant
        BY DEF MCInit, Wo!Init, Wo!RowsOf
    <2>2. rows \subseteq [user : Participant, by : 0..0] /\ \A r, s \in rows : r.user = s.user => r = s
        BY <2>1
    <2>3. 0 \in 0..MaxReplace
        BY BoundsAre
    <2> QED
        BY <2>1, <2>2, <2>3 DEF OrderNumbers
<1>3. today \in 0..MaxDay
    BY BoundsAre DEF MCInit, Pp!Init
<1>4. ChecklistNumbers
    <2>1. PICK list \in ItemLists : items = list \X {1}
        BY DEF MCInit, Cl!Init, Cl!RowsOf
    <2>2. list \subseteq Label /\ 1 \in 1..MaxVersion
        BY BoundsAre, NumbersAssumption DEF NumbersAssumption
    <2>3. items \subseteq Label \X (1..MaxVersion)
        BY <2>1, <2>2
    <2>4. day \in 0..MaxDay /\ DOMAIN executions = {}
        BY BoundsAre DEF MCInit, Cl!Init
    <2> QED
        BY <2>3, <2>4 DEF ChecklistNumbers
<1> QED
    BY <1>1, <1>2, <1>3, <1>4 DEF AreaNumbers

LEMMA OpeningStays == Stk!Next \/ UNCHANGED stock => opening' = opening
    BY DEF Stk!Next, stock, Stk!BeginMovement, Stk!CommitMovement, Stk!AbortMovement, Stk!DeleteItem

LEMMA OrderNumbersStep ==
    ASSUME OrderInv, OrderNumbers, Wo!Next \/ UNCHANGED workOrders
    PROVE  OrderNumbers'
<1>1. CASE UNCHANGED <<rows, replaced>>
    BY <1>1 DEF OrderNumbers
<1>2. ASSUME NEW u \in Users, Wo!ReplaceCommit(u) PROVE OrderNumbers'
    <2>1. PICK list, n : list = request[u].list /\ n = replaced + 1
        OBVIOUS
    <2>2. /\ replaced < MaxReplace /\ {r.user : r \in Wo!Left(u)} \cap list = {}
          /\ rows' = Wo!Left(u) \cup [user : list, by : {n}] /\ replaced' = n
          /\ Wo!Left(u) \subseteq rows
        BY <1>2, <2>1 DEF Wo!ReplaceCommit, Wo!Left, Wo!RowsOf
    <2>3. list \subseteq Participant
        BY <2>1 DEF OrderInv, OrderType, OrderRequest
    <2>4. n \in 0..MaxReplace /\ 0..replaced \subseteq 0..n /\ n \in 0..n
        BY <2>1, <2>2, BoundsAre DEF OrderNumbers
    <2>5. rows' \subseteq [user : Participant, by : 0..n]
        <3>1. Wo!Left(u) \subseteq [user : Participant, by : 0..n]
            BY <2>2, <2>4 DEF OrderNumbers
        <3>2. [user : list, by : {n}] \subseteq [user : Participant, by : 0..n]
            BY <2>3, <2>4
        <3> QED
            BY <2>2, <3>1, <3>2
    <2>6. ASSUME NEW r \in rows', NEW s \in rows', r.user = s.user PROVE r = s
        <3>1. CASE r \in Wo!Left(u) /\ s \in Wo!Left(u)
            BY <2>2, <2>6, <3>1 DEF OrderNumbers
        <3>2. CASE r \in [user : list, by : {n}] /\ s \in [user : list, by : {n}]
            BY <2>6, <3>2
        <3>3. ~(r \in Wo!Left(u) /\ s \in [user : list, by : {n}])
            BY <2>2, <2>6
        <3>4. ~(s \in Wo!Left(u) /\ r \in [user : list, by : {n}])
            BY <2>2, <2>6
        <3> QED
            BY <2>2, <3>1, <3>2, <3>3, <3>4
    <2> QED
        BY <2>2, <2>4, <2>5, <2>6 DEF OrderNumbers
<1> QED
    BY <1>1, <1>2 DEF Wo!Next, workOrders, Wo!TransitionBegin, Wo!TransitionCommit, Wo!Abort, Wo!ReplaceBegin, Wo!DeleteRows, Wo!Delete

LEMMA TodayStays == today \in 0..MaxDay /\ (Pp!Next \/ UNCHANGED plans) => today' \in 0..MaxDay
<1> SUFFICES ASSUME today \in 0..MaxDay, Pp!Next \/ UNCHANGED plans PROVE today' \in 0..MaxDay
    OBVIOUS
<1>1. today' = today \/ (today < MaxDay /\ today' = today + 1)
    BY DEF Pp!Next, plans, Pp!GenerateBegin, Pp!GenerateCommit, Pp!GenerateAbort, Pp!UpdatePlan, Pp!DeletePlan, Pp!NextDay
<1> QED
    BY <1>1, BoundsAre

LEMMA ChecklistNumbersStep ==
    ASSUME ChecklistInv, ChecklistNumbers, Cl!Next \/ UNCHANGED checklists
    PROVE  ChecklistNumbers'
<1>1. CASE UNCHANGED <<items, executions>> /\ (day' = day \/ (day < MaxDay /\ day' = day + 1))
    BY <1>1, BoundsAre DEF ChecklistNumbers
<1>2. ASSUME NEW u \in Users, Cl!UpdateCommit(u) PROVE ChecklistNumbers'
    <2>1. PICK list, n : list = work[u].list /\ n = Len(versions) + 1
        OBVIOUS
    <2>2. /\ Len(versions) < MaxVersion /\ items' = (items \ work[u].rows) \cup (list \X {n})
          /\ UNCHANGED <<day, executions>>
        BY <1>2, <2>1 DEF Cl!UpdateCommit, Cl!RowsOf
    <2>3. list \subseteq Label /\ Len(versions) \in Nat
        BY <1>2, <2>1 DEF ChecklistInv, ChecklistType, ReadWhole, Cl!UpdateCommit, Cl!At
    <2>4. n \in 1..MaxVersion
        BY <2>1, <2>2, <2>3, BoundsAre
    <2>5. items' \subseteq Label \X (1..MaxVersion)
        BY <2>2, <2>3, <2>4 DEF ChecklistNumbers
    <2> QED
        BY <2>2, <2>5 DEF ChecklistNumbers
<1>3. ASSUME NEW u \in Users, Cl!GenerateCommit(u) PROVE ChecklistNumbers'
    <2>1. PICK e : e = Cl!Execution(work[u].due, work[u].rows)
        OBVIOUS
    <2>2. executions' = Append(executions, e) /\ UNCHANGED <<items, day>> /\ e.checked = {} /\ e.dated = {}
        BY <1>3, <2>1 DEF Cl!GenerateCommit, Cl!Execution
    <2>3. executions \in Seq(ExecutionRow)
        BY DEF ChecklistInv, ChecklistType
    <2>4. \A i \in DOMAIN executions' : executions'[i] = e \/ (i \in DOMAIN executions /\ executions'[i] = executions[i])
        BY <2>2, <2>3
    <2>5. \A i \in DOMAIN executions' : executions'[i].checked \cup executions'[i].dated \subseteq executions'[i].items
        BY <2>2, <2>4 DEF ChecklistNumbers
    <2> QED
        BY <2>2, <2>5 DEF ChecklistNumbers
<1>4. ASSUME NEW i \in DOMAIN executions, NEW e,
             executions' = [executions EXCEPT ![i] = e], e.checked \cup e.dated \subseteq e.items, UNCHANGED <<items, day>>
      PROVE  ChecklistNumbers'
    <2>1. \A j \in DOMAIN executions' : j \in DOMAIN executions /\ executions'[j] = IF j = i THEN e ELSE executions[j]
        BY <1>4
    <2>2. \A j \in DOMAIN executions' : executions'[j].checked \cup executions'[j].dated \subseteq executions'[j].items
        BY <1>4, <2>1 DEF ChecklistNumbers
    <2> QED
        BY <1>4, <2>2 DEF ChecklistNumbers
<1>5. ASSUME NEW u \in Users, Cl!ToggleCommit(u) PROVE ChecklistNumbers'
    <2>1. PICK i, q, old, e : i = work[u].on /\ q = work[u] /\ old = executions[i] /\ e = Cl!Toggled(q, old)
        OBVIOUS
    <2>2. executions' = [executions EXCEPT ![i] = e] /\ UNCHANGED <<items, day>> /\ q.op = "toggle"
        BY <1>5, <2>1 DEF Cl!ToggleCommit, Cl!At
    <2>3. i \in DOMAIN executions /\ q.item \in old.items
        BY <2>1, <2>2 DEF ChecklistInv, ReadWhole
    <2>4. old \in ExecutionRow
        BY <2>1, <2>3 DEF ChecklistInv, ChecklistType
    <2>5. old.checked \subseteq old.items /\ old.dated \subseteq old.items
        BY <2>1, <2>3 DEF ChecklistNumbers
    <2>6. \A S, in : S \subseteq old.items => Cl!Put(S, q.item, in) \subseteq old.items
        BY <2>3 DEF Cl!Put
    <2>7. e.items = old.items /\ e.checked \subseteq old.items /\ e.dated \subseteq old.items
        <3>1. PICK c, d : /\ c = (IF q.check = q.wasChecked THEN old.checked ELSE Cl!Put(old.checked, q.item, q.check))
                          /\ d = (IF q.check \/ q.wasDated THEN Cl!Put(old.dated, q.item, q.check) ELSE old.dated)
            OBVIOUS
        <3>2. e = [old EXCEPT !.checked = c, !.dated = d]
            BY <2>1, <3>1 DEF Cl!Toggled
        <3>3. c \subseteq old.items /\ d \subseteq old.items
            BY <2>5, <2>6, <3>1
        <3>4. e.items = old.items /\ e.checked = c /\ e.dated = d
            BY <2>4, <3>2 DEF ExecutionRow
        <3> QED
            BY <3>3, <3>4
    <2> QED
        BY <1>4, <2>2, <2>3, <2>7
<1>6. CASE Cl!Complete
    <2>1. PICK i \in DOMAIN executions : executions' = [executions EXCEPT ![i].status = "concluido"] /\ UNCHANGED <<items, day>>
        BY <1>6 DEF Cl!Complete
    <2>2. PICK e : e = [executions[i] EXCEPT !.status = "concluido"]
        OBVIOUS
    <2>3. executions[i] \in ExecutionRow
        BY DEF ChecklistInv, ChecklistType
    <2>4. e.items = executions[i].items /\ e.checked = executions[i].checked /\ e.dated = executions[i].dated
        BY <2>2, <2>3 DEF ExecutionRow
    <2>5. executions' = [executions EXCEPT ![i] = e]
        BY <2>1, <2>2
    <2>6. e.checked \cup e.dated \subseteq e.items
        BY <2>4 DEF ChecklistNumbers
    <2> QED
        BY <1>4, <2>1, <2>5, <2>6
<1> QED
    BY <1>1, <1>2, <1>3, <1>5, <1>6 DEF Cl!Next, checklists, Cl!UpdateBegin, Cl!UpdateRow, Cl!DeleteItems, Cl!GenerateBegin,
        Cl!ReadItems, Cl!ToggleBegin, Cl!Abort, Cl!DeleteTemplate, Cl!NextDay

BackOfficeInv == TypeInv /\ StockInv /\ OrderInv /\ PlanInv /\ ChecklistInv /\ PageInv /\ WebInv /\ AreaNumbers

LEMMA AreasTyped == BackOfficeInv => MCTypeOK
<1> SUFFICES ASSUME BackOfficeInv PROVE MCTypeOK
    OBVIOUS
<1>1. TypeOK /\ Pag!TypeOK /\ Web!TypeOK
    BY PagesTyped, WebTypes DEF BackOfficeInv, TypeInv
<1>2. Stk!TypeOK
    <2>1. \A mv \in StockRequest : mv = Stk!NoMovement \/ (Stk!Written(mv) \in Stk!Movement /\ mv.loaded \in Int)
        BY DEF StockRequest, Stk!Written, Stk!Movement
    <2> QED
        BY <2>1 DEF BackOfficeInv, StockInv, StockType, AreaNumbers, Stk!TypeOK
<1>3. Wo!TypeOK
    <2>1. 0..replaced \subseteq 0..MaxReplace
        BY BoundsAre DEF BackOfficeInv, AreaNumbers, OrderNumbers
    <2>2. rows \subseteq [user : Participant, by : 0..MaxReplace]
        BY <2>1 DEF BackOfficeInv, AreaNumbers, OrderNumbers
    <2> QED
        BY <2>2 DEF BackOfficeInv, OrderInv, OrderType, OrderRow, AreaNumbers, OrderNumbers, Wo!TypeOK
<1>4. Pp!TypeOK
    BY DEF BackOfficeInv, PlanInv, PlanType, AreaNumbers, Pp!TypeOK, Pp!UnderWay
<1>5. Cl!TypeOK
    <2>1. \A e \in DOMAIN executions : executions[e].status \in {"pendente", "concluido"}
        <3>1. executions \in Seq(ExecutionRow)
            BY DEF BackOfficeInv, ChecklistInv, ChecklistType
        <3>2. \A e \in DOMAIN executions : executions[e] \in ExecutionRow
            BY <3>1
        <3> QED
            BY <3>2 DEF ExecutionRow
    <2> QED
        BY <2>1 DEF BackOfficeInv, ChecklistInv, ChecklistType, TemplateRow, AreaNumbers, ChecklistNumbers, Cl!TypeOK
<1> QED
    BY <1>1, <1>2, <1>3, <1>4, <1>5 DEF MCTypeOK

\* Every variable of every area keeps its type: no row, date or version is out of
\* its bounds, a participant has one row, and what is ticked is an item that is there.
THEOREM MCTypeCorrect == MCSpec => []MCTypeOK
<1>1. MCInit => BackOfficeInv
    BY TypeInit, StockInit, OrderInit, PlanInit, ChecklistInit, PageInit, WebInit, NumbersInit DEF MCInit, BackOfficeInv
<1>2. BackOfficeInv /\ [MCNext]_<<area, vars, stock, workOrders, plans, checklists, pages, web>> => BackOfficeInv'
    <2> SUFFICES ASSUME BackOfficeInv, [MCNext]_<<area, vars, stock, workOrders, plans, checklists, pages, web>> PROVE BackOfficeInv'
        OBVIOUS
    <2>1. [Next]_vars /\ (Stk!Next \/ UNCHANGED stock) /\ (Wo!Next \/ UNCHANGED workOrders) /\ (Pp!Next \/ UNCHANGED plans)
          /\ (Cl!Next \/ UNCHANGED checklists) /\ (Pag!Next \/ UNCHANGED pages) /\ (Web!Next \/ UNCHANGED web)
        BY DEF MCNext
    <2>2. TypeInv' /\ StockInv' /\ OrderInv' /\ PlanInv'
        BY <2>1, TypeStep, StockStep, OrderStep, PlanStep DEF BackOfficeInv
    <2>3. ChecklistInv' /\ PageInv' /\ WebInv'
        BY <2>1, ChecklistStep, PageStep, WebStep DEF BackOfficeInv
    <2>4. AreaNumbers'
        BY <2>1, OpeningStays, OrderNumbersStep, TodayStays, ChecklistNumbersStep DEF BackOfficeInv, AreaNumbers
    <2> QED
        BY <2>2, <2>3, <2>4 DEF BackOfficeInv
<1> QED
    BY <1>1, <1>2, AreasTyped, PTL DEF MCSpec

\* A behaviour of the back office is one of a contract, and has the properties
\* that are proved of it.
THEOREM GroupImplements == MCSpec => Spec
<1>1. MCInit => Init
    BY DEF MCInit
<1>2. [MCNext]_<<area, vars, stock, workOrders, plans, checklists, pages, web>> => [Next]_vars
    BY DEF MCNext
<1> QED
    BY <1>1, <1>2, PTL DEF MCSpec, Spec
=============================================================================
