--------------------------- MODULE ContractApproval ---------------------------
(***************************************************************************)
(* One contract of domain/contracts/service.py: its status, its approval   *)
(* steps, and the requests that work on them.                              *)
(*                                                                         *)
(* A request is a transaction at READ COMMITTED.  It loads the contract,   *)
(* reads the steps in a second SELECT, writes, and commits; what it wrote  *)
(* is visible to the others only then (the commit is the action that       *)
(* changes status and steps).  A row that was flushed stays locked until   *)
(* the commit.  The contract is written back by primary key, whatever its  *)
(* status has become since it was loaded: there is no SELECT FOR UPDATE    *)
(* and no version column.  The lock of the contract's own row is left out: *)
(* it delays writers that do not look at the row again.                    *)
(***************************************************************************)
EXTENDS Integers, Sequences

CONSTANTS
    Approver,       \* users who approve
    Decider,        \* requests to decide a step, of any approver each
    Editor,         \* requests to edit and submit
    ApproverLists,  \* the lists of approvers that a request may carry
    Unspecified,    \* a request without approver_user_ids
    MaxStep         \* bound: approval steps ever created

ASSUME RequestsAssumption == Decider \cap Editor = {}
ASSUME ListsAssumption == ApproverLists \subseteq Seq(Approver) /\ Unspecified \notin ApproverLists
ASSUME BoundAssumption == MaxStep \in Nat /\ \A list \in ApproverLists : Len(list) <= MaxStep

VARIABLES
    status,     \* contracts.status
    deleted,    \* contracts.deleted_at is set
    autoRenew,  \* contracts.auto_renew
    endDate,    \* contracts.end_date, seen from today
    steps,      \* the rows of contract_approval_steps
    nextStep,   \* next id of contract_approval_steps
    notified,   \* a notification of the expiry was created
    req,        \* the requests
    manual,     \* history: the status was set through PATCH /status
    overlapped, \* history: two requests have been under way at once
    doubled     \* history: steps decided while a second request had found them too

contract == <<status, deleted, autoRenew, endDate>>
vars == <<contract, steps, nextStep, notified, req, manual, overlapped, doubled>>

User == Decider \cup Editor

Status == {"rascunho", "aguardando_aprovacao", "ativo", "em_renovacao",
           "suspenso", "encerrado", "cancelado"}

\* record_event writes the actor's id into a foreign key to users, whose ids
\* start at 1; the expiry job names user 0.
SystemUserExists == FALSE

\* (As StepsFor, with the steps numbered from 0.)
StepsFromZero(list) ==
    {[id |-> nextStep + i, order |-> i - 1, approver |-> list[i], status |-> "pendente"] : i \in DOMAIN list}

StepsFor(list) ==
    {[id |-> nextStep + i, order |-> i, approver |-> list[i], status |-> "pendente"] : i \in DOMAIN list}

Lists == ApproverLists \cup {Unspecified}

Pending(rows) == {s \in rows : s.status = "pendente"}

NoRequest == [op |-> "none", pc |-> "idle", loaded |-> "rascunho",
              list |-> Unspecified, rows |-> {}, last |-> FALSE]

\* Rows that a flushed but not committed request has locked.
Locked(u) == UNION {req[v].rows : v \in {v \in User \ {u} : req[v].pc = "flushed"}}

Init ==
    /\ status = "rascunho"
    /\ deleted = FALSE
    /\ autoRenew \in BOOLEAN
    /\ endDate = "far"
    /\ notified = FALSE
    /\ \E list \in ApproverLists \cup {<<>>} :
         /\ steps = {[id |-> i, order |-> i, approver |-> list[i], status |-> "pendente"] : i \in DOMAIN list}
         /\ nextStep = Len(list)
    /\ req = [u \in User |-> NoRequest]
    /\ manual = FALSE
    /\ overlapped = FALSE
    /\ doubled = {}

------------------------------------------------------------------------------
(* Requests.                                                               *)

\* The contract is loaded: SELECT ... WHERE deleted_at IS NULL.
Load(u, op, list) ==
    /\ req[u] = NoRequest
    /\ ~deleted
    /\ req' = [req EXCEPT ![u] = [NoRequest EXCEPT !.op = op, !.pc = "begun",
                                                   !.loaded = status, !.list = list]]
    /\ overlapped' = (overlapped \/ \E v \in User : req[v] # NoRequest)
    /\ UNCHANGED <<contract, steps, nextStep, notified, manual, doubled>>

At(u, ops, pc) == req[u].op \in ops /\ req[u].pc = pc

Respond(u) == req' = [req EXCEPT ![u] = NoRequest]

\* A request fails (an error of the database, a client that went away): its
\* transaction is rolled back.
Abort(u) ==
    /\ req[u] # NoRequest
    /\ Respond(u)
    /\ UNCHANGED <<contract, steps, nextStep, notified, manual, overlapped, doubled>>

------------------------------------------------------------------------------
(* submit_contract and update_contract replace the steps of a draft.       *)

SubmitBegin(u) == status = "rascunho" /\ \E list \in Lists : Load(u, "submit", list)

\* (As UpdateBegin, for a contract in any status.)
UpdateAnyhow(u) == \E list \in ApproverLists : Load(u, "update", list)

\* Only an update that replaces the steps is of interest: the others touch
\* neither the status nor the steps.
UpdateBegin(u) == status = "rascunho" /\ \E list \in ApproverLists : Load(u, "update", list)

\* (As ReadSteps, with the steps of an earlier round left in place.)
ReadPendingSteps(u) ==
    /\ At(u, {"submit", "update"}, "begun")
    /\ req' = [req EXCEPT ![u].pc = "read", ![u].rows = {s.id : s \in Pending(steps)}]
    /\ UNCHANGED <<contract, steps, nextStep, notified, manual, overlapped, doubled>>

ReadSteps(u) ==
    /\ At(u, {"submit", "update"}, "begun")
    /\ req' = [req EXCEPT ![u].pc = "read", ![u].rows = {s.id : s \in steps}]
    /\ UNCHANGED <<contract, steps, nextStep, notified, manual, overlapped, doubled>>

\* DELETE of the rows that were read; one that has vanished is ignored.
DeleteSteps(u) ==
    /\ At(u, {"submit", "update"}, "read")
    /\ req[u].rows \cap Locked(u) = {}
    /\ req' = [req EXCEPT ![u].pc = "flushed"]
    /\ UNCHANGED <<contract, steps, nextStep, notified, manual, overlapped, doubled>>

ReplaceSteps(u, list) ==
    /\ nextStep + Len(list) <= MaxStep
    /\ steps' = {s \in steps : s.id \notin req[u].rows} \cup StepsFor(list)
    /\ nextStep' = nextStep + Len(list)

SubmitCommit(u) ==
    /\ At(u, {"submit"}, "flushed")
    /\ LET list == IF req[u].list = Unspecified THEN <<>> ELSE req[u].list
       IN  /\ ReplaceSteps(u, list)
           /\ status' = IF list = <<>> THEN "ativo" ELSE "aguardando_aprovacao"
    /\ manual' = FALSE
    /\ Respond(u)
    /\ UNCHANGED <<deleted, autoRenew, endDate, notified, overlapped, doubled>>

UpdateCommit(u) ==
    /\ At(u, {"update"}, "flushed")
    /\ ReplaceSteps(u, req[u].list)
    /\ Respond(u)
    /\ UNCHANGED <<contract, notified, manual, overlapped, doubled>>

------------------------------------------------------------------------------
(* decide_approval.                                                        *)

DecideBegin(u) == status = "aguardando_aprovacao" /\ Load(u, "decide", Unspecified)

\* (As MyStep, whether the step is decided or not.)
MyStepAgain(a, s) == s \in steps /\ s.approver = a

MyStep(a, s) == s \in steps /\ s.approver = a /\ s.status = "pendente"

\* The request is that of the approver whose step it finds: an approver may
\* have several under way (two tabs, a second click, an approval and a
\* rejection), and nothing keeps them from finding the same step.
FindStep(u) ==
    /\ At(u, {"decide"}, "begun")
    /\ \E a \in Approver, s \in steps : MyStep(a, s) /\ req' = [req EXCEPT ![u].pc = "read", ![u].rows = {s.id}]
    /\ UNCHANGED <<contract, steps, nextStep, notified, manual, overlapped, doubled>>

\* The row to decide is there (an UPDATE of a vanished row is an error) and
\* no other transaction has it locked.
Writable(u, s) == s \in steps /\ s.id \in req[u].rows /\ s.id \notin Locked(u)

\* flush() writes the approval, then the pending steps are counted: the
\* request's own write counts, what the others have not committed does not.
FlushAndCount(u) ==
    /\ At(u, {"decide"}, "read")
    /\ \E s \in steps :
         /\ Writable(u, s)
         /\ req' = [req EXCEPT ![u].pc = "flushed", ![u].last = (Pending(steps \ {s}) = {})]
    /\ UNCHANGED <<contract, steps, nextStep, notified, manual, overlapped, doubled>>

\* The decision is written over whatever the step has become.
Decided(u, decision) ==
    /\ steps' = {IF s.id \in req[u].rows THEN [s EXCEPT !.status = decision] ELSE s : s \in steps}
    /\ doubled' = doubled \cup
         {x \in req[u].rows : \E v \in User \ {u} : req[v].op = "decide" /\ x \in req[v].rows}

\* (As CommitApproval, with the activation forgotten.)
CommitApprovalOnly(u) ==
    /\ At(u, {"decide"}, "flushed")
    /\ Decided(u, "aprovado")
    /\ Respond(u)
    /\ UNCHANGED <<contract, nextStep, notified, manual, overlapped>>

CommitApproval(u) ==
    /\ At(u, {"decide"}, "flushed")
    /\ Decided(u, "aprovado")
    /\ status' = IF req[u].last THEN "ativo" ELSE status
    /\ Respond(u)
    /\ UNCHANGED <<deleted, autoRenew, endDate, nextStep, notified, manual, overlapped>>

CommitRejection(u) ==
    /\ At(u, {"decide"}, "read")
    /\ \E s \in steps : Writable(u, s)
    /\ Decided(u, "rejeitado")
    /\ status' = "rascunho"
    /\ Respond(u)
    /\ UNCHANGED <<deleted, autoRenew, endDate, nextStep, notified, manual, overlapped>>

------------------------------------------------------------------------------
(* update_contract_status, delete_contract, create_amendment and the job.  *)

StatusBegin(u) == Load(u, "status", Unspecified)

\* The ORM writes the status only when it differs from the one it loaded.
StatusCommit(u) ==
    /\ At(u, {"status"}, "begun")
    /\ \E new \in Status \ {req[u].loaded} : status' = new
    /\ manual' = TRUE
    /\ Respond(u)
    /\ UNCHANGED <<deleted, autoRenew, endDate, steps, nextStep, notified, overlapped, doubled>>

Delete ==
    /\ ~deleted
    /\ deleted' = TRUE
    /\ UNCHANGED <<status, autoRenew, endDate, steps, nextStep, notified, req, manual, overlapped, doubled>>

\* An amendment (or an update) sets a new end date.
Amend ==
    /\ ~deleted
    /\ endDate' = "far"
    /\ UNCHANGED <<status, deleted, autoRenew, steps, nextStep, notified, req, manual, overlapped, doubled>>

TimePasses ==
    /\ endDate # "past"
    /\ endDate' = IF endDate = "far" THEN "near" ELSE "past"
    /\ UNCHANGED <<status, deleted, autoRenew, steps, nextStep, notified, req, manual, overlapped, doubled>>

DueForRenewal == ~deleted /\ status = "ativo" /\ autoRenew /\ endDate = "past"

\* The event of a renewal is flushed in the loop: when the foreign key
\* refuses it, the job fails and its transaction is rolled back.
RunExpiryAlerts ==
    /\ ~deleted
    /\ status \in {"ativo", "em_renovacao"}
    /\ IF DueForRenewal
         THEN /\ status' = IF SystemUserExists THEN "em_renovacao" ELSE status
              /\ UNCHANGED notified
         ELSE /\ notified' = (notified \/ endDate = "near")
              /\ UNCHANGED status
    /\ UNCHANGED <<deleted, autoRenew, endDate, steps, nextStep, req, manual, overlapped, doubled>>

------------------------------------------------------------------------------

Approve(u) == DecideBegin(u) \/ FindStep(u) \/ FlushAndCount(u) \/ CommitApproval(u) \/ CommitRejection(u)

Edit(u) ==
    \/ SubmitBegin(u) \/ UpdateBegin(u) \/ ReadSteps(u) \/ DeleteSteps(u)
    \/ SubmitCommit(u) \/ UpdateCommit(u) \/ StatusBegin(u) \/ StatusCommit(u)

Next ==
    \/ \E u \in Decider : Approve(u)
    \/ \E u \in Editor : Edit(u)
    \/ \E u \in User : Abort(u)
    \/ Delete \/ Amend \/ TimePasses \/ RunExpiryAlerts

Spec == Init /\ [][Next]_vars

\* The expiry job is called again and again (POST /jobs/expiry-alerts).
LiveSpec == Spec /\ WF_vars(RunExpiryAlerts)

------------------------------------------------------------------------------
(* Properties.                                                             *)

Step == [id : 1..MaxStep, order : 1..MaxStep, approver : Approver, status : {"pendente", "aprovado", "rejeitado"}]

Request == [op : {"none", "submit", "update", "decide", "status"}, pc : {"idle", "begun", "read", "flushed"},
            loaded : Status, list : Lists, rows : SUBSET (1..MaxStep), last : BOOLEAN]

\* Every variable keeps its type, step ids are given out once, and a flushed
\* row is held by one request.
TypeOK ==
    /\ status \in Status /\ deleted \in BOOLEAN /\ autoRenew \in BOOLEAN /\ notified \in BOOLEAN
    /\ endDate \in {"far", "near", "past"}
    /\ manual \in BOOLEAN /\ overlapped \in BOOLEAN /\ doubled \subseteq 1..MaxStep
    /\ nextStep \in 0..MaxStep
    /\ steps \subseteq Step
    /\ \A s \in steps : s.id <= nextStep /\ \A t \in steps : s.id = t.id => s = t
    /\ req \in [User -> Request]
    /\ \A u \in User : req[u].pc = "flushed" => req[u].rows \cap Locked(u) = {}

\* While requests do not overlap, a contract that its approvers made active
\* has no step that is pending or rejected (decide_approval counts only the
\* pending ones; submit_contract must have removed those of earlier rounds).
ActiveMeansAllApproved ==
    ~overlapped /\ ~manual /\ status \in {"ativo", "em_renovacao"} => \A s \in steps : s.status = "aprovado"

\* While requests do not overlap, a contract that waits for approval always
\* has someone it waits for: nothing but PATCH /status could move it on.
AwaitingHasPending ==
    ~overlapped /\ ~manual /\ status = "aguardando_aprovacao" => Pending(steps) # {}

\* A decision stands as long as its step lives, whoever submits, edits, decides
\* or fails beside it; only a second request of the approver that had found the
\* step pending before the decision was committed writes its own over it
\* (decide_approval neither locks the step nor looks at it again).
StepDecidedOnce ==
    [][\A s \in steps : s.status # "pendente" /\ s.id \notin doubled =>
         \A t \in steps' : t.id = s.id => t = s]_vars

\* With one request to edit at a time, and however those that decide
\* interleave, two of one approver included: a contract with a rejection on
\* record does not wait for the others.
RejectedMeansNotAwaiting ==
    ~manual /\ (\E s \in steps : s.status = "rejeitado") => status # "aguardando_aprovacao"

\* docs/contratos.md: a rejected step sends the contract back to draft; it is
\* not made active by the approvals that come with it.
RejectedIsNotActive ==
    ~manual /\ (\E s \in steps : s.status = "rejeitado") => status # "ativo"

\* run_expiry_alerts: an expired contract with auto_renew is renewed.
DueIsRenewed == DueForRenewal ~> ~DueForRenewal
=============================================================================
