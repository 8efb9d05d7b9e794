-------------------------------- MODULE ErpSync --------------------------------
(***************************************************************************)
(* The exchange with the ERP that is asked for by its own sync              *)
(* (domain/integrations_erpsolid): it pulls the contracts that changed      *)
(* since it last asked, and pushes its suppliers, whose rows here mirror    *)
(* its own (services/external_import.py; cost centres are the same).        *)
(*                                                                          *)
(* updated_at is func.now(), the time at which the transaction began, not   *)
(* that of its commit.  The ERP remembers when it last asked, by the same    *)
(* clock.  One contract and one supplier: each is pulled and pushed for     *)
(* itself.                                                                  *)
(***************************************************************************)
EXTENDS Integers

CONSTANTS
    User,        \* those whose requests may be under way at the same time
    MaxTime,     \* bound: the clock
    MaxVersion,  \* bound: versions of the contract
    Name         \* the names that the ERP and people here may give a supplier

VARIABLES
    now,
    contract,  \* its row: updated_at, its content, whether it is deleted
    asked,     \* when the ERP last asked (-1: never)
    known,     \* the content that the ERP has (0: none)
    supplier,  \* the name in the row of the ERP's supplier, deleted or not (0: there is none)
    request,   \* the requests
    last,      \* history: the name that was last given to the supplier, by whomever
    skipped,   \* history: a change was open while the ERP pulled
    mixed      \* history: two requests have been under way at once

vars == <<now, contract, asked, known, supplier, request, last, skipped, mixed>>

NoName == 0

Init ==
    /\ now = 0
    /\ contract = [updated |-> 0, version |-> 1, deleted |-> FALSE]
    /\ asked = -1 /\ known = 0
    /\ supplier = NoName
    /\ request = [u \in User |-> [op |-> "none"]]
    /\ last = NoName /\ skipped = FALSE /\ mixed = FALSE

Idle(u) == request[u].op = "none"

Begin(u, r) ==
    /\ Idle(u)
    /\ request' = [request EXCEPT ![u] = r]
    /\ mixed' = (mixed \/ \E v \in User : ~Idle(v))
    /\ UNCHANGED <<now, contract, asked, known, supplier, last, skipped>>

Finish(u) == request' = [request EXCEPT ![u] = [op |-> "none"]]

Abort(u) ==
    /\ ~Idle(u) /\ Finish(u)
    /\ UNCHANGED <<now, contract, asked, known, supplier, last, skipped, mixed>>

Tick ==
    /\ now < MaxTime /\ now' = now + 1
    /\ UNCHANGED <<contract, asked, known, supplier, request, last, skipped, mixed>>

------------------------------------------------------------------------------
(* Contracts.                                                               *)

\* A change of the contract, or its deletion: its transaction begins.
ChangeBegin(u) ==
    /\ ~contract.deleted
    /\ \E deletes \in BOOLEAN : Begin(u, [op |-> "change", began |-> now, deletes |-> deletes])

\* TimestampMixin.updated_at.
ChangeCommit(u) ==
    /\ request[u].op = "change"
    /\ contract.version < MaxVersion
    /\ contract' = [updated |-> request[u].began, version |-> contract.version + 1,
                    deleted |-> contract.deleted \/ request[u].deletes]
    /\ Finish(u)
    /\ UNCHANGED <<now, asked, known, supplier, last, skipped, mixed>>

\* (As Since, for what changed after.)
After(row, since) == since = -1 \/ row.updated > since

\* The filter of list_contracts_for_erpsolid.
Since(row, since) == since = -1 \/ row.updated >= since

\* The ERP asks; it remembers when it did.
Pull ==
    /\ known' = IF ~contract.deleted /\ Since(contract, asked) THEN contract.version ELSE known
    /\ asked' = now
    /\ skipped' = (skipped \/ \E u \in User : request[u].op = "change")
    /\ UNCHANGED <<now, contract, supplier, request, last, mixed>>

------------------------------------------------------------------------------
(* Suppliers.                                                               *)

\* (As Upserted, leaving the rows that are there.)
InsertedOnly(u) ==
    IF request[u].loaded # NoName THEN supplier' = supplier
    ELSE supplier = NoName /\ supplier' = request[u].name

\* upsert_by_external_id loads the row.
PushBegin(u) == \E name \in Name : Begin(u, [op |-> "push", name |-> name, loaded |-> supplier])

\* It writes the column if it differs from what it loaded, or inserts the row:
\* ix_suppliers_external_id_unique lets one of two who do so through.
Upserted(u) ==
    IF request[u].loaded # NoName
    THEN supplier' = IF request[u].loaded = request[u].name THEN supplier ELSE request[u].name
    ELSE supplier = NoName /\ supplier' = request[u].name

PushCommit(u) ==
    /\ request[u].op = "push"
    /\ Upserted(u)
    /\ last' = request[u].name
    /\ Finish(u)
    /\ UNCHANGED <<now, contract, asked, known, skipped, mixed>>

\* update_supplier, here.
RenameBegin(u) ==
    \E name \in Name \ {supplier} :
        supplier # NoName /\ Begin(u, [op |-> "rename", name |-> name])

RenameCommit(u) ==
    /\ request[u].op = "rename"
    /\ supplier' = request[u].name /\ last' = request[u].name
    /\ Finish(u)
    /\ UNCHANGED <<now, contract, asked, known, skipped, mixed>>

Next ==
    \/ Tick \/ Pull
    \/ \E u \in User :
        \/ ChangeBegin(u) \/ ChangeCommit(u) \/ PushBegin(u) \/ PushCommit(u)
        \/ RenameBegin(u) \/ RenameCommit(u) \/ Abort(u)

Spec == Init /\ [][Next]_vars

------------------------------------------------------------------------------
(* Properties.                                                              *)

\* Every variable keeps its type.
TypeOK ==
    /\ now \in 0..MaxTime
    /\ contract \in [updated : 0..MaxTime, version : 1..MaxVersion, deleted : BOOLEAN]
    /\ asked \in -1..MaxTime /\ known \in 0..MaxVersion
    /\ supplier \in Name \cup {NoName} /\ last \in Name \cup {NoName}
    /\ DOMAIN request = User /\ skipped \in BOOLEAN /\ mixed \in BOOLEAN

\* However changes of a contract overlap each other and the clock stands or
\* runs, what the ERP does not have yet it gets when it asks again, as long as
\* no change was open while it asked, and the contract is not deleted, which it
\* is never told.
NothingIsSkipped ==
    (~skipped /\ ~contract.deleted /\ known # contract.version) => Since(contract, asked)

\* As long as no two requests overlapped, the supplier has the name that the
\* ERP, or somebody here, gave it last.
SupplierIsMirrored == ~mixed => supplier = last

ErpIsInStep == NothingIsSkipped /\ SupplierIsMirrored
=============================================================================
