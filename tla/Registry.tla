-------------------------------- MODULE Registry --------------------------------
(***************************************************************************)
(* What contracts refer to (domain/contracts): the contacts of a supplier,  *)
(* of which one at most is the primary, and the numbers that contracts are  *)
(* given, by hand or by the code (CTR-<year>-<number>, within one year).    *)
(*                                                                          *)
(* Nothing but the code keeps a contact the only primary one, or a number    *)
(* from being given twice.  A request writes, at its commit, the columns    *)
(* that it set, if they differ from what it loaded.                         *)
(***************************************************************************)
EXTENDS Integers, Sequences, FiniteSets

CONSTANTS
    User,        \* those whose requests may be under way at the same time
    MaxContact,  \* bound: rows of contacts, ever
    MaxContract  \* bound: contracts, ever

VARIABLES
    supplier,   \* the supplier was not deleted
    contacts,   \* the rows of its contacts, in the order of their commits
    contracts,  \* the contracts, in the order of their commits: their number (0: none, or one
                \* that is not CTR-<year>-<number>), and whether they were deleted
    request,    \* the requests
    racing,     \* history: two requests have overlapped since a contact was last made the
                \* primary one by a request that overlapped with no other
    mixed,      \* history: two requests have been under way at once
    dropped,    \* history: a contract was deleted
    byHand      \* history: a CTR-<year>-<number> was given to a contract, or taken from
                \* one, by hand

vars == <<supplier, contacts, contracts, request, racing, mixed, dropped, byHand>>

Contact == [primary : BOOLEAN, deleted : BOOLEAN]

Init ==
    /\ supplier = TRUE /\ contacts = <<>> /\ contracts = <<>>
    /\ request = [u \in User |-> [op |-> "none"]]
    /\ racing = FALSE /\ mixed = FALSE /\ dropped = FALSE /\ byHand = FALSE

Idle(u) == request[u].op = "none"

Others(u) == \E v \in User \ {u} : ~Idle(v)

\* It is alone until another begins.
Begin(u, r) ==
    /\ Idle(u)
    /\ request' = [v \in User |-> IF v = u THEN [r EXCEPT !.alone = ~Others(u)]
                                  ELSE IF Idle(v) THEN request[v] ELSE [request[v] EXCEPT !.alone = FALSE]]
    /\ racing' = (racing \/ Others(u)) /\ mixed' = (mixed \/ Others(u))
    /\ UNCHANGED <<supplier, contacts, contracts, dropped, byHand>>

Finish(u) == request' = [request EXCEPT ![u] = [op |-> "none"]]

Abort(u) ==
    /\ ~Idle(u) /\ Finish(u)
    /\ UNCHANGED <<supplier, contacts, contracts, racing, mixed, dropped, byHand>>

------------------------------------------------------------------------------
(* Contacts.                                                                *)

Live == {i \in DOMAIN contacts : ~contacts[i].deleted}

Primaries == {i \in Live : contacts[i].primary}

\* (As Replaced, with the id compared the wrong way.)
ReplacedNewer(i) == {p \in Primaries : p > i}

\* The contacts that lose the mark when i takes it.
Replaced(i) == Primaries \ {i}

\* create_supplier_contact (of id 0), update_supplier_contact.
CreateBegin(u) ==
    \E primary \in BOOLEAN :
        /\ supplier
        /\ Begin(u, [op |-> "create", alone |-> TRUE, primary |-> primary,
                  replaced |-> IF primary THEN Replaced(0) ELSE {}])

UpdateBegin(u) ==
    \E i \in Live, primary \in BOOLEAN :
        Begin(u, [op |-> "update", alone |-> TRUE, id |-> i, primary |-> primary,
                  changes |-> contacts[i].primary # primary, replaced |-> IF primary THEN Replaced(i) ELSE {}])

\* The others without the mark.
Unmarked(u) ==
    [i \in DOMAIN contacts |->
        IF i \in request[u].replaced THEN [contacts[i] EXCEPT !.primary = FALSE] ELSE contacts[i]]

\* One that was made the primary contact without being disturbed puts an end
\* to what races before it left.
Settled(u) == racing' = (racing /\ ~(request[u].primary /\ request[u].alone))

CreateCommit(u) ==
    /\ request[u].op = "create"
    /\ Len(contacts) < MaxContact
    /\ contacts' = Append(Unmarked(u), [primary |-> request[u].primary, deleted |-> FALSE])
    /\ Settled(u)
    /\ Finish(u)
    /\ UNCHANGED <<supplier, contracts, mixed, dropped, byHand>>

UpdateCommit(u) ==
    /\ request[u].op = "update"
    /\ contacts' = [Unmarked(u) EXCEPT ![request[u].id].primary = IF request[u].changes THEN request[u].primary ELSE @]
    /\ Settled(u)
    /\ Finish(u)
    /\ UNCHANGED <<supplier, contracts, mixed, dropped, byHand>>

\* delete_supplier_contact; in one step, deleting twice being the same.
DeleteContact(u) ==
    /\ Idle(u)
    /\ \E i \in Live : contacts' = [contacts EXCEPT ![i].deleted = TRUE]
    /\ UNCHANGED <<supplier, contracts, request, racing, mixed, dropped, byHand>>

\* delete_supplier: its contacts and contracts stay.
DeleteSupplier ==
    /\ supplier /\ supplier' = FALSE
    /\ UNCHANGED <<contacts, contracts, request, racing, mixed, dropped, byHand>>

------------------------------------------------------------------------------
(* Numbers.                                                                 *)

\* The contracts that _generate_contract_number counts.
Counted == {i \in DOMAIN contracts : contracts[i].number # 0 /\ ~contracts[i].deleted}

\* (As GeneratedNumber, the count itself once there was one.)
CountOnly == Cardinality(Counted) + (IF contracts = <<>> THEN 1 ELSE 0)

\* _generate_contract_number.
GeneratedNumber == Cardinality(Counted) + 1

Number == 0..MaxContract

\* create_contract, with a number or without.
ContractBegin(u) ==
    \/ Begin(u, [op |-> "contract", alone |-> TRUE, number |-> GeneratedNumber, byHand |-> FALSE])
    \/ \E n \in Number : Begin(u, [op |-> "contract", alone |-> TRUE, number |-> n, byHand |-> n # 0])

ContractCommit(u) ==
    /\ request[u].op = "contract"
    /\ Len(contracts) < MaxContract
    /\ contracts' = Append(contracts, [number |-> request[u].number, deleted |-> FALSE])
    /\ byHand' = (byHand \/ request[u].byHand)
    /\ Finish(u)
    /\ UNCHANGED <<supplier, contacts, racing, mixed, dropped>>

\* update_contract, of the number; one that stays is not written.
NumberBegin(u) ==
    \E i \in DOMAIN contracts, n \in Number :
        /\ ~contracts[i].deleted /\ n # contracts[i].number
        /\ Begin(u, [op |-> "number", alone |-> TRUE, id |-> i, number |-> n])

NumberCommit(u) ==
    /\ request[u].op = "number"
    /\ contracts' = [contracts EXCEPT ![request[u].id].number = request[u].number]
    /\ byHand' = TRUE
    /\ Finish(u)
    /\ UNCHANGED <<supplier, contacts, racing, mixed, dropped>>

\* delete_contract.
DeleteContract(u) ==
    /\ Idle(u)
    /\ \E i \in DOMAIN contracts :
        ~contracts[i].deleted /\ contracts' = [contracts EXCEPT ![i].deleted = TRUE]
    /\ dropped' = TRUE
    /\ UNCHANGED <<supplier, contacts, request, racing, mixed, byHand>>

Next ==
    \/ DeleteSupplier
    \/ \E u \in User :
        \/ CreateBegin(u) \/ CreateCommit(u) \/ UpdateBegin(u) \/ UpdateCommit(u) \/ DeleteContact(u)
        \/ ContractBegin(u) \/ ContractCommit(u) \/ NumberBegin(u) \/ NumberCommit(u)
        \/ DeleteContract(u) \/ Abort(u)

Spec == Init /\ [][Next]_vars

------------------------------------------------------------------------------
(* Properties.                                                              *)

\* Every variable keeps its type.
TypeOK ==
    /\ supplier \in BOOLEAN
    /\ contacts \in Seq(Contact) /\ Len(contacts) <= MaxContact
    /\ contracts \in Seq([number : Number, deleted : BOOLEAN]) /\ Len(contracts) <= MaxContract
    /\ DOMAIN request = User /\ racing \in BOOLEAN /\ mixed \in BOOLEAN
    /\ dropped \in BOOLEAN /\ byHand \in BOOLEAN

\* A supplier has one primary contact at most.  Requests that overlap may make
\* it two; the next contact that is made the primary one, alone, is the only
\* one again.
OnePrimary == ~racing => Cardinality(Primaries) <= 1

\* The numbers that _generate_contract_number gives are of one contract each, as
\* long as no two requests overlapped, no contract was deleted and no number of
\* its form was given or taken by hand: contracts whose numbers have another
\* form, given or changed by hand, do not make it repeat one.
NumbersAreDistinct ==
    (~mixed /\ ~dropped /\ ~byHand) =>
        \A i, j \in DOMAIN contracts :
            contracts[i].number = contracts[j].number => i = j \/ contracts[i].number = 0

RegistryIsSound == OnePrimary /\ NumbersAreDistinct
=============================================================================
