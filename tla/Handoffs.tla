-------------------------------- MODULE Handoffs --------------------------------
(***************************************************************************)
(* What one shift leaves to the next (domain/handoffs): a handoff is        *)
(* written, read, resolved and deleted, by overlapping requests.            *)
(*                                                                          *)
(* A request loads the row and writes, at its commit, the columns that it   *)
(* set, if they differ from what it loaded.  Title, text, priority and the  *)
(* shift it is for may change at any time and decide nothing; times are     *)
(* represented by who they belong to.                                       *)
(***************************************************************************)
EXTENDS Integers

CONSTANTS
    User,    \* those whose requests may be under way at the same time
    Nobody   \* NULL

VARIABLES
    handoff,   \* its row
    request,   \* the requests
    reader,    \* history: who committed first that they had read it
    resolvers, \* history: who has resolved it
    mixed      \* history: two requests have been under way at once

vars == <<handoff, request, reader, resolvers, mixed>>

Who == User \cup {Nobody}

Row == [status : {"pendente", "lido", "resolvido"}, readBy : Who, resolvedBy : Who, deleted : BOOLEAN]

\* create_handoff.
Init ==
    /\ handoff = [status |-> "pendente", readBy |-> Nobody, resolvedBy |-> Nobody, deleted |-> FALSE]
    /\ request = [u \in User |-> [op |-> "none"]]
    /\ reader = Nobody /\ resolvers = {} /\ mixed = FALSE

Idle(u) == request[u].op = "none"

Begin(u, op) ==
    /\ Idle(u) /\ ~handoff.deleted
    /\ request' = [request EXCEPT ![u] = [op |-> op, loaded |-> handoff]]
    /\ mixed' = (mixed \/ \E v \in User : ~Idle(v))
    /\ UNCHANGED <<handoff, reader, resolvers>>

Finish(u) == request' = [request EXCEPT ![u] = [op |-> "none"]]

Abort(u) == ~Idle(u) /\ Finish(u) /\ UNCHANGED <<handoff, reader, resolvers, mixed>>

\* The row with the columns in which new differs from what u loaded.
Written(u, new) ==
    [c \in DOMAIN handoff |-> IF new[c] # request[u].loaded[c] THEN new[c] ELSE handoff[c]]

FirstReader(u) == reader' = IF reader = Nobody THEN u ELSE reader

------------------------------------------------------------------------------

\* (As Unread, of the status.)
UnreadStatus(row) == row.status # "lido"

\* mark_read does nothing to one that was read.
Unread(row) == row.readBy = Nobody

ReadBegin(u) == Unread(handoff) /\ Begin(u, "read")

ReadCommit(u) ==
    /\ request[u].op = "read"
    /\ handoff' = Written(u, [request[u].loaded EXCEPT !.readBy = u, !.status = "lido"])
    /\ FirstReader(u)
    /\ Finish(u)
    /\ UNCHANGED <<resolvers, mixed>>

ResolveBegin(u) == Begin(u, "resolve")

\* (As Resolved, leaving open who has read it.)
ResolvedOnly(row, u) == [row EXCEPT !.status = "resolvido", !.resolvedBy = u]

\* Who resolves it has read it, if nobody had.
Resolved(row, u) ==
    [row EXCEPT !.status = "resolvido", !.resolvedBy = u, !.readBy = IF @ = Nobody THEN u ELSE @]

\* resolve_handoff, whether it was resolved before or not.
ResolveCommit(u) ==
    /\ request[u].op = "resolve"
    /\ handoff' = Written(u, Resolved(request[u].loaded, u))
    /\ IF request[u].loaded.readBy = Nobody THEN FirstReader(u) ELSE UNCHANGED reader
    /\ resolvers' = resolvers \cup {u}
    /\ Finish(u)
    /\ UNCHANGED mixed

DeleteBegin(u) == Begin(u, "delete")

\* delete_handoff.
DeleteCommit(u) ==
    /\ request[u].op = "delete"
    /\ handoff' = Written(u, [request[u].loaded EXCEPT !.deleted = TRUE])
    /\ Finish(u)
    /\ UNCHANGED <<reader, resolvers, mixed>>

\* pending_for_shift shows it.
Pending == ~handoff.deleted /\ handoff.status # "resolvido"

Next ==
    \E u \in User :
        \/ ReadBegin(u) \/ ReadCommit(u) \/ ResolveBegin(u) \/ ResolveCommit(u)
        \/ DeleteBegin(u) \/ DeleteCommit(u) \/ Abort(u)

Spec == Init /\ [][Next]_vars

------------------------------------------------------------------------------
(* Properties.                                                              *)

\* Every variable keeps its type.
TypeOK ==
    /\ handoff \in Row
    /\ DOMAIN request = User /\ reader \in Who /\ resolvers \subseteq User /\ mixed \in BOOLEAN

\* Under any interleaving, one that is not pending was read by somebody, one
\* that was resolved was read too, and whoever is said to have resolved it did.
ReadBeforeResolved ==
    /\ handoff.status # "pendente" => handoff.readBy # Nobody
    /\ handoff.resolvedBy # Nobody => handoff.status # "pendente" /\ handoff.resolvedBy \in resolvers

\* As long as no two requests overlapped, the next shift is not shown what was
\* resolved, and it was read by who read it first.
ResolvedForGood ==
    ~mixed =>
        /\ resolvers # {} => ~Pending
        /\ reader # Nobody => handoff.readBy = reader

HandoffsAreSound == ReadBeforeResolved /\ ResolvedForGood
=============================================================================
