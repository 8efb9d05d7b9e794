-------------------------------- MODULE Meetings --------------------------------
(***************************************************************************)
(* A record with a list that is saved with it: the participants of a        *)
(* meeting (domain/meetings), or the items of an audit report or a work     *)
(* diary (domain/audit_reports, domain/work_diaries), where nothing keeps   *)
(* the same item from being listed twice.                                   *)
(*                                                                          *)
(* A save changes columns of the record or not, deletes the rows of the     *)
(* list and inserts those it was given, in one transaction.  The UPDATE of  *)
(* the record comes before the DELETE, so that it waits for whoever has     *)
(* updated the record and not committed; without an UPDATE nothing makes it *)
(* wait, and the DELETE finds the rows that were committed when it began.   *)
(* (That it then waits for another that deletes the same rows is left out:  *)
(* it excludes orders of the two commits, and adds none.)                   *)
(***************************************************************************)
EXTENDS Integers, FiniteSets

CONSTANTS
    User,     \* those whose requests may be under way at the same time
    Person,   \* whom, or what, a list may name
    MaxSave   \* bound: saves committed

VARIABLES
    kind,     \* what the record is
    rows,     \* the rows of the list: by which save, and whom
    saves,    \* number of saves committed
    deleted,  \* the record was deleted
    save,     \* the requests
    saved,    \* history: the list that was saved last
    slipped,  \* history: two saves deleted before either committed, one of which did
              \* not change the record
    mixed     \* history: two requests have been under way at once

vars == <<kind, rows, saves, deleted, save, saved, slipped, mixed>>

NoSave == [stage |-> "none", touches |-> FALSE, list |-> {}, doomed |-> {}]

Init ==
    /\ kind \in {"meeting", "report"}
    /\ rows = {} /\ saves = 0 /\ deleted = FALSE
    /\ save = [u \in User |-> NoSave]
    /\ saved = {} /\ slipped = FALSE /\ mixed = FALSE

Idle(u) == save[u].stage = "none"

Finish(u) == save' = [save EXCEPT ![u] = NoSave]

Abort(u) ==
    /\ ~Idle(u) /\ Finish(u)
    /\ UNCHANGED <<kind, rows, saves, deleted, saved, slipped, mixed>>

\* Who has written the row of the record, or deleted rows of the list.
Writing == {u \in User : save[u].stage = "deleted"}

Listed == {r.who : r \in rows}

------------------------------------------------------------------------------

\* update_meeting loads the meeting.
SaveBegin(u) ==
    /\ Idle(u) /\ ~deleted
    /\ \E list \in SUBSET Person, touches \in BOOLEAN :
        save' = [save EXCEPT ![u] = [stage |-> "loaded", touches |-> touches, list |-> list, doomed |-> {}]]
    /\ mixed' = (mixed \/ \E v \in User : ~Idle(v))
    /\ UNCHANGED <<kind, rows, saves, deleted, saved, slipped>>

\* (As Doomed, of those that the new list leaves out.)
DoomedOthers(u) == {r \in rows : r.who \notin save[u].list}

Doomed(u) == rows

\* (As Waits, of a save that writes the record last.)
WaitsNot(u) == TRUE

\* The UPDATE, when there is one, waits for that of another.
Waits(u) == save[u].touches => \A v \in Writing : ~save[v].touches

\* The UPDATE and the DELETE.
SaveDelete(u) ==
    /\ save[u].stage = "loaded"
    /\ Waits(u)
    /\ save' = [save EXCEPT ![u].stage = "deleted", ![u].doomed = Doomed(u)]
    /\ slipped' = (slipped \/ \E v \in Writing : ~save[u].touches \/ ~save[v].touches)
    /\ UNCHANGED <<kind, rows, saves, deleted, saved, mixed>>

\* uq_meeting_participant.
Unlisted(u, kept) == kind = "meeting" => \A r \in kept : r.who \notin save[u].list

\* The INSERTs and the commit.  Rows that another save deleted meanwhile are
\* gone already.
SaveCommit(u) ==
    /\ save[u].stage = "deleted"
    /\ saves < MaxSave
    /\ Unlisted(u, rows \ save[u].doomed)
    /\ rows' = (rows \ save[u].doomed) \cup [save : {saves + 1}, who : save[u].list]
    /\ saves' = saves + 1
    /\ saved' = save[u].list
    /\ Finish(u)
    /\ UNCHANGED <<kind, deleted, slipped, mixed>>

\* delete_meeting: the list stays.
Delete(u) ==
    /\ Idle(u) /\ ~deleted
    /\ \A v \in Writing : ~save[v].touches
    /\ deleted' = TRUE
    /\ mixed' = (mixed \/ \E v \in User : ~Idle(v))
    /\ UNCHANGED <<kind, rows, saves, save, saved, slipped>>

Next == \E u \in User : SaveBegin(u) \/ SaveDelete(u) \/ SaveCommit(u) \/ Delete(u) \/ Abort(u)

Spec == Init /\ [][Next]_vars

------------------------------------------------------------------------------
(* Properties.                                                              *)

\* Every variable keeps its type.
TypeOK ==
    /\ kind \in {"meeting", "report"}
    /\ rows \subseteq [save : 1..saves, who : Person] /\ saves \in 0..MaxSave
    /\ deleted \in BOOLEAN /\ saved \subseteq Person /\ slipped \in BOOLEAN /\ mixed \in BOOLEAN
    /\ \A u \in User : save[u].stage \in {"none", "loaded", "deleted"} /\ save[u].doomed \subseteq [save : 1..saves, who : Person]

\* Saves may overlap: the list is the one that was saved last, whole and once,
\* unless one that did not change the record deleted before another committed;
\* and in a meeting nobody is ever listed twice.
ListIsWhole ==
    /\ ~slipped => Listed = saved /\ Cardinality(rows) = Cardinality(saved)
    /\ kind = "meeting" => \A r, s \in rows : r.who = s.who => r = s
=============================================================================
