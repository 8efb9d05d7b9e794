--------------------------------- MODULE Paging ---------------------------------
(***************************************************************************)
(* A list read page by page while others write to it: work orders by id     *)
(* (core/pagination.py) and by page number, the newest change first         *)
(* (domain/work_orders), and the timeline of a record, the oldest event     *)
(* first (domain/timeline).                                                 *)
(*                                                                          *)
(* A row has the time at which its transaction began, func.now(), and an    *)
(* id that it is given at its INSERT; it is seen once that transaction has  *)
(* committed.  Search and filters choose the rows of a list and are left    *)
(* out, so are the names joined to them.  Events are neither changed nor    *)
(* deleted.                                                                 *)
(***************************************************************************)
EXTENDS Integers, SequencesExt

CONSTANTS
    User,     \* those whose transactions may be open at the same time
    Limit,    \* limit, page_size
    MaxRow,   \* bound: rows
    MaxTime   \* bound: transactions that take the time

VARIABLES
    rows,    \* the rows that were committed: their times, and whether they are deleted
    time,    \* when the last transaction began
    lastId,  \* the last id that was given
    open,    \* the transactions that insert a row
    walk,    \* the reader: what it reads, where it is and what it was shown
    atStart, \* history: ids that the list had when the reader began
    changed  \* history: a row was inserted, changed or deleted since then

vars == <<rows, time, lastId, open, walk, atStart, changed>>

Closed == [at |-> 0, id |-> 0]

Init ==
    /\ rows = <<>> /\ time = 0 /\ lastId = 0
    /\ open = [u \in User |-> Closed]
    /\ walk \in [list : {"cursor", "page", "timeline"}, next : {0}, shown : {<<>>}, state : {"before"}]
    /\ atStart = {} /\ changed = FALSE

\* Where deleted_at is NULL.
Live == {i \in DOMAIN rows : ~rows[i].deleted}

------------------------------------------------------------------------------
(* The writers.                                                             *)

Begin(u) ==
    /\ open[u] = Closed /\ lastId < MaxRow /\ time < MaxTime
    /\ time' = time + 1
    /\ open' = [open EXCEPT ![u] = [at |-> time + 1, id |-> 0]]
    /\ UNCHANGED <<rows, lastId, walk, atStart, changed>>

Insert(u) ==
    /\ open[u].at > 0 /\ open[u].id = 0 /\ lastId < MaxRow
    /\ lastId' = lastId + 1
    /\ open' = [open EXCEPT ![u].id = lastId + 1]
    /\ UNCHANGED <<rows, time, walk, atStart, changed>>

\* create_order, add_comment
Commit(u) ==
    /\ open[u].id > 0
    /\ rows' = [i \in DOMAIN rows \cup {open[u].id} |->
                  IF i = open[u].id THEN [created |-> open[u].at, updated |-> open[u].at, deleted |-> FALSE]
                  ELSE rows[i]]
    /\ changed' = TRUE
    /\ open' = [open EXCEPT ![u] = Closed]
    /\ UNCHANGED <<time, lastId, walk, atStart>>

\* update_order: onupdate of updated_at, by which only the pages are ordered.
Update(i) ==
    /\ walk.list = "page" /\ i \in Live /\ time < MaxTime
    /\ time' = time + 1
    /\ rows' = [rows EXCEPT ![i].updated = time + 1]
    /\ changed' = TRUE
    /\ UNCHANGED <<lastId, open, walk, atStart>>

\* delete_order
Delete(i) ==
    /\ walk.list # "timeline" /\ i \in Live
    /\ rows' = [rows EXCEPT ![i].deleted = TRUE]
    /\ changed' = TRUE
    /\ UNCHANGED <<time, lastId, open, walk, atStart>>

------------------------------------------------------------------------------
(* The reader.                                                              *)

Start ==
    /\ walk.state = "before"
    /\ walk' = [walk EXCEPT !.state = "reading"]
    /\ atStart' = Live /\ changed' = FALSE
    /\ UNCHANGED <<rows, time, lastId, open>>

\* ORDER BY: the rows of S, of two of which one comes before the other.
Ordered(S, before) ==
    CHOOSE s \in [1..Cardinality(S) -> S] : \A i, j \in DOMAIN s : i < j => <<s[i], s[j]>> \in before

\* OFFSET and LIMIT: the rows from one to another, as far as there are any.
Rows(ordered, from, to) == SubSeq(ordered, from, IF to < Len(ordered) THEN to ELSE Len(ordered))

\* (As After, with the cursor's own row again.)
AfterAgain(i) == walk.next = 0 \/ IF walk.list = "cursor" THEN i <= walk.next ELSE i >= walk.next

\* What follows the cursor, which is an id.
After(i) == walk.next = 0 \/ IF walk.list = "cursor" THEN i < walk.next ELSE i > walk.next

\* paginate_by_cursor, get_timeline_cursor: the rows left, in the order of the list.
Left ==
    Ordered({i \in Live : After(i)},
            {p \in Live \X Live :
                IF walk.list = "cursor" THEN p[1] > p[2]
                ELSE \/ rows[p[1]].created < rows[p[2]].created
                     \/ rows[p[1]].created = rows[p[2]].created /\ p[1] < p[2]})

\* (As NextCursor, of the row that was read too many.)
NextBeyond(read) == read[Len(read)]

NextCursor(read) == read[Limit]

\* A page, and one row more to see whether there is a next one.
CursorPage ==
    LET read == Rows(Left, 1, Limit + 1)
    IN  /\ walk.state = "reading" /\ walk.list \in {"cursor", "timeline"}
        /\ walk' = IF Len(read) > Limit
                   THEN [walk EXCEPT !.shown = @ \o SubSeq(read, 1, Limit), !.next = NextCursor(read)]
                   ELSE [walk EXCEPT !.shown = @ \o read, !.state = "done"]
        /\ UNCHANGED <<rows, time, lastId, open, atStart, changed>>

\* list_orders: the page after walk.next pages, of the rows as they are ordered now.
NumberedPage ==
    LET ordered == Ordered(Live, {p \in Live \X Live : rows[p[1]].updated > rows[p[2]].updated})
        page == Rows(ordered, walk.next * Limit + 1, (walk.next + 1) * Limit)
    IN  /\ walk.state = "reading" /\ walk.list = "page"
        /\ walk' = [walk EXCEPT !.shown = @ \o page, !.next = @ + 1,
                                !.state = IF (walk.next + 1) * Limit >= Len(ordered) THEN "done" ELSE @]
        /\ UNCHANGED <<rows, time, lastId, open, atStart, changed>>

Next ==
    \/ \E u \in User : Begin(u) \/ Insert(u) \/ Commit(u)
    \/ \E i \in DOMAIN rows : Update(i) \/ Delete(i)
    \/ Start \/ CursorPage \/ NumberedPage

Spec == Init /\ [][Next]_vars

------------------------------------------------------------------------------
(* Properties.                                                              *)

\* Every variable keeps its type.
TypeOK ==
    /\ DOMAIN rows \subseteq 1..MaxRow /\ time \in 0..MaxTime /\ lastId \in 0..MaxRow
    /\ \A i \in DOMAIN rows : rows[i] \in [created : 1..time, updated : 1..time, deleted : BOOLEAN]
    /\ open \in [User -> [at : 0..time, id : 0..MaxRow]]
    /\ walk.state \in {"before", "reading", "done"} /\ ToSet(walk.shown) \subseteq DOMAIN rows
    /\ atStart \subseteq DOMAIN rows /\ changed \in BOOLEAN

ShownOnce == \A i, j \in DOMAIN walk.shown : walk.shown[i] = walk.shown[j] => i = j

\* Whatever is written meanwhile, a walk by id shows nothing twice, and all that
\* the list had at its start and still has.
WalkIsWhole ==
    walk.list = "cursor" =>
        /\ ShownOnce
        /\ walk.state = "done" => atStart \cap Live \subseteq ToSet(walk.shown)

\* Page by page, the same as long as nothing is written meanwhile (a change
\* moves its row to the first page, and every other row one further).
PagesAreWhole ==
    walk.list = "page" /\ ~changed =>
        /\ ShownOnce
        /\ walk.state = "done" => atStart = ToSet(walk.shown)

\* The timeline, as long as no event has an id before that of an event whose
\* transaction began earlier: it is ordered by the one and continued by the other.
TimelineIsWhole ==
    walk.list = "timeline" /\ (\A i, j \in DOMAIN rows : i < j => rows[i].created < rows[j].created) =>
        /\ ShownOnce
        /\ walk.state = "done" => atStart \subseteq ToSet(walk.shown)

PagesAreRight == WalkIsWhole /\ PagesAreWhole /\ TimelineIsWhole
=============================================================================
