-------------------------------- MODULE Schedule --------------------------------
(***************************************************************************)
(* The schedule of one employee (domain/timeclock/service.py): which shift  *)
(* each day has, set by hand or generated from a pattern over a period, and *)
(* the deletion of shifts.  Day 0 is a Monday.  A request loads the rows it *)
(* is about and writes, of each, the columns that differ from what it has   *)
(* loaded; a day has one row, and a second INSERT of it is a conflict.      *)
(***************************************************************************)
EXTENDS Integers, FiniteSets

CONSTANTS
    User,     \* users who plan
    Shift,    \* shifts of the company
    Off,      \* a day off (not a shift)
    MaxDay,   \* bound: the days planned are 0..MaxDay
    Week,     \* days of a week
    Pattern   \* patterns that are asked for (WeeklyPattern, RotatingPattern)

VARIABLES
    shifts,    \* the shifts that are not deleted
    entries,   \* the rows of schedule_entries, by day
    edit,      \* the request of each user
    asked,     \* history: what was set by hand for each day last, if anything
    generated, \* history: the last generation that was committed
    stray,     \* history: shifts that a request named after their deletion
    crossed    \* history: two requests have been under way at once

vars == <<shifts, entries, edit, asked, generated, stray, crossed>>

Day == 0..MaxDay

NoRow == [source |-> "none", shift |-> Off]

WeeklyPattern(weekdays) == [weekly |-> TRUE, weekdays |-> weekdays, work |-> 0, off |-> 0]

RotatingPattern(work, off) == [weekly |-> FALSE, weekdays |-> {}, work |-> work, off |-> off]

NoRows == [d \in Day |-> NoRow]

NoEdit == [op |-> "none", first |-> 0, last |-> -1, shift |-> Off, pattern |-> RotatingPattern(1, 0), seen |-> NoRows]

Init ==
    /\ shifts = Shift
    /\ entries = NoRows
    /\ edit = [u \in User |-> NoEdit]
    /\ asked = [d \in Day |-> {}]
    /\ generated = NoEdit
    /\ stray = {}
    /\ crossed = FALSE

Begin(u, e) ==
    /\ edit[u] = NoEdit
    /\ edit' = [edit EXCEPT ![u] = e]
    /\ crossed' = (crossed \/ \E v \in User : edit[v] # NoEdit)

\* The rows of the days that a request is about.
Loaded(days) == [d \in Day |-> IF d \in days THEN entries[d] ELSE NoRow]

Finish(u) == edit' = [edit EXCEPT ![u] = NoEdit]

\* What the ORM makes of a row it has loaded: the columns that differ.
Written(row, seen, wanted) ==
    [c \in DOMAIN row |-> IF wanted[c] = seen[c] THEN row[c] ELSE wanted[c]]

\* Rows that were not there when they were loaded are inserted.
Inserts(seen, days) == \A d \in days : seen[d] = NoRow => entries[d] = NoRow

------------------------------------------------------------------------------
(* set_schedule_day: one day by hand, with a shift or none.                 *)

\* The shift that a request names: neither set_schedule_day nor generate_schedule
\* asks whether it is one that is not deleted.
Names(s) == stray' = stray \cup ({s} \ (shifts \cup {Off}))

SetBegin(u) ==
    /\ \E d \in Day, s \in Shift \cup {Off} :
         /\ Begin(u, [NoEdit EXCEPT !.op = "set", !.first = d, !.last = d, !.shift = s, !.seen = Loaded({d})])
         /\ Names(s)
    /\ UNCHANGED <<shifts, entries, asked, generated>>

SetCommit(u) ==
    /\ edit[u].op = "set"
    /\ LET d == edit[u].first
           wanted == [source |-> "manual", shift |-> edit[u].shift]
       IN  /\ Inserts(edit[u].seen, {d})
           /\ entries' = [entries EXCEPT ![d] = Written(@, edit[u].seen[d], wanted)]
           /\ asked' = [asked EXCEPT ![d] = {edit[u].shift}]
    /\ Finish(u)
    /\ UNCHANGED <<shifts, generated, stray, crossed>>

------------------------------------------------------------------------------
(* generate_schedule: a period by a pattern, without the days that were    *)
(* set by hand.                                                            *)

\* (As IsWorkingDay, with a day of work too many.)
IsWorkingDayInclusive(pattern, first, d) ==
    IF pattern.weekly
    THEN d % Week \in pattern.weekdays
    ELSE (d - first) % (pattern.work + pattern.off) <= pattern.work

IsWorkingDay(pattern, first, d) ==
    IF pattern.weekly
    THEN d % Week \in pattern.weekdays
    ELSE (d - first) % (pattern.work + pattern.off) < pattern.work

GenerateBegin(u) ==
    /\ \E first, last \in Day, s \in Shift, pattern \in Pattern :
         /\ first <= last
         /\ Begin(u, [NoEdit EXCEPT !.op = "generate", !.first = first, !.last = last, !.shift = s,
                                    !.pattern = pattern, !.seen = Loaded(first..last)])
         /\ Names(s)
    /\ UNCHANGED <<shifts, entries, asked, generated>>

\* (As Affected, with the days that were set by hand.)
AffectedAll(e) == e.first..e.last

Affected(e) == {d \in e.first..e.last : e.seen[d].source # "manual"}

Generated(e, d) ==
    [source |-> "generated", shift |-> IF IsWorkingDay(e.pattern, e.first, d) THEN e.shift ELSE Off]

\* (As GenerateCommit, with every row written as a whole.)
GenerateWhole(u) ==
    /\ edit[u].op = "generate"
    /\ Inserts(edit[u].seen, Affected(edit[u]))
    /\ entries' = [d \in Day |-> IF d \in Affected(edit[u]) THEN Generated(edit[u], d) ELSE entries[d]]
    /\ generated' = [edit[u] EXCEPT !.seen = NoRows]
    /\ Finish(u)
    /\ UNCHANGED <<shifts, asked, stray, crossed>>

GenerateCommit(u) ==
    /\ edit[u].op = "generate"
    /\ Inserts(edit[u].seen, Affected(edit[u]))
    /\ entries' = [d \in Day |-> IF d \in Affected(edit[u])
                                 THEN Written(entries[d], edit[u].seen[d], Generated(edit[u], d))
                                 ELSE entries[d]]
    /\ generated' = [edit[u] EXCEPT !.seen = NoRows]
    /\ Finish(u)
    /\ UNCHANGED <<shifts, asked, stray, crossed>>

------------------------------------------------------------------------------
(* delete_shift: refused while a row refers to the shift.                  *)

\* (As Usage, with the rows of the calendar's first day only.)
UsageOfPeriod(s) == {d \in {0} : entries[d].shift = s}

Usage(s) == {d \in Day : entries[d].shift = s}

DeleteBegin(u) ==
    /\ \E s \in shifts : Usage(s) = {} /\ Begin(u, [NoEdit EXCEPT !.op = "delete", !.shift = s])
    /\ UNCHANGED <<shifts, entries, asked, generated, stray>>

DeleteCommit(u) ==
    /\ edit[u].op = "delete"
    /\ shifts' = shifts \ {edit[u].shift}
    /\ Finish(u)
    /\ UNCHANGED <<entries, asked, generated, stray, crossed>>

\* A request fails, or a row that it inserts is there already.
Abort(u) ==
    /\ edit[u] # NoEdit
    /\ Finish(u)
    /\ UNCHANGED <<shifts, entries, asked, generated, stray, crossed>>

Next ==
    \E u \in User :
        \/ SetBegin(u) \/ SetCommit(u)
        \/ GenerateBegin(u) \/ GenerateCommit(u)
        \/ DeleteBegin(u) \/ DeleteCommit(u)
        \/ Abort(u)

Spec == Init /\ [][Next]_vars

------------------------------------------------------------------------------
(* Properties.                                                             *)

\* Every variable keeps its type.
TypeOK ==
    /\ shifts \subseteq Shift /\ stray \subseteq Shift
    /\ entries \in [Day -> [source : {"none", "manual", "generated"}, shift : Shift \cup {Off}]]
    /\ DOMAIN edit = User /\ DOMAIN generated = DOMAIN NoEdit
    /\ asked \in [Day -> SUBSET (Shift \cup {Off})] /\ crossed \in BOOLEAN

\* However requests interleave, a day that was set by hand is marked so for
\* good: a generation that loaded it earlier does not take the mark away.
MarkedByHand == \A d \in Day : asked[d] # {} => entries[d].source = "manual"

\* docs/escala-de-trabalho.md: manual days are protected.  As long as no two
\* requests overlapped, such a day has the shift that was asked for last.
ManualStays == ~crossed => \A d \in Day : asked[d] \subseteq {entries[d].shift}

\* The deletion of a shift, refused while an entry refers to it, leaves no entry
\* behind (as long as no two requests overlapped): one that refers to a deleted
\* shift was asked for after the deletion.
NoOrphan == ~crossed => \A d \in Day : entries[d].shift \in shifts \cup {Off} \cup stray

\* The k-th round of a rotation begins a cycle after the one before it.
Works(e, d) ==
    IF e.pattern.weekly
    THEN \E n \in 0..MaxDay, w \in e.pattern.weekdays \cap 0..(Week - 1) : d = n * Week + w
    ELSE \E n \in 0..MaxDay, k \in 1..e.pattern.work :
            d = e.first + n * (e.pattern.work + e.pattern.off) + k - 1

\* As long as no two requests overlapped, the days of the last generation that
\* were not set by hand follow its pattern.
PatternKept ==
    ~crossed =>
        \A d \in generated.first..generated.last :
            entries[d].source = "manual" \/
            entries[d] = [source |-> "generated", shift |-> IF Works(generated, d) THEN generated.shift ELSE Off]

\* What was planned by hand and by pattern is what the schedule says.
ScheduleIsKept == MarkedByHand /\ ManualStays /\ NoOrphan /\ PatternKept
=============================================================================
