------------------------------ MODULE Checklists ------------------------------
(***************************************************************************)
(* One template of domain/checklists/service.py, the executions generated   *)
(* from it, and the requests that edit the template, generate, and work     *)
(* off an execution.  The items of a template are replaced by a DELETE and  *)
(* INSERTs; an execution copies the items that are committed when it reads  *)
(* them.  Of a row the ORM writes only the columns that differ from what it *)
(* loaded; an UPDATE of the template is sent before the DELETE of its items *)
(* and locks the row until the commit.  A template may be given any due     *)
(* date by hand, one for which it already had an execution included.        *)
(***************************************************************************)
EXTENDS Integers, Sequences, FiniteSets

CONSTANTS
    User,          \* users of the company
    Label,         \* items
    ItemLists,     \* the lists of items a request may carry: sets of labels
    Recurrence,    \* days between two executions: RECURRENCE_DAYS
    Kept,          \* a column, or the items, that a request leaves as they are
    MaxDay,        \* bound: days
    MaxVersion,    \* bound: lists of items of the template
    MaxExecution   \* bound: executions

VARIABLES
    template,      \* the row of checklist_templates
    items,         \* the rows of checklist_template_items
    versions,      \* the lists of items, in the order of their commits
    day,           \* the calendar
    executions,    \* the rows of checklist_executions, with their items
    work,          \* the request of each user
    overlap,       \* history: two requests have been under way at once
    restart        \* history: how many executions there were when the template was
                   \* last set back to a date that it had served

vars == <<template, items, versions, day, executions, work, overlap, restart>>

\* A template without a date: next_due is NULL.
NoDate == -1

Idle == [op |-> "none", list |-> Kept, due |-> Kept, every |-> Kept, active |-> Kept, rows |-> {},
         on |-> 0, item |-> <<>>, check |-> FALSE, wasChecked |-> FALSE, wasDated |-> FALSE]

\* The rows of version n: a row knows its label and the version it came with.
RowsOf(n, list) == list \X {n}

Init ==
    /\ \E r \in Recurrence : template = [due |-> 0, every |-> r, active |-> TRUE, deleted |-> FALSE]
    /\ \E list \in ItemLists : versions = <<list>> /\ items = RowsOf(1, list)
    /\ day = 0
    /\ executions = <<>>
    /\ work = [u \in User |-> Idle]
    /\ overlap = FALSE
    /\ restart = 0

Begin(u, r) ==
    /\ work[u] = Idle
    /\ work' = [work EXCEPT ![u] = r]
    /\ overlap' = (overlap \/ \E v \in User : work[v] # Idle)

At(u, op) == work[u].op = op

Finish(u) == work' = [work EXCEPT ![u] = Idle]

------------------------------------------------------------------------------
(* update_template, for what generation looks at.                          *)

\* What an UPDATE writes of a column that was loaded as old and set to new.
Change(old, new) == IF new = old THEN Kept ELSE new

UpdateBegin(u) ==
    /\ ~template.deleted
    /\ \E list \in ItemLists \cup {Kept}, d \in {NoDate, template.due} \cup 0..MaxDay,
          r \in Recurrence, a \in BOOLEAN :
         /\ list # Kept => Len(versions) < MaxVersion
         /\ Begin(u, [Idle EXCEPT !.op = "update", !.list = list, !.due = Change(template.due, d),
                                  !.every = Change(template.every, r), !.active = Change(template.active, a)])
    /\ UNCHANGED <<template, items, versions, day, executions, restart>>

WritesRow(u) == work[u].due # Kept \/ work[u].every # Kept \/ work[u].active # Kept

\* Another request has sent its UPDATE of the template and not committed.
RowLocked(u) == \E v \in User \ {u} : At(v, "insert") /\ WritesRow(v)

Written(old, new) == IF new = Kept THEN old ELSE new

\* The template gets the columns that request w changes.  Set to a due date that
\* it has served, or one before it, it starts again.
WriteRow(w) ==
    /\ template' = [template EXCEPT !.due = Written(@, w.due), !.every = Written(@, w.every),
                                    !.active = Written(@, w.active)]
    /\ restart' = IF /\ w.due \notin {Kept, NoDate}
                     /\ \E e \in DOMAIN executions : e > restart /\ executions[e].due >= w.due
                    THEN Len(executions) ELSE restart

\* Without a list of items.
UpdateRow(u) ==
    /\ At(u, "update")
    /\ work[u].list = Kept /\ (WritesRow(u) => ~RowLocked(u))
    /\ WriteRow(work[u])
    /\ Finish(u)
    /\ UNCHANGED <<items, versions, day, executions, overlap>>

\* (As DeleteItems, committed on its own.)
DeleteItemsFirst(u) ==
    /\ At(u, "update")
    /\ work[u].list # Kept /\ (WritesRow(u) => ~RowLocked(u))
    /\ items' = {}
    /\ work' = [work EXCEPT ![u].op = "insert", ![u].rows = items]
    /\ UNCHANGED <<template, versions, day, executions, overlap, restart>>

\* The UPDATE of the row is sent, then the DELETE starts, and will take the rows
\* that it sees.
DeleteItems(u) ==
    /\ At(u, "update")
    /\ work[u].list # Kept /\ (WritesRow(u) => ~RowLocked(u))
    /\ work' = [work EXCEPT ![u].op = "insert", ![u].rows = items]
    /\ UNCHANGED <<template, items, versions, day, executions, overlap, restart>>

UpdateCommit(u) ==
    /\ At(u, "insert")
    /\ Len(versions) < MaxVersion
    /\ items' = (items \ work[u].rows) \cup RowsOf(Len(versions) + 1, work[u].list)
    /\ versions' = Append(versions, work[u].list)
    /\ WriteRow(work[u])
    /\ Finish(u)
    /\ UNCHANGED <<day, executions, overlap>>

\* delete_template
DeleteTemplate ==
    /\ ~template.deleted
    /\ template' = [template EXCEPT !.deleted = TRUE]
    /\ UNCHANGED <<items, versions, day, executions, work, overlap, restart>>

------------------------------------------------------------------------------
(* generate_due_executions.                                                *)

Due == ~template.deleted /\ template.active /\ template.due # NoDate /\ template.due <= day

\* (As GenerateBegin, also for a template that is due tomorrow.)
GenerateEarly(u) ==
    /\ ~template.deleted
    /\ Begin(u, [Idle EXCEPT !.op = "generate", !.due = day, !.every = template.every])
    /\ UNCHANGED <<template, items, versions, day, executions, restart>>

GenerateBegin(u) ==
    /\ Due
    /\ Begin(u, [Idle EXCEPT !.op = "generate", !.due = template.due, !.every = template.every])
    /\ UNCHANGED <<template, items, versions, day, executions, restart>>

ReadItems(u) ==
    /\ At(u, "generate")
    /\ work' = [work EXCEPT ![u].op = "create", ![u].rows = items]
    /\ UNCHANGED <<template, items, versions, day, executions, overlap, restart>>

Execution(due, rows) == [due |-> due, status |-> "pendente", items |-> rows, checked |-> {}, dated |-> {}]

\* The next date is counted from the one that was loaded.
GenerateCommit(u) ==
    /\ At(u, "create")
    /\ ~RowLocked(u)
    /\ Len(executions) < MaxExecution
    /\ executions' = Append(executions, Execution(work[u].due, work[u].rows))
    /\ template' = [template EXCEPT !.due = work[u].due + work[u].every]
    /\ Finish(u)
    /\ UNCHANGED <<items, versions, day, overlap, restart>>

------------------------------------------------------------------------------
(* toggle_item and complete_execution, whatever the execution's status.     *)

ToggleBegin(u) ==
    /\ \E e \in DOMAIN executions : \E i \in executions[e].items, check \in BOOLEAN :
         Begin(u, [Idle EXCEPT !.op = "toggle", !.on = e, !.item = i, !.check = check,
                               !.wasChecked = i \in executions[e].checked,
                               !.wasDated = i \in executions[e].dated])
    /\ UNCHANGED <<template, items, versions, day, executions, restart>>

Put(S, i, in) == IF in THEN S \cup {i} ELSE S \ {i}

\* (As Toggled, with the date kept when the item is unchecked.)
ToggledForGood(w, e) ==
    [e EXCEPT !.checked = IF w.check = w.wasChecked THEN @ ELSE Put(@, w.item, w.check),
              !.dated = IF w.check THEN Put(@, w.item, TRUE) ELSE @]

\* checked is written when it differs from what was loaded, checked_at when
\* it is set (the time differs) or was set and is cleared.
Toggled(w, e) ==
    [e EXCEPT !.checked = IF w.check = w.wasChecked THEN @ ELSE Put(@, w.item, w.check),
              !.dated = IF w.check \/ w.wasDated THEN Put(@, w.item, w.check) ELSE @]

ToggleCommit(u) ==
    /\ At(u, "toggle")
    /\ executions' = [executions EXCEPT ![work[u].on] = Toggled(work[u], @)]
    /\ Finish(u)
    /\ UNCHANGED <<template, items, versions, day, overlap, restart>>

\* A second completion finds the status it sets.
Complete ==
    /\ \E e \in DOMAIN executions :
         /\ executions[e].status = "pendente"
         /\ executions' = [executions EXCEPT ![e].status = "concluido"]
    /\ UNCHANGED <<template, items, versions, day, work, overlap, restart>>

Abort(u) ==
    /\ work[u] # Idle
    /\ Finish(u)
    /\ UNCHANGED <<template, items, versions, day, executions, overlap, restart>>

NextDay ==
    /\ day < MaxDay
    /\ day' = day + 1
    /\ UNCHANGED <<template, items, versions, executions, work, overlap, restart>>

Next ==
    \/ \E u \in User :
         \/ UpdateBegin(u) \/ UpdateRow(u) \/ DeleteItems(u) \/ UpdateCommit(u)
         \/ GenerateBegin(u) \/ ReadItems(u) \/ GenerateCommit(u)
         \/ ToggleBegin(u) \/ ToggleCommit(u) \/ Abort(u)
    \/ Complete \/ DeleteTemplate \/ NextDay

Spec == Init /\ [][Next]_vars

------------------------------------------------------------------------------
(* Properties.                                                             *)

\* Every variable keeps its type; items that are checked or dated are there.
TypeOK ==
    /\ template \in [due : Int, every : Recurrence, active : BOOLEAN, deleted : BOOLEAN]
    /\ restart \in Nat /\ day \in 0..MaxDay /\ overlap \in BOOLEAN
    /\ versions \in Seq(SUBSET Label)
    /\ items \subseteq Label \X (1..MaxVersion)
    /\ \A e \in DOMAIN executions :
         /\ executions[e].status \in {"pendente", "concluido"}
         /\ executions[e].checked \cup executions[e].dated \subseteq executions[e].items
    /\ DOMAIN work = User

\* However edits of the template race with each other and with generation,
\* an execution has every item of some list: never the middle of a
\* replacement.
WholeList ==
    \A e \in DOMAIN executions : \E n \in DOMAIN versions : RowsOf(n, versions[n]) \subseteq executions[e].items

\* As long as no two requests overlapped, an item is checked when it has the
\* date of it; ticking and unticking leave both columns in step.
CheckedHasDate == ~overlap => \A e \in DOMAIN executions : executions[e].checked = executions[e].dated

\* As long as no two requests overlapped, a due date has one execution, however
\* late they came and however the template was edited, until somebody sets it
\* back to a date that it has served.
OneExecutionPerDate ==
    ~overlap => \A d, e \in DOMAIN executions :
                    restart < d /\ d < e => executions[d].due < executions[e].due

\* An execution is a whole list, worked off in step, one for a due date.
ExecutionsAreSound == WholeList /\ CheckedHasDate /\ OneExecutionPerDate
=============================================================================
