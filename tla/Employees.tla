------------------------------- MODULE Employees -------------------------------
(***************************************************************************)
(* The employees of one tenant (domain/employees and the push of the ERP in *)
(* domain/integrations_erpsolid): employees are created one by one or from  *)
(* a file, edited, deleted (softly), linked to what another system calls    *)
(* them, and pushed by the ERP, which is who decides about those it is      *)
(* linked to.                                                               *)
(*                                                                          *)
(* The unique constraints count deleted employees.  A file is committed row *)
(* by row, a push as a whole.  An edit and a push load rows and write, of    *)
(* each, the columns that differ from what they loaded.  Of what an employee *)
(* is, the CPF and one other field are kept.                                *)
(***************************************************************************)
EXTENDS Integers, Sequences, FiniteSets

CONSTANTS
    User,         \* those whose requests may be under way at the same time
    Cpf,          \* CPFs: numbers other than 0
    Staff,        \* whom the ERP knows
    Pushes,       \* the sets of people that the ERP pushes together
    Files,        \* the files to import: a row is a CPF, or 0 when it does not validate
    MaxEmployee   \* bound: rows of employees, ever

VARIABLES
    employees,  \* the rows, in the order of their commits
    link,       \* the employee whom the ERP's person is linked to (0: none)
    request,    \* the requests
    imported,   \* history: the valid CPFs of the files read to their end
    owed,       \* history: what the ERP pushed last of a person, since nobody else touched it
                \* (0: nothing, or requests overlapped)
    mixed,      \* history: two requests have been under way at once
    rewritten   \* history: the CPFs of files that an employee had until an edit or a push
                \* gave it another, and that no row has named since

vars == <<employees, link, request, imported, owed, mixed, rewritten>>

Field == 1..2

\* The ERP pushes some without a CPF.
NoCpf == 0

Employee == [cpf : {NoCpf} \cup Cpf, field : Field, deleted : BOOLEAN]

\* The CPFs that files name.
Listed == (UNION {{file[k] : k \in DOMAIN file} : file \in Files}) \ {0}

Init ==
    /\ employees = <<>> /\ link = [p \in Staff |-> 0]
    /\ request = [u \in User |-> [op |-> "none"]]
    /\ imported = {} /\ owed = [p \in Staff |-> 0] /\ mixed = FALSE /\ rewritten = {}

Idle(u) == request[u].op = "none"

\* A request begins while another is under way.
Overlap == mixed' = (mixed \/ \E v \in User : ~Idle(v))

Begin(u, r) ==
    /\ Idle(u)
    /\ request' = [request EXCEPT ![u] = r]
    /\ Overlap
    /\ UNCHANGED <<employees, link, imported, owed, rewritten>>

Finish(u) == request' = [request EXCEPT ![u] = [op |-> "none"]]

\* A request fails: what it did not commit is gone, the rows of a file that it
\* committed stay.
Abort(u) == ~Idle(u) /\ Finish(u) /\ UNCHANGED <<employees, link, imported, owed, mixed, rewritten>>

Live == {i \in DOMAIN employees : ~employees[i].deleted}

\* uq_employees_company_cpf: of a CPF for a new employee, and of rows as a whole.
\* (Where two rows of a push exchange their CPFs, PostgreSQL refuses the first.)
Unused(cpf) == \A i \in DOMAIN employees : employees[i].cpf # cpf

Distinct(rows) == \A i, j \in DOMAIN rows : rows[i].cpf = rows[j].cpf => i = j \/ rows[i].cpf = NoCpf

New(cpf, field) == [cpf |-> cpf, field |-> field, deleted |-> FALSE]

\* Somebody other than the ERP touched employee i.
Touched(i) == owed' = [p \in Staff |-> IF mixed \/ link[p] = i THEN 0 ELSE owed[p]]

\* What the ORM writes of a row: the columns that differ from what was loaded.
Kept == -1

Change == [cpf : {Kept, NoCpf} \cup Cpf, field : {Kept} \cup Field]

Changed(seen, cpf, field) ==
    [cpf |-> IF cpf = seen.cpf THEN Kept ELSE cpf, field |-> IF field = seen.field THEN Kept ELSE field]

Written(row, change) ==
    [row EXCEPT !.cpf = IF change.cpf = Kept THEN @ ELSE change.cpf,
                !.field = IF change.field = Kept THEN @ ELSE change.field]

\* The rows become these.
Rewrite(rows) ==
    /\ Distinct(rows)
    /\ employees' = rows
    /\ rewritten' = rewritten \cup
           (Listed \cap {employees[i].cpf : i \in {j \in DOMAIN employees : rows[j].cpf # employees[j].cpf}})

------------------------------------------------------------------------------
(* One by one, and from a file.                                             *)

\* create_employee.
Create(u) ==
    /\ Idle(u)
    /\ Len(employees) < MaxEmployee
    /\ \E cpf \in Cpf : Unused(cpf) /\ employees' = Append(employees, New(cpf, 1))
    /\ Overlap
    /\ UNCHANGED <<link, request, imported, owed, rewritten>>

ImportBegin(u) == \E file \in Files : Begin(u, [op |-> "import", file |-> file, at |-> 1])

\* The row becomes an employee, or an error when it does not validate or its
\* CPF is taken.
ReadRow(cpf) ==
    IF cpf # 0 /\ Unused(cpf)
    THEN Len(employees) < MaxEmployee /\ employees' = Append(employees, New(cpf, 1))
    ELSE UNCHANGED employees

\* (As After, leaving at the first row that fails.)
AfterFirst(u) ==
    LET cpf == request[u].file[request[u].at]
    IN  IF cpf = 0 \/ ~Unused(cpf) THEN Len(request[u].file) + 1 ELSE request[u].at + 1

After(u) == request[u].at + 1

\* import_employees, one row.
ImportRow(u) ==
    /\ request[u].op = "import" /\ request[u].at <= Len(request[u].file)
    /\ ReadRow(request[u].file[request[u].at])
    /\ rewritten' = rewritten \ {request[u].file[request[u].at]}
    /\ request' = [request EXCEPT ![u].at = After(u)]
    /\ UNCHANGED <<link, imported, owed, mixed>>

ImportEnd(u) ==
    /\ request[u].op = "import" /\ request[u].at > Len(request[u].file)
    /\ imported' = imported \cup ({request[u].file[k] : k \in DOMAIN request[u].file} \ {0})
    /\ Finish(u)
    /\ UNCHANGED <<employees, link, owed, mixed, rewritten>>

------------------------------------------------------------------------------
(* Edits, deletions and links.                                              *)

\* update_employee: of any columns, the CPF among them, which may be taken away.
UpdateBegin(u) ==
    \E i \in Live : \E cpf \in {NoCpf, employees[i].cpf} \cup Cpf, field \in Field :
        /\ cpf # employees[i].cpf \/ field # employees[i].field
        /\ Begin(u, [op |-> "update", id |-> i, change |-> Changed(employees[i], cpf, field)])

UpdateCommit(u) ==
    /\ request[u].op = "update"
    /\ Rewrite([employees EXCEPT ![request[u].id] = Written(@, request[u].change)])
    /\ Touched(request[u].id)
    /\ Finish(u)
    /\ UNCHANGED <<link, imported, mixed>>

\* delete_employee; in one step, deleting twice being the same.
Delete(u) ==
    /\ Idle(u)
    /\ \E i \in Live : employees' = [employees EXCEPT ![i].deleted = TRUE]
    /\ Overlap
    /\ UNCHANGED <<link, request, imported, owed, rewritten>>

\* create_employee_external_id, for the ERP: of any employee, if the ERP's
\* person has no link yet.
Link(u) ==
    /\ Idle(u)
    /\ \E p \in Staff, i \in DOMAIN employees : link[p] = 0 /\ link' = [link EXCEPT ![p] = i]
    /\ Overlap
    /\ UNCHANGED <<employees, request, imported, owed, rewritten>>

\* delete_employee_external_id.
Unlink(u) ==
    /\ Idle(u)
    /\ \E p \in Staff :
        /\ link[p] # 0
        /\ link' = [link EXCEPT ![p] = 0] /\ owed' = [owed EXCEPT ![p] = 0]
    /\ Overlap
    /\ UNCHANGED <<employees, request, imported, rewritten>>

------------------------------------------------------------------------------
(* The push.                                                                *)

\* upsert_employees_from_erpsolid loads the links and the employees: those who
\* are linked will be updated, deleted or not, by the last of the people linked
\* to them, the others added.
PushBegin(u) ==
    \E people \in Pushes, field \in Field : \E cpf \in [people -> {NoCpf} \cup Cpf] :
        LET linked == {p \in people : link[p] # 0}
            found == {link[p] : p \in linked}
        IN  \E last \in [found -> linked] :
                /\ \A i \in found : link[last[i]] = i
                /\ Begin(u, [op |-> "push", people |-> people, field |-> field,
                             added |-> people \ linked, cpf |-> [p \in people \ linked |-> cpf[p]],
                             changes |-> [i \in found |-> Changed(employees[i], cpf[last[i]], field)]])

\* (As PushedRows, of those who were not deleted.)
PushedRowsLive(u) ==
    [i \in DOMAIN employees |->
        IF i \in DOMAIN request[u].changes /\ ~employees[i].deleted
        THEN Written(employees[i], request[u].changes[i]) ELSE employees[i]]

PushedRows(u) ==
    [i \in DOMAIN employees |->
        IF i \in DOMAIN request[u].changes
        THEN Written(employees[i], request[u].changes[i]) ELSE employees[i]]

\* Those added, in any order: it makes no difference.
Order(people) ==
    CHOOSE order \in [1..Cardinality(people) -> people] :
        \A p \in people : \E k \in DOMAIN order : order[k] = p

PushCommit(u) ==
    LET r == request[u]
        new == Order(r.added)
        \* Who is linked to the k-th of them.
        Rank(p) == CHOOSE k \in DOMAIN new : new[k] = p
    IN  /\ r.op = "push"
        /\ \A p \in r.added : link[p] = 0
        /\ Len(employees) + Len(new) <= MaxEmployee
        /\ Rewrite(PushedRows(u) \o [k \in DOMAIN new |-> New(r.cpf[new[k]], r.field)])
        /\ link' = [p \in Staff |-> IF p \in r.added THEN Len(employees) + Rank(p) ELSE link[p]]
        /\ owed' = [p \in Staff |-> IF mixed THEN 0
                                    ELSE IF p \in r.people THEN r.field
                                    ELSE IF link[p] \in DOMAIN r.changes THEN 0 ELSE owed[p]]
        /\ Finish(u)
        /\ UNCHANGED <<imported, mixed>>

Next ==
    \E u \in User :
        \/ Create(u) \/ ImportBegin(u) \/ ImportRow(u) \/ ImportEnd(u)
        \/ UpdateBegin(u) \/ UpdateCommit(u) \/ Delete(u)
        \/ Link(u) \/ Unlink(u) \/ PushBegin(u) \/ PushCommit(u) \/ Abort(u)

Spec == Init /\ [][Next]_vars

------------------------------------------------------------------------------
(* Properties.                                                              *)

\* Every variable keeps its type.
TypeOK ==
    /\ employees \in Seq(Employee) /\ Len(employees) <= MaxEmployee
    /\ link \in [Staff -> 0..Len(employees)]
    /\ DOMAIN request = User
    /\ imported \subseteq Listed /\ rewritten \subseteq Listed
    /\ owed \in [Staff -> {0} \cup Field] /\ mixed \in BOOLEAN

\* A row of a file that fails does not keep the others out: every CPF in a file
\* read to its end is an employee's, from it or from before, whatever happened
\* meanwhile, until an edit or a push gives that employee another.
FilesAreRead == \A cpf \in imported \ rewritten : ~Unused(cpf)

\* As long as no two requests overlapped, the employee that the ERP's person is
\* linked to, deleted or not, is (but for its CPF) as the ERP last pushed it, until somebody
\* edits it or the link is removed; and a person whom it pushed is linked.
MirrorIsCurrent ==
    ~mixed => \A p \in Staff : owed[p] # 0 => link[p] # 0 /\ employees[link[p]].field = owed[p]

EmployeesAreSound == FilesAreRead /\ MirrorIsCurrent
=============================================================================
