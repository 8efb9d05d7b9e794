-------------------------------- MODULE Payslips --------------------------------
(***************************************************************************)
(* The payslips of one employee (domain/timeclock/service.py and router.py) *)
(* and the attachments that hold them (domain/attachments/service.py): an   *)
(* upload of one, an import of several, the deletion of an attachment.  For *)
(* each document the file is stored, the attachment is committed, and the   *)
(* payslip is committed in a transaction of its own.  A month has one       *)
(* payslip, and a payslip goes with its attachment (ON DELETE CASCADE).     *)
(***************************************************************************)
EXTENDS Integers, Sequences, FiniteSets

CONSTANTS
    User,          \* users who upload
    Month,         \* months
    MaxAttachment, \* max_per_entity
    MaxDocument,   \* bound: documents ever stored
    Manifests      \* the imports that are made: sequences of months

VARIABLES
    files,    \* documents in the object storage
    attached, \* the rows of attachments: a document and its month
    slips,    \* the rows of employee_payslips: the attachment of a month, 0 if none
    job,      \* the request of each user
    stored,   \* documents stored so far
    written,  \* history: the document that a month was given last
    torn,     \* history: a deletion failed after it had deleted the file
    mixed     \* history: two requests have been under way at once

vars == <<files, attached, slips, job, stored, written, torn, mixed>>

NoJob == [op |-> "none", pc |-> "store", months |-> <<>>, doc |-> 0, seen |-> 0]

Init ==
    /\ files = {} /\ attached = {} /\ stored = 0
    /\ slips = [m \in Month |-> 0]
    /\ written = [m \in Month |-> 0]
    /\ job = [u \in User |-> NoJob]
    /\ torn = FALSE /\ mixed = FALSE

Begin(u, j) ==
    /\ job[u] = NoJob
    /\ job' = [job EXCEPT ![u] = j]
    /\ mixed' = (mixed \/ \E v \in User : job[v] # NoJob)

Row(u) == Head(job[u].months)

\* The next row of the manifest, or the answer.
NextRow(u) ==
    job' = [job EXCEPT ![u] = IF Len(job[u].months) = 1 THEN NoJob
                              ELSE [NoJob EXCEPT !.op = job[u].op, !.months = Tail(job[u].months)]]

UploadBegin(u) ==
    /\ \E m \in Month : Begin(u, [NoJob EXCEPT !.op = "upload", !.months = <<m>>])
    /\ UNCHANGED <<files, attached, slips, stored, written, torn>>

ImportBegin(u) ==
    /\ \E months \in Manifests : Begin(u, [NoJob EXCEPT !.op = "import", !.months = months])
    /\ UNCHANGED <<files, attached, slips, stored, written, torn>>

AtStore(u) == job[u].op \in {"upload", "import"} /\ job[u].pc = "store"

\* create_attachment refuses the document; an import goes on with the next row.
LimitReached(u) ==
    /\ AtStore(u) /\ Cardinality(attached) >= MaxAttachment
    /\ NextRow(u)
    /\ UNCHANGED <<files, attached, slips, stored, written, torn, mixed>>

\* create_attachment: the attachments are counted and the file is stored.
StoreFile(u) ==
    /\ AtStore(u) /\ Cardinality(attached) < MaxAttachment
    /\ stored < MaxDocument
    /\ stored' = stored + 1
    /\ files' = files \cup {stored + 1}
    /\ job' = [job EXCEPT ![u].pc = "attach", ![u].doc = stored + 1]
    /\ UNCHANGED <<attached, slips, written, torn, mixed>>

\* Its commit.  An upload inserts the payslip next, an import looks for it.
Attach(u) ==
    /\ job[u].pc = "attach"
    /\ attached' = attached \cup {[doc |-> job[u].doc, month |-> Row(u)]}
    /\ job' = [job EXCEPT ![u].pc = IF job[u].op = "import" THEN "find" ELSE "write"]
    /\ UNCHANGED <<files, slips, stored, written, torn, mixed>>

FindPayslip(u) ==
    /\ job[u].pc = "find"
    /\ job' = [job EXCEPT ![u].pc = "write", ![u].seen = slips[Row(u)]]
    /\ UNCHANGED <<files, attached, slips, stored, written, torn, mixed>>

\* (As CanWrite, without the foreign key.)
CanWriteUnchecked(u) == (job[u].seen = 0) = (slips[Row(u)] = 0)

\* create_employee_payslip inserts (one payslip a month), the update of
\* upsert_employee_payslip needs its row; either needs the attachment.
CanWrite(u) ==
    /\ (job[u].seen = 0) = (slips[Row(u)] = 0)
    /\ \E a \in attached : a.doc = job[u].doc

WritePayslip(u) ==
    /\ job[u].pc = "write"
    /\ CanWrite(u)
    /\ slips' = [slips EXCEPT ![Row(u)] = job[u].doc]
    /\ written' = [written EXCEPT ![Row(u)] = job[u].doc]
    /\ NextRow(u)
    /\ UNCHANGED <<files, attached, stored, torn, mixed>>

\* delete_attachment: first the file,
DeleteFile(u) ==
    /\ \E a \in attached :
         /\ Begin(u, [NoJob EXCEPT !.op = "delete", !.pc = "delete", !.doc = a.doc])
         /\ files' = files \ {a.doc}
    /\ UNCHANGED <<attached, slips, stored, written, torn>>

\* (As Cascade, with every payslip of the attachment's month.)
CascadeMonth(doc) ==
    [m \in Month |-> IF [doc |-> doc, month |-> m] \in attached THEN 0 ELSE slips[m]]

Cascade(doc) == [m \in Month |-> IF slips[m] = doc THEN 0 ELSE slips[m]]

\* then the row.
DeleteAttachment(u) ==
    /\ job[u].op = "delete"
    /\ attached' = {a \in attached : a.doc # job[u].doc}
    /\ slips' = Cascade(job[u].doc)
    /\ job' = [job EXCEPT ![u] = NoJob]
    /\ UNCHANGED <<files, stored, written, torn, mixed>>

\* A request fails, for instance on a constraint: what it has committed stays,
\* and the rows that an import had left are not imported.
Abort(u) ==
    /\ job[u] # NoJob
    /\ torn' = (torn \/ job[u].op = "delete")
    /\ job' = [job EXCEPT ![u] = NoJob]
    /\ UNCHANGED <<files, attached, slips, stored, written, mixed>>

Next ==
    \E u \in User :
        \/ UploadBegin(u) \/ ImportBegin(u)
        \/ LimitReached(u) \/ StoreFile(u) \/ Attach(u) \/ FindPayslip(u) \/ WritePayslip(u)
        \/ DeleteFile(u) \/ DeleteAttachment(u) \/ Abort(u)

Spec == Init /\ [][Next]_vars

------------------------------------------------------------------------------
(* Properties.                                                             *)

\* Every variable keeps its type.
TypeOK ==
    /\ files \subseteq 1..MaxDocument /\ attached \subseteq [doc : 1..MaxDocument, month : Month]
    /\ slips \in [Month -> 0..MaxDocument] /\ written \in [Month -> 0..MaxDocument] /\ stored \in 0..MaxDocument
    /\ DOMAIN job = User /\ torn \in BOOLEAN /\ mixed \in BOOLEAN

\* However uploads, imports and deletions interleave and wherever they fail, a
\* payslip names an attachment that exists and that was made for its month.
SlipHasAttachment == \A m \in Month : slips[m] # 0 => [doc |-> slips[m], month |-> m] \in attached

\* An attachment can be downloaded, until its deletion has begun.
AttachmentHasFile ==
    ~torn => \A a \in attached : a.doc \in files \/ \E u \in User : job[u].op = "delete" /\ job[u].doc = a.doc

\* A payslip that was written stays until the attachment that it names now is
\* deleted: the deletion of a corrected document does not take it along.
WrittenStays ==
    \A m \in Month : [doc |-> written[m], month |-> m] \in attached => slips[m] = written[m]

\* As long as no two requests overlapped, there is no more than the limit.
WithinLimit == ~mixed => Cardinality(attached) <= MaxAttachment

PayslipsAreKept == SlipHasAttachment /\ AttachmentHasFile /\ WrittenStays /\ WithinLimit
=============================================================================
