# GEOP: formal specification

GEOP is an operations system for hotels and their staff: a FastAPI backend over PostgreSQL
(`src/api`), a Go agent that carries punches from a Control iD time clock to the backend
(`src/agent`), three Next.js frontends (`src/web`, `src/admin`, `src/colaborador`), and a few
external services (Asaas for billing, Clicksign for signatures, Evolution and Brevo for
messages).

This directory holds TLA+ models of the parts whose correctness depends on the *order* in
which things happen, the TLC configurations that check them, and TLAPS proofs of the results
that hold for every value of the parameters.

Contents: [1 Inventory](#1-inventory) · [2 What is hard](#2-what-is-hard) ·
[3 Modules](#3-modules) · [4 Runs and bounds](#4-runs-and-bounds) ·
[5 Fairness](#5-fairness) · [6 Proofs](#6-proofs) · [7 Findings](#7-findings) ·
[8 Observations](#8-observations) · [9 Not modelled](#9-not-modelled) · [10 Plan](#10-plan)

## 1 Inventory

Every domain of the API has the same shape: `router.py` (HTTP), `schemas.py` (validation),
`service.py` (logic), with SQLAlchemy models in `models/`. One request is one `AsyncSession`,
one transaction at PostgreSQL's default READ COMMITTED, and usually one `commit` at the end.
Nothing in the API uses `SELECT ... FOR UPDATE` or a version column, so a request decides on
the row it loaded and writes by primary key; the ORM writes only the columns whose value
changed. There is no scheduler in the repository: jobs are endpoints that somebody calls.

| Component | State | Operations | Talks to | Correct when |
|---|---|---|---|---|
| **Agent sync** (`agent/internal/sync`, `controlid`) | cursor file, retry file, user cache | a cycle: flush the retry file, poll, save the cursor, build events, post or queue | clock (HTTP), API webhook, disk | no punch is lost or stored twice; the retry file keeps what is not stored, as long as it can be read |
| **Punch ingestion** (`timeclock` webhook) | `time_punches`, unique by device and event | find by event id, insert | agent | an event is one row, a 200 means stored |
| **Contract approval** (`contracts`) | contract status, approval steps, dates | create, update, submit, decide, set status, amend, delete, expiry job | approvers, notifications, audit trail | active only when approved by all; a rejection returns it to draft; a due contract is renewed |
| **Quotes and signatures** (`commercial`) | quote, signature, sale | edit, send, cancel, delete, decide by link, OTP, envelope, webhook | customer, e-mail, Clicksign, attachments | accepted if and only if sold, once, as signed; decisions are final |
| **Billing of tenants** (`platform`) | company, subscription, webhook events | provision, trial expiry, suspension, reactivation, deletion, reconciliation, webhook | Asaas | dunned once per event, from one date; suspended means locked out; one customer and one subscription per tenant |
| **Hour bank** (`timeclock`) | adjustments, excusals, daily balances | request, review, excuse, recalculate, initial balance, mirror | punches, schedule | a balance is what the punches say; a request is decided once; an excused day costs nothing |
| **Sales** (`commercial`) | sales, invoices, payments | edit, invoice, register a payment | quotes | an invoice is paid exactly when its payments reach its amount; a number is given once |
| **E-mail client** (`email_client`) | accounts, messages, alert rules | synchronise, alert, send | IMAP, SMTP, Evolution | a message is stored once, none is skipped, its alert is sent once, if anybody is to be alerted |
| **Schedule, status of a punch** (`timeclock`) | shifts, days of the schedule | set a day, generate a period, delete a shift; judge a punch | punches | what was set by hand stays; the deletion of a shift leaves no day behind; a punch is judged by the shift it belongs to |
| **Punch mirror** (`timeclock/mirror.py`) | none | pairs, minutes, night, overtime, balance of a day | punches, schedule, hour bank | what is paid plus what is banked is what was worked |
| **SLA** (`core/sla.py`) | none | deadline in working hours | - | the hours up to the deadline are the hours agreed |
| **Employee portal** (`timeclock`) | PIN and lockout, mobile punches, vacations, payslips | log in, set and reset the PIN, punch, request, review, cancel, upload, import, delete | punches, attachments | every wrong PIN counts; a punch from the portal alternates with the one before it; a vacation is as its reviewer decided; a payslip has its file |
| **Stock** | quantity, movements | entry, exit, adjustment, delete | work orders | the quantity is what its movements make of it; nothing is overdrawn |
| **Work orders** | status, dates, participants | transition, replace participants, delete | preventive plans | the dates follow the status; validated is final |
| **Preventive plans, checklists** | due dates, templates, executions | generate what is due, edit, tick, complete | work orders | one order or execution for each due date that nobody sets back, none skipped; an execution has a whole list |
| **Users, roles, SSO** (`users`, `roles`, `auth`) | users, roles | create, edit, delete, provision, promote | ERP | an e-mail is one account; nobody loses a role that was given |
| **Employees, ERP exchange** (`employees`, `integrations_erpsolid`) | employees, links, suppliers, cost centres | by hand, from a file, push, pull | ERP Solid | a pushed record is what was pushed; a change is pulled; a file is read to its end, its people employees until their CPF is changed |
| **Cache, dashboard** (`core/cache.py`, `dashboard`) | Redis keys | read through, invalidate | every domain | nothing older than its time; nothing stale once invalidated |
| **Handoffs, meetings, diaries, audit reports** | rows and lists | read, resolve, save | - | resolved stays resolved; a saved list is whole |
| **Suppliers, contract numbers** (`contracts`) | contacts, contracts | primary contact, numbering | - | one primary contact; the program gives a number once |
| **Lists, timeline** (`core/pagination.py`, `timeline`) | none | page by cursor, by number | every domain | a reader is shown everything once |
| **HTTP interface** (`main.py`, routers) | none | 337 routes, 100 permissions | front ends | every route can be reached, and its permission can be granted |
| **Front ends** (`web`, `colaborador`, `admin`) | cookies: access token, refresh token | calls, renewal, logout | HTTP interface | a call is carried out once and shown as done; a session is renewed when it can be |
| Forms (inspections, suites, bulletin, procedures, registries, ...) | rows | create, update, delete | - | single-row validation |
| Notifications, settings, plans, support desk, usage | rows | send, edit | users | - |

## 2 What is hard

* **Interleaving.** Two requests that load the same row both decide on what they loaded. This
  is the pattern behind most hazards of the API: two approvers, a cancellation against an
  acceptance, a suspension job against a reactivation.
* **Lists that are replaced.** Participants, items of a template and of a meeting are deleted and
  inserted again in one transaction. The DELETE finds the rows that were committed when it began, so
  two replacements may leave the union of both lists.
* **Caches and pages.** A key is deleted after the commit while a dashboard is being computed; a list
  is read page by page while others write to it; a pull asks for what changed since the last one.
* **Sessions.** Three front ends renew their tokens in several tabs at once, and a logout may meet
  a renewal.
* **Tables that must agree.** A route with a parameter hides a literal one registered after it; a
  permission that no migration inserts can be granted to nobody; a front end calls by path.
* **Boundaries of time.** Shifts that cross midnight, punches of one moment, hours of work around
  weekends and holidays.
* **Steps that commit in the middle.** `create_attachment` commits while a signature is being
  confirmed; a subscription is created at Asaas before it is committed here.
* **Delivery.** The agent posts at least once, Asaas and Clicksign repeat their webhooks, in
  any order; a POST that timed out may still be at work when it is repeated.
* **Crashes.** The agent keeps its cursor and its retry file in files that are truncated
  before they are written.
* **Time.** Grace periods, trials, validity of a quote, end of a contract: each is a deadline
  that races the requests.

`PROJECT.json` lists these hazards one by one, at the line where each bites, with the
properties that watch it or the reason why none does.

## 3 Modules

All models of the API share a convention. A request is an element of `Request` (or of a set of
users) with a record of its own: which operation it is, where it is, and what it has loaded.
Its `...Begin` action is the SELECT with the checks on the row it loaded, its `...Commit` action
is the visible effect of its transaction, and what lies between them (calls to a provider, a
second SELECT, a flush that locks a row, a commit in the middle) is an action of its own.
`Abort` ends a request anywhere; what it has not committed is undone. Where a property cannot
hold once two requests overlap, because the code takes no lock, a history variable
(`overlapped`, `quiet`, `mixed`, `raced`, ...) remembers it and the property says so; the properties without such a
guard hold under every interleaving.

The modules fall into groups, each of which one MC module instantiates:

| MC module | Extends | Puts beside it |
|---|---|---|
| `MCPunchDelivery` | PunchDelivery | |
| `MCBackOffice` | ContractApproval, WebCalls (Routes) | Stock, WorkOrders, PreventivePlans, Checklists, Paging, WebRequests |
| `MCCommerce` | QuoteSigning | Sales, MailSync |
| `MCTenant` | Billing | PinLockout, MobilePunch, VacationRequests, Payslips; Accounts, Employees, ErpSync, DashboardCache, Handoffs, Meetings, Registry |
| `MCHours` | HourBank | Schedule, PunchStatus, Sla, Mirror |

The components of a group share no row, so a behaviour of all of them is an interleaving of
behaviours of each, and a property of one is decided by its own steps alone. A variable `area`
therefore names the one that moves while the others stand still: the run explores the sum of the
state spaces instead of their product. The components take their constants from the configuration by
`INSTANCE ... WITH`, so that what is proved of them holds for all values; the few values that a configuration cannot
write down (sequences, records, a quantity below zero) are definitions of the MC module. The seven components of records in
`MCTenant` share nine registers (`s1` ... `s9`), and Mirror has its own (`m1` ... `m8`), which each of them takes as its
variables by `INSTANCE ... WITH`. `MCContractApproval` is the instance of one component for two runs
of section 7; `quote_signed` and `billing_overdue` run QuoteSigning and Billing as they are.

The proofs follow the groups: `BackOfficeProofs` (MCBackOffice), `CommerceProofs` (MCCommerce), `PortalProofs` and `RecordProofs`
(MCTenant), `HourBankProofs` (MCHours); `BillingProofs` and `PunchDeliveryProofs` are about one component, and `Counting` holds the
lemmas about loops, sums and lists that they share.

### PunchDelivery (and PunchLedger, PunchDeliveryProofs, MCPunchDelivery)

The way of a punch: `Syncer.runCycle` of the agent, its two files, the POSTs, and
`ingest_punch` of the API.

| State | Code |
|---|---|
| `logs`, `registered` | the clock's access logs and users (external) |
| `pc`, `batch`, `newMax`, `userCache`, `conn` | local variables of `runCycle`, the user cache, the POST under way |
| `cursorFile`, `pendingFile` | `last_sync.json`, `pending_events.json`; `ok = FALSE`: truncated, cannot be parsed |
| `handlers` | request handlers of the webhook: events left to ingest, event between SELECT and INSERT |
| `punches` | rows of `time_punches`, in commit order |
| `skipped`, `faults` | history: what was dropped; failures of network, writes, reads, process so far |

One cycle is `StartCycle` (is there a retry file to flush?), `FlushSucceeds`/`FlushFails`,
`Poll` (user cache, cursor, logs), `SaveCursor` (cursor first, then the events are built),
`PostEvents`, `PostSucceeds`/`PostFails` (the events join the retry file). A POST may fail
before, while or after it is handled (`RequestFails`), in which case the handler may go on
alone (`OrphanEnds`, `OrphanDies`). `LookUp` and `Insert` are the two halves of `ingest_punch`;
the unique constraint decides between two handlers that looked up the same event, and the one it refuses ends
with a 500, its other events not handled (its rollback expires the device whose id it then asks for).
`Crash` may strike between any two steps and truncates a file that was being written.

A file may fail to be *read*, healthy as it is, and each reader makes something else of it: `StartCycle` has nothing to
flush, `Poll` starts from 0, and `PostFails` ignores the error (`syncer.go:166`) and writes its events *over* the retry
file. `QueueKeepsUntilStored` therefore says that an event which is not stored leaves the retry file in one of two ways
only: the file is truncated (a write that fails, a crash in its middle), or it is overwritten because that very read failed.
No late answer, repeated POST, handler that dies half-way or restart takes one out. `NoLossByNetwork` is about runs
in which files are read and written without failure.

`PunchLedger` is the abstract specification: a ledger that only grows, by events that
happened, each at most once. `LedgerSpec` is that specification with `ledger <- punches`; it
is both checked and proved.

### ContractApproval (MCBackOffice, MCContractApproval, BackOfficeProofs)

One contract, its steps, requests to edit (`Editor`) and requests to decide (`Decider`). The latter are of any approver each
(`FindStep` chooses a pending step), so that one approver may have several under way: a second click, two tabs, an
approval and a rejection. Both find the step pending, and the later overwrites the earlier, because `service.py:1048` is the
only check; `doubled` remembers the steps decided while a second request had found them. `StepDecidedOnce` says that nothing
else changes a decision: not a submission, an edit, an abort, the other approver or a request that comes later. `SubmitBegin`, `UpdateBegin`, `ReadSteps`,
`DeleteSteps`, `SubmitCommit`, `UpdateCommit` are `submit_contract` and the part of
`update_contract` that replaces the approvers; `DecideBegin`, `FindStep`, `FlushAndCount`,
`CommitApproval`, `CommitRejection` are `decide_approval`, where the approval is flushed (its
row is locked) before the pending steps are counted; `StatusBegin`, `StatusCommit` are
`PATCH /status`, which allows any status; `Delete`, `Amend`, `RunExpiryAlerts` are single
transactions. `manual` remembers that the status was set by hand since the last submission.
An end date is `far`, `near` or `past`.

### QuoteSigning (MCCommerce, CommerceProofs)

One quote from draft to sale. `content` is the version of its items and total, which a
signature (`document`) and a sale copy. `UpdateBegin` ... `DeleteCommit` are the staff's
operations; `DecideBegin` and `Decide` are `decide_quote`; `OtpBegin`, `OtpLoad`, `OtpCommit` send a
code; `ConfirmBegin`, `ConfirmLoad`, `ConfirmWrongCode`, `Sign`, `Decide` are
`confirm_signature_otp`, whose `Sign` commits the signature when the attachment is created;
`IcpBegin`, `CreateEnvelope`, `IcpCommit` start a signature at the provider, and
`WebhookBegin`, `WebhookRefused`, `WebhookQuote`, `Sign`, `Decide` handle its webhook.

### Billing (MCTenant, BillingProofs)

One tenant: the row of `companies`, the row of `subscriptions`, and what Asaas holds for it.
`sub.link` and `company.customer` are the ids at the provider (0: none). The date
`past_due_since` is `none`, `recent` (within the days of grace) or `old`. A request's `dirty`
is the set of columns it will write, settled when it loads. `CustomerBegin` ...
`SubscribeCommit` provision, `ExpireBegin` ... `SuspendCommit` are the two jobs,
`ReactivateBegin`/`ReactivateCommit`, `DeleteTenant`/`DeleteCommit` and
`ReconcileBegin`/`FetchRemote`/`ReconcileCommit` are the operator's, `PaymentWebhook`,
`DeletionWebhook`, `WebhookCommit`, `AlreadyProcessed` are the webhook. At the provider, payments
are made and become overdue, and subscriptions end. The model assumes that the webhook may read
the rows of every tenant (one database role; see observation B5).

### HourBank (MCHours, HourBankProofs)

One day of one employee: its `punches`, one request to adjust them, and the two rows of
`hour_bank_entries` of that day, `entry` (source `calculated`) and `excusal` (source `excused`).
`NewPunch` and `UpdatePunch` are all the ways in which punches come and change; `CreateAdjustment` is the
employee's, `ReviewBegin`, `Approve`, `FinishReview`, `Reject` are the review, whose approval commits
twice because `create_manual_punch` and `update_punch` commit by themselves. `RecalculateBegin` (the
punches), `RecalculateRead` (the entry), `RecalculateCommit` (the columns that differ from what was
read) are `recalculate_hour_bank` for one day, with the loop of `_pair_punches` as a recursive function of the punches it has
taken in the order of their time; two punches of the same moment come in either order, because nothing but the time
orders them. What the loop adds up is compared with a definition that knows no order of processing: the minutes that lie
between an entrance and an exit with no typed punch between the two (`AtWork`). `stale` remembers that the entry was not computed from the punches as they are.
The expected minutes, whether the day is a rest day, and the pay of overtime are constants.

### Stock, WorkOrders, PreventivePlans, Checklists (MCBackOffice, BackOfficeProofs)

*Stock* is one item. `BeginMovement` loads it and computes the quantity it will have,
`CommitMovement` writes that value (not an increment; nothing at all when it is the value
that was loaded) and the row of the movement. Because a movement may be lost when two overlap, what
holds is that it is lost as a whole: the quantity is what some of the movements on record make of the
opening one, all of them while none overlapped, and no exit takes it below zero (`StockIsAccounted`).

*WorkOrders* is one order and its participants. `TransitionBegin` checks the table `Transitions`,
`TransitionCommit` writes status and dates; `ReplaceBegin`, `DeleteRows`, `ReplaceMissing` (the flush may find
a row of another replacement), `ReplaceCommit` replace the participants. `OrderIsCoherent`: the dates follow
the status, a validated order stays so while nobody overlapped, and the list that was asked for last is there.

*PreventivePlans* has two plans and the call that generates what is due in one transaction: `GenerateBegin`
loads all due plans, `GenerateCommit` creates the orders and writes the next dates. `UpdatePlan` takes any date, or none,
one that has its order already included. `NoDateSkipped` holds under every interleaving of calls, since the last edit of a plan, while no
edit met one; `OneOrderPerDate` while no call met another or an edit. It speaks of the orders since a plan was last set back to a date that
it had served (`restart`): until then, and again from then on, their dates only grow, whatever else is edited.

*Checklists* has one template, whose items carry the version of the list they belong to, and its
executions: `UpdateBegin`, `UpdateRow` edit its date, recurrence and use, `DeleteItems`, `UpdateCommit` replace the list as well; an edit
writes the columns that differ from what it loaded (`WriteRow`), and one that has sent its UPDATE makes the others of the row
wait (`RowLocked`); `GenerateBegin`, `ReadItems`, `GenerateCommit` copy
it; `ToggleBegin`, `ToggleCommit`, `Complete` work an execution off. An execution has a whole list, a ticked item has
a date, a due date has one execution, until the template is set back
by hand to a date that it has served (`ExecutionsAreSound`). `WorkIsCoherent` is this, `OrderIsCoherent` and the two of the plans (`EveryDateOnce`).

### Paging, Routes, WebCalls, WebRequests (MCBackOffice, BackOfficeProofs)

*Paging*: rows with the time at which their transaction began and an id given at the INSERT, seen from the
commit on. A reader walks by cursor (`core/pagination.py`), by page number (`work_orders`, by last change), or along
the timeline. By id nothing is shown twice or missed, whatever is written; by page number only if
nothing is written; the timeline while its ids are in the order of its times.

*Routes* is the HTTP interface as a table: 337 routes in the order of their registration in `main.py`, with verb, path, handler,
permission and the statuses they refuse with; `RouteOf` is the matching. `Catalog` are the permission codes that
the migrations insert. *WebCalls* are the 239 calls that the three front ends make, with the function that makes each and the
statuses it has words for. `TablesAgree` says that no route is hidden by an earlier one, that every
call is served by the route it means (but four that none serves) and words no status that its route does not give,
and that what a route needs can be granted (but 30 codes that no migration inserts).

*WebRequests* is what the tables cannot say: the session. `Click` starts a request of a tab behind the middleware, `Serve` is the
API's answer, `Renew` the renewal of an expired access token with its one repetition, `Arrive` the answer with the cookies it sets;
`Logout`, `Lapse` (the access token), `Forget` (cookies that expire) and `Deactivate` (the account) come at any time.
Kinds of calls differ in what they make of a failure. A request is carried out once at most and shown as done if and only if it
was, or its answer was lost; a session that can be renewed is not turned away; who has logged out stays so, unless a request
under way sets the cookies again (`RequestsAreRight`). `ShownIsTrue` joins it with what holds of pages; the tables are looked at in `RoutesAreThere`.

### Sales, MailSync (MCCommerce, CommerceProofs)

*Sales*: invoices of one sale, edited by hand, and payments. `PayBegin` loads the invoice, `PaySum` inserts the payment and adds
up, `PayCommit` writes the status that follows. A paid invoice is covered under every interleaving; a covered one is paid, and numbers differ,
while no two requests overlapped (`InvoicesAreSettled`).

*MailSync*: synchronisations of one mail account. `Fetch` takes the most recent messages, the newest first, and
`Store`, `StoreUnsent`, `StoreSilently` handle one of them: an alert is sent at once, the row is visible to others with the `Commit`
at the end; `FetchFails` and `Fails` are failures before and after. The rule is edited meanwhile (`EditRule`). It has targets, all of whom
are reached (recorded as alerted) or not (not recorded, though some may have been); or it alerts `"nobody"`, and that
*succeeds*, so the message is recorded as alerted with nothing sent (`email_client/service.py:697-725`, `501-505`); or it is off.
No message is skipped; one that is recorded as alerted was sent to a target, or the rule that was loaded had none (`unaddressed`); and it is stored and
alerted once while nothing overlapped or failed in between (`MailIsKept`).

### Schedule, PunchStatus, Sla, Mirror (MCHours, HourBankProofs)

*Schedule*: a day set by hand (`SetBegin`, `SetCommit`), a period generated by a weekly or rotating pattern (`GenerateBegin`,
`GenerateCommit`), a shift deleted. The mark of a manual day survives every interleaving and its shift every generation that
began after it; the deletion of a shift leaves no day behind, and a generated period follows its pattern
(`ScheduleIsKept`, the last two while no requests overlapped). Neither request asks whether the shift it names is deleted, so it may
be any shift that ever was; `stray` remembers those named after their deletion, and a day with a deleted shift has one of them (`NoOrphan`).

*PunchStatus*: `ScheduleForPunch` chooses the shift of the day or the overnight shift of the day before,
`EvaluateStatus` judges. The reference lays the shifts on one line of time and asks which of them the punch falls to.

*Sla*: the loop of `calculate_business_deadline`, an action per branch. The reference counts working hours one by one
(`SlaIsCounted`). Work ends before the last hour of the day does (`SlaAssumption`): with 24, `replace(hour=24)` raises an error.

*Mirror*: the pairing of a day's punches as a loop over their moments, then minutes worked and expected, night
differential, overtime and balance, beside what the hour bank makes of the same punches. The references count moments one by one: those between
an entrance and the exit that follows it, those of them at night, those of a shift without its break (`PairsAreWorked`, `NightIsRounded`,
`ExpectedIsScheduled`); a break that ends before it starts is not taken off, one that lies outside its shift is, so the last is said of
breaks within the shift. What is paid in cash plus what is banked is what was worked over what was expected (`PaidOrBanked`), where it is.

### PinLockout, MobilePunch, VacationRequests, Payslips (MCTenant, PortalProofs)

*PinLockout*: the credential of one employee. `LoginBegin` and `WrongPin` or `RightPin`, `ResetBegin`/`ResetCommit` of an
administrator, `SetBegin`/`SetCommit` of the employee, with a clock. While nothing overlaps every wrong PIN counts and a reset
PIN must be changed; no lockout is longer than its time (`LockoutCounts`).

*MobilePunch*: the portal's punch, with the check of the place and the type that follows from the last punch of the
calendar day, and double taps. The clock delivers late, and managers enter and edit punches of any time (`OtherPunch`, `EditPunch`),
before or between those of the portal, or ahead of them. So not every punch alternates with the one before it: what `PunchesAlternate` says is that
one from the portal which came last on its day does (`settled`), and keeps doing so whatever happens to the rest of the day, until somebody
edits it or the one before it, or puts another in between; two taps that overlapped are out of it.

*VacationRequests*: one request, reviewed by managers and cancelled by the employee while holidays come and go.
The reviewer on record decided what the record says; while nothing overlaps the request is decided once; the working days are
those of the holidays at its creation.

*Payslips*: file, attachment and payslip are three steps that commit by themselves (`StoreFile`, `Attach`, `WritePayslip`), for one document or
a batch; `DeleteFile` and `DeleteAttachment` are two. A payslip has its attachment, an attachment its file (but for a deletion that
failed half-way), what was written last stays, the limit is kept.

### Accounts, Employees, ErpSync, DashboardCache, Handoffs, Meetings, Registry (MCTenant, RecordProofs)

*Accounts*: accounts and roles, with the unique constraints that count deleted rows, the provisioning and promotion by SSO, and
the foreign key that empties a role. *Employees*: one by one, from a file committed row by row, pushed by the ERP as a whole (with a CPF, another one or none),
edited, linked and unlinked. An edit and a push may give an employee another CPF, so those of a file are employees until then (`rewritten`). *ErpSync*: the pull of contracts by `updated_at`, which is the beginning of a transaction, and the push of
suppliers. *DashboardCache*: entries by their age and whether they miss a change, the requests that compute
them, and a deletion key by key with a Redis that may fail. *Handoffs*: read, resolved, deleted. *Meetings*: a list saved with its record,
where only an UPDATE of the record makes one save wait for another; audit reports and work diaries are the kinds that have no unique
constraint. *Registry*: primary contacts and contract numbers, those
generated and those given or changed by hand, which nothing keeps apart: the generated ones are of one contract each while no number of their form
was given or taken by hand (`byHand`) and no contract was deleted (`dropped`), whatever other numbers there are. What each promises is the `...AreSound`, `ErpIsInStep`, `DashboardIsFresh`, `ListIsWhole`
at its end; `RecordsAreCoherent` puts them together.

## 4 Runs and bounds

| Run | Checks | What it shows | States |
|---|---|---|---|
| `punch_safety` | `TypeOK`, `AtMostOnce`, `AckMeansStored`, `NoLossByNetwork`, `QueueKeepsUntilStored`, `CursorNeverGoesBack`, `LedgerSpec` | with faults of the network, of reads and writes of the files, and crashes: nothing is stored twice, a 200 means stored, the network alone loses nothing, the retry file keeps what is not stored unless it is truncated or cannot be read | 986 thousand up to symmetry |
| `punch_liveness` | `KnownPunchArrives`, `QueuedIsDelivered` | with two network faults and a disk that can be read and written, what is queued or due is stored in the end | 23 thousand |
| `punch_skipped` | `SkippedStaysAheadOfCursor` | refuted: finding 1 | |
| `contract_safety` (MCBackOffice) | `MCTypeOK`, `ActiveMeansAllApproved`, `AwaitingHasPending`, `RejectedMeansNotAwaiting`, `StepDecidedOnce`, `StockIsAccounted`, `WorkIsCoherent`, `ShownIsTrue`, `RoutesAreThere` | a decision is overwritten only by a second request of its approver that had found the step pending, and a rejected contract never waits, however approvers race; one request at a time, active means approved by all, waiting means somebody is asked; stock, orders, plans, checklists, lists, routes and sessions as in section 3 | 2.1 million up to symmetry |
| `contract_rejected` | `RejectedIsNotActive` | refuted: finding 2 | |
| `contract_renewal` | `DueIsRenewed` | refuted: finding 3 | |
| `quote_safety` (MCCommerce) | `TypeOK`, `OneSale`, `AcceptedHasSale`, `SaleMeansAccepted`, `SoldAsSigned`, `DecisionIsFinal`, `InvoicesAreSettled`, `MailIsKept` | two racing requests never make two sales, nor an accepted quote without one; one request at a time, a decision is final and a sale is what was signed; invoices and messages as in section 3 | 8.0 million up to symmetry |
| `quote_signed` | `SignedIsSold` | refuted: finding 4 | |
| `billing_safety` (MCTenant) | `TypeOK`, `SuspendedIsBlocked`, `GraceIsCounted`, `NothingUnlinked`, `OverdueCountsOnce`, `CanceledIsNotDunned`, `PortalIsCoherent`, `RecordsAreCoherent` | repeated and reordered events dun a tenant once; while it is quiet, grace is counted from one date, suspended means locked out, canceled stays out of the dunning, nothing is left unlinked at Asaas; portal and records as in section 3 | 2.1 million up to symmetry |
| `billing_overdue` | `OverdueIsDated` | refuted: finding 5 | |
| `hourbank_safety` (MCHours) | `MCTypeOK`, `ApprovedHasPunch`, `ReviewedOnce`, `BalanceIsWorked`, `ScheduleIsKept`, `RulesAreRight` | an approval never lacks its punch; an entry computed from the punches as they are agrees with a definition of pairing that knows no order of processing; one request at a time, a request is reviewed once; schedule, status, SLA and mirror as in section 3 | 3.6 million up to symmetry |
| `hourbank_excusal` | `ExcusedIsNeutral` | refuted: finding 6 | |

Bounds, everywhere with two requests under way at most:

| Component | Bounds |
|---|---|
| PunchDelivery | 2 users, 2 handlers, 2 logs, 3 network faults, 1 failed write, 1 failed read, 1 crash (the refuted run: no faults; the live one: 2 network faults) |
| ContractApproval | 2 approvers, 2 requests to decide, 1 to edit, lists of 1 and 2 approvers, 4 steps ever (2 in the run of finding 3) |
| QuoteSigning | 2 envelopes, 1 edit, 1 attempt of a code |
| Sales, MailSync | 2 invoices of 1 or 2, payments up to 2; 2 messages, 2 in a fetch, 1 failure |
| Billing | 2 customers, 1 subscription, 2 payments |
| HourBank | 3 moments, 2 punches of the clock and 3 in all, corrections to "in at 1" and "out at 2", 1 minute expected, overtime paid in cash |
| Schedule, PunchStatus | 2 days, 1 shift, a weekly and a rotating pattern; 2 days of 6 slots, tolerance of 0 or 1 |
| Sla, Mirror | days of 4 hours, 2 of them of work, 8 days, 5 hours agreed; 8 moments, 4 punches, a shift by day and two by night, night from 7 to 2 |
| Stock, WorkOrders | quantities 1 and 2, opening -1 or 2, 3 movements; 2 participants, 3 replacements |
| PreventivePlans, Checklists | 2 plans, recurrences 1 and 2, 2 days, 2 orders; 2 items, recurrence 1, 2 days, 2 versions, 2 executions |
| Paging, WebRequests | pages of 1, 3 rows, 4 transactions; 2 tabs, one for every kind of call and one for three of them |
| PinLockout, MobilePunch | lockout after 2 for 2 of 4 ticks, 3 wrong PINs; 4 moments for a punch, 3 of one day and 1 of the next |
| VacationRequests, Payslips | 6 days, 2 holidays; 2 months, 2 attachments, 3 documents |
| Accounts, Employees, ErpSync | 1 e-mail, 3 roles; 2 employees, 2 CPFs, a file of an invalid and a valid row, a push of one; 3 moments, 3 versions, 2 names |
| DashboardCache, Handoffs, Meetings, Registry | 1 part, lifetimes 1 and 2; 1 handoff; 2 persons, 3 saves; 2 contacts, 2 contracts |

Why these bounds are enough. Every hazard here is a race of two: two handlers with one event, two
approvers of one contract, two requests on one quote or one tenant, two tabs of one browser. So there are two of
each. Two logs are what it takes for a newer event to overtake an older one, and for the cursor to
pass one log while it fetches another. Three network faults let a POST time out, its retry time out,
and a third attempt meet both orphans. Four steps are a full round of two approvers,
a rejection, and a second round of two. Two orders of a plan are one of a date and the second of the same date, after it was set back. One edit separates "before" from
"after"; two envelopes separate "the last" from "an earlier" one. Two customers are a
customer and its duplicate; a second subscription at Asaas adds states and no new order of events,
because all of its code depends on `sub.link` alone. Three punches at three moments are the least in
which an entrance or an exit has no partner between two that have one, four are two pairs of a night. Three movements, saves and
replacements are two that overlap and one that follows. Pages of one row make every boundary of a page a place where a
row may come or go. An SLA of five hours of two a day spans a weekend with a holiday beside it.
The theorems of section 6 hold for all bounds.

Two configurations have a `CONSTRAINT StillClaimed`: a state in which the history variables have already taken away what is claimed is
checked but not continued. In `MCBackOffice` these are contracts that are deleted or near their end once two requests overlapped, plans once an edit met a call, and
ticks and switches of a checklist once requests overlapped; in `MCTenant`, second customers at the provider once it was not quiet, punches once two taps overlapped, columns
of employees other than the CPF once requests overlapped, and contract numbers once requests overlapped, a contract was deleted or a number was given by hand. Each
property that goes on being claimed there is decided by what is left. The theorems are about all behaviours: `MCSpec` knows no constraint.

Deadlock is checked in the runs of PunchDelivery, whose cycle never stops. The other models end
when their bounds are used up (a sold quote has nothing left to do), so they are run without it.

Each property of a passing run has mutants in `PROJECT.json`, a property that joins several
components at least one for each of them: a plausible bug in a
definition that models code (a check dropped, a constraint missing, a column forgotten), under which
TLC refutes the property. The mutated forms stand before the definition they change, with a comment
`(As ..., without ...)`.

## 5 Fairness

* `PunchDelivery!FairSpec` assumes weak fairness of `Cycle` and of each `Serve(h)`: the loop of
  `Syncer.Run` is one goroutine that always starts the next cycle on its ticker, and the event loop
  of the API keeps running a handler it has started. It assumes nothing of the clock, the network or
  the disk, whose faults are bounded instead.
* `ContractApproval!LiveSpec` assumes weak fairness of `RunExpiryAlerts`: `POST /jobs/expiry-alerts` exists to
  be called again and again from outside (nothing in the repository schedules it). The run that uses it
  shows that the contract is not renewed even so. Nothing is assumed of users.
* The other specifications are checked for safety only: whether a customer ever signs, an
  operator ever reconciles, a manager ever reviews or a page is ever opened again is up to them, and no job of the
  repository runs by itself.

## 6 Proofs

The proofs hold for every set of users, handlers and requests and for every value of the bounds,
from the named assumptions about the constants alone, which TLC evaluates in every run:

| Assumption | Says | Why the code justifies it |
|---|---|---|
| `NoHandlerAssumption` | no handler is the value for "no POST" | a matter of the model |
| `BoundsAssumption`, `BoundAssumption`, `CapsAssumption`, `DayAssumption` | days do not go back; bounds are natural numbers; a round of approvers fits into the steps; there is a first moment, role and version | a matter of the bounds |
| `NumbersAssumption` (MCBackOffice) | quantities and recurrences are positive, a list of items is one of labels | schemas refuse a quantity or a recurrence below one |
| `PagesAssumption`, `KindsAssumption` | a page has a row at least; a tab makes the kinds of calls there are | `limit` is declared `ge=1`; `WebCalls` names them |
| `RequestsAssumption`, `ListsAssumption` | a request does not both decide and edit; a list names approvers | one request is one call |
| `AmountAssumption`, `CountsAssumption` | amounts of invoices and payments are positive; the counts of MCCommerce are natural numbers | `amount` is declared `gt=0` in the schemas; a matter of the bounds |
| `NamesAssumption`, `DataAssumption` (MCTenant) | no PIN, CPF or name is the value for none, no request is nobody, no part of the dashboard is the whole; an import names a month, a push is of finitely many people that the ERP knows | a matter of the model; a request is finite |
| `LimitsAssumption` (MCTenant) | attempts, lockout and lifetimes of the cache are positive | constants of the code |
| `TypesAssumption`, `NumbersAssumption`, `ExcusedAssumption`, `WantedAssumption`, `SettingsAssumption` (HourBank) | punches are typed `in` or `out` among others; minutes are natural numbers; the settings are Boolean | the types of the columns |
| `PlanAssumption` | a week has days, and a rotation has too | `generate_schedule` divides by its length and fails for none |
| `StatusAssumption`, `SlaAssumption`, `MirrorAssumption` | a day has slots; work starts and then ends within a day; the night ends on a day before it starts on it, and the times of a shift are of a day | times of day; the constants of the code (8 to 18, 22 to 5) |

The theorems about one component are stated of its `Spec`, those that speak of several of the `MCSpec` of their group. `GroupImplements` (one in each module of proofs
of a group) says that the latter implies the former, so that all of them are about what the runs explore.

**PunchDeliveryProofs.** `TypeCorrect` is inductive by itself. `AtMostOnceHolds` follows from
`InsertRow`, with no assumption on how many handlers run. `Implements` maps every step to a step of
`PunchLedger` or to a stutter: only `Punch` and `Insert` move it. `AckMeansStoredHolds` needs that
the handler the agent waits for holds exactly what is not yet stored of the POST. For
`NoLossByNetworkHolds` the invariant `NoLossByNetwork` is not inductive: while
a batch is fetched and its cursor not yet saved, nothing says that the batch holds
all logs up to `newMax`. `CycleInv` adds this, says that the batch is empty between cycles and
that neither file is torn, all under `Healthy` (no crash, no failed read or write), which every step of
a healthy run has behind it as well (`HealthyStep`). It rests on `AckMeansStored`: the retry file
and the batch are given up only when they are stored.

**CommerceProofs, quotes.** `OneSaleHolds` and `AcceptedHasSaleHolds` hold under every
interleaving. `SaleMeansAcceptedHolds`, `SoldAsSignedHolds` and `DecisionIsFinalHolds` speak of
executions in which no two requests have overlapped; their invariant is `Serial`: at most one request is
under way (`Alone`), it sees the quote as it is (`Fresh`), the row it works on exists
(`HasRow`), and what a sale and a signature say of the quote is still so (`SaleKept`, `SignatureKept`).
`TypeInv` carries the bound on the attempts of a code: a confirmation that has passed the check has an attempt
left (`AttemptLeft`), which is what makes `attempts + 1` stay within
`OTP_MAX_ATTEMPTS`, however many confirmations run at once. Both parts are inductive together (`InvariantHolds`).

**BillingProofs.** `IInv` has three parts. `TypeInv` adds to the types that an id which a request carries was given out
by the provider. `EventsOnce` holds under every interleaving and gives `OverdueCountsOnceHolds`: the unique constraint keeps an event in process
off the record and apart from the others in process, and what was answered is on record. `Serial` is about
the executions that the three other invariants speak of, where no two requests overlapped and none was interrupted behind a call to Asaas: one request is
under way (`Alone`), what it checked is still so and a column it will not write has the value it would write (`Fresh`), a subscription past due
has its date and the company of a suspended one is not active (`Dunned`), and whatever exists at Asaas is linked or held (`NothingUnlinked`).
None of them is inductive alone: that a suspension leaves the company blocked rests on the column it left out of its UPDATE because it was
right when it loaded.

**BackOfficeProofs, contracts.** `StepDecidedOnceHolds` is about any number of requests of any approver. It needs from `TypeInv` that a step
which a request under way holds is pending, or gone, or was decided while that request held it too and is therefore in `doubled` (`Sound`): so
whoever writes a decision writes it over a pending step or over one of `doubled`, and an editor can but delete it. For `ActiveMeansAllApprovedHolds` and
`AwaitingHasPendingHolds`, which speak of requests that do not overlap, `Serial` says that what a request read of status and steps is still so, including whether
its approval is the last (`Fresh`), and that status and steps agree (`Approved`). `RejectedMeansNotAwaitingHolds` is the one about races: it assumes
one editor (`Editor = {e}`, as in the run) and any approvers, and its invariant is that what the editor has read are all the steps there are
(`EditorReadsAll`), so that a resubmission leaves no rejected step behind. With two editors it is false: a second submission inserts
steps that the first does not delete.

**HourBankProofs.** `PairingIsRight` is the agreement of the loop of `_pair_punches` with the definition of the minutes at work. It is an
induction over the punches taken so far, whose instance at one sequence needs no operator parameter: `CountingUp` proves it for a set of numbers, by
the pigeonhole principle. After each punch the minutes added up are the number of minutes at work so far, and `open` is the entrance that
waits (`PairPunchCounts`). It asks for punches of different moments: two of one moment are paired by the order in which the database gives them. The
state invariant `IInv` joins types, `RequestsAreSound` (a recalculation has the pairing of the punches as they are, unless they
have changed since), `EntryIsPaired` (the entry has the pairing of the punches as they are, and its balance, unless it is `stale`), `ApprovedHasPunch` and, without overlap,
`Serial` (one request at a time, a review finds its adjustment pending, at most one punch was added for it, and it was approved).

**BackOfficeProofs, work and stock.** `WorkIsCoherentHolds` and `StockIsAccountedHolds` are about MCBackOffice, whose areas do not touch each other's
variables, so that each has an invariant of its own. *Work orders*: a transition writes a status over whatever the row has become, and yet the dates fit it, because
dates are only added and what the transition saw of them is still there (`Builds`). *Preventive plans*: `Served` says that each date at a whole number of
recurrences from `since` on and before the plan's next date has its order, and the same before the date that any call under way has
loaded (`StillRuns`); the orders since a plan was last set back come before its next date, so a date edited by hand either lies beyond all of them or starts
the count again; that nothing lies between a date and the next is arithmetic of multiples (`NoMultipleBetween`, `SameMultiple`). *Checklists*: two replacements
may leave more than one list, but never less than the last one (`LastIsThere`), so that whoever copies the items copies a whole list, and an execution stays one (`Whole`); the
executions since it was last set back come before its next date (`InStep`), which an UPDATE of the row keeps (`WriteIs`). *Stock*: every quantity that
somebody has loaded is the stocktake of some of the movements on record (`Counted`), all of them while none overlapped; a commit writes its own on top of what it had loaded, so
the movements in between are lost as a whole and the rest is still such a stocktake (`TakenOn`). What a set of movements makes of the opening quantity is a running total along the list
(`Running` in Counting), which a movement more at the end does not change before it.

**BackOfficeProofs, what is shown.** `ShownIsTrueHolds`. *Pages*: a page is the first rows of what a strict order puts after the last one shown; that a finite set has such rows, and only in one order,
are lemmas of their own (`Orders`, `Enumerates`). Walking by cursor, all that has been shown comes before what is left, and a row that commits meanwhile either belongs to what is left or is newer
than the start (`Walked`); by number, the pages so far are the first rows of the list as long as nobody has written (`Paged`); ids are given once and times of update differ (`PageOnce`). *Sessions*: a call is served once or not at all, and who has renewed has a valid token (`Going`); a call that a usable renewal could have saved is
refused only where the code does not renew (`Renewable`); and the cookies of a session are there only while somebody is signed in or a late answer has brought them back (`WebInv`). `MCTypeCorrect` adds the calendars and
counters that no property speaks of (`AreaNumbers`).

**CommerceProofs, sales and mail.** `InvoicesAreSettledHolds` and `MailIsKeptHolds` are about MCCommerce, each with an invariant of its own that a step of another area leaves alone.
*Sales*: what a request has loaded of an invoice may be stale, yet its amount is still the amount unless somebody edited it by hand, and what a payment adds up
was paid, because payments only grow (`Holds`); a commit that writes `paga` is therefore covered, whatever has become of the row. An invoice not yet there has no
payment (`UnpaidBeyond`), or it could be covered when it is created. While requests do not overlap, what is loaded is what there is (`UpToDate`) and the i-th invoice has number
i (`Numbered`): that the next number is new rests on the invoices being counted, none of which is ever deleted. *Mail*: what a synchronisation has fetched and not
yet passed is still to come, and what it has passed has a row, committed by somebody or its own (`Keeps`); what is recorded as alerted, in a row or in one
not yet committed, reached a target or had none to reach (`Reached`), whatever rule has taken its place since; a message that was alerted has a row
unless a transaction failed (`Recorded`), so that no later synchronisation alerts it again. The check for an existing row counts rows, which the proof turns into "there is one" by the
library's theorems on cardinality.

**PunchDeliveryProofs, files.** `QueueKeepsUntilStoredHolds` and `CursorNeverGoesBackHolds` hold with crashes and failed reads and writes, from `FileInv`: a retry file
that cannot be parsed holds nothing, and a cursor that is about to be saved is not behind the one on disk, even if the read of that one failed, for then it is
the greatest id of the clock. The retry file is removed only on the strength of `AckMeansStored`; a rewrite adds to what it could read.

**PortalProofs.** `PortalIsCoherentHolds` joins four invariants. *PIN*: while no requests overlap, the one under way has seen the row as it is (`PinSerial`), so every wrong PIN counts; under every interleaving, what a request has seen is a credential that could be on record,
and a lockout is written as a length from now, so it ends. *Punches*: a punch of the portal that comes last on its day alternates with the one before it, because its type is decided by
the last of that day and, while nobody overlaps, still is when it is written (`TapSerial`); whatever is entered or edited before, between or after takes out of `settled` those whose
neighbour it changes, and leaves the neighbours of the others alone. *Vacations*: the status on record was decided by the reviewer on record; while nobody overlaps, nothing has
been decided as long as a request is under way or the vacation is pending (`VacationSerial`); and its working days are the period without its weekends and the holidays at its creation, a set that is
shown to be finite (`Counted`). *Payslips*: a job that has stored a document, or attached it, still holds it when it goes on (`JobRight`), and no two jobs store the same one
(`DocsApart`): that is why a payslip has its attachment and an attachment its file, unless a deletion failed half-way.

**RecordProofs.** `RecordsAreCoherentHolds` joins seven invariants of one shape: types, what a request under way has loaded and is still so, and, while no requests overlap, that what it has loaded is
what there is. *Accounts*: an account has the role it was given, or none if that role is gone, and no id is given twice (`AccountRight`, `RolesRight`); e-mails are apart (`EmailsApart`). *Employees*: whoever a file has listed before the row at hand is an
employee, or was until an edit or a push rewrote the CPF (`Known`, `StaffAskOf`), and whom a push has passed is linked and has its field (`LoadedRight`), so that what was pushed last is there while no two overlap (`Mirrored`). *ERP*: a change under way began no earlier than the last pull, unless
one was skipped (`ExchangeOf`), so that what the ERP does not know the next pull tells it (`ToldNext`). *Dashboard*: the age of an entry and what is left of it add up to its lifetime and the time it took to
compute at most, twice for the parts in the metrics, which were cached before (`EntryBounded`, `MetricsBounded`); as long as nobody computed during a change, an entry that misses one is still to be deleted (`DashboardFresh`). *Handoffs*: under every
interleaving, a handoff that a request has seen as read or as no longer pending still is (`HandoffLoaded`). *Meetings*: the rows are the list of the last save and a save that has deleted has found all of them, unless a save that leaves the record itself alone has slipped in
beside another, because one that changes it waits (`MeetingInv`). *Registry*: a request that is alone replaces whichever contact is primary (`RegistryRight`), so that one is (`OneMarked`), and generated numbers are in
turn while nobody overlaps, deletes or gives one by hand (`InTurn`): contracts whose number has another form are not counted and do not disturb them.

**HourBankProofs, the rules.** `ScheduleIsKeptHolds`: what a request has loaded keeps the mark of a day set by hand and the row it has seen, whatever the others write (`Stays`); of one request at a time, what it loaded is what
there is (`UpToDate`), so a shift that is deleted has no day and one that a day gets later was named after its deletion. That a generated period follows its pattern is division with remainder (`WorksIs`). `RulesAreRightHolds` joins three. *Status*: once given it is what the shift that judges says (`Verdict`); for a punch
within a scheduled shift, or after the last that has begun, that is the shift it lies in, laid on one line of time (`ShiftOfPunch`). *SLA*: at every turn of the loop the working hours up to the current
moment and those that remain are what was agreed (`Timed`); from a moment out of work to the next morning of work no hour is counted (`NobodyWorks`), within a day of work every one is (`WorkLasts`), and there is a next
morning because a weekend ends and holidays do. *Mirror*: the pairs are the moments worked by the punches reached so far (`SumsAre`), the open entry is the last of them
(`OpenIsLast`), and each pair is rounded by half a minute at most (`Near`); that the break of an overnight shift counts once is a bijection of its moments with those of the day (`BreakIsCounted`). `MCTypeCorrect` joins the types of all areas.

**Counting.** The library's induction takes an operator as a parameter, which no installed prover can instantiate. `CountingUp` does what the proofs need of it for a set of numbers, by the pigeonhole principle;
from it follow that a loop has the values its steps give (`LoopIsThere`, `LoopStaysIn`), running totals and when two agree (`Running`, `RunningAgrees`), and that a set of natural numbers has a least element (`LeastIsThere`).

**Model-checked only.** Liveness (`KnownPunchArrives`, `QueuedIsDelivered`) and everything that needs
fairness; `RoutesAreThere`, which compares tables of routes, calls and permissions entry by entry and has no parameter; and the
refuted properties of section 7, which no proof can hold for.

## 7 Findings

Where a comment, a docstring or a document says one thing and the code does another, a run with
`expect: violation` states what is said and TLC shows the execution that refutes it.

1. **A skipped punch is not read again** (`punch_skipped`). `agent/internal/sync/payload.go:27-30` says that
   the log of an unknown user is processed by a later cycle because its id is still greater than
   the cursor. `runCycle` saves the greatest id it fetched (`syncer.go:150`) before the log is dropped.
2. **A rejected contract becomes active** (`contract_rejected`). `docs/contratos.md:108`: a rejection returns the
   contract to draft. An approval that loaded the contract before the rejection was committed counts
   only pending steps, finds none, and writes `ativo` over the draft (`contracts/service.py:1072`).
3. **The expiry job fails on what it should renew** (`contract_renewal`). `run_expiry_alerts` records its
   event with `user_id=0`, which the foreign key to `users` refuses; the whole job is rolled back, on every
   call, and all notifications and renewals with it (`contracts/service.py:1195`).
4. **Signed and not sold** (`quote_signed`). `commercial/service.py:695` says that both methods of signing end in
   `decide_quote(..., approved=True)`. The attachment commits the signature before; if the quote has expired
   or was cancelled, or the request fails in between, it stays signed without a sale, and the
   provider's retry is answered `already_processed`.
5. **An overdue payment is taken for a repetition** (`billing_overdue`). `docs/agentes/jarvis-asaas.md:27`:
   `PAYMENT_OVERDUE` sets `past_due_since`. Events are deduplicated by the id of the *payment*
   (`webhook.py:27`), so after `PAYMENT_CREATED` the overdue event of the same payment has no effect.
6. **An excused day keeps its debit** (`hourbank_excusal`). `create_punch_excusal` says it neutralises the
   effect on the hour bank without deleting the calculated entry (`timeclock/service.py:1330`, and
   `docs/api-reference.md:870`). It adds an entry of balance 0, and `get_hour_bank_summary` sums both.

## 8 Observations

Behaviour met while modelling that no run refutes, either because no line of the repository
promises otherwise or because the promise is a matter of design.

*Punch.* **P1** A crash between saving the cursor and posting loses the batch, although
`agent/README.md:124` says that events survive a restart; `NoLossByNetwork` is therefore stated without crashes.
**P2** A failed flush does not end the cycle: newer events overtake the queued ones, against the
comment at `syncer.go:179`. **P3** A healthy retry file that cannot be read for a moment (`state.go:70-72`) while the events of a failed POST are queued is overwritten
by them, because `syncer.go:166` ignores the error: the events it held are lost, against `syncer.go:180-182` and `agent/README.md:124`. A cursor that
cannot be read starts again from 0, which only repeats. **P4** Of two handlers that insert one event the second ends with a 500 although the event is
stored: its rollback expires the device, so `device.id` in the SELECT that follows (`timeclock/service.py:804`) fails, and the rest of its POST waits for the retry.

*Contracts.* **C1** Two last approvals that overlap each count the other as pending: every step is
approved and the contract waits for ever; so `AwaitingHasPending` asks for requests that do not overlap.
**C2** A rejection leaves the other steps pending (`docs/contratos.md:108` says they are
cancelled). **C3** Steps may be decided in any order (`docs/contratos.md:98` calls the flow
sequential). **C4** A submission that does not repeat the approvers discards the steps of the draft
and makes the contract active (`schemas.py:342`). **C5** An approval and a rejection of the same approver that both find the step pending are both carried out, and the later is what the
step says (`service.py:1048`); the contract follows both.

*Quotes.* **Q1** Cancellation, deletion and decision write over each other when they overlap.
**Q2** Only the last envelope is known: the customer's signature on an earlier one is ignored.
**Q3** Numbers of quotes are the count of the year plus one, so two creations may collide.

*Billing.* **B1** No code creates invoices, so a confirmed payment has no effect and a tenant that
has paid is suspended all the same, until an operator reactivates it. **B2** Provisioning and
reconciliation make a subscription active without clearing `past_due_since`; the next overdue
payment is then taken for one that is known. **B3** Provisioning makes the
subscription of a suspended tenant active and leaves its company suspended. **B4** Reconciliation writes the
provider's status as it is (`expired`, `inactive`), which no other code knows. **B5** The
webhook has no tenant, so under a database role restricted by row level security it finds no
subscription; the model assumes the single role of the deployment files. **B6** A reactivation that
overlaps the suspension job may leave an active subscription with a suspended company.

*Hour bank.* **H1** Two managers who load the same pending adjustment are both let through
(`docs/escala-de-trabalho.md:448`: reviewed once): two approvals make two punches, and an approval and a rejection
leave a rejected request with a punch; `ReviewedOnce` is stated without overlap. **H2** An approval that is
interrupted between its two commits is approved without `resulting_punch_id` and without its
event. **H3** On a Sunday or a holiday with a scheduled shift and overtime paid in cash, all minutes worked
are overtime, so who works the shift exactly gets a debit of the whole shift, against the comment
at `timeclock/service.py:1037-1039` that only a deficit is negative. **H4** Two recalculations that read different
punches may leave an entry whose minutes are of one and whose balance is of the other, until the next
one. **H5** The initial balance is searched for and then inserted, and unique per date: two requests
with different dates make two rows, and both count.

*Back office.* **W1** A transition that loaded a finished order writes over its validation, although
`docs/domain-model.md:101` calls validated terminal; two replacements leave the union of their participants.
**W2** Two generations of preventive plans make each order twice, and one that meets an edit of the plan writes
the old due date on; any date is accepted by hand, for plans as for templates (`preventive_plans/service.py:155`, `checklists/service.py:195`), so one that was
served already is served a second time. **W3** Two ticks of one item leave `checked` of one and `checked_at` of the other; an item may be
ticked after its execution was completed, and the execution completed again. **W4** A movement of stock that overlaps
another is lost, though its row stays; an adjustment to the loaded quantity writes nothing at all.

*Schedule and punches.* **T1** A generation that loaded a day before it was set by hand writes its shift over it; the mark
"manual" stays. **T2** A shift may be deleted while it is being scheduled, and a request may name a deleted shift, for neither it nor the router asks (`timeclock/service.py:278-386`):
`PUT` commits the day and then fails on the list that it reads back (`rows[0]`). `docs/escala-de-trabalho.md:105-109` says that refusing the deletion of a shift in use avoids such
orphans. **T3** An arrival some minutes before an overnight
shift that follows another is judged as very late for yesterday's; an entry after that shift ended as late, too; a
day off, or another shift, on the day of leaving hides the night before; leaving a day shift after midnight is judged by the next day.
**T4** The type of a mobile punch follows from the calendar day, so who leaves after midnight is taken to enter; and a punch that the clock delivers late, or that a manager enters or edits, falls between two of the portal,
which then no longer alternate, nobody overlapping.
**T5** With overtime paid in cash, a rest day that has a shift is a debit of the whole shift in the hour bank, while the mirror pays
only what exceeds it (H3). `build_employee_mirror` fails with a `TypeError` when overtime is due and
no day of the month has expected minutes. A break that crosses midnight is not subtracted; night minutes are
rounded for each pair; a salary of 0 keeps the salary of the job title from being used.

*Portal.* **E1** Of wrong PINs that overlap all but one are lost; one that loaded the credential before a reset locks
it again; a PIN set while it is reset need not be changed; a lockout that has passed leaves its count, so the next wrong PIN locks
again. **E2** A cancellation that overlaps an approval is overwritten, or keeps the
reviewer on record; working days are not counted again when holidays change. **E3** An import of payslips that meets another for the same
month ends with the first conflict, although the docstring (`timeclock/service.py:1953`) says that a failure does not stop
the batch; an upload for a month that has one fails after its attachment was stored.
**E4** The limit of attachments counts all payslips of an employee, and two uploads exceed it. **E5** `delete_attachment` deletes the file
before the row.

*Sales and mail.* **S1** Two partial payments at the same time leave a covered invoice open, against
`docs/backlog.md:550`; a payment writes over a cancellation that it overlaps; raising the amount leaves an invoice paid; two
creations take the same number. **S2** Two synchronisations store a message twice, after which
`scalar_one_or_none` fails on it for ever. An alert that could not be sent is never tried again (`alerted_rule_ids` is never
filled), one that was sent before a commit failed is sent again. Of more than 50 messages between two synchronisations the
oldest are never fetched. **S3** An alert of a rule that has no targets, or none with a number, succeeds with nothing sent, and the message is recorded as alerted (`schemas.py:120` has no
targets by default).

*Records.* **R1** An SSO login does not promote an account without a role, though the docstring says so; the e-mail of a deleted
user and the CPF of a deleted employee cannot be used again; deleting a role while it is given empties it. **R2** One pushed employee
whose CPF exists here unlinked makes every push fail; a push updates what was deleted, which stays deleted; two pushes of a new person
fail one as a whole. An edit or a push takes the CPF from an employee, who is then imported again as another. **R3** A pull misses transactions that are open while it reads, and never tells of a deletion.
**R4** Contract numbers repeat after a deletion, a race or a number given or changed by hand, for no constraint keeps them apart (migration 0053); two contacts may become primary at once, until the next
one replaces both. **R5** A dashboard computed between two deletions of keys is stale until its time; changes of users, sectors and meetings
invalidate nothing. **R6** A handoff that is read while it is resolved goes back to "lido". **R7** Saves of a list that change no column
of its record may leave both lists; an edit of a suite of inspections unlinks the items of inspections that were made.
**R8** Cost centres may become each other's parents; two edits of the e-mail settings keep one; a tenant may be created on an inactive plan, and
cannot be provisioned again half-way; a second usage snapshot on one day counts twice.

*Interface and front ends.* **F1** `/definir-senha`, the page that an invited user opens, is not among the public paths of
`web/middleware.ts`, so without a session it leads to `/login`; `docs/usuarios-perfis.md:64` and `docs/web-rotas-ui.md:35` call it public
(`docs/auditoria-2026-07-03.md:74` has noted it). **F2** The desk's menu of subscriptions and its layout call two routes that do
not exist, as does the dead code of the old work schedule. **F3** Thirty permission codes that routes require are inserted by no
migration, so only the wildcard opens them (`docs/api-reference.md:700` lists them as ordinary ones). **F4** `docs/api-reference.md:234` says that a session is renewed
without a password; the middleware leads to `/login` as soon as the access cookie, which lives as long as its token, is
gone. The proxies renew before, never after a 401; uploads never. **F5** A request under way at a logout that renews sets the cookies again;
a logout without the access cookie keeps the refresh cookie; a renewal of an older session may overwrite that of a newer sign-in. **F6** A list that
cannot be read is shown as empty, and actions that guard against exceptions turn an ended session into a failed connection; a punch
of the portal whose answer is lost leads to `/login` though it may be stored. **F7** The timeline continues by id and orders by time, so transactions that
overlap make it skip or repeat an event; numbered pages shift with every write.

## 9 Not modelled

`PROJECT.json` lists every component with its status and what is left out of it. In short:

* **Fields that decide nothing**: text, layout and formatting of quotes, mirrors, payslips and mails; searches and filters of lists;
  columns of a form that no guard reads. Schemas refuse single values and are taken for granted.
* **Rows of one editor**: bulletin, procedures, registries, generic modules, inspections, suites, maintenance records, settings, plans, support
  desk are created, updated and deleted by single requests without a state machine. What a race does to them
  is what it does to the rows above: the later value of a column wins.
* **What PostgreSQL, Redis and the providers do by themselves**: the pool, row level security, object storage, IMAP and SMTP appear only as what they
  answer. The models assume one database role (B5).
* **What only runs once**: migrations (but for the permission codes they insert), seeds, scripts, start-up of the agent, its
  status page.
* **The pages** of the front ends: components and forms between two calls, service workers, styles.
* **Notifications**: no component waits for one, and nothing follows from their loss.

Row locks are modelled where a wait changes the outcome (the flushed approval step, the unique
keys, the UPDATE before a list is replaced); a lock that only delays a writer which does not look again is left out.

## 10 Plan

| Step | Module | What it adds | Properties and theorems |
|---|---|---|---|
| done | PunchDelivery, PunchLedger | the agent and the ingestion | refinement and four invariants proved |
| done | ContractApproval, QuoteSigning, Billing, HourBank | the state machines of the API | all their invariants proved |
| done | MCBackOffice, MCCommerce, MCTenant, MCHours | the groups of section 3: back office, sales and mail, portal and records, rules of the time clock, interface and front ends | all safety properties proved but `RoutesAreThere` |
| done | BackOfficeProofs, CommerceProofs, PortalProofs, RecordProofs, HourBankProofs, BillingProofs | the groups for all bounds | section 6 |
| 1 | Notifications, Support | the two components whose rows somebody waits for | read once; a ticket's status follows its answers |
| 2 | AgentConfig | the agent's settings and their change while it runs | a change applies to whole cycles |

The abstract specifications worth stating next: a quote as a one-shot decision (draft, sent, decided once) that
QuoteSigning implements while requests do not overlap, and a dunning state machine for Billing.
