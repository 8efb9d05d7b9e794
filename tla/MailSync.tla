------------------------------- MODULE MailSync -------------------------------
(***************************************************************************)
(* domain/email_client: the messages of one mail account are copied, and an *)
(* alert rule that matches a new one sends WhatsApp messages to the rule's  *)
(* targets.                                                                 *)
(*                                                                          *)
(* A synchronisation is one request and one transaction: the messages that  *)
(* it has inserted are visible to itself at once, to others after the       *)
(* commit at its end; what it has sent stays sent.  Messages are their UIDs *)
(* 1, 2, ... in the order of arrival.                                       *)
(***************************************************************************)
EXTENDS Integers, Sequences, FiniteSets

CONSTANTS
    User,         \* those whose synchronisations may be under way at the same time
    MaxMessages,  \* max_messages of a fetch
    MaxMail,      \* bound: messages that arrive
    MaxFailure    \* bound: failed transactions and failed sends

VARIABLES
    arrived,  \* the mailbox: the last UID
    rule,     \* the alert rule: it matches and has targets, or "nobody", or is "off"
    rows,     \* the rows of email_messages, in the order of their commits
    sync,     \* the synchronisations
    sent,     \* how many times a message was sent to some target
    failures, \* number of failures so far
    unaddressed, \* history: messages whose alert had no target
    covered,  \* history: messages that a synchronisation without error had fetched
    parted,   \* history: a transaction has failed, after it may have sent
    mixed     \* history: two synchronisations have been under way at once

vars == <<arrived, rule, rows, sync, sent, failures, unaddressed, covered, parted, mixed>>

Mail == 1..MaxMail

\* "nobody": no target of the rule has a number, so that its alert succeeds and
\* sends nothing.  "off": the rule is deleted, inactive or of other messages, or
\* the company's WhatsApp is not set up.
Rule == {"targets", "nobody", "off"}

Idle == [pc |-> "idle", rule |-> "off", todo |-> <<>>, fetched |-> {}, own |-> <<>>, error |-> FALSE]

Init ==
    /\ arrived = 0 /\ rule = "off" /\ rows = <<>>
    /\ sync = [u \in User |-> Idle]
    /\ sent = [m \in Mail |-> 0]
    /\ failures = 0 /\ unaddressed = {} /\ covered = {} /\ parted = FALSE /\ mixed = FALSE

Arrive ==
    /\ arrived < MaxMail
    /\ arrived' = arrived + 1
    /\ UNCHANGED <<rule, rows, sync, sent, failures, unaddressed, covered, parted, mixed>>

\* create_alert_rule, update_alert_rule, delete_alert_rule, and the setting.
EditRule ==
    /\ \E r \in Rule \ {rule} : rule' = r
    /\ UNCHANGED <<arrived, rows, sync, sent, failures, unaddressed, covered, parted, mixed>>

\* sync_one, sync_all: the account and the rule are loaded.
SyncBegin(u) ==
    /\ sync[u] = Idle
    /\ sync' = [sync EXCEPT ![u].pc = "fetch", ![u].rule = rule]
    /\ mixed' = (mixed \/ \E v \in User : sync[v] # Idle)
    /\ UNCHANGED <<arrived, rule, rows, sent, failures, unaddressed, covered, parted>>

\* The most recent messages, the newest first.
Recent ==
    LET n == IF arrived < MaxMessages THEN arrived ELSE MaxMessages
    IN  [k \in 1..n |-> arrived - k + 1]

\* _imap_fetch, _pop3_fetch.
Fetch(u) ==
    /\ sync[u].pc = "fetch"
    /\ sync' = [sync EXCEPT ![u].pc = "loop", ![u].todo = Recent, ![u].fetched = {Recent[k] : k \in DOMAIN Recent}]
    /\ UNCHANGED <<arrived, rule, rows, sent, failures, unaddressed, covered, parted, mixed>>

\* The fetch fails: nothing is stored.
FetchFails(u) ==
    /\ sync[u].pc = "fetch"
    /\ failures < MaxFailure
    /\ failures' = failures + 1
    /\ sync' = [sync EXCEPT ![u].pc = "commit", ![u].error = TRUE]
    /\ UNCHANGED <<arrived, rule, rows, sent, unaddressed, covered, parted, mixed>>

\* (As Existing, of those that were alerted.)
ExistingAlerted(u, m) == Cardinality({k \in DOMAIN rows : rows[k].uid = m /\ rows[k].alerted})

\* (As Existing, without what the transaction has not committed or others have.)
ExistingOwn(u, m) == Cardinality({k \in DOMAIN sync[u].own : sync[u].own[k].uid = m})

\* The rows with this UID that the transaction sees.
Existing(u, m) ==
    Cardinality({k \in DOMAIN rows : rows[k].uid = m}) + Cardinality({k \in DOMAIN sync[u].own : sync[u].own[k].uid = m})

At(u) == sync[u].pc = "loop" /\ sync[u].todo # <<>>

Message(u) == Head(sync[u].todo)

\* scalar_one_or_none finds one.
Skip(u) ==
    /\ At(u) /\ Existing(u, Message(u)) = 1
    /\ sync' = [sync EXCEPT ![u].todo = Tail(@)]
    /\ UNCHANGED <<arrived, rule, rows, sent, failures, unaddressed, covered, parted, mixed>>

\* It finds more, and raises: the loop ends with an error, what it has stored
\* is committed all the same.
Stuck(u) ==
    /\ At(u) /\ Existing(u, Message(u)) > 1
    /\ sync' = [sync EXCEPT ![u].todo = <<>>, ![u].pc = "commit", ![u].error = TRUE]
    /\ UNCHANGED <<arrived, rule, rows, sent, failures, unaddressed, covered, parted, mixed>>

Sent(m, went) == IF went THEN [sent EXCEPT ![m] = @ + 1] ELSE sent

\* (As Stores, recorded whatever came of the alert.)
StoresAnyhow(u, ok, went) ==
    /\ sync' = [sync EXCEPT ![u].todo = Tail(@), ![u].own = Append(@, [uid |-> Message(u), alerted |-> TRUE])]
    /\ sent' = Sent(Message(u), went)

\* The message is inserted, and the rule is recorded as alerted if the alert
\* succeeded; went: something went out.
Stores(u, ok, went) ==
    /\ sync' = [sync EXCEPT ![u].todo = Tail(@), ![u].own = Append(@, [uid |-> Message(u), alerted |-> ok])]
    /\ sent' = Sent(Message(u), went)

Store(u) ==
    /\ At(u) /\ Existing(u, Message(u)) = 0
    /\ sync[u].rule = "targets"
    /\ Stores(u, TRUE, TRUE)
    /\ UNCHANGED <<arrived, rule, rows, failures, unaddressed, covered, parted, mixed>>

\* A target is not reached; others may be.
StoreUnsent(u) ==
    /\ At(u) /\ Existing(u, Message(u)) = 0
    /\ sync[u].rule = "targets"
    /\ failures < MaxFailure
    /\ failures' = failures + 1
    /\ \E went \in BOOLEAN : Stores(u, FALSE, went)
    /\ UNCHANGED <<arrived, rule, rows, unaddressed, covered, parted, mixed>>

\* No alert; or one to nobody, which has succeeded.
StoreSilently(u) ==
    /\ At(u) /\ Existing(u, Message(u)) = 0
    /\ \/ sync[u].rule = "off" /\ Stores(u, FALSE, FALSE) /\ UNCHANGED unaddressed
       \/ sync[u].rule = "nobody" /\ Stores(u, TRUE, FALSE) /\ unaddressed' = unaddressed \cup {Message(u)}
    /\ UNCHANGED <<arrived, rule, rows, failures, covered, parted, mixed>>

LoopEnds(u) ==
    /\ sync[u].pc = "loop" /\ sync[u].todo = <<>>
    /\ sync' = [sync EXCEPT ![u].pc = "commit"]
    /\ UNCHANGED <<arrived, rule, rows, sent, failures, unaddressed, covered, parted, mixed>>

\* The commit of the request.
Commit(u) ==
    /\ sync[u].pc = "commit"
    /\ rows' = rows \o sync[u].own
    /\ covered' = IF sync[u].error THEN covered ELSE covered \cup sync[u].fetched
    /\ sync' = [sync EXCEPT ![u] = Idle]
    /\ UNCHANGED <<arrived, rule, sent, failures, unaddressed, parted, mixed>>

\* The transaction fails, or the process stops: what was sent stays sent.
Fails(u) ==
    /\ sync[u].pc \in {"loop", "commit"}
    /\ failures < MaxFailure
    /\ failures' = failures + 1
    /\ parted' = TRUE
    /\ sync' = [sync EXCEPT ![u] = Idle]
    /\ UNCHANGED <<arrived, rule, rows, sent, unaddressed, covered, mixed>>

Next ==
    \/ Arrive \/ EditRule
    \/ \E u \in User :
        \/ SyncBegin(u) \/ Fetch(u) \/ FetchFails(u) \/ Skip(u) \/ Stuck(u)
        \/ Store(u) \/ StoreUnsent(u) \/ StoreSilently(u) \/ LoopEnds(u) \/ Commit(u) \/ Fails(u)

Spec == Init /\ [][Next]_vars

------------------------------------------------------------------------------
(* Properties.                                                              *)

Row == [uid : Mail, alerted : BOOLEAN]

\* Every variable keeps its type.
TypeOK ==
    /\ arrived \in 0..MaxMail /\ rule \in Rule /\ rows \in Seq(Row)
    /\ sync \in [User -> [pc : {"idle", "fetch", "loop", "commit"}, rule : Rule, todo : Seq(Mail), fetched : SUBSET Mail,
                          own : Seq(Row), error : BOOLEAN]]
    /\ sent \in [Mail -> Nat] /\ failures \in 0..MaxFailure
    /\ unaddressed \subseteq Mail /\ covered \subseteq Mail /\ parted \in BOOLEAN /\ mixed \in BOOLEAN

\* Whatever fails and overlaps, a message that a synchronisation without error
\* has fetched is stored, and one that is recorded as alerted was sent to a
\* target, or the rule had none when it was loaded.
NothingIsSkipped ==
    /\ \A m \in covered : \E k \in DOMAIN rows : rows[k].uid = m
    /\ \A k \in DOMAIN rows : rows[k].alerted => sent[rows[k].uid] > 0 \/ rows[k].uid \in unaddressed

\* As long as no two synchronisations overlapped, a message is stored once (its
\* UID is under an index that is not unique).
StoredOnce ==
    ~mixed => \A j, k \in DOMAIN rows : rows[j].uid = rows[k].uid => j = k

\* As long as, besides, no transaction failed after its alerts were sent, the
\* alert of a message is sent once.
AlertedOnce == ~mixed /\ ~parted => \A m \in Mail : sent[m] <= 1

MailIsKept == NothingIsSkipped /\ StoredOnce /\ AlertedOnce
=============================================================================
