----------------------------- MODULE QuoteSigning -----------------------------
(***************************************************************************)
(* One quote of domain/commercial/service.py, from draft to sale: the      *)
(* staff edits, sends, cancels and deletes it, the customer accepts or     *)
(* rejects it by a public link, signs it with a code sent by e-mail (OTP)  *)
(* or at an external provider (Clicksign), which reports by webhook.       *)
(*                                                                         *)
(* A request runs in one session at READ COMMITTED.  What it loaded stays  *)
(* in the session (expire_on_commit is off), so decide_quote, called at    *)
(* the end of a signature, checks the status that was loaded at the        *)
(* beginning.  create_attachment commits in the middle of a signature.     *)
(***************************************************************************)
EXTENDS Integers, Sequences

CONSTANTS
    Request,         \* requests that may be under way at the same time
    OtpMaxAttempts,  \* OTP_MAX_ATTEMPTS
    MaxContent,      \* bound: edits of the quote
    MaxEnvelope      \* bound: envelopes created at the provider

ASSUME NumbersAssumption == OtpMaxAttempts \in Nat /\ MaxContent \in Nat /\ MaxEnvelope \in Nat

VARIABLES
    status,      \* quotes.status
    deleted,     \* quotes.deleted_at is set
    content,     \* version of the quote's items and total
    expired,     \* valid_until has passed
    sales,       \* total_value of the rows of sales with this quote_id
    signature,   \* the row of quote_signatures
    envelopes,   \* the provider's envelopes
    req,         \* the requests
    overlapped   \* history: two requests have been under way at once

quote == <<status, deleted, content>>
vars == <<quote, expired, sales, signature, envelopes, req, overlapped>>

Status == {"rascunho", "enviado", "aceito", "recusado", "expirado", "cancelado"}

NoSignature == [row |-> FALSE, status |-> "pendente", attempts |-> 0, envelope |-> 0, document |-> 0]

NoRequest == [op |-> "none", pc |-> "idle", status |-> "rascunho", content |-> 0,
              signature |-> NoSignature, envelope |-> 0, unsaved |-> FALSE]

Init ==
    /\ status = "rascunho"
    /\ deleted = FALSE
    /\ content = 0
    /\ expired = FALSE
    /\ sales = <<>>
    /\ signature = NoSignature
    /\ envelopes = <<>>
    /\ req = [r \in Request |-> NoRequest]
    /\ overlapped = FALSE

------------------------------------------------------------------------------
(* Requests.                                                               *)

Overlap == overlapped' = (overlapped \/ \E r \in Request : req[r] # NoRequest)

\* _get_quote: the quote, unless it is deleted.
Load(r, op, pc, statuses) ==
    /\ req[r] = NoRequest
    /\ ~deleted /\ status \in statuses
    /\ req' = [req EXCEPT ![r] = [NoRequest EXCEPT !.op = op, !.pc = pc, !.status = status, !.content = content]]
    /\ Overlap
    /\ UNCHANGED <<quote, expired, sales, signature, envelopes>>

At(r, ops, pc) == req[r].op \in ops /\ req[r].pc = pc

Respond(r) == req' = [req EXCEPT ![r] = NoRequest]

\* The ORM writes a column only when it differs from what was loaded.
Written(current, loaded, new) == IF new = loaded THEN current ELSE new

\* A request fails or is refused; what it did not commit is rolled back.
Abort(r) ==
    /\ req[r] # NoRequest
    /\ Respond(r)
    /\ UNCHANGED <<quote, expired, sales, signature, envelopes, overlapped>>

------------------------------------------------------------------------------
(* The staff.                                                              *)

\* (As UpdateBegin, for a quote that is already sent.)
UpdateAnyhow(r) == Load(r, "update", "commit", {"rascunho", "enviado"})

UpdateBegin(r) == Load(r, "update", "commit", {"rascunho"})

UpdateCommit(r) ==
    /\ At(r, {"update"}, "commit")
    /\ content < MaxContent
    /\ content' = content + 1
    /\ Respond(r)
    /\ UNCHANGED <<status, deleted, expired, sales, signature, envelopes, overlapped>>

SendBegin(r) == Load(r, "send", "commit", {"rascunho"})

\* (As CancelBegin, whatever the status of the quote.)
CancelAnyhow(r) == Load(r, "cancel", "commit", Status)

CancelBegin(r) == Load(r, "cancel", "commit", {"rascunho", "enviado"})

SetStatus(r, op, new) ==
    /\ At(r, {op}, "commit")
    /\ status' = new
    /\ Respond(r)
    /\ UNCHANGED <<deleted, content, expired, sales, signature, envelopes, overlapped>>

SendCommit(r) == SetStatus(r, "send", "enviado")

CancelCommit(r) == SetStatus(r, "cancel", "cancelado")

\* (As DeleteBegin, without the check of the status.)
DeleteAnyhow(r) == Load(r, "delete", "commit", Status)

DeleteBegin(r) == Load(r, "delete", "commit", Status \ {"aceito"})

DeleteCommit(r) ==
    /\ At(r, {"delete"}, "commit")
    /\ deleted' = TRUE
    /\ Respond(r)
    /\ UNCHANGED <<status, content, expired, sales, signature, envelopes, overlapped>>

------------------------------------------------------------------------------
(* decide_quote, from the public link or at the end of a signature.        *)

DecideBegin(r) == \E op \in {"accept", "reject"} : Load(r, op, "decide", {"enviado"})

\* (As InsertSale, without the unique constraint on quote_id.)
InsertAnotherSale(r) == sales' = Append(sales, req[r].content)

\* The unique constraint on quote_id lets one row in; the total is the one
\* that the request loaded.
InsertSale(r) == sales = <<>> /\ sales' = <<req[r].content>>

\* (As Accept, with the sale left to a later step.)
AcceptOnly(r) == status' = "aceito" /\ UNCHANGED sales

Accept(r) == status' = "aceito" /\ InsertSale(r)

\* The signature that the request has made and, when create_attachment did
\* not commit it, commits with the decision.
SignatureOf(r) ==
    IF req[r].unsaved
    THEN [signature EXCEPT !.status = "assinado",
                           !.document = IF req[r].op = "confirm" THEN req[r].content ELSE @]
    ELSE signature

Decide(r) ==
    /\ At(r, {"accept", "reject", "confirm", "webhook"}, "decide")
    /\ req[r].op \in {"confirm", "webhook"} => ~deleted
    /\ req[r].status = "enviado"
    /\ \/ expired /\ status' = "expirado" /\ UNCHANGED sales
       \/ ~expired /\ req[r].op = "reject" /\ status' = "recusado" /\ UNCHANGED sales
       \/ ~expired /\ req[r].op # "reject" /\ Accept(r)
    /\ signature' = SignatureOf(r)
    /\ Respond(r)
    /\ UNCHANGED <<deleted, content, expired, envelopes, overlapped>>

------------------------------------------------------------------------------
(* The signature by OTP.                                                   *)

OtpBegin(r) == Load(r, "otp", "signature", {"enviado"})

\* The confirmation does not look at the status of the quote.
ConfirmBegin(r) == Load(r, "confirm", "signature", Status)

LoadSignature(r, op) ==
    /\ At(r, {op}, "signature")
    /\ req' = [req EXCEPT ![r].pc = "sign", ![r].signature = signature]
    /\ UNCHANGED <<quote, expired, sales, signature, envelopes, overlapped>>

\* How long ago the last code was sent (the cooldown) is left open.
OtpLoad(r) == LoadSignature(r, "otp")

\* The code is sent before it is committed: the row is created or updated,
\* and created once (quote_id is unique).
OtpCommit(r) ==
    /\ At(r, {"otp"}, "sign")
    /\ LET old == req[r].signature
       IN  /\ old.row \/ ~signature.row
           /\ signature' = [signature EXCEPT
                !.row = TRUE,
                !.attempts = Written(@, old.attempts, 0),
                !.status = IF old.row THEN Written(@, old.status, "otp_enviado") ELSE "otp_enviado"]
    /\ Respond(r)
    /\ UNCHANGED <<quote, expired, sales, envelopes, overlapped>>

\* (As ConfirmLoad, without the check of the attempts.)
ConfirmLoadAnyhow(r) ==
    /\ signature.row /\ signature.status = "otp_enviado"
    /\ LoadSignature(r, "confirm")

\* How old the code is, is left open.
ConfirmLoad(r) ==
    /\ signature.row /\ signature.status = "otp_enviado"
    /\ signature.attempts < OtpMaxAttempts
    /\ LoadSignature(r, "confirm")

ConfirmWrongCode(r) ==
    /\ At(r, {"confirm"}, "sign")
    /\ signature' = [signature EXCEPT !.attempts = req[r].signature.attempts + 1]
    /\ Respond(r)
    /\ UNCHANGED <<quote, expired, sales, envelopes, overlapped>>

\* The signed document is attached, which commits the signature.  Without a
\* creator, or when the attachment is refused, nothing is committed yet.
Sign(r) ==
    /\ At(r, {"confirm", "webhook"}, "sign")
    /\ \E attached \in BOOLEAN :
         /\ req' = [req EXCEPT ![r].pc = "decide", ![r].unsaved = ~attached]
         /\ signature' = IF attached
                         THEN [signature EXCEPT !.status = "assinado",
                                 !.document = IF req[r].op = "confirm" THEN req[r].content ELSE @]
                         ELSE signature
    /\ UNCHANGED <<quote, expired, sales, envelopes, overlapped>>

------------------------------------------------------------------------------
(* The signature at the provider.                                          *)

IcpBegin(r) == Load(r, "icp", "envelope", {"enviado"})

\* clicksign.create_envelope: done at the provider whatever comes next.
CreateEnvelope(r) ==
    /\ At(r, {"icp"}, "envelope")
    /\ Len(envelopes) < MaxEnvelope
    /\ envelopes' = Append(envelopes, "open")
    /\ req' = [req EXCEPT ![r].pc = "commit", ![r].envelope = Len(envelopes')]
    /\ UNCHANGED <<quote, expired, sales, signature, overlapped>>

IcpCommit(r) ==
    /\ At(r, {"icp"}, "commit")
    /\ signature' = [signature EXCEPT !.row = TRUE, !.status = "pendente",
                                      !.envelope = req[r].envelope, !.document = req[r].content]
    /\ Respond(r)
    /\ UNCHANGED <<quote, expired, sales, envelopes, overlapped>>

\* The customer signs or refuses at the provider.
CustomerSigns(e) ==
    /\ envelopes[e] = "open"
    /\ \E event \in {"signed", "refused"} : envelopes' = [envelopes EXCEPT ![e] = event]
    /\ UNCHANGED <<quote, expired, sales, signature, req, overlapped>>

\* The provider calls the webhook, at least once for each event: a row that
\* is signed already, or has another envelope, is left alone.
WebhookBegin(r, e) ==
    /\ req[r] = NoRequest
    /\ envelopes[e] # "open"
    /\ signature.row /\ signature.envelope = e /\ signature.status # "assinado"
    /\ req' = [req EXCEPT ![r] = [NoRequest EXCEPT
                 !.op = "webhook", !.signature = signature, !.envelope = e,
                 !.pc = IF envelopes[e] = "signed" THEN "quote" ELSE "refuse"]]
    /\ Overlap
    /\ UNCHANGED <<quote, expired, sales, signature, envelopes>>

WebhookRefused(r) ==
    /\ At(r, {"webhook"}, "refuse")
    /\ signature' = [signature EXCEPT !.status = Written(@, req[r].signature.status, "recusado")]
    /\ Respond(r)
    /\ UNCHANGED <<quote, expired, sales, envelopes, overlapped>>

\* The quote is loaded, then the signed document is downloaded.
WebhookQuote(r) ==
    /\ At(r, {"webhook"}, "quote")
    /\ ~deleted
    /\ req' = [req EXCEPT ![r].pc = "sign", ![r].status = status, ![r].content = content]
    /\ UNCHANGED <<quote, expired, sales, signature, envelopes, overlapped>>

TimePasses ==
    /\ ~expired
    /\ expired' = TRUE
    /\ UNCHANGED <<quote, sales, signature, envelopes, req, overlapped>>

------------------------------------------------------------------------------

Staff(r) ==
    \/ UpdateBegin(r) \/ UpdateCommit(r) \/ SendBegin(r) \/ SendCommit(r)
    \/ CancelBegin(r) \/ CancelCommit(r) \/ DeleteBegin(r) \/ DeleteCommit(r)
    \/ IcpBegin(r) \/ CreateEnvelope(r) \/ IcpCommit(r)

Customer(r) ==
    \/ DecideBegin(r) \/ Decide(r)
    \/ OtpBegin(r) \/ OtpLoad(r) \/ OtpCommit(r)
    \/ ConfirmBegin(r) \/ ConfirmLoad(r) \/ ConfirmWrongCode(r) \/ Sign(r)

Provider(r) ==
    \/ \E e \in DOMAIN envelopes : WebhookBegin(r, e)
    \/ WebhookRefused(r) \/ WebhookQuote(r)

Next ==
    \/ \E r \in Request : Staff(r) \/ Customer(r) \/ Provider(r) \/ Abort(r)
    \/ \E e \in DOMAIN envelopes : CustomerSigns(e)
    \/ TimePasses

Spec == Init /\ [][Next]_vars

------------------------------------------------------------------------------
(* Properties.                                                             *)

Signature == [row : BOOLEAN, status : {"pendente", "otp_enviado", "assinado", "recusado"},
              attempts : 0..OtpMaxAttempts, envelope : 0..MaxEnvelope, document : 0..MaxContent]

RequestType == [op : {"none", "update", "send", "cancel", "delete", "accept", "reject", "otp", "confirm", "icp", "webhook"},
                pc : {"idle", "commit", "decide", "signature", "sign", "envelope", "refuse", "quote"},
                status : Status, content : 0..MaxContent, signature : Signature,
                envelope : 0..MaxEnvelope, unsaved : BOOLEAN]

\* Every variable keeps its type: in particular a code is never tried more
\* than OTP_MAX_ATTEMPTS times by the counter of its row.
TypeOK ==
    /\ status \in Status /\ deleted \in BOOLEAN /\ expired \in BOOLEAN /\ overlapped \in BOOLEAN
    /\ content \in 0..MaxContent
    /\ sales \in Seq(0..MaxContent)
    /\ signature \in Signature
    /\ envelopes \in Seq({"open", "signed", "refused"}) /\ Len(envelopes) <= MaxEnvelope
    /\ req \in [Request -> RequestType]

\* However many acceptances, confirmations and webhooks run at once, a quote
\* becomes one sale.
OneSale == Len(sales) <= 1

\* However requests interleave, an accepted quote has its sale: decide_quote
\* and confirm_signature_otp never commit one without the other.
AcceptedHasSale == status = "aceito" => sales # <<>>

\* While requests do not overlap, the quote of a sale stays accepted and is
\* not deleted: cancellation, rejection, expiry and deletion come too late.
SaleMeansAccepted == ~overlapped /\ sales # <<>> => status = "aceito" /\ ~deleted

\* While requests do not overlap, the sale and the signature are about the
\* quote as it stands: nothing was edited under the customer's eyes.
SoldAsSigned ==
    ~overlapped /\ sales # <<>> =>
        /\ sales[1] = content
        /\ signature.row /\ signature.status = "assinado" => signature.document = content

\* While requests do not overlap, a decision is final, whoever took it: the
\* customer, the staff or the calendar.
DecisionIsFinal ==
    [][status \notin {"rascunho", "enviado"} /\ ~overlapped' => status' = status]_vars

\* The comment over the signature section of service.py and docs/comercial.md:
\* both methods end in decide_quote(..., approved=True), so that a signed
\* quote is a sale once its request is over.
SignedIsSold ==
    signature.status = "assinado" /\ (\A r \in Request : req[r] = NoRequest) => sales # <<>>
=============================================================================
