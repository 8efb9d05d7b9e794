----------------------------- MODULE CommerceProofs -----------------------------
(***************************************************************************)
(* Proofs about quotes and their signature, about the invoices and payments *)
(* of a sale and about the mail client, for any requests, amounts and       *)
(* bounds.  Those about quotes are about QuoteSigning by itself, the others *)
(* about MCCommerce: each area has an invariant of its own, which a step of *)
(* another leaves alone.                                                    *)
(***************************************************************************)
EXTENDS MCCommerce, Counting

(***************************************************************************)
(* Quotes.  The inductive invariant is made of the types, of one sale per   *)
(* quote, and of what holds of the sale and of the signature as long as no  *)
(* two requests have overlapped.                                            *)
(***************************************************************************)

\* A code that is being tried has an attempt left.
AttemptLeft ==
    \A r \in Request : At(r, {"confirm"}, "sign") => req[r].signature.attempts < OtpMaxAttempts

\* Only a signature that waits for its decision is not saved.
UnsavedIsSigned ==
    \A r \in Request : req[r].unsaved => req[r].op \in {"confirm", "webhook"}

\* One request at a time.
Alone ==
    \A r, s \in Request : req[r] # NoRequest /\ req[s] # NoRequest => r = s

\* The quote is still what request r loaded, and its status is one that the
\* operation was begun with.  A webhook loads the quote at its second step.
Fresh(r) ==
    (req[r].op # "none" /\ (req[r].op = "webhook" => req[r].pc \in {"sign", "decide"})) =>
        /\ ~deleted
        /\ req[r].status = status
        /\ req[r].content = content
        /\ req[r].op \in {"update", "send"} => status = "rascunho"
        /\ req[r].op = "cancel" => status \in {"rascunho", "enviado"}
        /\ req[r].op = "delete" => status # "aceito"
        /\ req[r].op \in {"accept", "reject", "otp", "icp"} => status = "enviado"

\* The row that a confirmation or a webhook works on exists.
HasRow(r) ==
    /\ req[r].op = "confirm" /\ req[r].pc \in {"sign", "decide"} => signature.row
    /\ req[r].op = "webhook" => signature.row /\ signature.envelope # 0

\* What a sale says is still so.
SaleKept == sales # <<>> => status = "aceito" /\ ~deleted /\ sales[1] = content

\* A signature is begun after the draft, and once there is a document it is
\* the quote as it stands.
SignatureKept ==
    /\ signature.row => status # "rascunho"
    /\ ~signature.row => signature = NoSignature
    /\ signature.status = "assinado" \/ signature.envelope # 0 => signature.document = content

Serial ==
    ~overlapped =>
        /\ Alone
        /\ \A r \in Request : Fresh(r) /\ HasRow(r)
        /\ SaleKept
        /\ SignatureKept

TypeInv == TypeOK /\ AttemptLeft /\ UnsavedIsSigned

(***************************************************************************)
(* Types.                                                                  *)
(***************************************************************************)
Op == {"none", "update", "send", "cancel", "delete", "accept", "reject", "otp", "confirm", "icp", "webhook"}
Pc == {"idle", "commit", "decide", "signature", "sign", "envelope", "refuse", "quote"}

LEMMA RequestTypes ==
    ASSUME TypeOK, NEW r \in Request
    PROVE  /\ req[r] \in RequestType
           /\ signature \in Signature
           /\ NoRequest \in RequestType
           /\ \A q \in RequestType : [req EXCEPT ![r] = q] \in [Request -> RequestType]
<1>1. req[r] \in RequestType /\ signature \in Signature
  BY DEF TypeOK
<1>2. NoSignature \in Signature
  BY NumbersAssumption DEF NoSignature, Signature
<1>3. NoRequest \in RequestType
  BY <1>2, NumbersAssumption DEF NoRequest, RequestType, Status
<1> QED
  BY <1>1, <1>3 DEF TypeOK

\* The fields of what a request keeps.
LEMMA FieldTypes ==
    /\ \A q \in RequestType :
         /\ q.op \in Op /\ q.pc \in Pc /\ q.status \in Status /\ q.content \in 0..MaxContent
         /\ q.signature \in Signature /\ q.envelope \in 0..MaxEnvelope /\ q.unsaved \in BOOLEAN
    /\ \A g \in Signature :
         /\ g.row \in BOOLEAN /\ g.status \in {"pendente", "otp_enviado", "assinado", "recusado"}
         /\ g.attempts \in 0..OtpMaxAttempts /\ g.envelope \in 0..MaxEnvelope
         /\ g.document \in 0..MaxContent
BY DEF RequestType, Signature, Op, Pc

\* A step that gives request r the value q.
LEMMA RequestStep ==
    ASSUME TypeInv, NEW r \in Request, NEW q \in RequestType, req' = [req EXCEPT ![r] = q],
           q.op = "confirm" /\ q.pc = "sign" => q.signature.attempts < OtpMaxAttempts,
           q.unsaved => q.op \in {"confirm", "webhook"}
    PROVE  req' \in [Request -> RequestType] /\ AttemptLeft' /\ UnsavedIsSigned'
<1>1. req' \in [Request -> RequestType]
  BY RequestTypes DEF TypeInv
<1>2. req'[r] = q /\ \A s \in Request : s # r => req'[s] = req[s]
  BY DEF TypeInv, TypeOK
<1> QED
  BY <1>1, <1>2 DEF TypeInv, AttemptLeft, UnsavedIsSigned, At

LEMMA RespondStep ==
    ASSUME TypeInv, NEW r \in Request, Respond(r)
    PROVE  req' \in [Request -> RequestType] /\ AttemptLeft' /\ UnsavedIsSigned'
<1>1. NoRequest \in RequestType /\ ~NoRequest.unsaved /\ NoRequest.op = "none"
  BY RequestTypes DEF TypeInv, NoRequest
<1> QED
  BY <1>1, RequestStep DEF Respond

LEMMA LoadType ==
    ASSUME TypeInv, NEW r \in Request, NEW op \in Op, NEW pc \in Pc \ {"sign"}, NEW S, Load(r, op, pc, S)
    PROVE  TypeInv'
<1> DEFINE q == [NoRequest EXCEPT !.op = op, !.pc = pc, !.status = status, !.content = content]
<1>1. q \in RequestType
  BY RequestTypes DEF TypeInv, TypeOK, RequestType, NoRequest, Op, Pc
<1>2. q.pc = pc /\ ~q.unsaved
  BY DEF NoRequest
<1>3. req' \in [Request -> RequestType] /\ AttemptLeft' /\ UnsavedIsSigned'
  BY <1>1, <1>2, RequestStep DEF Load
<1>4. overlapped' \in BOOLEAN
  BY DEF Load, Overlap, TypeInv, TypeOK
<1> QED
  BY <1>3, <1>4 DEF TypeInv, TypeOK, Load, quote

\* A step that also rewrites the signature and answers.
LEMMA SignatureStep ==
    ASSUME TypeInv, NEW r \in Request, Respond(r), signature' \in Signature,
           UNCHANGED <<quote, expired, sales, envelopes, overlapped>>
    PROVE  TypeInv'
BY RespondStep DEF TypeInv, TypeOK, quote

LEMMA OtpCommitType == ASSUME TypeInv, NEW r \in Request, OtpCommit(r) PROVE TypeInv'
<1> DEFINE old == req[r].signature
           a == Written(signature.attempts, old.attempts, 0)
           t == IF old.row THEN Written(signature.status, old.status, "otp_enviado") ELSE "otp_enviado"
<1>1. a \in 0..OtpMaxAttempts
  BY RequestTypes, FieldTypes, NumbersAssumption DEF TypeInv, Written
<1>2. t \in {"pendente", "otp_enviado", "assinado", "recusado"}
  BY RequestTypes, FieldTypes DEF TypeInv, Written
<1>3. signature' = [signature EXCEPT !.row = TRUE, !.attempts = a, !.status = t]
  BY RequestTypes DEF TypeInv, OtpCommit, Signature
<1>4. signature' \in Signature
  BY <1>1, <1>2, <1>3, RequestTypes DEF TypeInv, Signature
<1> QED
  BY <1>4, SignatureStep DEF OtpCommit

LEMMA ConfirmWrongCodeType == ASSUME TypeInv, NEW r \in Request, ConfirmWrongCode(r) PROVE TypeInv'
<1>1. req[r].signature.attempts < OtpMaxAttempts
  BY DEF TypeInv, AttemptLeft, ConfirmWrongCode
<1>2. req[r].signature.attempts + 1 \in 0..OtpMaxAttempts
  BY <1>1, RequestTypes, FieldTypes, NumbersAssumption DEF TypeInv
<1>3. signature' \in Signature
  BY <1>2, RequestTypes DEF TypeInv, ConfirmWrongCode, Signature
<1> QED
  BY <1>3, SignatureStep DEF ConfirmWrongCode

LEMMA IcpCommitType == ASSUME TypeInv, NEW r \in Request, IcpCommit(r) PROVE TypeInv'
<1>1. signature' \in Signature
  BY RequestTypes, FieldTypes DEF TypeInv, IcpCommit, Signature
<1> QED
  BY <1>1, SignatureStep DEF IcpCommit

LEMMA WebhookRefusedType == ASSUME TypeInv, NEW r \in Request, WebhookRefused(r) PROVE TypeInv'
<1>1. Written(signature.status, req[r].signature.status, "recusado") \in {"pendente", "otp_enviado", "assinado", "recusado"}
  BY RequestTypes, FieldTypes DEF TypeInv, Written
<1>2. signature' \in Signature
  BY <1>1, RequestTypes DEF TypeInv, WebhookRefused, Signature
<1> QED
  BY <1>2, SignatureStep DEF WebhookRefused

\* The signature that a confirmation or a webhook makes.
LEMMA SignedType ==
    ASSUME TypeOK, NEW r \in Request
    PROVE  [signature EXCEPT !.status = "assinado",
              !.document = IF req[r].op = "confirm" THEN req[r].content ELSE @] \in Signature
<1>1. (IF req[r].op = "confirm" THEN req[r].content ELSE signature.document) \in 0..MaxContent
  BY RequestTypes, FieldTypes
<1> QED
  BY <1>1, RequestTypes DEF Signature

LEMMA SignType == ASSUME TypeInv, NEW r \in Request, Sign(r) PROVE TypeInv'
<1>1. PICK attached \in BOOLEAN :
         /\ req' = [req EXCEPT ![r].pc = "decide", ![r].unsaved = ~attached]
         /\ signature' = IF attached
                         THEN [signature EXCEPT !.status = "assinado",
                                 !.document = IF req[r].op = "confirm" THEN req[r].content ELSE @]
                         ELSE signature
  BY DEF Sign
<1> DEFINE q == [req[r] EXCEPT !.pc = "decide", !.unsaved = ~attached]
<1>2. signature' \in Signature
  BY <1>1, SignedType, RequestTypes DEF TypeInv
<1>3. q \in RequestType /\ q.op = req[r].op /\ q.pc = "decide"
  BY RequestTypes DEF TypeInv, RequestType
<1>4. req' = [req EXCEPT ![r] = q]
  BY <1>1, RequestTypes DEF TypeInv, TypeOK, RequestType
<1>5. req[r].op \in {"confirm", "webhook"}
  BY DEF Sign, At
<1>6. req' \in [Request -> RequestType] /\ AttemptLeft' /\ UnsavedIsSigned'
  BY <1>3, <1>4, <1>5, RequestStep
<1> QED
  BY <1>2, <1>6 DEF TypeInv, TypeOK, Sign, quote

LEMMA DecideType == ASSUME TypeInv, NEW r \in Request, Decide(r) PROVE TypeInv'
<1>1. status' \in {"expirado", "recusado", "aceito"}
  BY DEF Decide, Accept
<1>2. sales' = sales \/ sales' = <<req[r].content>>
  BY DEF Decide, Accept, InsertSale
<1>3. sales' \in Seq(0..MaxContent)
  <2>1. req[r].content \in 0..MaxContent /\ sales \in Seq(0..MaxContent)
    BY RequestTypes, FieldTypes DEF TypeInv, TypeOK
  <2>2. <<req[r].content>> \in Seq(0..MaxContent)
    BY <2>1
  <2> QED
    BY <1>2, <2>1, <2>2
<1>4. signature' \in Signature
  BY SignedType, RequestTypes DEF TypeInv, Decide, SignatureOf
<1>5. status' \in Status
  BY <1>1 DEF Status
<1> QED
  BY <1>3, <1>4, <1>5, RespondStep DEF TypeInv, TypeOK, Decide

LEMMA LoadSignatureType ==
    ASSUME TypeInv, NEW r \in Request, NEW op \in {"otp", "confirm"}, LoadSignature(r, op),
           op = "confirm" => signature.attempts < OtpMaxAttempts
    PROVE  TypeInv'
<1> DEFINE q == [req[r] EXCEPT !.pc = "sign", !.signature = signature]
<1>1. q \in RequestType /\ q.signature = signature /\ q.op = op /\ q.unsaved = req[r].unsaved
  BY RequestTypes DEF TypeInv, RequestType, LoadSignature, At
<1>2. req' = [req EXCEPT ![r] = q]
  BY RequestTypes DEF TypeInv, TypeOK, RequestType, LoadSignature
<1>3. req[r].unsaved => op \in {"confirm", "webhook"}
  BY DEF TypeInv, UnsavedIsSigned, LoadSignature, At
<1>4. req' \in [Request -> RequestType] /\ AttemptLeft' /\ UnsavedIsSigned'
  BY <1>1, <1>2, <1>3, RequestStep
<1> QED
  BY <1>4 DEF TypeInv, TypeOK, LoadSignature, quote

LEMMA CreateEnvelopeType == ASSUME TypeInv, NEW r \in Request, CreateEnvelope(r) PROVE TypeInv'
<1>1. /\ envelopes' \in Seq({"open", "signed", "refused"})
      /\ Len(envelopes') = Len(envelopes) + 1
      /\ Len(envelopes) \in Nat
  BY DEF TypeInv, TypeOK, CreateEnvelope
<1>2. Len(envelopes') \in 0..MaxEnvelope
  BY <1>1, NumbersAssumption DEF CreateEnvelope
<1> DEFINE q == [req[r] EXCEPT !.pc = "commit", !.envelope = Len(envelopes')]
<1>3. q \in RequestType /\ q.pc = "commit" /\ q.op = req[r].op /\ q.unsaved = req[r].unsaved
  BY <1>2, RequestTypes DEF TypeInv, RequestType
<1>4. req' = [req EXCEPT ![r] = q]
  BY RequestTypes DEF TypeInv, TypeOK, RequestType, CreateEnvelope
<1>5. req' \in [Request -> RequestType] /\ AttemptLeft' /\ UnsavedIsSigned'
  BY <1>3, <1>4, RequestStep DEF TypeInv, UnsavedIsSigned
<1> QED
  BY <1>1, <1>2, <1>5 DEF TypeInv, TypeOK, CreateEnvelope, quote

LEMMA WebhookBeginType ==
    ASSUME TypeInv, NEW r \in Request, NEW e \in DOMAIN envelopes, WebhookBegin(r, e)
    PROVE  TypeInv'
<1> DEFINE pc == IF envelopes[e] = "signed" THEN "quote" ELSE "refuse"
           q == [NoRequest EXCEPT !.op = "webhook", !.signature = signature, !.envelope = e, !.pc = pc]
<1>1. e \in 0..MaxEnvelope
  BY NumbersAssumption DEF TypeInv, TypeOK
<1>2. pc \in {"quote", "refuse"}
  OBVIOUS
<1>3. q \in RequestType /\ q.op = "webhook"
  BY <1>1, <1>2, RequestTypes DEF TypeInv, RequestType, NoRequest
<1>4. req' = [req EXCEPT ![r] = q]
  BY DEF WebhookBegin
<1>5. req' \in [Request -> RequestType] /\ AttemptLeft' /\ UnsavedIsSigned'
  BY <1>3, <1>4, RequestStep
<1>6. overlapped' \in BOOLEAN
  BY DEF WebhookBegin, Overlap, TypeInv, TypeOK
<1> QED
  BY <1>5, <1>6 DEF TypeInv, TypeOK, WebhookBegin, quote

LEMMA WebhookQuoteType == ASSUME TypeInv, NEW r \in Request, WebhookQuote(r) PROVE TypeInv'
<1> DEFINE q == [req[r] EXCEPT !.pc = "sign", !.status = status, !.content = content]
<1>1. q \in RequestType /\ q.op = "webhook"
  BY RequestTypes DEF TypeInv, TypeOK, RequestType, WebhookQuote, At
<1>2. req' = [req EXCEPT ![r] = q]
  BY RequestTypes DEF TypeInv, TypeOK, RequestType, WebhookQuote
<1>3. req' \in [Request -> RequestType] /\ AttemptLeft' /\ UnsavedIsSigned'
  BY <1>1, <1>2, RequestStep
<1> QED
  BY <1>3 DEF TypeInv, TypeOK, WebhookQuote, quote

LEMMA CustomerSignsType ==
    ASSUME TypeInv, NEW e \in DOMAIN envelopes, CustomerSigns(e)
    PROVE  TypeInv'
<1>1. PICK event \in {"signed", "refused"} : envelopes' = [envelopes EXCEPT ![e] = event]
  BY DEF CustomerSigns
<1>2. envelopes' \in Seq({"open", "signed", "refused"}) /\ Len(envelopes') = Len(envelopes)
  BY <1>1 DEF TypeInv, TypeOK
<1> QED
  BY <1>2 DEF TypeInv, TypeOK, CustomerSigns, quote, AttemptLeft, UnsavedIsSigned, At

LEMMA SetStatusType ==
    ASSUME TypeInv, NEW r \in Request, NEW op, NEW new \in Status, SetStatus(r, op, new)
    PROVE  TypeInv'
BY RespondStep DEF TypeInv, TypeOK, SetStatus

\* The steps of a request, one by one.
LEMMA StaffType == ASSUME TypeInv, NEW r \in Request, Staff(r) PROVE TypeInv'
<1>1. CASE UpdateBegin(r) \/ SendBegin(r) \/ CancelBegin(r) \/ DeleteBegin(r) \/ IcpBegin(r)
  BY <1>1, LoadType DEF UpdateBegin, SendBegin, CancelBegin, DeleteBegin, IcpBegin, Op, Pc
<1>2. CASE UpdateCommit(r)
  <2>1. content' \in 0..MaxContent
    BY <1>2, NumbersAssumption DEF TypeInv, TypeOK, UpdateCommit
  <2> QED
    BY <1>2, <2>1, RespondStep DEF TypeInv, TypeOK, UpdateCommit
<1>3. CASE SendCommit(r) \/ CancelCommit(r)
  BY <1>3, SetStatusType DEF SendCommit, CancelCommit, Status
<1>4. CASE DeleteCommit(r)
  BY <1>4, RespondStep DEF TypeInv, TypeOK, DeleteCommit
<1> QED
  BY <1>1, <1>2, <1>3, <1>4, CreateEnvelopeType, IcpCommitType DEF Staff

LEMMA CustomerType == ASSUME TypeInv, NEW r \in Request, Customer(r) PROVE TypeInv'
<1>1. CASE DecideBegin(r) \/ OtpBegin(r) \/ ConfirmBegin(r)
  BY <1>1, LoadType DEF DecideBegin, OtpBegin, ConfirmBegin, Op, Pc
<1>2. CASE OtpLoad(r) \/ ConfirmLoad(r)
  BY <1>2, LoadSignatureType DEF OtpLoad, ConfirmLoad
<1> QED
  BY <1>1, <1>2, DecideType, OtpCommitType, ConfirmWrongCodeType, SignType DEF Customer

LEMMA TypeStep == ASSUME TypeInv, [Next]_vars PROVE TypeInv'
<1>1. CASE \E r \in Request : Staff(r) \/ Customer(r)
  BY <1>1, StaffType, CustomerType
<1>2. CASE \E r \in Request : Provider(r)
  BY <1>2, WebhookBeginType, WebhookRefusedType, WebhookQuoteType DEF Provider
<1>3. ASSUME NEW r \in Request, Abort(r) PROVE TypeInv'
  BY <1>3, RespondStep DEF TypeInv, TypeOK, Abort, quote
<1>4. CASE \E e \in DOMAIN envelopes : CustomerSigns(e)
  BY <1>4, CustomerSignsType
<1>5. CASE TimePasses
  BY <1>5 DEF TimePasses, TypeInv, TypeOK, quote, AttemptLeft, UnsavedIsSigned, At
<1>6. CASE UNCHANGED vars
  BY <1>6 DEF vars, TypeInv, TypeOK, quote, AttemptLeft, UnsavedIsSigned, At
<1> QED
  BY <1>1, <1>2, <1>3, <1>4, <1>5, <1>6 DEF Next

LEMMA InitType == ASSUME Init PROVE TypeInv
<1>1. NoSignature \in Signature /\ NoRequest \in RequestType
  BY NumbersAssumption DEF NoSignature, Signature, NoRequest, RequestType, Status
<1>2. \A r \in Request : req[r] = NoRequest /\ NoRequest.op = "none" /\ ~NoRequest.unsaved
  BY DEF Init, NoRequest
<1>3. envelopes = <<>> /\ sales = <<>> /\ Len(envelopes) = 0
  BY DEF Init
<1>4. TypeOK
  <2>1. sales \in Seq(0..MaxContent)
    BY <1>3
  <2>2. envelopes \in Seq({"open", "signed", "refused"}) /\ Len(envelopes) <= MaxEnvelope
    BY <1>3, NumbersAssumption
  <2>3. req \in [Request -> RequestType] /\ signature \in Signature
    BY <1>1 DEF Init
  <2>4. status \in Status /\ content \in 0..MaxContent
    BY NumbersAssumption DEF Init, Status
  <2> QED
    BY <2>1, <2>2, <2>3, <2>4 DEF Init, TypeOK
<1> QED
  BY <1>2, <1>4 DEF TypeInv, AttemptLeft, UnsavedIsSigned, At

\* Every variable keeps its type, however requests interleave: in particular a
\* code is never tried more than OTP_MAX_ATTEMPTS times.
THEOREM TypeCorrect == Spec => []TypeOK
<1>1. TypeInv => TypeOK
  BY DEF TypeInv
<1> QED
  BY InitType, TypeStep, <1>1, PTL DEF Spec

(***************************************************************************)
(* The sale.  Only decide_quote inserts one, and accepts the quote then.   *)
(***************************************************************************)
LEMMA QuoteSaleStep ==
    ASSUME [Next]_vars
    PROVE  \/ UNCHANGED sales /\ (status' = "aceito" => status = "aceito")
           \/ \E x : sales = <<>> /\ sales' = <<x>>
<1>1. ASSUME NEW r \in Request, Decide(r)
      PROVE  \/ UNCHANGED sales /\ status' # "aceito"
             \/ sales = <<>> /\ sales' = <<req[r].content>>
  BY <1>1 DEF Decide, Accept, InsertSale
<1>2. ASSUME NEW r \in Request, Staff(r)
      PROVE  UNCHANGED sales /\ (status' = "aceito" => status = "aceito")
  BY <1>2 DEF Staff, UpdateBegin, UpdateCommit, SendBegin, SendCommit, CancelBegin, CancelCommit, DeleteBegin,
              DeleteCommit, IcpBegin, CreateEnvelope, IcpCommit, SetStatus, Load, quote
<1>3. ASSUME NEW r \in Request, Customer(r), ~Decide(r)
      PROVE  UNCHANGED <<sales, status>>
  BY <1>3 DEF Customer, DecideBegin, OtpBegin, OtpLoad, OtpCommit, ConfirmBegin, ConfirmLoad, ConfirmWrongCode,
              Sign, LoadSignature, Load, quote
<1>4. ASSUME NEW r \in Request, Provider(r) \/ Abort(r)
      PROVE  UNCHANGED <<sales, status>>
  BY <1>4 DEF Provider, WebhookBegin, WebhookRefused, WebhookQuote, Abort, quote
<1>5. CASE (\E e \in DOMAIN envelopes : CustomerSigns(e)) \/ TimePasses \/ UNCHANGED vars
  BY <1>5 DEF CustomerSigns, TimePasses, vars, quote
<1> QED
  BY <1>1, <1>2, <1>3, <1>4, <1>5 DEF Next

\* However many acceptances, confirmations and webhooks run at once, a quote
\* becomes one sale.
THEOREM OneSaleHolds == Spec => []OneSale
<1>1. Init => OneSale
  BY DEF Init, OneSale
<1>2. OneSale /\ [Next]_vars => OneSale'
  <2>1. \A x : Len(<<x>>) <= 1
    OBVIOUS
  <2> QED
    BY <2>1, QuoteSaleStep DEF OneSale
<1> QED
  BY <1>1, <1>2, PTL DEF Spec

\* An accepted quote has its sale, however requests interleave.
THEOREM AcceptedHasSaleHolds == Spec => []AcceptedHasSale
<1>1. Init => AcceptedHasSale
  BY DEF Init, AcceptedHasSale
<1>2. AcceptedHasSale /\ [Next]_vars => AcceptedHasSale'
  BY QuoteSaleStep DEF AcceptedHasSale
<1> QED
  BY <1>1, <1>2, PTL DEF Spec

(***************************************************************************)
(* Requests that do not overlap.                                           *)
(***************************************************************************)
LEMMA Busy ==
    ASSUME NEW r \in Request, NEW ops, "none" \notin ops, NEW pc, At(r, ops, pc)
    PROVE  req[r] # NoRequest
BY DEF At, NoRequest

LEMMA Idle == NoRequest.op = "none"
BY DEF NoRequest

\* The request that is alone moves on: the others do nothing.
LEMMA Others ==
    ASSUME TypeInv, Alone, NEW r \in Request, req[r] # NoRequest, NEW q, req' = [req EXCEPT ![r] = q]
    PROVE  /\ Alone'
           /\ req'[r] = q
           /\ \A s \in Request : s # r => Fresh(s)' /\ HasRow(s)'
<1>1. req'[r] = q /\ \A s \in Request : s # r => req'[s] = NoRequest
  BY DEF TypeInv, TypeOK, Alone
<1>2. Alone'
  BY <1>1 DEF Alone
<1> QED
  BY <1>1, <1>2, Idle DEF Fresh, HasRow

LEMMA Responded ==
    ASSUME TypeInv, Alone, NEW r \in Request, req[r] # NoRequest, Respond(r)
    PROVE  Alone' /\ \A s \in Request : Fresh(s)' /\ HasRow(s)'
<1>1. Alone' /\ req'[r] = NoRequest /\ \A s \in Request : s # r => Fresh(s)' /\ HasRow(s)'
  BY Others DEF Respond
<1> QED
  BY <1>1, Idle DEF Fresh, HasRow

\* A request begins, and nothing else is under way.
LEMMA Begun ==
    ASSUME TypeInv, NEW r \in Request, req[r] = NoRequest, NEW q, req' = [req EXCEPT ![r] = q],
           Overlap, ~overlapped'
    PROVE  /\ Alone'
           /\ ~overlapped
           /\ req'[r] = q
           /\ \A s \in Request : s # r => Fresh(s)' /\ HasRow(s)'
<1>1. ~overlapped /\ \A s \in Request : req[s] = NoRequest
  BY DEF Overlap
<1>2. req'[r] = q /\ \A s \in Request : s # r => req'[s] = NoRequest
  BY <1>1 DEF TypeInv, TypeOK
<1>3. Alone'
  BY <1>2 DEF Alone
<1> QED
  BY <1>1, <1>2, <1>3, Idle DEF Fresh, HasRow

\* A request loads the quote, in a status its operation starts from.
LEMMA LoadSerial ==
    ASSUME TypeInv, Serial, NEW r \in Request, NEW op \in Op \ {"none", "webhook"}, NEW pc \in Pc,
           NEW S, Load(r, op, pc, S),
           op = "confirm" => pc \notin {"sign", "decide"},
           op \in {"update", "send"} => S \subseteq {"rascunho"},
           op = "cancel" => S \subseteq {"rascunho", "enviado"},
           op = "delete" => "aceito" \notin S,
           op \in {"accept", "reject", "otp", "icp"} => S \subseteq {"enviado"}
    PROVE  Serial'
<1> SUFFICES ASSUME ~overlapped' PROVE Serial'
  BY DEF Serial
<1> DEFINE q == [NoRequest EXCEPT !.op = op, !.pc = pc, !.status = status, !.content = content]
<1>1. /\ Alone' /\ ~overlapped /\ req'[r] = q
      /\ \A s \in Request : s # r => Fresh(s)' /\ HasRow(s)'
  BY Begun DEF Load
<1>2. q.op = op /\ q.pc = pc /\ q.status = status /\ q.content = content
  BY DEF NoRequest
<1>3. status \in S /\ ~deleted /\ UNCHANGED <<status, deleted, content, sales, signature>>
  BY DEF Load, quote
<1>4. Fresh(r)'
  BY <1>1, <1>2, <1>3 DEF Fresh
<1>5. HasRow(r)'
  BY <1>1, <1>2 DEF HasRow
<1>6. SaleKept' /\ SignatureKept'
  BY <1>1, <1>3 DEF Serial, SaleKept, SignatureKept
<1> QED
  BY <1>1, <1>4, <1>5, <1>6 DEF Serial

\* A request commits, answers, and what it leaves agrees with the sale and
\* the signature.
LEMMA RespondSerial ==
    ASSUME TypeInv, Serial, ~overlapped, NEW r \in Request, req[r] # NoRequest, Respond(r),
           UNCHANGED overlapped, SaleKept', SignatureKept'
    PROVE  Serial'
BY Responded DEF Serial

LEMMA StatusSerial ==
    ASSUME TypeInv, Serial, NEW r \in Request, NEW op \in {"send", "cancel"},
           NEW new \in {"enviado", "cancelado"}, SetStatus(r, op, new)
    PROVE  Serial'
<1> SUFFICES ASSUME ~overlapped PROVE Serial'
  BY DEF Serial, SetStatus
<1>1. req[r] # NoRequest /\ req[r].op = op
  BY Busy DEF SetStatus, At
<1>2. status \in {"rascunho", "enviado"}
  BY <1>1 DEF Serial, Fresh
<1>3. SaleKept' /\ SignatureKept'
  BY <1>2 DEF Serial, SaleKept, SignatureKept, SetStatus
<1> QED
  BY <1>1, <1>3, RespondSerial DEF SetStatus

LEMMA UpdateSerial == ASSUME TypeInv, Serial, NEW r \in Request, UpdateCommit(r) PROVE Serial'
<1> SUFFICES ASSUME ~overlapped PROVE Serial'
  BY DEF Serial, UpdateCommit
<1>1. req[r] # NoRequest /\ req[r].op = "update"
  BY Busy DEF UpdateCommit, At
<1>2. status = "rascunho"
  BY <1>1 DEF Serial, Fresh
<1>3. sales = <<>> /\ signature = NoSignature
  BY <1>2 DEF Serial, SaleKept, SignatureKept
<1>4. SaleKept' /\ SignatureKept'
  BY <1>3 DEF SaleKept, SignatureKept, UpdateCommit, NoSignature
<1> QED
  BY <1>1, <1>4, RespondSerial DEF UpdateCommit

LEMMA DeleteSerial == ASSUME TypeInv, Serial, NEW r \in Request, DeleteCommit(r) PROVE Serial'
<1> SUFFICES ASSUME ~overlapped PROVE Serial'
  BY DEF Serial, DeleteCommit
<1>1. req[r] # NoRequest /\ req[r].op = "delete"
  BY Busy DEF DeleteCommit, At
<1>2. status # "aceito"
  BY <1>1 DEF Serial, Fresh
<1>3. SaleKept' /\ SignatureKept'
  BY <1>2 DEF Serial, SaleKept, SignatureKept, DeleteCommit
<1> QED
  BY <1>1, <1>3, RespondSerial DEF DeleteCommit

\* Making the signature keeps what is known of it.
LEMMA SignedKept ==
    ASSUME TypeInv, Serial, ~overlapped, NEW r \in Request, req[r].op \in {"confirm", "webhook"},
           req[r].pc \in {"sign", "decide"}, NEW new,
           new = [signature EXCEPT !.status = "assinado",
                    !.document = IF req[r].op = "confirm" THEN req[r].content ELSE @]
    PROVE  signature.row /\ new.row /\ new.envelope = signature.envelope /\ new.document = content
<1>1. signature.row /\ req[r].content = content
  BY DEF Serial, Fresh, HasRow
<1>2. new.row = signature.row /\ new.envelope = signature.envelope
      /\ new.document = IF req[r].op = "confirm" THEN req[r].content ELSE signature.document
  BY RequestTypes DEF TypeInv, Signature
<1>3. req[r].op = "webhook" => signature.document = content
  BY DEF Serial, HasRow, SignatureKept
<1> QED
  BY <1>1, <1>2, <1>3

LEMMA DecideSerial == ASSUME TypeInv, Serial, NEW r \in Request, Decide(r) PROVE Serial'
<1> SUFFICES ASSUME ~overlapped PROVE Serial'
  BY DEF Serial, Decide
<1>1. req[r] # NoRequest /\ req[r].op \in {"accept", "reject", "confirm", "webhook"} /\ req[r].pc = "decide"
  BY Busy DEF Decide, At
<1>2. status = "enviado" /\ req[r].content = content /\ ~deleted
  BY <1>1 DEF Decide, Serial, Fresh
<1>3. sales = <<>>
  BY <1>2 DEF Serial, SaleKept
<1>4. SaleKept'
  <2>1. sales' = sales \/ (sales' = <<content>> /\ status' = "aceito")
    BY <1>2 DEF Decide, Accept, InsertSale
  <2>2. UNCHANGED <<deleted, content>>
    BY DEF Decide
  <2> QED
    BY <1>2, <1>3, <2>1, <2>2 DEF SaleKept
<1>5. SignatureKept'
  <2>1. status' # "rascunho" /\ UNCHANGED content
    BY DEF Decide, Accept
  <2>2. CASE req[r].unsaved
    <3>1. signature' = [signature EXCEPT !.status = "assinado",
                          !.document = IF req[r].op = "confirm" THEN req[r].content ELSE @]
      BY <2>2 DEF Decide, SignatureOf
    <3>2. req[r].op \in {"confirm", "webhook"}
      BY <2>2 DEF TypeInv, UnsavedIsSigned
    <3> QED
      BY <1>1, <2>1, <3>1, <3>2, SignedKept DEF SignatureKept
  <2>3. CASE ~req[r].unsaved
    <3>1. UNCHANGED signature
      BY <2>3 DEF Decide, SignatureOf
    <3> QED
      BY <2>1, <3>1 DEF Serial, SignatureKept
  <2> QED
    BY <2>2, <2>3
<1> QED
  BY <1>1, <1>4, <1>5, RespondSerial DEF Decide

\* The signature steps that answer and leave the quote alone.
LEMMA OtpCommitSerial == ASSUME TypeInv, Serial, NEW r \in Request, OtpCommit(r) PROVE Serial'
<1> SUFFICES ASSUME ~overlapped PROVE Serial'
  BY DEF Serial, OtpCommit
<1>1. req[r] # NoRequest /\ req[r].op = "otp"
  BY Busy DEF OtpCommit, At
<1>2. status = "enviado"
  BY <1>1 DEF Serial, Fresh
<1>3. SaleKept'
  BY DEF Serial, SaleKept, OtpCommit, quote
<1>4. /\ signature'.row
      /\ signature'.envelope = signature.envelope
      /\ signature'.document = signature.document
      /\ signature'.status = "assinado" => signature.status = "assinado"
  BY RequestTypes DEF TypeInv, OtpCommit, Signature, Written
<1>5. SignatureKept'
  BY <1>2, <1>4 DEF Serial, SignatureKept, OtpCommit, quote
<1> QED
  BY <1>1, <1>3, <1>5, RespondSerial DEF OtpCommit

LEMMA ConfirmWrongCodeSerial == ASSUME TypeInv, Serial, NEW r \in Request, ConfirmWrongCode(r) PROVE Serial'
<1> SUFFICES ASSUME ~overlapped PROVE Serial'
  BY DEF Serial, ConfirmWrongCode
<1>1. req[r] # NoRequest /\ req[r].op = "confirm" /\ req[r].pc = "sign"
  BY Busy DEF ConfirmWrongCode, At
<1>2. signature.row
  BY <1>1 DEF Serial, HasRow
<1>3. SaleKept'
  BY DEF Serial, SaleKept, ConfirmWrongCode, quote
<1>4. /\ signature'.row = signature.row
      /\ signature'.envelope = signature.envelope
      /\ signature'.document = signature.document
      /\ signature'.status = signature.status
  BY RequestTypes DEF TypeInv, ConfirmWrongCode, Signature
<1>5. SignatureKept'
  BY <1>2, <1>4 DEF Serial, SignatureKept, ConfirmWrongCode, quote
<1> QED
  BY <1>1, <1>3, <1>5, RespondSerial DEF ConfirmWrongCode

LEMMA IcpCommitSerial == ASSUME TypeInv, Serial, NEW r \in Request, IcpCommit(r) PROVE Serial'
<1> SUFFICES ASSUME ~overlapped PROVE Serial'
  BY DEF Serial, IcpCommit
<1>1. req[r] # NoRequest /\ req[r].op = "icp"
  BY Busy DEF IcpCommit, At
<1>2. status = "enviado" /\ req[r].content = content
  BY <1>1 DEF Serial, Fresh
<1>3. SaleKept'
  BY DEF Serial, SaleKept, IcpCommit, quote
<1>4. signature'.row /\ signature'.document = content
  BY <1>2, RequestTypes DEF TypeInv, IcpCommit, Signature
<1>5. SignatureKept'
  BY <1>2, <1>4 DEF SignatureKept, IcpCommit, quote
<1> QED
  BY <1>1, <1>3, <1>5, RespondSerial DEF IcpCommit

LEMMA WebhookRefusedSerial == ASSUME TypeInv, Serial, NEW r \in Request, WebhookRefused(r) PROVE Serial'
<1> SUFFICES ASSUME ~overlapped PROVE Serial'
  BY DEF Serial, WebhookRefused
<1>1. req[r] # NoRequest /\ req[r].op = "webhook"
  BY Busy DEF WebhookRefused, At
<1>2. signature.row
  BY <1>1 DEF Serial, HasRow
<1>3. SaleKept'
  BY DEF Serial, SaleKept, WebhookRefused, quote
<1>4. /\ signature'.row = signature.row
      /\ signature'.envelope = signature.envelope
      /\ signature'.document = signature.document
      /\ signature'.status = "assinado" => signature.status = "assinado"
  BY RequestTypes DEF TypeInv, WebhookRefused, Signature, Written
<1>5. SignatureKept'
  BY <1>2, <1>4 DEF Serial, SignatureKept, WebhookRefused, quote
<1> QED
  BY <1>1, <1>3, <1>5, RespondSerial DEF WebhookRefused

LEMMA AbortSerial == ASSUME TypeInv, Serial, NEW r \in Request, Abort(r) PROVE Serial'
<1> SUFFICES ASSUME ~overlapped PROVE Serial'
  BY DEF Serial, Abort
<1>1. SaleKept' /\ SignatureKept'
  BY DEF Serial, SaleKept, SignatureKept, Abort, quote
<1> QED
  BY <1>1, RespondSerial DEF Abort

\* A step inside a request that leaves the quote and the sale alone.
LEMMA MoveSerial ==
    ASSUME TypeInv, Serial, ~overlapped, NEW r \in Request, req[r] # NoRequest, NEW q,
           req' = [req EXCEPT ![r] = q], UNCHANGED <<quote, sales, overlapped>>, SignatureKept',
           req'[r] = q => Fresh(r)' /\ HasRow(r)'
    PROVE  Serial'
<1>1. Alone' /\ req'[r] = q /\ \A s \in Request : s # r => Fresh(s)' /\ HasRow(s)'
  BY Others DEF Serial
<1>2. SaleKept'
  BY DEF Serial, SaleKept, quote
<1> QED
  BY <1>1, <1>2 DEF Serial

LEMMA LoadSignatureSerial ==
    ASSUME TypeInv, Serial, NEW r \in Request, NEW op \in {"otp", "confirm"}, LoadSignature(r, op),
           op = "confirm" => signature.row
    PROVE  Serial'
<1> SUFFICES ASSUME ~overlapped PROVE Serial'
  BY DEF Serial, LoadSignature
<1> DEFINE q == [req[r] EXCEPT !.pc = "sign", !.signature = signature]
<1>1. req[r] # NoRequest /\ req[r].op = op
  BY Busy DEF LoadSignature, At
<1>2. q.op = op /\ q.pc = "sign" /\ q.status = req[r].status /\ q.content = req[r].content
  BY <1>1, RequestTypes DEF TypeInv, RequestType
<1>3. req' = [req EXCEPT ![r] = q]
  BY RequestTypes DEF TypeInv, TypeOK, RequestType, LoadSignature
<1>4. SignatureKept' /\ UNCHANGED <<quote, sales, overlapped, signature>>
  BY DEF Serial, SignatureKept, LoadSignature, quote
<1>5. req'[r] = q => Fresh(r)' /\ HasRow(r)'
  BY <1>1, <1>2, <1>4 DEF Serial, Fresh, HasRow, quote
<1> QED
  BY <1>1, <1>2, <1>3, <1>4, <1>5, MoveSerial

LEMMA CreateEnvelopeSerial == ASSUME TypeInv, Serial, NEW r \in Request, CreateEnvelope(r) PROVE Serial'
<1> SUFFICES ASSUME ~overlapped PROVE Serial'
  BY DEF Serial, CreateEnvelope
<1> DEFINE q == [req[r] EXCEPT !.pc = "commit", !.envelope = Len(envelopes')]
<1>1. req[r] # NoRequest /\ req[r].op = "icp"
  BY Busy DEF CreateEnvelope, At
<1>2. q.op = "icp" /\ q.pc = "commit" /\ q.status = req[r].status /\ q.content = req[r].content
  BY <1>1, RequestTypes DEF TypeInv, RequestType
<1>3. req' = [req EXCEPT ![r] = q]
  BY RequestTypes DEF TypeInv, TypeOK, RequestType, CreateEnvelope
<1>4. SignatureKept' /\ UNCHANGED <<quote, sales, overlapped, signature>>
  BY DEF Serial, SignatureKept, CreateEnvelope, quote
<1>5. req'[r] = q => Fresh(r)' /\ HasRow(r)'
  BY <1>1, <1>2, <1>4 DEF Serial, Fresh, HasRow, quote
<1> QED
  BY <1>1, <1>3, <1>4, <1>5, MoveSerial

LEMMA SignSerial == ASSUME TypeInv, Serial, NEW r \in Request, Sign(r) PROVE Serial'
<1> SUFFICES ASSUME ~overlapped PROVE Serial'
  BY DEF Serial, Sign
<1>1. req[r] # NoRequest /\ req[r].op \in {"confirm", "webhook"} /\ req[r].pc = "sign"
  BY Busy DEF Sign, At
<1>2. PICK attached \in BOOLEAN :
         /\ req' = [req EXCEPT ![r].pc = "decide", ![r].unsaved = ~attached]
         /\ signature' = IF attached
                         THEN [signature EXCEPT !.status = "assinado",
                                 !.document = IF req[r].op = "confirm" THEN req[r].content ELSE @]
                         ELSE signature
  BY DEF Sign
<1> DEFINE q == [req[r] EXCEPT !.pc = "decide", !.unsaved = ~attached]
<1>3. q.op = req[r].op /\ q.pc = "decide" /\ q.status = req[r].status /\ q.content = req[r].content
  BY RequestTypes DEF TypeInv, RequestType
<1>4. req' = [req EXCEPT ![r] = q]
  BY <1>2, RequestTypes DEF TypeInv, TypeOK, RequestType
<1>5. UNCHANGED <<quote, sales, overlapped>>
  BY DEF Sign
<1>6. signature.row /\ status # "rascunho"
  BY <1>1 DEF Serial, HasRow, SignatureKept
<1>7. /\ signature'.row /\ signature'.envelope = signature.envelope
      /\ signature' = signature \/ signature'.document = content
  <2>1. CASE attached
    BY <1>1, <1>2, <2>1, SignedKept
  <2>2. CASE ~attached
    BY <1>2, <1>6, <2>2
  <2> QED
    BY <2>1, <2>2
<1>8. SignatureKept'
  BY <1>5, <1>6, <1>7 DEF Serial, SignatureKept, quote
<1>9. req'[r] = q => Fresh(r)' /\ HasRow(r)'
  BY <1>1, <1>3, <1>5, <1>7 DEF Serial, Fresh, HasRow, quote
<1> QED
  BY <1>1, <1>4, <1>5, <1>8, <1>9, MoveSerial

LEMMA WebhookQuoteSerial == ASSUME TypeInv, Serial, NEW r \in Request, WebhookQuote(r) PROVE Serial'
<1> SUFFICES ASSUME ~overlapped PROVE Serial'
  BY DEF Serial, WebhookQuote
<1>1. req[r] # NoRequest /\ req[r].op = "webhook"
  BY Busy DEF WebhookQuote, At
<1> DEFINE q == [req[r] EXCEPT !.pc = "sign", !.status = status, !.content = content]
<1>2. q.op = "webhook" /\ q.pc = "sign" /\ q.status = status /\ q.content = content
  BY <1>1, RequestTypes DEF TypeInv, RequestType
<1>3. req' = [req EXCEPT ![r] = q]
  BY RequestTypes DEF TypeInv, TypeOK, RequestType, WebhookQuote
<1>4. SignatureKept' /\ UNCHANGED <<quote, sales, overlapped, signature>> /\ ~deleted
  BY DEF Serial, SignatureKept, WebhookQuote, quote
<1>5. req'[r] = q => Fresh(r)' /\ HasRow(r)'
  BY <1>1, <1>2, <1>4 DEF Serial, Fresh, HasRow, quote
<1> QED
  BY <1>1, <1>3, <1>4, <1>5, MoveSerial

LEMMA WebhookBeginSerial ==
    ASSUME TypeInv, Serial, NEW r \in Request, NEW e \in DOMAIN envelopes, WebhookBegin(r, e)
    PROVE  Serial'
<1> SUFFICES ASSUME ~overlapped' PROVE Serial'
  BY DEF Serial
<1> DEFINE pc == IF envelopes[e] = "signed" THEN "quote" ELSE "refuse"
           q == [NoRequest EXCEPT !.op = "webhook", !.signature = signature, !.envelope = e, !.pc = pc]
<1>1. /\ Alone' /\ ~overlapped /\ req'[r] = q
      /\ \A s \in Request : s # r => Fresh(s)' /\ HasRow(s)'
  BY Begun DEF WebhookBegin
<1>2. q.op = "webhook" /\ q.pc \notin {"sign", "decide"}
  BY DEF NoRequest
<1>3. UNCHANGED <<status, deleted, content, sales, signature>> /\ signature.row /\ signature.envelope = e
  BY DEF WebhookBegin, quote
<1>4. e # 0
  BY DEF TypeInv, TypeOK
<1>5. Fresh(r)' /\ HasRow(r)'
  BY <1>1, <1>2, <1>3, <1>4 DEF Fresh, HasRow
<1>6. SaleKept' /\ SignatureKept'
  BY <1>1, <1>3 DEF Serial, SaleKept, SignatureKept
<1> QED
  BY <1>1, <1>5, <1>6 DEF Serial

LEMMA StaffSerial == ASSUME TypeInv, Serial, NEW r \in Request, Staff(r) PROVE Serial'
<1>1. CASE UpdateBegin(r)
  BY <1>1, LoadSerial DEF UpdateBegin, Op, Pc
<1>2. CASE SendBegin(r)
  BY <1>2, LoadSerial DEF SendBegin, Op, Pc
<1>3. CASE CancelBegin(r)
  BY <1>3, LoadSerial DEF CancelBegin, Op, Pc
<1>4. CASE DeleteBegin(r)
  BY <1>4, LoadSerial DEF DeleteBegin, Op, Pc
<1>5. CASE IcpBegin(r)
  BY <1>5, LoadSerial DEF IcpBegin, Op, Pc
<1>6. CASE SendCommit(r) \/ CancelCommit(r)
  BY <1>6, StatusSerial DEF SendCommit, CancelCommit
<1> QED
  BY <1>1, <1>2, <1>3, <1>4, <1>5, <1>6, UpdateSerial, DeleteSerial, CreateEnvelopeSerial, IcpCommitSerial
     DEF Staff

LEMMA CustomerSerial == ASSUME TypeInv, Serial, NEW r \in Request, Customer(r) PROVE Serial'
<1>1. CASE DecideBegin(r)
  BY <1>1, LoadSerial DEF DecideBegin, Op, Pc
<1>2. CASE OtpBegin(r)
  BY <1>2, LoadSerial DEF OtpBegin, Op, Pc
<1>3. CASE ConfirmBegin(r)
  BY <1>3, LoadSerial DEF ConfirmBegin, Op, Pc
<1>4. CASE OtpLoad(r) \/ ConfirmLoad(r)
  BY <1>4, LoadSignatureSerial DEF OtpLoad, ConfirmLoad
<1> QED
  BY <1>1, <1>2, <1>3, <1>4, DecideSerial, OtpCommitSerial, ConfirmWrongCodeSerial, SignSerial DEF Customer

\* The customer's pen and the calendar change nothing the invariant reads.
LEMMA OutsideSerial ==
    ASSUME Serial, UNCHANGED <<quote, sales, signature, req, overlapped>>
    PROVE  Serial'
BY DEF Serial, Alone, Fresh, HasRow, SaleKept, SignatureKept, quote

LEMMA SerialStep == ASSUME TypeInv, Serial, [Next]_vars PROVE Serial'
<1>1. CASE \E r \in Request : Staff(r) \/ Customer(r)
  BY <1>1, StaffSerial, CustomerSerial
<1>2. CASE \E r \in Request : Provider(r) \/ Abort(r)
  BY <1>2, WebhookBeginSerial, WebhookRefusedSerial, WebhookQuoteSerial, AbortSerial DEF Provider
<1>3. CASE (\E e \in DOMAIN envelopes : CustomerSigns(e)) \/ TimePasses \/ UNCHANGED vars
  BY <1>3, OutsideSerial DEF CustomerSigns, TimePasses, vars
<1> QED
  BY <1>1, <1>2, <1>3 DEF Next

THEOREM InvariantHolds == Spec => [](TypeInv /\ Serial)
<1>1. Init => Serial
  <2>1. ASSUME Init
        PROVE  /\ \A r \in Request : req[r] = NoRequest
               /\ sales = <<>> /\ signature = NoSignature
    BY <2>1 DEF Init
  <2>2. ~NoSignature.row /\ NoSignature.status # "assinado" /\ NoSignature.envelope = 0
    BY DEF NoSignature
  <2> QED
    BY <2>1, <2>2, Idle DEF Serial, Alone, Fresh, HasRow, SaleKept, SignatureKept
<1> QED
  BY <1>1, InitType, TypeStep, SerialStep, PTL DEF Spec

\* As long as no two requests have overlapped, the quote of a sale stays
\* accepted and is not deleted.
THEOREM SaleMeansAcceptedHolds == Spec => []SaleMeansAccepted
<1>1. TypeInv /\ Serial => SaleMeansAccepted
  BY DEF Serial, SaleKept, SaleMeansAccepted
<1> QED
  BY <1>1, InvariantHolds, PTL

\* As long as no two requests have overlapped, what was sold and signed is the
\* quote as it stands.
THEOREM SoldAsSignedHolds == Spec => []SoldAsSigned
<1>1. TypeInv /\ Serial => SoldAsSigned
  BY DEF Serial, SaleKept, SignatureKept, SoldAsSigned
<1> QED
  BY <1>1, InvariantHolds, PTL

\* As long as no two requests have overlapped, the decision on a quote is
\* final: only steps that began from a draft or a sent quote write the status.
THEOREM DecisionIsFinalHolds == Spec => DecisionIsFinal
<1> DEFINE Final == status \notin {"rascunho", "enviado"} /\ ~overlapped' => status' = status
<1>1. ASSUME TypeInv, Serial, [Next]_vars PROVE [Final]_vars
  <2> SUFFICES ASSUME status \notin {"rascunho", "enviado"}, ~overlapped' PROVE status' = status
    OBVIOUS
  <2>1. ASSUME NEW r \in Request, NEW op \in {"send", "cancel"}, NEW new, SetStatus(r, op, new) PROVE FALSE
    <3>1. ~overlapped /\ req[r].op = op
      BY <2>1 DEF SetStatus, At
    <3> QED
      BY <1>1, <3>1 DEF Serial, Fresh
  <2>2. ASSUME NEW r \in Request, Decide(r) PROVE FALSE
    <3>1. ~overlapped /\ req[r].op \in {"accept", "reject", "confirm", "webhook"} /\ req[r].pc = "decide"
          /\ req[r].status = "enviado"
      BY <2>2 DEF Decide, At
    <3> QED
      BY <1>1, <3>1 DEF Serial, Fresh
  <2>3. ASSUME NEW r \in Request, Staff(r) PROVE status' = status
    BY <2>1, <2>3 DEF Staff, UpdateBegin, UpdateCommit, SendBegin, SendCommit, CancelBegin, CancelCommit,
       DeleteBegin, DeleteCommit, IcpBegin, CreateEnvelope, IcpCommit, Load, quote
  <2>4. ASSUME NEW r \in Request, Customer(r) PROVE status' = status
    BY <2>2, <2>4 DEF Customer, DecideBegin, OtpBegin, OtpLoad, OtpCommit, ConfirmBegin, ConfirmLoad,
       ConfirmWrongCode, Sign, LoadSignature, Load, quote
  <2>5. ASSUME NEW r \in Request, Provider(r) \/ Abort(r) PROVE status' = status
    BY <2>5 DEF Provider, WebhookBegin, WebhookRefused, WebhookQuote, Abort, quote
  <2>6. CASE (\E e \in DOMAIN envelopes : CustomerSigns(e)) \/ TimePasses \/ UNCHANGED vars
    BY <2>6 DEF CustomerSigns, TimePasses, vars, quote
  <2> QED
    BY <1>1, <2>3, <2>4, <2>5, <2>6 DEF Next
<1> QED
  BY <1>1, InvariantHolds, PTL DEF Spec, DecisionIsFinal

\* Replacing one of the elements of a sequence.
LEMMA ReplaceIn ==
    ASSUME NEW S, NEW s \in Seq(S), NEW i \in DOMAIN s, NEW x \in S
    PROVE  /\ [s EXCEPT ![i] = x] \in Seq(S) /\ Len([s EXCEPT ![i] = x]) = Len(s)
           /\ DOMAIN [s EXCEPT ![i] = x] = DOMAIN s
           /\ \A j \in DOMAIN s : [s EXCEPT ![i] = x][j] = IF j = i THEN x ELSE s[j]
    OBVIOUS

LEMMA OneMore ==
    ASSUME NEW k \in Nat
    PROVE  \A i \in 1..(k + 1) : (i \in 1..k /\ i # k + 1) \/ i = k + 1
    OBVIOUS

(***************************************************************************)
(* Invoices and payments.  A payment writes "paga" for what it added up     *)
(* before it commits: payments only grow, and the amount of an invoice      *)
(* that nobody edits stays, so it is right still.                           *)
(***************************************************************************)
SaleRequest ==
    [op : {"none", "create", "edit", "pay", "payCommit"}, id : 0..MaxInvoice,
     loaded : Sls!Invoice, new : Sls!Invoice, paid : Amount \cup {0}]

\* The request q, by the invoices inv, the payments pay and the invoices that
\* were edited: what it creates is open, what it pays is there with the amount
\* it loaded, and what it settles is covered.
Holds(q, inv, pay, byHand) ==
    /\ q.op = "create" => q.new.status = "faturada" /\ q.new.amount > 0
    /\ q.op \in {"edit", "pay", "payCommit"} => q.id \in DOMAIN inv
    /\ q.op \in {"pay", "payCommit"} /\ q.id \notin byHand => q.loaded.amount = inv[q.id].amount
    /\ q.op = "payCommit" =>
         /\ q.new.amount = q.loaded.amount
         /\ q.new.status # q.loaded.status =>
              q.new.status = "paga" /\ pay[q.id] + q.paid >= q.loaded.amount

\* When it is alone, what it read is still so.
UpToDate(q, inv, pay) ==
    /\ q.op = "create" => q.new.number = Len(inv) + 1
    /\ q.op \in {"pay", "payCommit"} => q.loaded = inv[q.id]
    /\ q.op = "payCommit" /\ pay[q.id] + q.paid >= q.loaded.amount => q.new.status = "paga"

\* An invoice without payments, where there is none.
UnpaidBeyond(inv, pay) == \A i \in 1..MaxInvoice : i > Len(inv) => pay[i] = 0

Covered(inv, pay, byHand) == \A i \in DOMAIN inv \ byHand : inv[i].status = "paga" => pay[i] >= inv[i].amount

PaidWhenCovered(inv, pay, byHand) ==
    \A i \in DOMAIN inv \ byHand : pay[i] >= inv[i].amount => inv[i].status = "paga"

Numbered(inv) == \A i \in DOMAIN inv : inv[i].number = i

SaleSerial ==
    ~mixed =>
        /\ \A u, v \in Request : request[u] # Sls!NoRequest /\ request[v] # Sls!NoRequest => u = v
        /\ \A u \in Request : UpToDate(request[u], invoices, payments)
        /\ PaidWhenCovered(invoices, payments, edited)
        /\ Numbered(invoices)

SaleInv ==
    /\ Sls!TypeOK
    /\ \A u \in Request : Holds(request[u], invoices, payments, edited)
    /\ UnpaidBeyond(invoices, payments)
    /\ Covered(invoices, payments, edited)
    /\ SaleSerial

LEMMA NoRequestIs ==
    /\ Sls!NoRequest \in SaleRequest
    /\ \A inv, pay, byHand : Holds(Sls!NoRequest, inv, pay, byHand) /\ UpToDate(Sls!NoRequest, inv, pay)
<1>1. Sls!NoInvoice \in Sls!Invoice /\ 0 \in 0..MaxInvoice
    BY CountsAssumption DEF Sls!NoInvoice, Sls!Invoice, Sls!Status, CountsAssumption
<1>2. Sls!NoRequest.op = "none"
    BY DEF Sls!NoRequest
<1>3. Sls!NoRequest \in SaleRequest
    BY <1>1 DEF Sls!NoRequest, SaleRequest
<1> QED
    BY <1>2, <1>3 DEF Holds, UpToDate

\* The types, request by request.
LEMMA SaleTypes ==
    ASSUME Sls!TypeOK
    PROVE  /\ invoices \in Seq(Sls!Invoice) /\ Len(invoices) \in Nat /\ DOMAIN invoices = 1..Len(invoices)
           /\ Len(invoices) <= MaxInvoice
           /\ \A i \in DOMAIN invoices :
                /\ invoices[i] \in Sls!Invoice /\ i \in 1..MaxInvoice
                /\ invoices[i].amount \in Nat /\ invoices[i].status \in Sls!Status /\ invoices[i].number \in Nat
           /\ payments \in [1..MaxInvoice -> 0..MaxPaid]
           /\ \A i \in 1..MaxInvoice : payments[i] \in Nat
           /\ request \in [Request -> SaleRequest]
           /\ \A u \in Request :
                /\ request[u] \in SaleRequest /\ request[u].paid \in Nat
                /\ request[u].loaded.amount \in Nat /\ request[u].new.amount \in Nat
<1>1. /\ invoices \in Seq(Sls!Invoice) /\ Len(invoices) \in Nat /\ DOMAIN invoices = 1..Len(invoices)
      /\ Len(invoices) <= MaxInvoice /\ MaxInvoice \in Nat /\ MaxPaid \in Nat
    BY CountsAssumption DEF Sls!TypeOK, CountsAssumption
<1>2. \A i \in DOMAIN invoices : invoices[i] \in Sls!Invoice /\ i \in 1..MaxInvoice
    BY <1>1
<1>3. \A row \in Sls!Invoice : row.amount \in Nat /\ row.status \in Sls!Status /\ row.number \in Nat
    BY DEF Sls!Invoice
<1>4. payments \in [1..MaxInvoice -> 0..MaxPaid] /\ request \in [Request -> SaleRequest]
    BY DEF Sls!TypeOK, SaleRequest
<1>5. \A i \in 1..MaxInvoice : payments[i] \in Nat
    <2>1. \A n \in 0..MaxPaid : n \in Nat
        BY <1>1
    <2> QED
        BY <1>4, <2>1
<1>6. \A q \in SaleRequest : q.paid \in Nat /\ q.loaded \in Sls!Invoice /\ q.new \in Sls!Invoice
    <2>1. \A a \in Amount \cup {0} : a \in Nat
        BY AmountAssumption DEF AmountAssumption
    <2> QED
        BY <2>1 DEF SaleRequest
<1>7. \A u \in Request : request[u] \in SaleRequest
    BY <1>4
<1> QED
    BY <1>1, <1>2, <1>3, <1>4, <1>5, <1>6, <1>7

LEMMA SaleInit == Sls!Init => SaleInv
<1> SUFFICES ASSUME Sls!Init PROVE SaleInv
    OBVIOUS
<1>1. /\ invoices = <<>> /\ DOMAIN invoices = {} /\ Len(invoices) = 0 /\ invoices \in Seq(Sls!Invoice)
      /\ \A i \in 1..MaxInvoice : payments[i] = 0
      /\ \A u \in Request : request[u] = Sls!NoRequest
    BY DEF Sls!Init
<1>2. payments \in [1..MaxInvoice -> 0..MaxPaid] /\ Len(invoices) <= MaxInvoice
    BY <1>1, CountsAssumption DEF Sls!Init, CountsAssumption
<1>3. request \in [Request -> SaleRequest]
    BY <1>1, NoRequestIs DEF Sls!Init
<1>4. sale \in Sls!SaleStatus /\ edited = {} /\ mixed = FALSE
    BY DEF Sls!Init, Sls!SaleStatus
<1>5. mixed \in BOOLEAN /\ edited \subseteq 1..MaxInvoice
    BY <1>4
<1>6. Sls!TypeOK
    BY <1>1, <1>2, <1>3, <1>4, <1>5 DEF Sls!TypeOK, SaleRequest
<1> QED
    BY <1>1, <1>4, <1>6, NoRequestIs
       DEF SaleInv, SaleSerial, UnpaidBeyond, Covered, PaidWhenCovered, Numbered

\* A request begins as r.
LEMMA SaleBegins ==
    ASSUME SaleInv, NEW u \in Request, NEW r \in SaleRequest, Sls!Begin(u, r),
           Holds(r, invoices, payments, edited), UpToDate(r, invoices, payments)
    PROVE  SaleInv'
<1>1. /\ request' = [request EXCEPT ![u] = r] /\ request[u] = Sls!NoRequest
      /\ mixed' = (mixed \/ \E v \in Request : request[v] # Sls!NoRequest)
      /\ UNCHANGED <<sale, invoices, payments, edited>>
    BY DEF Sls!Begin
<1>2. request \in [Request -> SaleRequest]
    BY SaleTypes DEF SaleInv
<1>3. /\ \A v \in Request : request'[v] = IF v = u THEN r ELSE request[v]
      /\ request' \in [Request -> SaleRequest]
    BY <1>1, <1>2
<1>4. mixed' \in BOOLEAN
    BY <1>1
<1>5. Sls!TypeOK'
    BY <1>1, <1>3, <1>4 DEF SaleInv, Sls!TypeOK, SaleRequest
<1>6. SaleSerial'
    BY <1>1, <1>3 DEF SaleInv, SaleSerial
<1> QED
    BY <1>1, <1>3, <1>5, <1>6 DEF SaleInv

LEMMA InvoiceRow ==
    ASSUME NEW n \in Nat, NEW s \in Sls!Status, NEW a \in Nat
    PROVE  [number |-> n, status |-> s, amount |-> a] \in Sls!Invoice
    BY DEF Sls!Invoice

LEMMA SaleCreates == ASSUME SaleInv, NEW u \in Request, Sls!CreateBegin(u) PROVE SaleInv'
<1>1. PICK a \in Amount :
        Sls!Begin(u, [Sls!NoRequest EXCEPT !.op = "create",
                          !.new = [number |-> Sls!Count + 1, status |-> "faturada", amount |-> a]])
    BY DEF Sls!CreateBegin
<1> DEFINE row == [number |-> Sls!Count + 1, status |-> "faturada", amount |-> a]
           r == [Sls!NoRequest EXCEPT !.op = "create", !.new = row]
<1>2. Sls!Count = Len(invoices) /\ Sls!Count + 1 \in Nat /\ a \in Nat /\ a > 0
    BY SaleTypes, AmountAssumption DEF SaleInv, AmountAssumption, Sls!Count
<1>3. row \in Sls!Invoice /\ row.number = Len(invoices) + 1 /\ row.status = "faturada" /\ row.amount > 0
    <2>1. "faturada" \in Sls!Status
        BY DEF Sls!Status
    <2> QED
        BY <1>2, <2>1, InvoiceRow
<1> HIDE DEF row
<1>4. r \in SaleRequest /\ r.op = "create" /\ r.new = row
    BY <1>3, NoRequestIs DEF SaleRequest
<1>5. Sls!Begin(u, r)
    BY <1>1 DEF row
<1> HIDE DEF r
<1> QED
    BY <1>3, <1>4, <1>5, SaleBegins DEF Holds, UpToDate

LEMMA SaleEdits == ASSUME SaleInv, NEW u \in Request, Sls!UpdateInvoiceBegin(u) PROVE SaleInv'
<1>1. PICK i \in DOMAIN invoices, s \in Sls!Status, a \in Amount :
        Sls!Begin(u, [Sls!NoRequest EXCEPT !.op = "edit", !.id = i, !.loaded = invoices[i],
                          !.new = [invoices[i] EXCEPT !.status = s, !.amount = a]])
    BY DEF Sls!UpdateInvoiceBegin
<1> DEFINE row == [invoices[i] EXCEPT !.status = s, !.amount = a]
           r == [Sls!NoRequest EXCEPT !.op = "edit", !.id = i, !.loaded = invoices[i], !.new = row]
<1>2. invoices[i] \in Sls!Invoice /\ i \in 0..MaxInvoice /\ a \in Nat
    <2>1. i \in 1..MaxInvoice /\ invoices[i] \in Sls!Invoice
        BY SaleTypes DEF SaleInv
    <2> QED
        BY <2>1, AmountAssumption, CountsAssumption DEF AmountAssumption, CountsAssumption
<1>3. row \in Sls!Invoice
    BY <1>2 DEF Sls!Invoice
<1> HIDE DEF row
<1>4. r \in SaleRequest /\ r.op = "edit" /\ r.id = i
    BY <1>2, <1>3, NoRequestIs DEF SaleRequest
<1>5. Sls!Begin(u, r)
    BY <1>1 DEF row
<1> HIDE DEF r
<1> QED
    BY <1>4, <1>5, SaleBegins DEF Holds, UpToDate

LEMMA SalePays == ASSUME SaleInv, NEW u \in Request, Sls!PayBegin(u) PROVE SaleInv'
<1>1. PICK i \in DOMAIN invoices, a \in Amount :
        Sls!Begin(u, [Sls!NoRequest EXCEPT !.op = "pay", !.id = i, !.loaded = invoices[i], !.paid = a])
    BY DEF Sls!PayBegin
<1> DEFINE r == [Sls!NoRequest EXCEPT !.op = "pay", !.id = i, !.loaded = invoices[i], !.paid = a]
<1>2. invoices[i] \in Sls!Invoice /\ i \in 0..MaxInvoice
    <2>1. i \in 1..MaxInvoice /\ invoices[i] \in Sls!Invoice
        BY SaleTypes DEF SaleInv
    <2> QED
        BY <2>1, CountsAssumption DEF CountsAssumption
<1>3. r \in SaleRequest /\ r.op = "pay" /\ r.id = i /\ r.loaded = invoices[i]
    BY <1>2, NoRequestIs DEF SaleRequest
<1>4. Sls!Begin(u, r)
    BY <1>1
<1> HIDE DEF r
<1> QED
    BY <1>3, <1>4, SaleBegins DEF Holds, UpToDate

\* The payments are added up.
LEMMA SaleAdds == ASSUME SaleInv, NEW u \in Request, Sls!PaySum(u) PROVE SaleInv'
<1> DEFINE q == request[u]
           total == payments[q.id] + q.paid
           became == IF total >= q.loaded.amount THEN "paga" ELSE q.loaded.status
           new == [q.loaded EXCEPT !.status = became]
           r == [q EXCEPT !.op = "payCommit", !.new = new]
<1>1. /\ q.op = "pay" /\ request' = [request EXCEPT ![u] = r]
      /\ UNCHANGED <<sale, invoices, payments, edited, mixed>>
    BY SaleTypes DEF Sls!PaySum, Sls!Settles, SaleInv
<1>2. q \in SaleRequest /\ q.loaded \in Sls!Invoice /\ q.paid \in Nat /\ request \in [Request -> SaleRequest]
    BY SaleTypes DEF SaleInv, SaleRequest
<1>3. q.id \in DOMAIN invoices /\ q.id \in 1..MaxInvoice /\ payments[q.id] \in Nat
    BY <1>1, SaleTypes DEF SaleInv, Holds
<1>4. new \in Sls!Invoice /\ new.amount = q.loaded.amount /\ new.status = became
    BY <1>2 DEF Sls!Invoice, Sls!Status
<1>5. became # q.loaded.status => became = "paga" /\ total >= q.loaded.amount
    OBVIOUS
<1>6. total >= q.loaded.amount => became = "paga"
    OBVIOUS
<1> HIDE DEF new, became
<1>7. /\ r \in SaleRequest /\ r.op = "payCommit" /\ r.id = q.id /\ r.paid = q.paid
      /\ r.loaded = q.loaded /\ r.new = new
    BY <1>2, <1>4 DEF SaleRequest
<1> HIDE DEF r
<1>8. Holds(r, invoices, payments, edited)
    BY <1>1, <1>3, <1>4, <1>5, <1>7 DEF Holds, SaleInv
<1>9. UpToDate(q, invoices, payments) => UpToDate(r, invoices, payments)
    BY <1>1, <1>4, <1>6, <1>7 DEF UpToDate
<1>10. /\ \A v \in Request : request'[v] = IF v = u THEN r ELSE request[v]
       /\ request' \in [Request -> SaleRequest]
    BY <1>1, <1>2, <1>7
<1>11. Sls!TypeOK'
    BY <1>1, <1>10 DEF SaleInv, Sls!TypeOK, SaleRequest
<1>12. q # Sls!NoRequest
    BY <1>1 DEF Sls!NoRequest
<1>13. SaleSerial'
    BY <1>1, <1>9, <1>10, <1>12 DEF SaleInv, SaleSerial
<1> QED
    BY <1>1, <1>8, <1>10, <1>11, <1>13 DEF SaleInv

\* A request ends, without or with a change of the rows.
LEMMA SaleEnds ==
    ASSUME Sls!TypeOK, NEW u \in Request, Sls!Finish(u)
    PROVE  /\ \A v \in Request : request'[v] = IF v = u THEN Sls!NoRequest ELSE request[v]
           /\ request' \in [Request -> SaleRequest]
    BY SaleTypes, NoRequestIs DEF Sls!Finish

LEMMA SaleStops ==
    ASSUME SaleInv, NEW u \in Request, Sls!Abort(u) \/ Sls!UpdateSale(u) \/ UNCHANGED settle
    PROVE  SaleInv'
<1>1. CASE Sls!Abort(u)
    <2>1. Sls!Finish(u) /\ UNCHANGED <<sale, invoices, payments, edited, mixed>>
        BY <1>1 DEF Sls!Abort
    <2>2. /\ \A v \in Request : request'[v] = IF v = u THEN Sls!NoRequest ELSE request[v]
          /\ request' \in [Request -> SaleRequest]
        BY <2>1, SaleEnds DEF SaleInv
    <2>3. Sls!TypeOK'
        BY <2>1, <2>2 DEF SaleInv, Sls!TypeOK, SaleRequest
    <2>4. SaleSerial'
        BY <2>1, <2>2, NoRequestIs DEF SaleInv, SaleSerial
    <2> QED
        BY <2>1, <2>2, <2>3, <2>4, NoRequestIs DEF SaleInv
<1>2. CASE Sls!UpdateSale(u) \/ UNCHANGED settle
    <2>1. /\ UNCHANGED <<invoices, payments, request, edited>>
          /\ sale' \in Sls!SaleStatus /\ mixed' \in BOOLEAN /\ (mixed => mixed')
        BY <1>2 DEF Sls!UpdateSale, settle, SaleInv, Sls!TypeOK
    <2> QED
        BY <2>1 DEF SaleInv, Sls!TypeOK, SaleSerial
<1> QED
    BY <1>1, <1>2

LEMMA SaleCreated == ASSUME SaleInv, NEW u \in Request, Sls!CreateCommit(u) PROVE SaleInv'
<1> DEFINE q == request[u]
           n == Len(invoices)
           inv == Append(invoices, q.new)
<1>1. /\ q.op = "create" /\ n < MaxInvoice /\ invoices' = inv /\ Sls!Finish(u)
      /\ UNCHANGED <<sale, payments, edited, mixed>>
    BY DEF Sls!CreateCommit
<1>2. q.new \in Sls!Invoice /\ invoices \in Seq(Sls!Invoice) /\ n \in Nat /\ MaxInvoice \in Nat
    BY SaleTypes, CountsAssumption DEF SaleInv, SaleRequest, CountsAssumption
<1>3. q.new.status = "faturada" /\ q.new.amount > 0
    BY <1>1 DEF SaleInv, Holds
<1>4. /\ inv \in Seq(Sls!Invoice) /\ Len(inv) = n + 1 /\ DOMAIN invoices = 1..n /\ DOMAIN inv = 1..(n + 1)
      /\ \A i \in 1..n : inv[i] = invoices[i]
      /\ inv[n + 1] = q.new
    BY <1>2, AppendTo
<1> HIDE DEF inv
<1>5. n + 1 \in 1..MaxInvoice /\ n + 1 <= MaxInvoice /\ n + 1 > n /\ (\A i \in 1..MaxInvoice : i > n + 1 => i > n)
    BY <1>1, <1>2
<1>6. payments[n + 1] = 0
    <2> HIDE DEF n
    <2> QED
        BY <1>5 DEF SaleInv, UnpaidBeyond, n
<1>7. \A i \in DOMAIN inv : i \in 1..n \/ i = n + 1
    BY <1>2, <1>4, OneMore
<1>8. /\ \A v \in Request : request'[v] = IF v = u THEN Sls!NoRequest ELSE request[v]
      /\ request' \in [Request -> SaleRequest]
    BY <1>1, SaleEnds DEF SaleInv
<1>9. Sls!TypeOK'
    BY <1>1, <1>4, <1>5, <1>8 DEF SaleInv, Sls!TypeOK, SaleRequest
<1>10. \A i \in DOMAIN invoices : i \in DOMAIN inv /\ inv[i] = invoices[i]
    BY <1>2, <1>4
<1>11. \A v \in Request : Holds(request'[v], inv, payments, edited)
    BY <1>8, <1>10, NoRequestIs DEF SaleInv, Holds
<1>12. UnpaidBeyond(inv, payments)
    BY <1>4, <1>5 DEF SaleInv, UnpaidBeyond
<1>13. Covered(inv, payments, edited)
    BY <1>3, <1>4, <1>7 DEF SaleInv, Covered
<1>14. SaleSerial'
    <2> SUFFICES ASSUME ~mixed PROVE SaleSerial'
        BY <1>1 DEF SaleSerial
    <2>1. q # Sls!NoRequest
        BY <1>1 DEF Sls!NoRequest
    <2>2. \A v \in Request : request'[v] = Sls!NoRequest
        BY <1>8, <2>1 DEF SaleInv, SaleSerial
    <2>3. PaidWhenCovered(inv, payments, edited)
        <3>1. ~(payments[n + 1] >= inv[n + 1].amount)
            <4>1. inv[n + 1].amount \in Nat /\ inv[n + 1].amount > 0
                BY <1>2, <1>3, <1>4 DEF Sls!Invoice
            <4> QED
                BY <1>6, <4>1
        <3> QED
            BY <1>4, <1>7, <3>1 DEF SaleInv, SaleSerial, PaidWhenCovered
    <2>4. Numbered(inv)
        BY <1>1, <1>4, <1>7 DEF SaleInv, SaleSerial, UpToDate, Numbered
    <2> QED
        BY <1>1, <2>2, <2>3, <2>4, NoRequestIs DEF SaleSerial
<1> QED
    BY <1>1, <1>9, <1>11, <1>12, <1>13, <1>14 DEF SaleInv

LEMMA WrittenIs ==
    ASSUME SaleInv, NEW u \in Request, request[u].op \in {"edit", "payCommit"}
    PROVE  LET q == request[u]
               row == invoices[q.id]
               w == Sls!Written(u, q.new)
           IN  /\ w \in Sls!Invoice /\ w.number = row.number
               /\ w.status = IF q.new.status # q.loaded.status THEN q.new.status ELSE row.status
               /\ w.amount = IF q.new.amount # q.loaded.amount THEN q.new.amount ELSE row.amount
<1> DEFINE q == request[u]
           row == invoices[q.id]
           s == IF q.new.status # q.loaded.status THEN q.new.status ELSE row.status
           a == IF q.new.amount # q.loaded.amount THEN q.new.amount ELSE row.amount
           w == [row EXCEPT !.status = s, !.amount = a]
<1>1. q \in SaleRequest /\ q.new \in Sls!Invoice /\ row \in Sls!Invoice
    BY SaleTypes DEF SaleInv, Holds, SaleRequest
<1>2. s \in Sls!Status /\ a \in Nat
    BY <1>1 DEF Sls!Invoice
<1>3. w = Sls!Written(u, q.new)
    BY DEF Sls!Written
<1> HIDE DEF s, a, row
<1>4. w \in Sls!Invoice /\ w.number = row.number /\ w.status = s /\ w.amount = a
    BY <1>1, <1>2 DEF Sls!Invoice
<1> HIDE DEF w
<1> QED
    BY <1>3, <1>4 DEF s, a, row

\* What a request writes: one row, whose number stays.
LEMMA SaleWrites ==
    ASSUME SaleInv, NEW u \in Request, request[u].op \in {"edit", "payCommit"},
           invoices' = [invoices EXCEPT ![request[u].id] = Sls!Written(u, request[u].new)]
    PROVE  LET q == request[u] IN
           /\ invoices' \in Seq(Sls!Invoice) /\ Len(invoices') = Len(invoices) /\ DOMAIN invoices' = DOMAIN invoices
           /\ q.id \in DOMAIN invoices /\ q.id \in 1..MaxInvoice
           /\ \A i \in DOMAIN invoices : i # q.id => invoices'[i] = invoices[i]
           /\ \A i \in DOMAIN invoices : invoices'[i].number = invoices[i].number
           /\ invoices'[q.id] = Sls!Written(u, q.new)
<1> DEFINE i == request[u].id
           w == Sls!Written(u, request[u].new)
<1>1. w \in Sls!Invoice /\ w.number = invoices[i].number
    BY WrittenIs
<1>2. i \in DOMAIN invoices /\ i \in 1..MaxInvoice /\ invoices \in Seq(Sls!Invoice)
    BY SaleTypes DEF SaleInv, Holds
<1>3. invoices' = [invoices EXCEPT ![i] = w]
    OBVIOUS
<1> HIDE DEF i, w
<1>4. /\ invoices' \in Seq(Sls!Invoice) /\ Len(invoices') = Len(invoices) /\ DOMAIN invoices' = DOMAIN invoices
      /\ \A j \in DOMAIN invoices : invoices'[j] = IF j = i THEN w ELSE invoices[j]
    <2> DEFINE inv == [invoices EXCEPT ![i] = w]
    <2>1. /\ inv \in Seq(Sls!Invoice) /\ Len(inv) = Len(invoices) /\ DOMAIN inv = DOMAIN invoices
          /\ \A j \in DOMAIN invoices : inv[j] = IF j = i THEN w ELSE invoices[j]
        BY <1>1, <1>2, ReplaceIn
    <2>2. invoices' = inv
        BY <1>3
    <2> HIDE DEF inv
    <2> QED
        BY <2>1, <2>2
<1> QED
    BY <1>1, <1>2, <1>4 DEF i, w

LEMMA SaleEdited == ASSUME SaleInv, NEW u \in Request, Sls!UpdateInvoiceCommit(u) PROVE SaleInv'
<1> DEFINE q == request[u]
<1>1. /\ q.op = "edit" /\ edited' = edited \cup {q.id} /\ Sls!Finish(u)
      /\ invoices' = [invoices EXCEPT ![q.id] = Sls!Written(u, q.new)]
      /\ UNCHANGED <<sale, payments, mixed>>
    BY DEF Sls!UpdateInvoiceCommit
<1>2. /\ invoices' \in Seq(Sls!Invoice) /\ Len(invoices') = Len(invoices) /\ DOMAIN invoices' = DOMAIN invoices
      /\ q.id \in 1..MaxInvoice
      /\ \A i \in DOMAIN invoices : i # q.id => invoices'[i] = invoices[i]
      /\ \A i \in DOMAIN invoices : invoices'[i].number = invoices[i].number
    BY <1>1, SaleWrites
<1>3. /\ \A v \in Request : request'[v] = IF v = u THEN Sls!NoRequest ELSE request[v]
      /\ request' \in [Request -> SaleRequest]
    BY <1>1, SaleEnds DEF SaleInv
<1>4. Sls!TypeOK'
    BY <1>1, <1>2, <1>3 DEF SaleInv, Sls!TypeOK, SaleRequest
<1>5. \A v \in Request : Holds(request'[v], invoices', payments, edited')
    <2>1. ASSUME NEW v \in Request PROVE Holds(request[v], invoices', payments, edited')
        <3>1. Holds(request[v], invoices, payments, edited)
            BY DEF SaleInv
        <3> QED
            BY <1>1, <1>2, <3>1 DEF Holds
    <2> QED
        BY <1>3, <2>1, NoRequestIs
<1>6. UnpaidBeyond(invoices', payments) /\ Covered(invoices', payments, edited')
    BY <1>1, <1>2 DEF SaleInv, UnpaidBeyond, Covered
<1>7. SaleSerial'
    <2> SUFFICES ASSUME ~mixed PROVE SaleSerial'
        BY <1>1 DEF SaleSerial
    <2>1. q # Sls!NoRequest
        BY <1>1 DEF Sls!NoRequest
    <2>2. \A v \in Request : request'[v] = Sls!NoRequest
        BY <1>3, <2>1 DEF SaleInv, SaleSerial
    <2>3. PaidWhenCovered(invoices', payments, edited')
        BY <1>1, <1>2 DEF SaleInv, SaleSerial, PaidWhenCovered
    <2>4. Numbered(invoices')
        BY <1>2 DEF SaleInv, SaleSerial, Numbered
    <2> QED
        BY <1>1, <2>2, <2>3, <2>4, NoRequestIs DEF SaleSerial
<1> QED
    BY <1>1, <1>4, <1>5, <1>6, <1>7 DEF SaleInv

LEMMA SalePaid == ASSUME SaleInv, NEW u \in Request, Sls!PayCommit(u) PROVE SaleInv'
<1> DEFINE q == request[u]
           i == q.id
           total == payments[i] + q.paid
           row == invoices[i]
           w == Sls!Written(u, q.new)
<1>1. /\ q.op = "payCommit" /\ Sls!Finish(u) /\ total <= MaxPaid
      /\ payments' = [payments EXCEPT ![i] = total]
      /\ invoices' = [invoices EXCEPT ![q.id] = Sls!Written(u, q.new)]
      /\ UNCHANGED <<sale, edited, mixed>>
    BY DEF Sls!PayCommit
<1>2. /\ invoices' \in Seq(Sls!Invoice) /\ Len(invoices') = Len(invoices) /\ DOMAIN invoices' = DOMAIN invoices
      /\ i \in DOMAIN invoices /\ i \in 1..MaxInvoice
      /\ \A j \in DOMAIN invoices : j # i => invoices'[j] = invoices[j]
      /\ \A j \in DOMAIN invoices : invoices'[j].number = invoices[j].number
      /\ invoices'[i] = w
    BY <1>1, SaleWrites
<1>3. /\ \A v \in Request : request'[v] = IF v = u THEN Sls!NoRequest ELSE request[v]
      /\ request' \in [Request -> SaleRequest]
    BY <1>1, SaleEnds DEF SaleInv
<1>4. /\ payments[i] \in Nat /\ q.paid \in Nat /\ total \in Nat /\ total >= payments[i] /\ total \in 0..MaxPaid
      /\ q.loaded.amount \in Nat /\ row.amount \in Nat
    <2>1. payments[i] \in Nat /\ q.paid \in Nat /\ q.loaded.amount \in Nat /\ row.amount \in Nat
        BY <1>2, SaleTypes DEF SaleInv
    <2>2. MaxPaid \in Nat
        BY CountsAssumption DEF CountsAssumption
    <2> QED
        BY <1>1, <2>1, <2>2
<1>5. /\ payments' \in [1..MaxInvoice -> 0..MaxPaid]
      /\ \A j \in 1..MaxInvoice : payments'[j] = IF j = i THEN total ELSE payments[j]
    <2>1. payments \in [1..MaxInvoice -> 0..MaxPaid]
        BY SaleTypes DEF SaleInv
    <2> HIDE DEF total, i
    <2> QED
        BY <1>1, <1>2, <1>4, <2>1
<1>6. Holds(q, invoices, payments, edited)
    BY DEF SaleInv
<1>7. /\ w.amount = row.amount
      /\ w.status # row.status => w.status = "paga" /\ total >= q.loaded.amount
      /\ w.status = IF q.new.status # q.loaded.status THEN q.new.status ELSE row.status
    BY <1>1, <1>6, WrittenIs DEF Holds
<1> HIDE DEF w, total
<1>8. Sls!TypeOK'
    BY <1>1, <1>2, <1>3, <1>5 DEF SaleInv, Sls!TypeOK, SaleRequest
<1>9. \A v \in Request : Holds(request'[v], invoices', payments', edited)
    <2>1. ASSUME NEW v \in Request, v # u PROVE Holds(request[v], invoices', payments', edited)
        <3> DEFINE o == request[v]
        <3>1. Holds(o, invoices, payments, edited)
            BY DEF SaleInv
        <3>2. o.id \in DOMAIN invoices => invoices'[o.id].amount = invoices[o.id].amount
            BY <1>2, <1>7
        <3>3. o.id \in DOMAIN invoices /\ payments[o.id] + o.paid >= o.loaded.amount
                => payments'[o.id] + o.paid >= o.loaded.amount
            <4>1. /\ o.paid \in Nat /\ o.loaded.amount \in Nat
                  /\ o.id \in DOMAIN invoices => o.id \in 1..MaxInvoice /\ payments[o.id] \in Nat
                BY SaleTypes DEF SaleInv
            <4>2. o.id \in DOMAIN invoices => payments'[o.id] \in Nat /\ payments'[o.id] >= payments[o.id]
                BY <1>4, <1>5, <4>1
            <4> QED
                BY <4>1, <4>2
        <3> QED
            BY <1>2, <3>1, <3>2, <3>3 DEF Holds
    <2> QED
        BY <1>3, <2>1, NoRequestIs
<1>10. UnpaidBeyond(invoices', payments')
    <2>1. i <= Len(invoices) /\ Len(invoices) \in Nat /\ i \in Nat
        BY <1>2, SaleTypes DEF SaleInv
    <2> QED
        BY <1>2, <1>5, <2>1 DEF SaleInv, UnpaidBeyond
<1>11. Covered(invoices', payments', edited)
    <2>1. ASSUME i \notin edited, w.status = "paga" PROVE total >= w.amount
        <3>1. CASE row.status = "paga"
            <4>1. payments[i] >= row.amount
                BY <1>2, <2>1, <3>1 DEF SaleInv, Covered
            <4> QED
                BY <1>4, <1>7, <4>1
        <3>2. CASE row.status # "paga"
            BY <1>1, <1>6, <1>7, <2>1, <3>2 DEF Holds
        <3> QED
            BY <3>1, <3>2
    <2>2. \A j \in DOMAIN invoices : j \in 1..MaxInvoice
        BY SaleTypes DEF SaleInv
    <2> QED
        BY <1>2, <1>5, <2>1, <2>2 DEF SaleInv, Covered
<1>12. SaleSerial'
    <2> SUFFICES ASSUME ~mixed PROVE SaleSerial'
        BY <1>1 DEF SaleSerial
    <2>1. q # Sls!NoRequest
        BY <1>1 DEF Sls!NoRequest
    <2>2. \A v \in Request : request'[v] = Sls!NoRequest
        BY <1>3, <2>1 DEF SaleInv, SaleSerial
    <2>3. q.loaded = row /\ (total >= q.loaded.amount => q.new.status = "paga")
        BY <1>1 DEF SaleInv, SaleSerial, UpToDate, total
    <2>4. total >= w.amount => w.status = "paga"
        BY <1>7, <2>3
    <2>5. \A j \in DOMAIN invoices : j \in 1..MaxInvoice
        BY SaleTypes DEF SaleInv
    <2>6. PaidWhenCovered(invoices', payments', edited)
        BY <1>2, <1>5, <2>4, <2>5 DEF SaleInv, SaleSerial, PaidWhenCovered
    <2>7. Numbered(invoices')
        BY <1>2 DEF SaleInv, SaleSerial, Numbered
    <2> QED
        BY <1>1, <2>2, <2>6, <2>7, NoRequestIs DEF SaleSerial
<1> QED
    BY <1>1, <1>8, <1>9, <1>10, <1>11, <1>12 DEF SaleInv

LEMMA SaleStep ==
    ASSUME SaleInv, Sls!Next \/ UNCHANGED settle
    PROVE  SaleInv'
<1>1. CASE UNCHANGED settle
    BY <1>1 DEF settle, SaleInv, Sls!TypeOK, SaleSerial
<1>2. CASE Sls!Next
    BY <1>2, SaleStops, SaleCreates, SaleCreated, SaleEdits, SaleEdited, SalePays, SaleAdds, SalePaid DEF Sls!Next
<1> QED
    BY <1>1, <1>2

LEMMA SalesSettled == SaleInv => InvoicesAreSettled
<1> SUFFICES ASSUME SaleInv PROVE InvoicesAreSettled
    OBVIOUS
<1>1. Sls!PaidIsCovered
    BY DEF SaleInv, Covered, Sls!PaidIsCovered
<1>2. Sls!CoveredIsPaid
    BY DEF SaleInv, SaleSerial, PaidWhenCovered, Sls!CoveredIsPaid
<1>3. Sls!NumbersDiffer
    BY DEF SaleInv, SaleSerial, Numbered, Sls!NumbersDiffer
<1> QED
    BY <1>1, <1>2, <1>3 DEF SaleInv, InvoicesAreSettled, Sls!InvoicesAreSettled

\* However payments, edits and new invoices of a sale interleave, an invoice
\* that became "paga" by itself is covered; while no two requests overlap, it
\* becomes so with the payment that covers it, and numbers differ.
THEOREM InvoicesAreSettledHolds == MCSpec => []InvoicesAreSettled
<1>1. MCInit => SaleInv
    BY SaleInit DEF MCInit
<1>2. SaleInv /\ [MCNext]_<<area, vars, settle, mail>> => SaleInv'
    BY SaleStep DEF MCNext
<1> QED
    BY <1>1, <1>2, SalesSettled, PTL DEF MCSpec

(***************************************************************************)
(* Mail.  A message that was fetched is still to come, or one of its rows   *)
(* is there: committed, or of the transaction itself.                       *)
(***************************************************************************)
MailRequest ==
    [pc : {"idle", "fetch", "loop", "commit"}, rule : Mls!Rule, todo : Seq(Mls!Mail), fetched : SUBSET Mls!Mail,
     own : Seq(Mls!Row), error : BOOLEAN]

Elements(s) == {s[k] : k \in DOMAIN s}

\* The UIDs of the rows s.
Uids(s) == {s[k].uid : k \in DOMAIN s}

OncePerUid(s) == \A j, k \in DOMAIN s : s[j].uid = s[k].uid => j = k

\* The messages whose alert was sent to a target or had none.
Reached == {m \in Mls!Mail : sent[m] > 0} \cup unaddressed

\* What the rows s record as alerted is among the messages reached.
AlertsSent(s, reached) == \A k \in DOMAIN s : s[k].alerted => s[k].uid \in reached

\* The synchronisation q, by the rows that are committed and the messages reached.
Keeps(q, stored, reached) ==
    /\ q.pc # "loop" => q.todo = <<>>
    /\ ~q.error => q.fetched \subseteq Elements(q.todo) \cup Uids(stored) \cup Uids(q.own)
    /\ AlertsSent(q.own, reached)

\* A message that was alerted has a row, committed or not.
Recorded(m, all, stored) == m \in Uids(stored) \/ \E u \in Request : m \in Uids(all[u].own)

MailSerial ==
    ~crossed =>
        /\ \A u, v \in Request : sync[u] # Mls!Idle /\ sync[v] # Mls!Idle => u = v
        /\ OncePerUid(rows)
        /\ \A u \in Request : OncePerUid(sync[u].own) /\ Uids(sync[u].own) \cap Uids(rows) = {}
        /\ ~parted => \A m \in Mls!Mail : sent[m] <= 1 /\ (sent[m] > 0 => Recorded(m, sync, rows))

MailInv ==
    /\ Mls!TypeOK
    /\ \A u \in Request : Keeps(sync[u], rows, Reached)
    /\ covered \subseteq Uids(rows)
    /\ AlertsSent(rows, Reached)
    /\ MailSerial

LEMMA ReachedStays == ASSUME UNCHANGED <<sent, unaddressed>> PROVE Reached' = Reached
    BY DEF Reached

------------------------------------------------------------------------------
(* Sequences of messages and of rows.                                      *)

LEMMA ElementsOfEmpty == Elements(<<>>) = {} /\ Uids(<<>>) = {} /\ OncePerUid(<<>>) /\ \A a : AlertsSent(<<>>, a)
    BY DEF Elements, Uids, OncePerUid, AlertsSent

LEMMA HeadAndTail ==
    ASSUME NEW S, NEW s \in Seq(S), s # <<>>
    PROVE  /\ Head(s) \in S /\ Tail(s) \in Seq(S)
           /\ Elements(s) \subseteq {Head(s)} \cup Elements(Tail(s))
<1>1. /\ Len(s) \in Nat /\ Len(s) > 0 /\ DOMAIN s = 1..Len(s)
      /\ Head(s) = s[1] /\ Tail(s) \in Seq(S) /\ DOMAIN Tail(s) = 1..(Len(s) - 1)
      /\ \A k \in 1..(Len(s) - 1) : Tail(s)[k] = s[k + 1]
    OBVIOUS
<1>2. ASSUME NEW k \in DOMAIN s PROVE s[k] \in {Head(s)} \cup Elements(Tail(s))
    <2>1. CASE k = 1
        BY <1>1, <2>1
    <2>2. CASE k # 1
        <3>1. k - 1 \in 1..(Len(s) - 1) /\ (k - 1) + 1 = k
            BY <1>1, <2>2
        <3>2. s[k] = Tail(s)[k - 1] /\ k - 1 \in DOMAIN Tail(s)
            BY <1>1, <3>1
        <3> QED
            BY <3>2 DEF Elements
    <2> QED
        BY <2>1, <2>2
<1> QED
    BY <1>1, <1>2 DEF Elements

LEMMA RowAdded ==
    ASSUME NEW s \in Seq(Mls!Row), NEW r \in Mls!Row
    PROVE  /\ Append(s, r) \in Seq(Mls!Row)
           /\ Uids(Append(s, r)) = Uids(s) \cup {r.uid}
           /\ OncePerUid(s) /\ r.uid \notin Uids(s) => OncePerUid(Append(s, r))
           /\ \A a : AlertsSent(s, a) /\ (r.alerted => r.uid \in a) => AlertsSent(Append(s, r), a)
<1> DEFINE n == Len(s)
           t == Append(s, r)
<1>1. /\ t \in Seq(Mls!Row) /\ n \in Nat /\ DOMAIN s = 1..n /\ DOMAIN t = 1..(n + 1)
      /\ \A k \in 1..n : t[k] = s[k]
      /\ t[n + 1] = r
    BY AppendTo
<1>2. \A k \in DOMAIN t : k \in 1..n \/ k = n + 1
    BY <1>1, OneMore
<1>3. n + 1 \in DOMAIN t /\ \A k \in 1..n : k \in DOMAIN t
    BY <1>1
<1> HIDE DEF n, t
<1>4. Uids(t) = Uids(s) \cup {r.uid}
    BY <1>1, <1>2, <1>3 DEF Uids
<1>5. OncePerUid(s) /\ r.uid \notin Uids(s) => OncePerUid(t)
    BY <1>1, <1>2 DEF OncePerUid, Uids
<1>6. ASSUME NEW a, AlertsSent(s, a), r.alerted => r.uid \in a PROVE AlertsSent(t, a)
    BY <1>1, <1>2, <1>6 DEF AlertsSent
<1> QED
    BY <1>1, <1>4, <1>5, <1>6 DEF t

LEMMA JoinedRows ==
    ASSUME NEW S, NEW s \in Seq(S), NEW t \in Seq(S)
    PROVE  /\ s \o t \in Seq(S)
           /\ \A k \in DOMAIN s : k \in DOMAIN (s \o t) /\ (s \o t)[k] = s[k]
           /\ \A k \in DOMAIN t : Len(s) + k \in DOMAIN (s \o t) /\ (s \o t)[Len(s) + k] = t[k]
           /\ \A k \in DOMAIN (s \o t) :
                k \in DOMAIN s \/ \E i \in DOMAIN t : k = Len(s) + i
<1>1. /\ s \o t \in Seq(S) /\ Len(s) \in Nat /\ Len(t) \in Nat /\ DOMAIN s = 1..Len(s) /\ DOMAIN t = 1..Len(t)
      /\ DOMAIN (s \o t) = 1..(Len(s) + Len(t))
      /\ \A k \in 1..(Len(s) + Len(t)) : (s \o t)[k] = IF k <= Len(s) THEN s[k] ELSE t[k - Len(s)]
    OBVIOUS
<1> DEFINE n == Len(s)
           l == Len(t)
           j == s \o t
<1>2. ASSUME NEW k \in 1..n PROVE k \in 1..(n + l) /\ k <= n
    BY <1>1
<1>3. ASSUME NEW k \in 1..l PROVE n + k \in 1..(n + l) /\ ~(n + k <= n) /\ (n + k) - n = k
    BY <1>1
<1>4. ASSUME NEW k \in 1..(n + l), k \notin 1..n PROVE k - n \in 1..l /\ k = n + (k - n)
    BY <1>1, <1>4
<1> HIDE DEF n, l, j
<1>5. \A k \in 1..(n + l) : j[k] = IF k <= n THEN s[k] ELSE t[k - n]
    BY <1>1 DEF n, l, j
<1>6. \A k \in 1..n : k \in 1..(n + l) /\ j[k] = s[k]
    BY <1>2, <1>5
<1>7. \A k \in 1..l : n + k \in 1..(n + l) /\ j[n + k] = t[k]
    BY <1>3, <1>5
<1>8. \A k \in 1..(n + l) : k \in 1..n \/ \E i \in 1..l : k = n + i
    BY <1>4
<1> QED
    BY <1>1, <1>6, <1>7, <1>8 DEF n, l, j

LEMMA RowsJoined ==
    ASSUME NEW s \in Seq(Mls!Row), NEW t \in Seq(Mls!Row)
    PROVE  /\ s \o t \in Seq(Mls!Row)
           /\ Uids(s \o t) = Uids(s) \cup Uids(t)
           /\ OncePerUid(s) /\ OncePerUid(t) /\ Uids(t) \cap Uids(s) = {} => OncePerUid(s \o t)
           /\ \A a : AlertsSent(s, a) /\ AlertsSent(t, a) => AlertsSent(s \o t, a)
<1> DEFINE j == s \o t
           n == Len(s)
<1>1. /\ j \in Seq(Mls!Row)
      /\ \A k \in DOMAIN s : k \in DOMAIN j /\ j[k] = s[k]
      /\ \A k \in DOMAIN t : n + k \in DOMAIN j /\ j[n + k] = t[k]
      /\ \A k \in DOMAIN j : k \in DOMAIN s \/ \E i \in DOMAIN t : k = n + i
    BY JoinedRows
<1> HIDE DEF j, n
<1>2. Uids(j) = Uids(s) \cup Uids(t)
    BY <1>1 DEF Uids
<1>3. ASSUME OncePerUid(s), OncePerUid(t), Uids(t) \cap Uids(s) = {} PROVE OncePerUid(j)
    <2> SUFFICES ASSUME NEW a \in DOMAIN j, NEW b \in DOMAIN j, j[a].uid = j[b].uid PROVE a = b
        BY DEF OncePerUid
    <2>1. CASE a \in DOMAIN s /\ b \in DOMAIN s
        BY <1>1, <1>3, <2>1 DEF OncePerUid
    <2>2. ASSUME NEW c \in DOMAIN t, NEW d \in DOMAIN t, a = n + c, b = n + d PROVE a = b
        BY <1>1, <1>3, <2>2 DEF OncePerUid
    <2>3. ASSUME NEW c \in DOMAIN s, NEW d \in DOMAIN t, j[c].uid = j[n + d].uid PROVE FALSE
        <3>1. s[c].uid \in Uids(s) /\ t[d].uid \in Uids(t)
            BY DEF Uids
        <3>2. s[c].uid = t[d].uid
            BY <1>1, <2>3
        <3> QED
            BY <1>3, <3>1, <3>2
    <2> QED
        BY <1>1, <2>1, <2>2, <2>3
<1>4. ASSUME NEW a, AlertsSent(s, a), AlertsSent(t, a) PROVE AlertsSent(j, a)
    BY <1>1, <1>4 DEF AlertsSent
<1> QED
    BY <1>1, <1>2, <1>3, <1>4 DEF j

LEMMA CardinalityIs == ASSUME NEW S PROVE Mls!Cardinality(S) = Cardinality(S)
    BY DEF Mls!Cardinality, Cardinality

\* What a transaction sees of a message: nothing, or a row of its own or a
\* committed one.
LEMMA SeesRows ==
    ASSUME Mls!TypeOK, NEW u \in Request, NEW m
    PROVE  /\ Mls!Existing(u, m) \in Nat
           /\ Mls!Existing(u, m) = 0 => m \notin Uids(rows) /\ m \notin Uids(sync[u].own)
           /\ Mls!Existing(u, m) # 0 => m \in Uids(rows) \cup Uids(sync[u].own)
<1> DEFINE A == {k \in DOMAIN rows : rows[k].uid = m}
           B == {k \in DOMAIN sync[u].own : sync[u].own[k].uid = m}
<1>1. ASSUME NEW s \in Seq(Mls!Row)
      PROVE  LET C == {k \in DOMAIN s : s[k].uid = m} IN
             /\ Cardinality(C) \in Nat
             /\ Cardinality(C) = 0 => m \notin Uids(s)
             /\ Cardinality(C) # 0 => m \in Uids(s)
    <2> DEFINE C == {k \in DOMAIN s : s[k].uid = m}
    <2>1. DOMAIN s = 1..Len(s) /\ Len(s) \in Nat
        OBVIOUS
    <2>2. IsFiniteSet(1..Len(s))
        BY <2>1, FS_Interval
    <2>3. C \subseteq 1..Len(s)
        BY <2>1
    <2>4. IsFiniteSet(C)
        <3> HIDE DEF C
        <3> QED
            BY <2>2, <2>3, FS_Subset
    <2>5. Cardinality(C) \in Nat /\ (Cardinality(C) = 0 <=> C = {})
        <3> HIDE DEF C
        <3> QED
            BY <2>4, FS_CardinalityType, FS_EmptySet
    <2>6. C = {} <=> m \notin Uids(s)
        BY DEF Uids
    <2> HIDE DEF C
    <2>7. /\ Cardinality(C) \in Nat
          /\ Cardinality(C) = 0 => m \notin Uids(s)
          /\ Cardinality(C) # 0 => m \in Uids(s)
        BY <2>5, <2>6
    <2> QED
        BY <2>7 DEF C
<1>2. rows \in Seq(Mls!Row) /\ sync[u].own \in Seq(Mls!Row)
    BY DEF Mls!TypeOK
<1>3. Mls!Existing(u, m) = Cardinality(A) + Cardinality(B)
    BY CardinalityIs DEF Mls!Existing
<1>4. Cardinality(A) \in Nat /\ (Cardinality(A) = 0 => m \notin Uids(rows)) /\ (Cardinality(A) # 0 => m \in Uids(rows))
    BY <1>1, <1>2
<1>5. /\ Cardinality(B) \in Nat /\ (Cardinality(B) = 0 => m \notin Uids(sync[u].own))
      /\ Cardinality(B) # 0 => m \in Uids(sync[u].own)
    BY <1>1, <1>2
<1> HIDE DEF A, B
<1> DEFINE a == Cardinality(A)
           b == Cardinality(B)
<1> HIDE DEF a, b
<1>6. a \in Nat /\ b \in Nat => a + b \in Nat /\ (a + b = 0 => a = 0 /\ b = 0) /\ (a + b # 0 => a # 0 \/ b # 0)
    OBVIOUS
<1>7. a = Cardinality(A) /\ b = Cardinality(B)
    BY DEF a, b
<1> QED
    BY <1>3, <1>4, <1>5, <1>6, <1>7

------------------------------------------------------------------------------
(* The steps.                                                              *)

LEMMA IdleIs ==
    /\ Mls!Idle \in MailRequest
    /\ Mls!Idle.pc = "idle" /\ Mls!Idle.todo = <<>> /\ Mls!Idle.own = <<>> /\ Mls!Idle.error = FALSE
    /\ Uids(Mls!Idle.own) = {} /\ OncePerUid(Mls!Idle.own)
    /\ \A stored, a : Keeps(Mls!Idle, stored, a)
<1>1. /\ Mls!Idle.pc = "idle" /\ Mls!Idle.todo = <<>> /\ Mls!Idle.fetched = {} /\ Mls!Idle.own = <<>>
      /\ Mls!Idle.error = FALSE
    BY DEF Mls!Idle
<1>2. <<>> \in Seq(Mls!Mail) /\ <<>> \in Seq(Mls!Row) /\ FALSE \in BOOLEAN
    OBVIOUS
<1>3. Mls!Idle \in MailRequest
    BY <1>2 DEF Mls!Idle, Mls!Rule, MailRequest
<1> QED
    BY <1>1, <1>3, ElementsOfEmpty DEF Keeps

LEMMA MailTypes ==
    ASSUME Mls!TypeOK
    PROVE  /\ sync \in [Request -> MailRequest] /\ rows \in Seq(Mls!Row)
           /\ \A u \in Request :
                /\ sync[u] \in MailRequest /\ sync[u].todo \in Seq(Mls!Mail) /\ sync[u].own \in Seq(Mls!Row)
                /\ sync[u].fetched \subseteq Mls!Mail
           /\ sent \in [Mls!Mail -> Nat] /\ \A m \in Mls!Mail : sent[m] \in Nat
<1>1. sync \in [Request -> MailRequest] /\ rows \in Seq(Mls!Row) /\ sent \in [Mls!Mail -> Nat]
    BY DEF Mls!TypeOK, MailRequest
<1>2. \A u \in Request : sync[u] \in MailRequest
    BY <1>1
<1>3. \A q \in MailRequest : q.todo \in Seq(Mls!Mail) /\ q.own \in Seq(Mls!Row) /\ q.fetched \subseteq Mls!Mail
    BY DEF MailRequest
<1> QED
    BY <1>1, <1>2, <1>3

LEMMA MailInit == Mls!Init => MailInv
<1> SUFFICES ASSUME Mls!Init PROVE MailInv
    OBVIOUS
<1>1. /\ rows = <<>> /\ rows \in Seq(Mls!Row) /\ covered = {} /\ unaddressed = {} /\ rule \in Mls!Rule
      /\ \A u \in Request : sync[u] = Mls!Idle
      /\ \A m \in Mls!Mail : sent[m] = 0
    BY DEF Mls!Init, Mls!Rule
<1>2. sync \in [Request -> MailRequest] /\ sent \in [Mls!Mail -> Nat]
    BY IdleIs DEF Mls!Init
<1>3. arrived \in 0..MaxMail /\ failures \in 0..MaxFailure
    BY CountsAssumption DEF Mls!Init, CountsAssumption
<1>4. parted = FALSE /\ crossed = FALSE
    BY DEF Mls!Init
<1>5. parted \in BOOLEAN /\ crossed \in BOOLEAN
    BY <1>4
<1>6. Mls!TypeOK
    BY <1>1, <1>2, <1>3, <1>5 DEF Mls!TypeOK, MailRequest
<1>7. MailSerial
    BY <1>1, IdleIs, ElementsOfEmpty DEF MailSerial
<1> QED
    BY <1>1, <1>6, <1>7, IdleIs, ElementsOfEmpty DEF MailInv

\* A step of one synchronisation, which goes on as r and stores nothing.
LEMMA MailGoesOn ==
    ASSUME MailInv, NEW u \in Request, NEW r \in MailRequest,
           sync[u] # Mls!Idle, r.own = sync[u].own, Keeps(r, rows, Reached),
           sync' = [sync EXCEPT ![u] = r], failures' \in 0..MaxFailure,
           UNCHANGED <<arrived, rule, rows, sent, unaddressed, covered, parted, crossed>>
    PROVE  MailInv'
<1>1. /\ \A v \in Request : sync'[v] = IF v = u THEN r ELSE sync[v]
      /\ sync' \in [Request -> MailRequest]
    BY MailTypes DEF MailInv
<1>2. Mls!TypeOK'
    BY <1>1 DEF MailInv, Mls!TypeOK, MailRequest
<1>3. \A v \in Request : sync'[v].own = sync[v].own
    BY <1>1
<1>4. \A m : Recorded(m, sync, rows) => Recorded(m, sync', rows)
    BY <1>3 DEF Recorded
<1>5. MailSerial'
    BY <1>1, <1>3, <1>4 DEF MailInv, MailSerial
<1> QED
    BY <1>1, <1>2, <1>5, ReachedStays DEF MailInv

LEMMA MailBegins == ASSUME MailInv, NEW u \in Request, Mls!SyncBegin(u) PROVE MailInv'
<1> DEFINE r == [Mls!Idle EXCEPT !.pc = "fetch", !.rule = rule]
<1>1. /\ sync[u] = Mls!Idle
      /\ crossed' = (crossed \/ \E v \in Request : sync[v] # Mls!Idle)
      /\ UNCHANGED <<arrived, rule, rows, sent, failures, unaddressed, covered, parted>>
    BY DEF Mls!SyncBegin
<1>2. sync' = [sync EXCEPT ![u] = r]
    BY <1>1, MailTypes DEF Mls!SyncBegin, MailInv
<1>3. /\ r \in MailRequest /\ r.own = Mls!Idle.own /\ r.todo = Mls!Idle.todo
      /\ r.fetched = Mls!Idle.fetched /\ r.error = Mls!Idle.error /\ r.pc = "fetch"
    BY IdleIs DEF MailRequest, MailInv, Mls!TypeOK
<1> HIDE DEF r
<1>4. Keeps(r, rows, Reached)
    BY <1>3, IdleIs DEF Keeps
<1>5. /\ \A v \in Request : sync'[v] = IF v = u THEN r ELSE sync[v]
      /\ sync' \in [Request -> MailRequest]
    BY <1>2, <1>3, MailTypes DEF MailInv
<1>6. crossed' \in BOOLEAN
    BY <1>1
<1>7. Mls!TypeOK'
    BY <1>1, <1>5, <1>6 DEF MailInv, Mls!TypeOK, MailRequest
<1>8. \A v \in Request : sync'[v].own = sync[v].own
    BY <1>1, <1>3, <1>5
<1>9. \A m : Recorded(m, sync, rows) => Recorded(m, sync', rows)
    BY <1>8 DEF Recorded
<1>10. MailSerial'
    BY <1>1, <1>5, <1>8, <1>9 DEF MailInv, MailSerial
<1> QED
    BY <1>1, <1>4, <1>5, <1>7, <1>10, ReachedStays DEF MailInv

LEMMA RecentIs ==
    ASSUME Mls!TypeOK
    PROVE  Mls!Recent \in Seq(Mls!Mail) /\ {Mls!Recent[k] : k \in DOMAIN Mls!Recent} = Elements(Mls!Recent)
<1> DEFINE n == IF arrived < MaxMessages THEN arrived ELSE MaxMessages
<1>1. arrived \in Nat /\ arrived <= MaxMail /\ n \in Nat /\ n <= arrived /\ MaxMail \in Nat
    BY CountsAssumption DEF CountsAssumption, Mls!TypeOK
<1>2. Mls!Recent = [k \in 1..n |-> arrived - k + 1]
    BY DEF Mls!Recent
<1>3. ASSUME NEW k \in 1..n PROVE arrived - k + 1 \in 1..MaxMail
    <2> HIDE DEF n
    <2> QED
        BY <1>1, <1>3
<1>4. Mls!Recent \in Seq(Mls!Mail)
    <2> HIDE DEF n
    <2>1. Mls!Recent \in [1..n -> Mls!Mail]
        BY <1>2, <1>3 DEF Mls!Mail
    <2> QED
        BY <1>1, <2>1
<1> QED
    BY <1>4 DEF Elements

LEMMA MailFetches == ASSUME MailInv, NEW u \in Request, Mls!Fetch(u) \/ Mls!FetchFails(u) PROVE MailInv'
<1> DEFINE q == sync[u]
<1>1. /\ q.pc = "fetch" /\ q # Mls!Idle /\ q \in MailRequest
      /\ UNCHANGED <<arrived, rule, rows, sent, unaddressed, covered, parted, crossed>>
    BY MailTypes, IdleIs DEF MailInv, Mls!Fetch, Mls!FetchFails
<1>2. Keeps(q, rows, Reached)
    BY DEF MailInv
<1>3. CASE Mls!Fetch(u)
    <2> DEFINE list == Mls!Recent
               all == {list[k] : k \in DOMAIN list}
               r == [q EXCEPT !.pc = "loop", !.todo = list, !.fetched = all]
    <2>1. sync' = [sync EXCEPT ![u] = r] /\ UNCHANGED failures
        BY <1>3, MailTypes DEF Mls!Fetch, MailInv
    <2>2. list \in Seq(Mls!Mail) /\ all = Elements(list)
        BY RecentIs DEF MailInv
    <2> HIDE DEF list
    <2>3. all \subseteq Mls!Mail
        BY <2>2
    <2> HIDE DEF all
    <2>4. /\ r \in MailRequest /\ r.own = q.own /\ r.pc = "loop" /\ r.todo = list /\ r.fetched = all
        BY <1>1, <2>2, <2>3 DEF MailRequest
    <2> HIDE DEF r
    <2>5. Keeps(r, rows, Reached)
        BY <1>2, <2>2, <2>4 DEF Keeps
    <2>6. failures' \in 0..MaxFailure
        BY <2>1 DEF MailInv, Mls!TypeOK
    <2> QED
        BY <1>1, <2>1, <2>4, <2>5, <2>6, MailGoesOn
<1>4. CASE Mls!FetchFails(u)
    <2> DEFINE r == [q EXCEPT !.pc = "commit", !.error = TRUE]
    <2>1. sync' = [sync EXCEPT ![u] = r] /\ failures < MaxFailure /\ failures' = failures + 1
        BY <1>4, MailTypes DEF Mls!FetchFails, MailInv
    <2>2. r \in MailRequest /\ r.own = q.own /\ r.pc = "commit" /\ r.error = TRUE /\ r.todo = q.todo
        BY <1>1 DEF MailRequest
    <2> HIDE DEF r
    <2>3. Keeps(r, rows, Reached)
        BY <1>1, <1>2, <2>2 DEF Keeps
    <2>4. failures' \in 0..MaxFailure
        BY <2>1, CountsAssumption DEF CountsAssumption, MailInv, Mls!TypeOK
    <2> QED
        BY <1>1, <2>1, <2>2, <2>3, <2>4, MailGoesOn
<1> QED
    BY <1>3, <1>4

\* The loop passes a message that is there, or ends.
LEMMA MailPasses ==
    ASSUME MailInv, NEW u \in Request, Mls!Skip(u) \/ Mls!Stuck(u) \/ Mls!LoopEnds(u)
    PROVE  MailInv'
<1> DEFINE q == sync[u]
<1>1. /\ q.pc = "loop" /\ q # Mls!Idle /\ q \in MailRequest /\ q.todo \in Seq(Mls!Mail)
      /\ UNCHANGED <<arrived, rule, rows, sent, failures, unaddressed, covered, parted, crossed>>
    BY MailTypes, IdleIs DEF MailInv, Mls!Skip, Mls!Stuck, Mls!LoopEnds, Mls!At
<1>2. Keeps(q, rows, Reached) /\ failures' \in 0..MaxFailure
    BY <1>1 DEF MailInv, Mls!TypeOK
<1>3. CASE Mls!Skip(u)
    <2> DEFINE r == [q EXCEPT !.todo = Tail(q.todo)]
    <2>1. sync' = [sync EXCEPT ![u] = r] /\ q.todo # <<>> /\ Mls!Existing(u, Head(q.todo)) = 1
        BY <1>3, MailTypes DEF Mls!Skip, Mls!At, Mls!Message, MailInv
    <2>2. Tail(q.todo) \in Seq(Mls!Mail) /\ Elements(q.todo) \subseteq {Head(q.todo)} \cup Elements(Tail(q.todo))
        BY <1>1, <2>1, HeadAndTail
    <2>3. Head(q.todo) \in Uids(rows) \cup Uids(q.own)
        BY <2>1, SeesRows DEF MailInv
    <2>4. /\ r \in MailRequest /\ r.own = q.own /\ r.pc = "loop" /\ r.todo = Tail(q.todo)
          /\ r.fetched = q.fetched /\ r.error = q.error
        BY <1>1, <2>2 DEF MailRequest
    <2> HIDE DEF r
    <2>5. Keeps(r, rows, Reached)
        BY <1>2, <2>2, <2>3, <2>4 DEF Keeps
    <2> QED
        BY <1>1, <1>2, <2>1, <2>4, <2>5, MailGoesOn
<1>4. CASE Mls!Stuck(u)
    <2> DEFINE r == [q EXCEPT !.todo = <<>>, !.pc = "commit", !.error = TRUE]
    <2>1. sync' = [sync EXCEPT ![u] = r]
        BY <1>4, MailTypes DEF Mls!Stuck, MailInv
    <2>2. <<>> \in Seq(Mls!Mail)
        OBVIOUS
    <2>3. r \in MailRequest /\ r.own = q.own /\ r.todo = <<>> /\ r.error = TRUE
        BY <1>1, <2>2 DEF MailRequest
    <2> HIDE DEF r
    <2>4. Keeps(r, rows, Reached)
        BY <1>2, <2>3 DEF Keeps
    <2> QED
        BY <1>1, <1>2, <2>1, <2>3, <2>4, MailGoesOn
<1>5. CASE Mls!LoopEnds(u)
    <2> DEFINE r == [q EXCEPT !.pc = "commit"]
    <2>1. sync' = [sync EXCEPT ![u] = r] /\ q.todo = <<>>
        BY <1>5, MailTypes DEF Mls!LoopEnds, MailInv
    <2>2. /\ r \in MailRequest /\ r.own = q.own /\ r.todo = q.todo /\ r.fetched = q.fetched /\ r.error = q.error
        BY <1>1 DEF MailRequest
    <2> HIDE DEF r
    <2>3. Keeps(r, rows, Reached)
        BY <1>2, <2>1, <2>2 DEF Keeps
    <2> QED
        BY <1>1, <1>2, <2>1, <2>2, <2>3, MailGoesOn
<1> QED
    BY <1>3, <1>4, <1>5

\* A message that nobody has stored, as far as the transaction sees, is stored.
LEMMA MailStores ==
    ASSUME MailInv, NEW u \in Request, NEW ok \in BOOLEAN, NEW went \in BOOLEAN,
           Mls!At(u), Mls!Existing(u, Mls!Message(u)) = 0, Mls!Stores(u, ok, went),
           unaddressed' = unaddressed \/ unaddressed' = unaddressed \cup {Mls!Message(u)},
           ok => went \/ Mls!Message(u) \in unaddressed',
           failures' \in 0..MaxFailure, UNCHANGED <<arrived, rule, rows, covered, parted, crossed>>
    PROVE  MailInv'
<1> DEFINE q == sync[u]
           m == Head(q.todo)
           row == [uid |-> m, alerted |-> ok]
           own == Append(q.own, row)
           r == [q EXCEPT !.todo = Tail(q.todo), !.own = own]
<1>1. /\ q.pc = "loop" /\ q.todo # <<>> /\ q # Mls!Idle
      /\ q \in MailRequest /\ q.todo \in Seq(Mls!Mail) /\ q.own \in Seq(Mls!Row)
      /\ Keeps(q, rows, Reached)
    BY MailTypes, IdleIs DEF MailInv, Mls!At
<1>2. /\ sync' = [sync EXCEPT ![u] = r]
      /\ sent' = IF went THEN [sent EXCEPT ![m] = sent[m] + 1] ELSE sent
      /\ unaddressed \subseteq unaddressed' /\ unaddressed' \subseteq unaddressed \cup {m}
      /\ ok => went \/ m \in unaddressed'
    BY MailTypes DEF Mls!Stores, Mls!Sent, Mls!Message, MailInv
<1>3. /\ m \in Mls!Mail /\ Tail(q.todo) \in Seq(Mls!Mail)
      /\ Elements(q.todo) \subseteq {m} \cup Elements(Tail(q.todo))
    BY <1>1, HeadAndTail
<1>4. m \notin Uids(rows) /\ m \notin Uids(q.own)
    BY SeesRows DEF MailInv, Mls!Message
<1> HIDE DEF m
<1>5. row \in Mls!Row /\ row.uid = m /\ row.alerted = ok
    BY <1>3 DEF Mls!Row
<1> HIDE DEF row
<1>6. /\ own \in Seq(Mls!Row)
      /\ Uids(own) = Uids(q.own) \cup {m}
      /\ OncePerUid(q.own) => OncePerUid(own)
      /\ \A a : AlertsSent(q.own, a) /\ (ok => m \in a) => AlertsSent(own, a)
    BY <1>1, <1>4, <1>5, RowAdded
<1> HIDE DEF own
<1>7. /\ sent' \in [Mls!Mail -> Nat] /\ (\A n \in Mls!Mail : sent[n] > 0 => sent'[n] > 0) /\ (went => sent'[m] > 0)
      /\ \A n \in Mls!Mail : n # m => sent'[n] = sent[n]
      /\ sent[m] = 0 => sent'[m] <= 1
    <2>1. sent \in [Mls!Mail -> Nat] /\ \A n \in Mls!Mail : sent[n] \in Nat
        BY MailTypes DEF MailInv
    <2>2. CASE went
        <3>1. sent' = [sent EXCEPT ![m] = sent[m] + 1]
            BY <1>2, <2>2
        <3> QED
            BY <1>3, <2>1, <3>1
    <2>3. CASE ~went
        <3>1. sent' = sent
            BY <1>2, <2>3
        <3> QED
            BY <1>3, <2>1, <2>3, <3>1
    <2> QED
        BY <2>2, <2>3
<1>8. Reached \subseteq Reached' /\ (ok => m \in Reached')
    BY <1>2, <1>3, <1>7 DEF Reached
<1>9. /\ r \in MailRequest /\ r.pc = q.pc /\ r.todo = Tail(q.todo) /\ r.own = own
      /\ r.fetched = q.fetched /\ r.error = q.error
    BY <1>1, <1>3, <1>6 DEF MailRequest
<1> HIDE DEF r
<1>10. Keeps(r, rows, Reached')
    <2>1. AlertsSent(own, Reached')
        BY <1>1, <1>6, <1>8 DEF Keeps, AlertsSent
    <2> QED
        BY <1>1, <1>3, <1>6, <1>9, <2>1 DEF Keeps
<1>11. /\ \A v \in Request : sync'[v] = IF v = u THEN r ELSE sync[v]
       /\ sync' \in [Request -> MailRequest]
    BY <1>2, <1>9, MailTypes DEF MailInv
<1>12. Mls!TypeOK'
    BY <1>2, <1>3, <1>7, <1>11 DEF MailInv, Mls!TypeOK, MailRequest
<1>13. \A v \in Request : Keeps(sync'[v], rows, Reached')
    <2>1. ASSUME NEW v \in Request PROVE Keeps(sync[v], rows, Reached')
        <3>1. Keeps(sync[v], rows, Reached)
            BY DEF MailInv
        <3> QED
            BY <1>8, <3>1 DEF Keeps, AlertsSent
    <2> QED
        BY <1>10, <1>11, <2>1
<1>14. AlertsSent(rows, Reached')
    BY <1>8 DEF MailInv, AlertsSent
<1>15. MailSerial'
    <2> SUFFICES ASSUME ~crossed PROVE MailSerial'
        BY DEF MailSerial
    <2>1. \A v \in Request : v # u => sync[v] = Mls!Idle /\ sync'[v] = Mls!Idle
        BY <1>1, <1>11 DEF MailInv, MailSerial
    <2>2. \A v \in Request : OncePerUid(sync'[v].own) /\ Uids(sync'[v].own) \cap Uids(rows) = {}
        BY <1>4, <1>6, <1>9, <1>11 DEF MailInv, MailSerial
    <2>3. ASSUME ~parted, NEW n \in Mls!Mail PROVE sent'[n] <= 1 /\ (sent'[n] > 0 => Recorded(n, sync', rows))
        <3>1. sent[n] <= 1 /\ (sent[n] > 0 => Recorded(n, sync, rows)) /\ sent[n] \in Nat
            BY <2>3, MailTypes DEF MailInv, MailSerial
        <3>2. Recorded(n, sync, rows) => Recorded(n, sync', rows)
            BY <1>6, <1>9, <1>11 DEF Recorded
        <3>3. CASE n # m
            BY <1>7, <3>1, <3>2, <3>3
        <3>4. CASE n = m
            <4>1. ~Recorded(m, sync, rows)
                BY <1>4, <2>1, IdleIs DEF Recorded
            <4>2. Recorded(m, sync', rows)
                BY <1>6, <1>9, <1>11 DEF Recorded
            <4> QED
                BY <1>7, <3>1, <3>4, <4>1, <4>2
        <3> QED
            BY <3>3, <3>4
    <2>4. \A v, w \in Request : sync'[v] # Mls!Idle /\ sync'[w] # Mls!Idle => v = w
        BY <2>1
    <2> QED
        BY <2>2, <2>3, <2>4 DEF MailInv, MailSerial
<1> QED
    BY <1>12, <1>13, <1>14, <1>15 DEF MailInv

LEMMA MailStored == ASSUME MailInv, NEW u \in Request, Mls!Store(u) \/ Mls!StoreUnsent(u) \/ Mls!StoreSilently(u)
      PROVE MailInv'
<1>1. CASE Mls!Store(u)
    <2>1. failures' \in 0..MaxFailure
        BY <1>1 DEF Mls!Store, MailInv, Mls!TypeOK
    <2> QED
        BY <1>1, <2>1, MailStores DEF Mls!Store
<1>2. CASE Mls!StoreUnsent(u)
    <2>1. failures' \in 0..MaxFailure
        BY <1>2, CountsAssumption DEF Mls!StoreUnsent, MailInv, Mls!TypeOK, CountsAssumption
    <2> QED
        BY <1>2, <2>1, MailStores DEF Mls!StoreUnsent
<1>3. CASE Mls!StoreSilently(u)
    <2>1. failures' \in 0..MaxFailure
        BY <1>3 DEF Mls!StoreSilently, MailInv, Mls!TypeOK
    <2> QED
        BY <1>3, <2>1, MailStores DEF Mls!StoreSilently
<1> QED
    BY <1>1, <1>2, <1>3

LEMMA MailCommits == ASSUME MailInv, NEW u \in Request, Mls!Commit(u) PROVE MailInv'
<1> DEFINE q == sync[u]
           all == rows \o q.own
<1>1. /\ q.pc = "commit" /\ q # Mls!Idle /\ q.own \in Seq(Mls!Row) /\ q.fetched \subseteq Mls!Mail
      /\ rows \in Seq(Mls!Row) /\ Keeps(q, rows, Reached)
    BY MailTypes, IdleIs DEF MailInv, Mls!Commit
<1>2. /\ rows' = all /\ sync' = [sync EXCEPT ![u] = Mls!Idle]
      /\ covered' = IF q.error THEN covered ELSE covered \cup q.fetched
      /\ UNCHANGED <<arrived, rule, sent, failures, unaddressed, parted, crossed>>
    BY DEF Mls!Commit
<1>3. /\ all \in Seq(Mls!Row) /\ Uids(all) = Uids(rows) \cup Uids(q.own)
      /\ OncePerUid(rows) /\ OncePerUid(q.own) /\ Uids(q.own) \cap Uids(rows) = {} => OncePerUid(all)
      /\ AlertsSent(rows, Reached) /\ AlertsSent(q.own, Reached) => AlertsSent(all, Reached)
    BY <1>1, RowsJoined
<1> HIDE DEF all
<1>4. /\ \A v \in Request : sync'[v] = IF v = u THEN Mls!Idle ELSE sync[v]
      /\ sync' \in [Request -> MailRequest]
    BY <1>2, IdleIs, MailTypes DEF MailInv
<1>5. covered' \subseteq Mls!Mail /\ covered' \subseteq Uids(all)
    BY <1>1, <1>2, <1>3, ElementsOfEmpty DEF MailInv, Mls!TypeOK, Keeps
<1>6. Mls!TypeOK'
    BY <1>2, <1>3, <1>4, <1>5 DEF MailInv, Mls!TypeOK, MailRequest
<1>7. \A v \in Request : Keeps(sync'[v], all, Reached)
    <2>1. ASSUME NEW v \in Request PROVE Keeps(sync[v], all, Reached)
        <3>1. Keeps(sync[v], rows, Reached)
            BY DEF MailInv
        <3> QED
            BY <1>3, <3>1 DEF Keeps
    <2> QED
        BY <1>4, <2>1, IdleIs
<1>8. AlertsSent(all, Reached)
    BY <1>1, <1>3 DEF MailInv, Keeps
<1>9. MailSerial'
    <2> SUFFICES ASSUME ~crossed PROVE MailSerial'
        BY <1>2 DEF MailSerial
    <2>1. \A v \in Request : sync'[v] = Mls!Idle
        BY <1>1, <1>4 DEF MailInv, MailSerial
    <2>2. OncePerUid(all)
        BY <1>3 DEF MailInv, MailSerial
    <2>3. ASSUME NEW m, Recorded(m, sync, rows) PROVE Recorded(m, sync', all)
        <3>1. \A v \in Request : v # u => sync[v] = Mls!Idle
            BY <1>1 DEF MailInv, MailSerial
        <3> QED
            BY <1>3, <2>3, <3>1, IdleIs DEF Recorded
    <2> QED
        BY <1>2, <2>1, <2>2, <2>3, IdleIs DEF MailInv, MailSerial
<1> QED
    BY <1>2, <1>5, <1>6, <1>7, <1>8, <1>9, ReachedStays DEF MailInv

LEMMA MailFails == ASSUME MailInv, NEW u \in Request, Mls!Fails(u) PROVE MailInv'
<1>1. /\ sync' = [sync EXCEPT ![u] = Mls!Idle] /\ parted' = TRUE /\ failures < MaxFailure /\ failures' = failures + 1
      /\ UNCHANGED <<arrived, rule, rows, sent, unaddressed, covered, crossed>>
    BY DEF Mls!Fails
<1>2. /\ \A v \in Request : sync'[v] = IF v = u THEN Mls!Idle ELSE sync[v]
      /\ sync' \in [Request -> MailRequest]
    BY <1>1, IdleIs, MailTypes DEF MailInv
<1>3. failures' \in 0..MaxFailure
    BY <1>1, CountsAssumption DEF MailInv, Mls!TypeOK, CountsAssumption
<1>4. parted' \in BOOLEAN
    BY <1>1
<1>5. Mls!TypeOK'
    BY <1>1, <1>2, <1>3, <1>4 DEF MailInv, Mls!TypeOK, MailRequest
<1>6. MailSerial'
    BY <1>1, <1>2, IdleIs DEF MailInv, MailSerial
<1> QED
    BY <1>1, <1>2, <1>5, <1>6, IdleIs, ReachedStays DEF MailInv

LEMMA MailStep ==
    ASSUME MailInv, Mls!Next \/ UNCHANGED mail
    PROVE  MailInv'
<1>1. CASE UNCHANGED mail \/ Mls!Arrive \/ Mls!EditRule
    <2>1. UNCHANGED <<rows, sync, sent, failures, unaddressed, covered, parted, crossed>>
        BY <1>1 DEF mail, Mls!Arrive, Mls!EditRule
    <2>2. arrived' \in 0..MaxMail /\ rule' \in Mls!Rule
        BY <1>1, CountsAssumption DEF mail, Mls!Arrive, Mls!EditRule, MailInv, Mls!TypeOK, CountsAssumption
    <2> QED
        BY <2>1, <2>2, ReachedStays DEF MailInv, Mls!TypeOK, MailSerial
<1>2. CASE Mls!Next /\ ~Mls!Arrive /\ ~Mls!EditRule
    BY <1>2, MailBegins, MailFetches, MailPasses, MailStored, MailCommits, MailFails DEF Mls!Next
<1> QED
    BY <1>1, <1>2

LEMMA MailOnce == MailInv => MailIsKept
<1> SUFFICES ASSUME MailInv PROVE MailIsKept
    OBVIOUS
<1>1. Mls!NothingIsSkipped
    BY DEF MailInv, AlertsSent, Reached, Uids, Mls!NothingIsSkipped
<1>2. Mls!StoredOnce
    BY DEF MailInv, MailSerial, OncePerUid, Mls!StoredOnce
<1>3. Mls!AlertedOnce
    BY DEF MailInv, MailSerial, Mls!AlertedOnce
<1> QED
    BY <1>1, <1>2, <1>3 DEF MailInv, MailIsKept, Mls!MailIsKept

\* However synchronisations of an account overlap and fail, what one without
\* error has fetched is stored, and what is recorded as alerted was sent to a
\* target or had none; while none overlap a message is stored once and, while none fails after its alerts,
\* alerted once.
THEOREM MailIsKeptHolds == MCSpec => []MailIsKept
<1>1. MCInit => MailInv
    BY MailInit DEF MCInit
<1>2. MailInv /\ [MCNext]_<<area, vars, settle, mail>> => MailInv'
    BY MailStep DEF MCNext
<1> QED
    BY <1>1, <1>2, MailOnce, PTL DEF MCSpec

\* A behaviour of the group is one of a quote, and has the properties that are
\* proved of it.
THEOREM GroupImplements == MCSpec => Spec
<1>1. MCInit => Init
    BY DEF MCInit
<1>2. [MCNext]_<<area, vars, settle, mail>> => [Next]_vars
    BY DEF MCNext
<1> QED
    BY <1>1, <1>2, PTL DEF MCSpec, Spec
=============================================================================
