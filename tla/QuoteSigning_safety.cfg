SPECIFICATION MCSpec
CONSTANTS
  Request = {r1, r2}
  OtpMaxAttempts = 1
  MaxContent = 1
  MaxEnvelope = 2
  Amount = {1, 2}
  MaxInvoice = 2
  MaxPaid = 2
  MaxEdited = 1
  MaxMessages = 2
  MaxMail = 2
  MaxFailure = 1
SYMMETRY Symmetry
INVARIANT TypeOK
INVARIANT InvoicesAreSettled
INVARIANT MailIsKept
INVARIANT OneSale
INVARIANT AcceptedHasSale
INVARIANT SaleMeansAccepted
INVARIANT SoldAsSigned
PROPERTY DecisionIsFinal
CHECK_DEADLOCK FALSE
