SPECIFICATION MCSpec
CONSTANTS
  Request = {r1, r2}
  MaxCustomer = 2
  MaxSubscription = 1
  MaxPayment = 2
  Pin = {1, 2}
  PIN_MAX_ATTEMPTS = 2
  PIN_LOCKOUT = 2
  MaxTime = 4
  MaxWrong = 3
  MaxMoment = 4
  Day <- ThreeMomentsThenOne
  Nobody = Nobody
  MaxDate = 5
  Feast = {1, 5}
  Month = {m1, m2}
  MaxAttachment = 2
  MaxDocument = 3
  Manifests <- EveryMonthOnce
  Email = {1}
  MaxRole = 3
  Cpf = {1, 2}
  Staff = {1}
  Pushes = {{1}}
  Files <- RowThatFailsFirst
  MaxEmployee = 2
  MaxClock = 2
  MaxVersion = 3
  Name = {1, 2}
  Part = {"kpis"}
  TTL_METRICS = 1
  TTL_PART <- TwiceTheMetrics
  MaxDelay = 1
  Person = {1, 2}
  MaxSave = 3
  MaxContact = 2
  MaxContract = 2
SYMMETRY Symmetry
CONSTRAINT StillClaimed
INVARIANT TypeOK
INVARIANT SuspendedIsBlocked
INVARIANT GraceIsCounted
INVARIANT NothingUnlinked
INVARIANT PortalIsCoherent
INVARIANT RecordsAreCoherent
PROPERTY OverdueCountsOnce
PROPERTY CanceledIsNotDunned
CHECK_DEADLOCK FALSE
