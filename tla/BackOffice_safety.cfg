SPECIFICATION MCSpec
CONSTANTS
  a1 = a1
  a2 = a2
  d1 = d1
  d2 = d2
  e1 = e1
  Users = {u1, u2}
  Quantity = {1, 2}
  Opening <- Openings
  MaxMovement = 3
  Participant = {p1, p2}
  MaxReplace = 3
  Plan = {p1, p2}
  Recurrence = {1, 2}
  MaxOrder = 2
  Label = {i1, i2}
  ItemLists = {{i1}, {i2}}
  Every = {1}
  Kept = Kept
  MaxVersion = 2
  MaxExecution = 2
  MaxDay = 1
  PageSize = 1
  MaxRow = 3
  MaxTime = 4
  Tab = {1, 2}
  KindsOf <- TwoTabs
  Approver <- Approvers
  Decider <- Deciders
  Editor <- Editors
  ApproverLists <- OneOrder
  Unspecified = Unspecified
  MaxStep = 4
INVARIANT MCTypeOK
INVARIANT ActiveMeansAllApproved
INVARIANT AwaitingHasPending
INVARIANT RejectedMeansNotAwaiting
INVARIANT StockIsAccounted
INVARIANT WorkIsCoherent
INVARIANT ShownIsTrue
INVARIANT RoutesAreThere
PROPERTY StepDecidedOnce
CONSTRAINT StillClaimed
SYMMETRY UserSymmetry
CHECK_DEADLOCK FALSE
