SPECIFICATION Spec
CONSTANTS
  a1 = a1
  a2 = a2
  d1 = d1
  d2 = d2
  e1 = e1
  Approver <- Approvers
  Decider <- Deciders
  Editor <- Editors
  ApproverLists <- OneOrder
  Unspecified = Unspecified
  MaxStep = 4
INVARIANT RejectedIsNotActive
CHECK_DEADLOCK FALSE
