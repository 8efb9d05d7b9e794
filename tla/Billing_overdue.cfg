SPECIFICATION Spec
CONSTANTS
  Request = {r1, r2}
  MaxCustomer = 1
  MaxSubscription = 1
  MaxPayment = 1
PROPERTY OverdueIsDated
CHECK_DEADLOCK FALSE
