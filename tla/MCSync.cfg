\* Three cores in a row, in both orders: seven edges, every plan of bookings.
SPECIFICATION BothSpec
CONSTANTS
  Cores = {1, 2, 3}
  Delay <- RowDelays
  LinkCapacity <- RowCapacities
  Orders <- Registered
  MaxEdge = 7
INVARIANTS
  PartnersMeetAtLaterDeadline
  MutualBookingsComplete
  IdleUnitsLeaveNoSignal
  TwoSlotsSuffice
  OrderIndependent
CHECK_DEADLOCK FALSE
