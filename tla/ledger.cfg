\* The atomic ledger keeps BR-02 although it judges by past instants.
SPECIFICATION Spec
CONSTANTS
  r1 = r1  r2 = r2  r3 = r3  u1 = u1  u9 = u9  i1 = i1
  CANCELLATION_LEAD_TIME = 1
  ReservationIds = {r1, r2, r3}
  UserIds = {u1, u9}
  Users = {u1}
  Supervisors = {}
  InstrumentIds = {i1}
  Instruments = {i1}
  category <- MCCategory
  Bookings <- MCBookings
  InitialReservations <- MCReservations
  MaxTime = 4
INVARIANTS TypeOK BR02
CHECK_DEADLOCK FALSE
