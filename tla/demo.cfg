\* The walk of the demo, over at most half an hour.
SPECIFICATION DemoSpec
CONSTANTS
  r1 = r1  r2 = r2  r3 = r3  r4 = r4
  session = s1
  microscope = i1  broken = i2  guarded = i3
  student = u1  novice = u2  boss = v1
  locked = r5  expired_request = r6
  LastTick = 6
  CANCELLATION_LEAD_TIME = 4
  Sessions = {s1}
  NoOne = NoOne
  ReservationIds = {r1, r2, r3, r4, r5, r6}
  UserIds = {u1, u2, v1}
  Users = {u1, u2, v1}
  Supervisors = {v1}
  InstrumentIds = {i1, i2, i3}
  Instruments = {i1, i2, i3}
  category <- MCCategory
  Requests <- DemoRequests
  InitialReservations <- OldReservations
  InitialInstruments <- OldInstruments
  InitialCertifications <- Nothing
  AdminSettings <- Nothing
  AdminCertifications <- Nothing
  MaxTime = 6
SYMMETRY IdSymmetry
INVARIANTS AnswersAsAnnounced
CHECK_DEADLOCK FALSE
