\* Two sessions race for one instrument.
SPECIFICATION Spec
CONSTANTS
  s1 = s1  s2 = s2  s3 = s3
  r1 = r1  r2 = r2  r3 = r3  r4 = r4
  u1 = u1  u9 = u9  v1 = v1  v2 = v2
  i1 = i1  i2 = i2  i9 = i9
  CANCELLATION_LEAD_TIME = 1
  Sessions = {s1, s2}
  NoOne = NoOne
  ReservationIds = {r1, r2}
  UserIds = {u1, u9, v1, v2}
  Users = {u1, v1, v2}
  Supervisors = {v1, v2}
  InstrumentIds = {i1, i2, i9}
  Instruments = {i1}
  category <- MCCategory
  Requests <- RaceRequests
  InitialReservations <- RaceReservations
  InitialInstruments <- ApprovalOnly
  InitialCertifications <- RaceCertifications
  AdminSettings <- Mixed
  AdminCertifications <- Nothing
  MaxTime = 2
SYMMETRY SessionSymmetry
INVARIANTS TypeOK IInv BR02 CancelSuccessNeverBlocks
PROPERTIES ImplementsLedger ReplyMatchesWrite OnlyForeignSupervisorDecides AvailableMeansFree
