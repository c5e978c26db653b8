\* Three sessions, a chain of overlapping drafts and another instrument.
SPECIFICATION Spec
CONSTANTS
  s1 = s1  s2 = s2  s3 = s3
  r1 = r1  r2 = r2  r3 = r3  r4 = r4
  u1 = u1  u9 = u9  v1 = v1  v2 = v2
  i1 = i1  i2 = i2  i9 = i9
  CANCELLATION_LEAD_TIME = 1
  Sessions = {s1, s2, s3}
  NoOne = NoOne
  ReservationIds = {r1, r2, r3, r4}
  UserIds = {u1, u9, v1, v2}
  Users = {u1, v1, v2}
  Supervisors = {v1, v2}
  InstrumentIds = {i1, i2, i9}
  Instruments = {i1, i2}
  category <- MCCategory
  Requests <- CrowdRequests
  InitialReservations <- CrowdReservations
  InitialInstruments <- FirstApproves
  InitialCertifications <- CrowdCertifications
  AdminSettings <- Nothing
  AdminCertifications <- Nothing
  MaxTime = 1
SYMMETRY SessionSymmetry
INVARIANTS BR02 WaitsEnd OnlyRivalsWait LocksHaveReasons
