\* Three sessions, two connections, two callers who ask again.
SPECIFICATION SystemSpec
CONSTANTS
  s1 = s1  s2 = s2  s3 = s3
  r1 = r1  r2 = r2  r3 = r3
  u1 = u1  v1 = v1  v2 = v2
  i1 = i1
  c1 = c1  c2 = c2
  CANCELLATION_LEAD_TIME = 1
  Clients = {c1, c2}
  Sessions = {s1, s2, s3}
  connection <- MCConnection
  Wishes <- MCWishes
  NoOne = NoOne
  PoolSize = 2
  ReservationIds = {r1, r2, r3}
  UserIds = {u1, v1, v2}
  Users = {u1, v1, v2}
  Supervisors = {v1, v2}
  InstrumentIds = {i1}
  Instruments = {i1}
  category <- MCCategory
  Requests <- SystemRequests
  InitialReservations <- SystemReservations
  InitialInstruments <- SystemInstruments
  InitialCertifications <- SystemCertifications
  AdminSettings <- ApprovalSettings
  AdminCertifications <- Nothing
  MaxTime = 1
INVARIANTS RepeatsStopEarly PoolTypeOK LocksNeedConnections PoolDrains
PROPERTIES ImplementsClients ImplementsService FailureLeavesNoTrace
CHECK_DEADLOCK FALSE
