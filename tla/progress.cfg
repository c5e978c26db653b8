\* Three sessions want two connections, two reservations and one instrument;
\* no request waits for ever.
SPECIFICATION FairPooledSpec
CONSTANTS
  s1 = s1  s2 = s2  s3 = s3
  r1 = r1  r2 = r2
  u1 = u1  v1 = v1  v2 = v2
  i1 = i1
  CANCELLATION_LEAD_TIME = 1
  Sessions = {s1, s2, s3}
  NoOne = NoOne
  PoolSize = 2
  ReservationIds = {r1, r2}
  UserIds = {u1, v1, v2}
  Users = {u1, v1, v2}
  Supervisors = {v1, v2}
  InstrumentIds = {i1}
  Instruments = {i1}
  category <- MCCategory
  Requests <- ProgressRequests
  InitialReservations <- PoolReservations
  InitialInstruments <- ApprovalOnly
  InitialCertifications <- PoolCertifications
  AdminSettings <- Nothing
  AdminCertifications <- LateCertifications
  MaxTime = 0
PROPERTIES EveryRequestFinishes
