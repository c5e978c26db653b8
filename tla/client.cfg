\* Answers are lost, attempts are repeated and overtake each other;
\* whoever keeps asking learns how it ended.
SPECIFICATION FairClientSpec
CONSTANTS
  s1 = s1  s2 = s2  s3 = s3
  r1 = r1  r2 = r2  r3 = r3
  u1 = u1  u9 = u9  v1 = v1  v2 = v2
  i1 = i1
  c1 = c1  c2 = c2
  CANCELLATION_LEAD_TIME = 1
  Clients = {c1, c2}
  Sessions = {s1, s2, s3}
  connection <- MCConnection
  Wishes <- MCWishes
  ReservationIds = {r1, r2, r3}
  UserIds = {u1, u9, v1, v2}
  Users = {u1, v1, v2}
  Supervisors = {v1, v2}
  InstrumentIds = {i1}
  Instruments = {i1}
  category <- MCCategory
  Requests <- ClientRequests
  InitialReservations <- ClientReservations
  MaxTime = 1
INVARIANTS ClientTypeOK HeardStands
PROPERTIES ImplementsLedger RepeatsAreHarmless EveryIntentIsAnswered
\* The callers have heard what they asked for and the bounded clock stops.
CHECK_DEADLOCK FALSE
