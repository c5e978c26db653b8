------------------------ MODULE MCReservationService ------------------------
(***************************************************************************)
(* Values for model checking ReservationGuarantees.  u1 is a student, v1   *)
(* and v2 are supervisors, u9 is nobody; i1 is a spectrometer, i2 a        *)
(* microscope, i9 no instrument.                                           *)
(***************************************************************************)
EXTENDS ReservationGuarantees, TLC

CONSTANTS s1, s2, s3, r1, r2, r3, r4, u1, u9, v1, v2, i1, i2, i9

MCCategory ==
  [i \in Instruments |-> IF i = i1 THEN "SPECTROMETER" ELSE "MICROSCOPE"]

Draft(i, u, from, to) ==
  [instrument_id |-> i, user_id |-> u, starts_at |-> from, ends_at |-> to,
   state |-> "DRAFT"]

Set(active, approval) == [is_active |-> active, requires_approval |-> approval]

Cert(u, until) ==
  [user_id |-> u, category |-> "SPECTROMETER", valid_until |-> until]

Act(ops, ids, users) ==
  [op : ops, reservation_id : ids, requested_by : users]

Booking(i, u, from, to) ==
  [instrument_id |-> i, user_id |-> u, starts_at |-> from, ends_at |-> to]

Query(i, from, to) == [instrument_id |-> i, starts_at |-> from, ends_at |-> to]

Nothing == {}

SessionSymmetry == Permutations(Sessions)

(* Race: two overlapping drafts of one instrument, one of the student, one *)
(* of a supervisor; owners confirm and cancel, supervisors decide, nobody  *)
(* tries.                                                                  *)
RaceReservations == (r1 :> Draft(i1, u1, 2, 4)) @@ (r2 :> Draft(i1, v1, 3, 5))

RaceRequests == Act({"confirm", "cancel"}, {r1}, {u1})
                \cup Act({"cancel"}, {r1}, {u9})
                \cup Act({"confirm", "cancel"}, {r2}, {v1})
                \cup Act({"approve"}, {r1, r2}, {v1, v2})
                \cup Act({"reject"}, {r1, r2}, {v2})
                \cup [op : {"check"}, query : {Query(i1, 3, 4)}]

ApprovalOnly == [i \in Instruments |-> Set(TRUE, TRUE)]

Mixed == {Set(TRUE, TRUE), Set(TRUE, FALSE)}

RaceCertifications == {Cert(u1, 3), Cert(v1, 4)}

(* Crowd: three drafts of one instrument in a chain, r1 meets r2 and r2    *)
(* meets r3, while r1 ends in the instant r3 starts (half-open intervals   *)
(* do not meet there); a fourth is drafted meanwhile, of an instrument     *)
(* that needs no approval.                                                 *)
CrowdReservations == (r1 :> Draft(i1, u1, 1, 3)) @@ (r2 :> Draft(i1, u1, 2, 4))
                     @@ (r3 :> Draft(i1, u1, 3, 5)) @@ (r4 :> NoRow)

CrowdRequests == [op : {"create"}, booking : {Booking(i2, u1, 1, 3)}]
                 \cup Act({"confirm"}, {r1, r2, r3, r4}, {u1})
                 \cup Act({"approve"}, {r2}, {v2})
                 \cup Act({"cancel"}, {r2}, {v2})

CrowdCertifications ==
  [user_id : {u1}, category : InstrumentCategory, valid_until : {9}]

FirstApproves == [i \in Instruments |-> Set(TRUE, i = i1)]

(* Lifecycle: a draft, room for one more, and the operations about both;   *)
(* unknown ids and bad intervals, in one request several errors at once;   *)
(* a lab manager who puts the instrument out of service and back and       *)
(* revokes and grants the student's certificate.                           *)
LifecycleReservations == (r1 :> Draft(i1, u1, 2, 4)) @@ (r2 :> NoRow)

LifecycleRequests ==
  [op : {"create"}, booking : {Booking(i1, v1, 1, 3), Booking(i9, u9, 1, 1)}]
  \cup [op : {"check"}, query : {Query(i1, 2, 3), Query(i9, 2, 2)}]
  \cup Act({"confirm", "cancel"}, {r1}, {u1})
  \cup Act({"confirm"}, {r2}, {v1})
  \cup Act({"approve"}, {r1}, {v1})
  \cup Act({"reject"}, {r2}, {v2})

LifecycleSettings == {Set(FALSE, TRUE), Set(TRUE, FALSE)}

LifecycleCertifications == {Cert(u1, 4)}

OwnersCertified == {Cert(u1, 4), Cert(v1, 3)}

(* The setting of tests/test_concurrency_req05.py: a confirmation and a    *)
(* cancellation of one draft have both arrived (two steps Begin from Init) *)
(* and nothing else does, for Requests is empty there.                     *)
DuelInit ==
  /\ clock = 0
  /\ reservations = InitialReservations
  /\ instruments = InitialInstruments
  /\ certifications = InitialCertifications
  /\ resLock = [r \in ReservationIds |-> NoOne]
  /\ insLock = [i \in Instruments |-> NoOne]
  /\ pc = [s \in Sessions |-> "lock_reservation"]
  /\ req = [s \in Sessions |->
              [op |-> IF s = s1 THEN "confirm" ELSE "cancel",
               reservation_id |-> r1, requested_by |-> u1]]
  /\ now = [s \in Sessions |-> 0]
  /\ row = [s \in Sessions |-> NoRow]
  /\ target = [s \in Sessions |-> None]
  /\ result = [s \in Sessions |-> None]

DuelSpec == DuelInit /\ [][Next]_vars

(* One confirmation, and a lab manager who puts the instrument out of      *)
(* service.                                                                *)
ConfirmOnly == Act({"confirm"}, {r1}, {u1})

OutOfService == {Set(FALSE, TRUE)}
=============================================================================
