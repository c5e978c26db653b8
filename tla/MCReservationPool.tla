-------------------------- MODULE MCReservationPool --------------------------
(***************************************************************************)
(* Values for model checking the progress of ReservationPool: three        *)
(* sessions share two connections, so that each kind of wait happens and a *)
(* wait for a lock goes together with one for a connection.                *)
(***************************************************************************)
EXTENDS ReservationPool, TLC

CONSTANTS s1, s2, s3, r1, r2, u1, v1, v2, i1

MCCategory == [i \in Instruments |-> "SPECTROMETER"]

Reservation(u, from, to, state) ==
  [instrument_id |-> i1, user_id |-> u, starts_at |-> from, ends_at |-> to,
   state |-> state]

(* A request that waits for its approval, and a draft that meets it. *)
PoolReservations == (r1 :> Reservation(u1, 2, 4, "PENDING_APPROVAL"))
                    @@ (r2 :> Reservation(v1, 3, 5, "DRAFT"))

PoolCertifications ==
  [user_id : {u1, v1}, category : {"SPECTROMETER"}, valid_until : {9}]

Set(approval) == [is_active |-> TRUE, requires_approval |-> approval]

ApprovalOnly == [i \in Instruments |-> Set(TRUE)]

LateCertifications ==
  [user_id : {v2}, category : {"SPECTROMETER"}, valid_until : {9}]

Act(ops, ids, users) ==
  [op : ops, reservation_id : ids, requested_by : users]

(* Three want the lock of r1, the approval and the confirmation of r2 the   *)
(* one of i1, again and again.                                             *)
ProgressRequests == Act({"approve"}, {r1}, {v2})
                    \cup Act({"confirm", "cancel"}, {r1}, {u1})
                    \cup Act({"confirm"}, {r2}, {v1})

Nothing == {}
=============================================================================
