------------------------ MODULE MCReservationSystem ------------------------
(***************************************************************************)
(* Values for model checking ReservationSystem: a student with two         *)
(* connections and a supervisor with one share a pool of two.              *)
(***************************************************************************)
EXTENDS ReservationSystem, TLC

CONSTANTS s1, s2, s3, r1, r2, r3, u1, v1, v2, i1, c1, c2

MCCategory == [i \in Instruments |-> "SPECTROMETER"]

Reserved(u, from, to, state) ==
  [instrument_id |-> i1, user_id |-> u, starts_at |-> from, ends_at |-> to,
   state |-> state]

(* Two overlapping drafts, of the student and of the supervisor. *)
SystemReservations == (r1 :> Reserved(u1, 1, 4, "DRAFT"))
                      @@ (r2 :> Reserved(v2, 1, 3, "DRAFT"))
                      @@ [r \in ReservationIds |-> NoRow]

SystemCertifications ==
  [user_id : {u1, v2}, category : {"SPECTROMETER"}, valid_until : {9}]

SystemInstruments ==
  [i \in Instruments |-> [is_active |-> TRUE, requires_approval |-> TRUE]]

MCConnection == [s \in Sessions |-> IF s \in {s1, s2} THEN c1 ELSE c2]

Act(ops, ids, users) ==
  [op : ops, reservation_id : ids, requested_by : users]

Interval == [instrument_id |-> i1, starts_at |-> 1, ends_at |-> 2]

MCWishes ==
  [c \in Clients |->
     IF c = c1 THEN Act({"confirm", "cancel"}, {r1}, {u1})
                    \cup [op : {"check"}, query : {Interval}]
               ELSE Act({"approve", "reject"}, {r1}, {v2})
                    \cup Act({"confirm"}, {r2}, {v2})
                    \cup [op : {"create"}, booking : {Interval @@ [user_id |-> v2]}]]

SystemRequests == UNION {MCWishes[c] : c \in Clients}

ApprovalSettings == {[is_active |-> TRUE, requires_approval |-> FALSE]}

Nothing == {}
=============================================================================
