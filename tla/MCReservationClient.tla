------------------------- MODULE MCReservationClient -------------------------
(***************************************************************************)
(* Values for model checking ReservationClient.  u1 is a student, v1 and   *)
(* v2 are supervisors; r1 is a draft of u1, r2 a request of v1 that waits  *)
(* for a decision and meets r1.                                            *)
(***************************************************************************)
EXTENDS ReservationClient, TLC

CONSTANTS s1, s2, s3, r1, r2, r3, u1, u9, v1, v2, i1, c1, c2

MCCategory == [i \in Instruments |-> "SPECTROMETER"]

Reserved(u, from, to, state) ==
  [instrument_id |-> i1, user_id |-> u, starts_at |-> from, ends_at |-> to,
   state |-> state]

ClientReservations == (r1 :> Reserved(u1, 1, 4, "DRAFT"))
                      @@ (r2 :> Reserved(v1, 1, 3, "PENDING_APPROVAL"))
                      @@ [r \in ReservationIds |-> NoRow]

Act(ops, ids, users) ==
  [op : ops, reservation_id : ids, requested_by : users]

New(u, from, to) ==
  [op |-> "create", booking |-> [instrument_id |-> i1, user_id |-> u,
                                 starts_at |-> from, ends_at |-> to]]

Free(from, to) ==
  [op |-> "check", query |-> [instrument_id |-> i1, starts_at |-> from,
                              ends_at |-> to]]

(* The first caller has two connections, the second, a supervisor's, one.  *)
MCConnection == [s \in Sessions |-> IF s \in {s1, s2} THEN c1 ELSE c2]

(* Some wishes are refused whatever happens; drafts that could be created  *)
(* are not among them, for repeated creations would use up the ids.        *)
MCWishes ==
  [c \in Clients |->
     IF c = c1 THEN Act({"confirm", "cancel"}, {r1}, {u1})
                    \cup Act({"cancel"}, {r2}, {v1})
                    \cup {New(u9, 1, 2), Free(1, 2)}
               ELSE Act({"confirm", "approve", "reject"}, {r2}, {v2})
                    \cup Act({"cancel"}, {r1}, {v2})]

ClientRequests == UNION {MCWishes[c] : c \in Clients}
=============================================================================
