------------------------- MODULE MCReservationLedger -------------------------
(***************************************************************************)
(* Values for model checking ReservationLedger: one instrument, one draft  *)
(* and room for two more, three intervals of which the first meets the     *)
(* second and the second the third, but not the first the third; u9 has no *)
(* row.                                                                    *)
(***************************************************************************)
EXTENDS ReservationLedger, TLC

CONSTANTS r1, r2, r3, u1, u9, i1

Booking(from, to) == [instrument_id |-> i1, user_id |-> u1,
                      starts_at |-> from, ends_at |-> to]

MCBookings == {Booking(1, 3), Booking(2, 4), Booking(3, 5),
               [Booking(1, 3) EXCEPT !.user_id = u9]}

MCReservations ==
  [r \in ReservationIds |-> IF r = r1 THEN DraftOf(Booking(2, 4)) ELSE NoRow]

MCCategory == [i \in Instruments |-> "SPECTROMETER"]
=============================================================================
