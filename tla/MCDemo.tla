------------------------------- MODULE MCDemo -------------------------------
(***************************************************************************)
(* Values for model checking Demo: room for the four reservations it makes *)
(* besides the two it seeds, in an application that had other data before. *)
(***************************************************************************)
EXTENDS Demo, TLC

CONSTANTS r1, r2, r3, r4

MCCategory ==
  [i \in Instruments |-> CASE i = microscope -> "MICROSCOPE"
                           [] i = broken -> "CENTRIFUGE"
                           [] i = guarded -> "SPECTROMETER"]

(* What drop_all removes. *)
OldReservations ==
  [r \in ReservationIds |->
     IF r = r1 THEN [instrument_id |-> microscope, user_id |-> novice,
                     starts_at |-> 1, ends_at |-> 99, state |-> "CONFIRMED"]
     ELSE NoRow]

OldInstruments ==
  [i \in Instruments |-> [is_active |-> FALSE, requires_approval |-> TRUE]]

Nothing == {}

IdSymmetry == Permutations({r2, r3, r4})
=============================================================================
