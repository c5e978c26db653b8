------------------------ MODULE MCReservationGrounds ------------------------
(***************************************************************************)
(* The values of MCReservationService for the service with its history.    *)
(***************************************************************************)
EXTENDS MCReservationService, ReservationGrounds
=============================================================================
