----------------------- MODULE ReservationPolicyCheck -----------------------
(***************************************************************************)
(* The transition policy over all states and a grid of instants: one       *)
(* reservation that nobody touches while time passes.  What the policy     *)
(* answers may only become stricter, which is what lets the service judge  *)
(* by the time a request arrived.                                          *)
(***************************************************************************)
EXTENDS ReservationPolicy

CONSTANT MaxTime     \* bound: starts, and the clock, go up to MaxTime

ASSUME MaxTimeAssumption == MaxTime \in Nat

VARIABLES state, starts_at,     \* the reservation
          requires_approval,    \* of its instrument
          now                   \* the time it is judged at

vars == <<state, starts_at, requires_approval, now>>

Init == /\ state \in ReservationState
        /\ starts_at \in 0 .. MaxTime
        /\ requires_approval \in BOOLEAN
        /\ now = 0

Next == /\ now < MaxTime
        /\ now' = now + 1
        /\ UNCHANGED <<state, starts_at, requires_approval>>

Spec == Init /\ [][Next]_vars

-----------------------------------------------------------------------------
expiry == expiry_decision(state, starts_at, now)
cancel == cancel_decision(state, starts_at, now)
confirm == confirm_decision(state, starts_at, now, requires_approval)

(* The three tables (C05.8) are total and give only decisions the          *)
(* constructor accepts: no state is changed together with a rejection but  *)
(* by expiry.  A confirmation either asks for a blocking state or is       *)
(* rejected, so the AssertionError of the service is dead code; a          *)
(* cancellation never asks for one.                                        *)
DecisionShapes ==
  /\ \A d \in {expiry, cancel, confirm} : d \in Decisions /\ ValidDecision(d)
  /\ confirm.rejection = None <=> confirm.target \in BLOCKING_STATES
  /\ cancel.target \in {None, "CANCELLED", "EXPIRED"}
  /\ expiry.target \in {None, "EXPIRED"}

(* BR-03, REQ-06, BR-08: what is refused stays refused with the same code  *)
(* while time passes and the state does not change, and a request that has *)
(* expired stays expired, for a cancellation as for a decision (N-04).     *)
RefusalsAreStable ==
  [][ /\ expiry.target = "EXPIRED" => expiry' = expiry /\ cancel' = expiry
      /\ cancel.rejection # None => cancel' = cancel
      /\ confirm.rejection # None => confirm' = confirm ]_vars
=============================================================================
