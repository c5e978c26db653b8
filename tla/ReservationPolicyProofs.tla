----------------------- MODULE ReservationPolicyProofs -----------------------
(***************************************************************************)
(* The decision tables for every instant, start and lead time.             *)
(***************************************************************************)
EXTENDS ReservationPolicyCheck, TLAPS

(* The variables range over instants, not over any value. *)
InputOK == /\ state \in ReservationState
           /\ starts_at \in Nat /\ now \in Nat
           /\ requires_approval \in BOOLEAN

LEMMA InputInvariant == Spec => []InputOK
<1>1. Init => InputOK
  BY MaxTimeAssumption DEF Init, InputOK
<1>2. InputOK /\ [Next]_vars => InputOK'
  BY DEF InputOK, Next, vars
<1>3. QED
  BY <1>1, <1>2, PTL DEF Spec

(* The tables are total, build only decisions the constructor accepts, and *)
(* a confirmation is either rejected or asks for a blocking state.         *)
THEOREM PolicyShapes == Spec => []DecisionShapes
<1>1. InputOK => DecisionShapes
  <2> SUFFICES ASSUME InputOK PROVE DecisionShapes
    OBVIOUS
  <2> USE LeadTimeAssumption DEF InputOK, ReservationState, BLOCKING_STATES,
          ErrorCode, None, Decision, Decisions, ValidDecision
  <2>1. /\ expiry \in Decisions /\ ValidDecision(expiry)
        /\ expiry.target \in {None, "EXPIRED"}
    BY DEF expiry, expiry_decision
  <2>2. /\ cancel \in Decisions /\ ValidDecision(cancel)
        /\ cancel.target \in {None, "CANCELLED", "EXPIRED"}
    BY DEF cancel, cancel_decision, expiry_decision
  <2>3. /\ confirm \in Decisions /\ ValidDecision(confirm)
        /\ confirm.rejection = None <=> confirm.target \in BLOCKING_STATES
    BY DEF confirm, confirm_decision
  <2>4. QED
    BY <2>1, <2>2, <2>3 DEF DecisionShapes
<1>2. QED
  BY <1>1, InputInvariant, PTL

(* Whatever the policy refuses it refuses at every later instant.          *)
THEOREM PolicyRefusalsAreStable == Spec => RefusalsAreStable
<1>1. InputOK /\ [Next]_vars =>
        [ /\ expiry.target = "EXPIRED" => expiry' = expiry /\ cancel' = expiry
          /\ cancel.rejection # None => cancel' = cancel
          /\ confirm.rejection # None => confirm' = confirm ]_vars
  <2> SUFFICES ASSUME InputOK, Next
               PROVE  /\ expiry.target = "EXPIRED" =>
                           expiry' = expiry /\ cancel' = expiry
                      /\ cancel.rejection # None => cancel' = cancel
                      /\ confirm.rejection # None => confirm' = confirm
    OBVIOUS
  <2> USE LeadTimeAssumption DEF InputOK, Next, ReservationState, None, Decision
  <2>1. expiry.target = "EXPIRED" => expiry' = expiry /\ cancel' = expiry
    BY DEF expiry, cancel, expiry_decision, cancel_decision,
           approval_request_is_alive
  <2>2. cancel.rejection # None => cancel' = cancel
    BY DEF cancel, cancel_decision, expiry_decision,
           approval_request_is_alive, may_cancel_confirmed
  <2>3. confirm.rejection # None => confirm' = confirm
    BY DEF confirm, confirm_decision
  <2>4. QED
    BY <2>1, <2>2, <2>3
<1>2. QED
  BY <1>1, InputInvariant, PTL DEF Spec, RefusalsAreStable
=============================================================================
