----------------------- MODULE ReservationLedgerProofs -----------------------
(***************************************************************************)
(* BR-02 of the atomic ledger, for any number of reservations, instruments *)
(* and users and an unbounded clock.  BR02 is inductive as it stands once  *)
(* the rows are typed.                                                     *)
(***************************************************************************)
EXTENDS ReservationLedger, ReservationStoreProofs

(* Rows are typed.                                                         *)
THEOREM LedgerType == Spec => []TypeOK
<1>1. Init => TypeOK
  BY LedgerAssumption DEF Init, TypeOK
<1>2. TypeOK /\ [Next]_vars => TypeOK'
  <2> SUFFICES ASSUME TypeOK, [Next]_vars PROVE TypeOK'
    OBVIOUS
  <2> USE DEF TypeOK
  <2>1. ASSUME NEW r \in ReservationIds, NEW state \in ReservationState,
               Write(r, state), reservations[r] \in Row
        PROVE  TypeOK'
    BY <2>1 DEF Write, Table, Row
  <2>2. ASSUME NEW r \in ReservationIds, NEW state,
               reservations[r].state = state, state # "ABSENT"
        PROVE  reservations[r] \in Row
    BY <2>2 DEF Table, NoRow
  <2>3. ASSUME NEW r \in ReservationIds, NEW now \in 0 .. clock,
               NEW b \in Bookings, Create(r, b, now)
        PROVE  TypeOK'
    <3>1. DraftOf(b) \in Row
      BY <2>3, LedgerAssumption, StoreAssumption
      DEF Create, DraftOf, Row, ReservationState
    <3>2. QED
      BY <2>3, <3>1 DEF Create, Table
  <2>4. ASSUME NEW r \in ReservationIds, NEW now \in 0 .. clock,
               NEW target \in BLOCKING_STATES, Allocate(r, target, now)
        PROVE  TypeOK'
    BY <2>1, <2>2, <2>4 DEF Allocate, ReservationState, BLOCKING_STATES
  <2>5. ASSUME NEW r \in ReservationIds, NEW now \in 0 .. clock, Cancel(r, now)
        PROVE  TypeOK'
    BY <2>1, <2>2, <2>5 DEF Cancel, ReservationState
  <2>6. ASSUME NEW r \in ReservationIds, NEW now \in 0 .. clock, Reject(r, now)
        PROVE  TypeOK'
    BY <2>1, <2>2, <2>6 DEF Reject, ReservationState
  <2>7. ASSUME NEW r \in ReservationIds, NEW now \in 0 .. clock, Expire(r, now)
        PROVE  TypeOK'
    BY <2>1, <2>2, <2>7 DEF Expire, ReservationState
  <2>8. CASE Tick
    BY <2>8 DEF Tick
  <2>9. CASE UNCHANGED vars
    BY <2>9 DEF vars
  <2>10. QED
    BY <2>3, <2>4, <2>5, <2>6, <2>7, <2>8, <2>9 DEF Next
<1>3. QED
  BY <1>1, <1>2, PTL DEF Spec

(* A step of the ledger keeps BR02. *)
LEMMA LedgerStepKeepsBR02 == TypeOK /\ BR02 /\ [Next]_vars => BR02'
<1> SUFFICES ASSUME TypeOK, BR02, [Next]_vars PROVE BR02'
  OBVIOUS
<1> USE DEF TypeOK, BR02
<1>1. ASSUME NEW r \in ReservationIds, reservations[r].state # "ABSENT"
      PROVE  reservations[r] \in Row
  BY <1>1 DEF Table, NoRow
<1>2. ASSUME NEW r \in ReservationIds, NEW now \in 0 .. clock,
             NEW b \in Bookings, Create(r, b, now)
      PROVE  BR02'
  BY <1>2, InsertKeepsExclusive DEF Create, DraftOf
<1>3. ASSUME NEW r \in ReservationIds, NEW now \in 0 .. clock,
             NEW target \in BLOCKING_STATES, Allocate(r, target, now)
      PROVE  BR02'
  BY <1>1, <1>3, AllocateKeepsExclusive DEF Allocate, Write
<1>4. ASSUME NEW r \in ReservationIds, NEW now \in 0 .. clock,
             Cancel(r, now) \/ Reject(r, now) \/ Expire(r, now)
      PROVE  BR02'
  <2>1. PICK state \in {"CANCELLED", "REJECTED", "EXPIRED"} : Write(r, state)
    BY <1>4 DEF Cancel, Reject, Expire
  <2>2. reservations[r] \in Row
    BY <1>1, <1>4 DEF Cancel, Reject, Expire
  <2>3. QED
    BY <2>1, <2>2, ReleaseKeepsExclusive
    DEF Write, ReservationState, BLOCKING_STATES
<1>5. CASE Tick
  <2>1. clock \in Nat /\ clock' \in Nat /\ clock <= clock'
    BY <1>5 DEF Tick
  <2>2. QED
    BY <1>5, <2>1, TimeKeepsExclusive DEF Tick
<1>6. CASE UNCHANGED vars
  BY <1>6 DEF vars
<1>7. QED
  BY <1>2, <1>3, <1>4, <1>5, <1>6 DEF Next

(* BR-02: at no time do two reservations that hold one instrument overlap. *)
THEOREM LedgerExclusive == Spec => []BR02
<1>1. Init => BR02
  BY LedgerAssumption DEF Init, BR02, Exclusive, Blocks, BLOCKING_STATES
<1>2. QED
  BY <1>1, LedgerStepKeepsBR02, LedgerType, PTL DEF Spec
=============================================================================
