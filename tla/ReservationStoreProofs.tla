----------------------- MODULE ReservationStoreProofs -----------------------
(***************************************************************************)
(* What the four ways of changing the reservations table, and the passing  *)
(* of time, do to BR-02.  The ledger and the service both rest on these.   *)
(***************************************************************************)
EXTENDS ReservationStore, TLAPS

(* A new draft holds no instrument. *)
LEMMA InsertKeepsExclusive ==
  ASSUME NEW table \in Table, NEW at \in Nat, Exclusive(table, at),
         NEW r \in ReservationIds, NEW draft, draft.state = "DRAFT"
  PROVE  Exclusive([table EXCEPT ![r] = draft], at)
BY DEF Table, Exclusive, Blocks, BLOCKING_STATES

(* A row that is given a state which does not block holds none any more. *)
LEMMA ReleaseKeepsExclusive ==
  ASSUME NEW table \in Table, NEW at \in Nat, Exclusive(table, at),
         NEW r \in ReservationIds, table[r] \in Row,
         NEW state \in ReservationState \ BLOCKING_STATES
  PROVE  Exclusive([table EXCEPT ![r].state = state], at)
<1> DEFINE new == [table EXCEPT ![r].state = state]
<1>1. ~Blocks(new[r], at)
  BY DEF Table, Row, Blocks
<1>2. \A x \in ReservationIds : x # r => new[x] = table[x]
  BY DEF Table
<1>3. QED
  BY <1>1, <1>2 DEF Exclusive

(* The allocated row was checked against every other row that held the     *)
(* instrument at `now'; what holds it at a later time held it then.        *)
LEMMA AllocateKeepsExclusive ==
  ASSUME NEW table \in Table, NEW at \in Nat, Exclusive(table, at),
         NEW now \in 0 .. at,
         NEW r \in ReservationIds, table[r] \in Row, NEW target \in BLOCKING_STATES,
         overlapping_blocking(table, table[r], now) \ {r} = {}
  PROVE  Exclusive([table EXCEPT ![r].state = target], at)
<1> DEFINE new == [table EXCEPT ![r].state = target]
<1>1. /\ \A b : Overlap(new[r], b) <=> Overlap(table[r], b)
      /\ \A b : Overlap(b, new[r]) <=> Overlap(b, table[r])
  BY DEF Row, Table, Overlap
<1>2. \A x \in ReservationIds : x # r => new[x] = table[x]
  BY DEF Table
<1>3. ASSUME NEW x \in ReservationIds, x # r, Blocks(table[x], at)
      PROVE  ~Overlap(table[x], table[r]) /\ ~Overlap(table[r], table[x])
  <2>1. table[x] \in Row
    BY <1>3 DEF Table, NoRow, Blocks, BLOCKING_STATES
  <2>2. Blocks(table[x], now)
    BY <1>3, <2>1 DEF Blocks, Row
  <2>3. ~Overlap(table[x], table[r])
    BY <1>3, <2>2 DEF overlapping_blocking
  <2>4. QED
    BY <2>1, <2>3 DEF Overlap, Row
<1> HIDE DEF new
<1>4. Exclusive(new, at)
  BY <1>1, <1>2, <1>3 DEF Exclusive
<1>5. QED
  BY <1>4 DEF new

(* Time only frees instruments: a living request expires, nothing revives. *)
LEMMA TimeKeepsExclusive ==
  ASSUME NEW table \in Table, NEW at \in Nat, NEW later \in Nat, at <= later,
         Exclusive(table, at)
  PROVE  Exclusive(table, later)
<1>1. \A x \in ReservationIds : Blocks(table[x], later) => Blocks(table[x], at)
  BY DEF Table, Row, NoRow, Blocks, BLOCKING_STATES
<1>2. QED
  BY <1>1 DEF Exclusive
=============================================================================
