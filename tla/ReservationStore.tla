-------------------------- MODULE ReservationStore --------------------------
(***************************************************************************)
(* The data SWI-LAB keeps in PostgreSQL (models.py) and the one query over *)
(* several rows the service asks (overlapping_blocking in                  *)
(* services/reservations.py).  It has no behaviour of its own: the         *)
(* abstract ledger and the service both extend it.                         *)
(*                                                                         *)
(* Users, their roles and the categories of the instruments never change   *)
(* while requests run, so they are constants.  Names, e-mails, locations   *)
(* and created_at are never read by an operation and are left out.         *)
(***************************************************************************)
EXTENDS ReservationPolicy

CONSTANTS
  ReservationIds,   \* primary keys of the reservations table
  UserIds, Users,   \* user ids a request may name; those that have a row
  Supervisors,      \* the users whose role is SUPERVISOR
  InstrumentIds,    \* instrument ids a request may name
  Instruments,      \* those that have a row
  category          \* category of every instrument

InstrumentCategory == {"SPECTROMETER", "MICROSCOPE", "PRINTER_3D", "CENTRIFUGE"}

ASSUME StoreAssumption ==
  /\ Users \subseteq UserIds
  /\ Supervisors \subseteq Users
  /\ Instruments \subseteq InstrumentIds
  /\ category \in [Instruments -> InstrumentCategory]

Row == [instrument_id : Instruments, user_id : Users,
        starts_at : Nat, ends_at : Nat, state : ReservationState]

NoRow == [state |-> "ABSENT"]     \* session.get() returned None

Table == [ReservationIds -> Row \cup {NoRow}]

Settings == [is_active : BOOLEAN, requires_approval : BOOLEAN]

Certification == [user_id : Users, category : InstrumentCategory,
                  valid_until : Nat]

(* The row that OP-01 inserts for the fields of a request. *)
DraftOf(b) == [instrument_id |-> b.instrument_id, user_id |-> b.user_id,
               starts_at |-> b.starts_at, ends_at |-> b.ends_at,
               state |-> "DRAFT"]

(* What clients ask for: the endpoints of api/reservations.py. *)
ActorOps == {"confirm", "cancel", "approve", "reject"}

CreateRequest == [op : {"create"},
                  booking : [instrument_id : InstrumentIds, user_id : UserIds,
                             starts_at : Nat, ends_at : Nat]]

CheckRequest == [op : {"check"},
                 query : [instrument_id : InstrumentIds,
                          starts_at : Nat, ends_at : Nat]]

ActorRequest == [op : ActorOps, reservation_id : ReservationIds,
                 requested_by : UserIds]

Request == CreateRequest \cup CheckRequest \cup ActorRequest

(* The states a successful operation may write. *)
Target(op) == CASE op = "create" -> {"DRAFT"}
                [] op = "confirm" -> BLOCKING_STATES
                [] op = "cancel" -> {"CANCELLED"}
                [] op = "approve" -> {"CONFIRMED"}
                [] op = "reject" -> {"REJECTED"}
                [] op = "check" -> {}

NoRequest == [op |-> "none"]

-----------------------------------------------------------------------------
(* BR-01: half-open intervals [starts_at, ends_at) of one instrument meet. *)
Overlap(a, b) == /\ a.instrument_id = b.instrument_id
                 /\ a.starts_at < b.ends_at
                 /\ a.ends_at > b.starts_at

(* Mutant: waiting requests do not hold the instrument. *)
BlocksNoPending(row, now) == row.state = "CONFIRMED"

(* Mutant: what has begun no longer counts, allocations included. *)
BlocksUntilStart(row, now) ==
  row.state \in BLOCKING_STATES /\ row.starts_at > now

(* Mutant: a dead request counts as long as nobody has written EXPIRED. *)
BlocksWhileWritten(row, now) == row.state \in BLOCKING_STATES

(* A row holds its instrument: CONFIRMED, or a request that is still alive *)
(* at `now' (BR-08).                                                       *)
Blocks(row, now) ==
  /\ row.state \in BLOCKING_STATES
  /\ row.state = "CONFIRMED" \/ row.starts_at > now

(* Ids of the rows that hold b's instrument during b's interval.  The      *)
(* optional exclude_id of the code is a set difference at the caller.      *)
overlapping_blocking(table, b, now) ==
  {r \in ReservationIds : Blocks(table[r], now) /\ Overlap(table[r], b)}

(* REQ-13: an allocation is a stronger reason than a pending request. *)
AvailabilityAnswer(table, conflicts) ==
  IF conflicts = {} THEN "AVAILABLE"
  ELSE IF \E r \in conflicts : table[r].state = "CONFIRMED"
       THEN "CONFIRMED" ELSE "PENDING_APPROVAL"

(* Whether user holds a certificate of the category for that start (BR-04).*)
certified(certs, user_id, cat, starts_at) ==
  \E c \in certs : /\ c.user_id = user_id
                   /\ c.category = cat
                   /\ certification_covers(c.valid_until, starts_at)

(* BR-02 over a table at one instant: no two rows that hold an instrument  *)
(* overlap.                                                                *)
Exclusive(table, now) ==
  \A p, q \in ReservationIds :
    (p # q /\ Blocks(table[p], now) /\ Blocks(table[q], now))
      => ~Overlap(table[p], table[q])
=============================================================================
