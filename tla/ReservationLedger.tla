-------------------------- MODULE ReservationLedger --------------------------
(***************************************************************************)
(* What the service promises, without sessions, locks or statements: a     *)
(* ledger of reservations in which every operation is one atomic step.     *)
(* ReservationService is shown to implement this module.                   *)
(*                                                                         *)
(* The conditions are those on the reservations and on the time.  Whether  *)
(* an owner is trained (BR-04), an instrument in service (BR-05) and which *)
(* state a confirmation enters (REQ-10) depend on tables that the lab      *)
(* manager edits and the ledger does not have: ReservationGrounds.         *)
(*                                                                         *)
(* Each step is judged at some instant `now' that is not after the clock:  *)
(* the code reads the clock once, when the request arrives (BR-03), and    *)
(* may commit much later.  That BR-02 survives such stale judgements is    *)
(* the point of the invariant BR02 below.                                  *)
(***************************************************************************)
EXTENDS ReservationStore

CONSTANTS InitialReservations,  \* the table when the system is started
          Bookings,             \* the inputs of OP-01
          MaxTime               \* bound: the clock stops there

ASSUME LedgerAssumption ==
  /\ InitialReservations \in Table /\ Exclusive(InitialReservations, 0)
  /\ Bookings \subseteq [instrument_id : InstrumentIds, user_id : UserIds,
                         starts_at : Nat, ends_at : Nat]
  /\ MaxTime \in Nat

VARIABLES reservations,  \* the reservations table
          clock          \* the application server's clock

vars == <<reservations, clock>>

(* Every row is complete: its user, instrument, times and state exist. *)
TypeOK == reservations \in Table /\ clock \in Nat

Init == reservations = InitialReservations /\ clock = 0

Write(r, state) == /\ reservations' = [reservations EXCEPT ![r].state = state]
                   /\ UNCHANGED clock

(* Mutant: the foreign keys are not looked at. *)
CreateForAnybody(r, b, now) ==
  /\ reservations[r] = NoRow
  /\ is_interval_valid(b.starts_at, b.ends_at)
  /\ b.starts_at > now
  /\ reservations' = [reservations EXCEPT ![r] = DraftOf(b)]
  /\ UNCHANGED clock

(* OP-01: a draft for a known user and instrument; it holds nothing yet. *)
Create(r, b, now) ==
  /\ reservations[r] = NoRow
  /\ b.user_id \in Users /\ b.instrument_id \in Instruments
  /\ is_interval_valid(b.starts_at, b.ends_at)
  /\ b.starts_at > now
  /\ reservations' = [reservations EXCEPT ![r] = DraftOf(b)]
  /\ UNCHANGED clock

(* Mutant: the overlap is not looked at. *)
AllocateUnguarded(r, target, now) ==
  /\ reservations[r].state \in {"DRAFT", "PENDING_APPROVAL"}
  /\ now < reservations[r].starts_at
  /\ Write(r, target)

(* OP-03, and OP-05 when it approves: the only entry to a blocking state,  *)
(* as far as the state, the time and the other reservations go.            *)
Allocate(r, target, now) ==
  /\ \/ reservations[r].state = "DRAFT" /\ target \in BLOCKING_STATES
     \/ reservations[r].state = "PENDING_APPROVAL" /\ target = "CONFIRMED"
  /\ now < reservations[r].starts_at
  /\ overlapping_blocking(reservations, reservations[r], now) \ {r} = {}
  /\ Write(r, target)

(* OP-04: BR-03 by state. *)
Cancel(r, now) ==
  /\ \/ reservations[r].state = "DRAFT"
     \/ /\ reservations[r].state = "PENDING_APPROVAL"
        /\ approval_request_is_alive(reservations[r].starts_at, now)
     \/ /\ reservations[r].state = "CONFIRMED"
        /\ may_cancel_confirmed(reservations[r].starts_at, now)
  /\ Write(r, "CANCELLED")

(* OP-05 when it rejects. *)
Reject(r, now) ==
  /\ reservations[r].state = "PENDING_APPROVAL"
  /\ approval_request_is_alive(reservations[r].starts_at, now)
  /\ Write(r, "REJECTED")

(* OP-04 or OP-05 on a request whose start has come (BR-08). *)
Expire(r, now) ==
  /\ reservations[r].state = "PENDING_APPROVAL"
  /\ ~approval_request_is_alive(reservations[r].starts_at, now)
  /\ Write(r, "EXPIRED")

Tick == /\ clock < MaxTime
        /\ clock' = clock + 1
        /\ UNCHANGED reservations

Next ==
  \/ \E r \in ReservationIds, now \in 0 .. clock :
       \/ \E b \in Bookings : Create(r, b, now)
       \/ \E target \in BLOCKING_STATES : Allocate(r, target, now)
       \/ Cancel(r, now)
       \/ Reject(r, now)
       \/ Expire(r, now)
  \/ Tick

Spec == Init /\ [][Next]_vars

-----------------------------------------------------------------------------
(* BR-02, the only invariant of the system over several rows: at the true  *)
(* time no two reservations that hold the same instrument overlap, although*)
(* every allocation was judged at an instant that may already have passed. *)
BR02 == Exclusive(reservations, clock)
=============================================================================
