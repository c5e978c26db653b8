--------------------------- MODULE ReservationApi ---------------------------
(***************************************************************************)
(* What a caller of api/reservations.py may count on, without statements   *)
(* and locks: every request is answered in one atomic step, some time      *)
(* after it arrived, by the committed rows of that step and the time of    *)
(* its arrival (clock.py), and whatever it writes it writes in that step.  *)
(* ReservationService is shown to implement this module.                   *)
(*                                                                         *)
(* Instruments' settings and certificates are edited behind the back of    *)
(* the service and read at an earlier moment than the answer, so here any  *)
(* allocation may be refused on their account, and a confirmation may      *)
(* enter either blocking state.  That such a refusal and the state written *)
(* have their grounds in those tables is stated in ReservationGrounds.     *)
(***************************************************************************)
EXTENDS ReservationStore

CONSTANTS
  Sessions,             \* requests served concurrently
  Requests,             \* the requests clients may send
  InitialReservations,  \* the reservations table at the start
  MaxTime               \* bound: the clock stops there

ASSUME ApiAssumption ==
  /\ Requests \subseteq Request
  /\ InitialReservations \in Table /\ Exclusive(InitialReservations, 0)
  /\ MaxTime \in Nat

VARIABLES
  reservations,    \* committed rows
  clock,           \* the application server's clock
  phase,           \* how far each request is
  req,             \* the request itself
  now,             \* when it arrived
  answer           \* what its caller will be told

vars == <<reservations, clock, phase, req, now, answer>>

Answers == ErrorCode \cup {None, "OK", "UNCHANGED", "AVAILABLE",
                           "CONFIRMED", "PENDING_APPROVAL"}

TypeOK ==
  /\ reservations \in Table
  /\ clock \in Nat
  /\ phase \in [Sessions -> {"idle", "called", "answered"}]
  /\ req \in [Sessions -> Request \cup {NoRequest}]
  /\ now \in [Sessions -> Nat]
  /\ answer \in [Sessions -> Answers]

Init ==
  /\ reservations = InitialReservations
  /\ clock = 0
  /\ phase = [s \in Sessions |-> "idle"]
  /\ req = [s \in Sessions |-> NoRequest]
  /\ now = [s \in Sessions |-> 0]
  /\ answer = [s \in Sessions |-> None]

-----------------------------------------------------------------------------
(* A request arrives: the endpoint reads the clock, once. *)
Call(s, q) ==
  /\ phase[s] = "idle"
  /\ phase' = [phase EXCEPT ![s] = "called"]
  /\ req' = [req EXCEPT ![s] = q]
  /\ now' = [now EXCEPT ![s] = clock]
  /\ UNCHANGED <<reservations, clock, answer>>

Reply(s, code) ==
  /\ phase[s] = "called"
  /\ phase' = [phase EXCEPT ![s] = "answered"]
  /\ answer' = [answer EXCEPT ![s] = code]
  /\ UNCHANGED <<clock, req, now>>

Refuse(s, code) == Reply(s, code) /\ UNCHANGED reservations

(* The state of the row is written and the caller is told, in one step. *)
Write(s, state, code) ==
  /\ Reply(s, code)
  /\ reservations' = [reservations EXCEPT ![req[s].reservation_id].state = state]

-----------------------------------------------------------------------------
(* Mutant: the foreign keys are not looked up. *)
CreateForAnybody(s) ==
  LET b == req[s].booking IN
  /\ req[s].op = "create"
  /\ IF b.starts_at <= now[s] THEN Refuse(s, "START_IN_PAST")
     ELSE /\ Reply(s, "OK")
          /\ \E r \in ReservationIds :
               /\ reservations[r] = NoRow
               /\ reservations' = [reservations EXCEPT ![r] = DraftOf(b)]

(* OP-01: bad input is named in the order of the code; a good booking makes *)
(* a draft, unless the instrument was found out of service.                *)
Create(s) ==
  LET b == req[s].booking IN
  /\ req[s].op = "create"
  /\ IF b.user_id \notin Users THEN Refuse(s, "UNKNOWN_USER")
     ELSE IF b.instrument_id \notin Instruments
     THEN Refuse(s, "UNKNOWN_INSTRUMENT")
     ELSE \/ Refuse(s, "INSTRUMENT_INACTIVE")
          \/ IF ~is_interval_valid(b.starts_at, b.ends_at)
             THEN Refuse(s, "INVALID_INTERVAL")
             ELSE IF b.starts_at <= now[s] THEN Refuse(s, "START_IN_PAST")
             ELSE /\ Reply(s, "OK")
                  /\ \E r \in ReservationIds :
                       /\ reservations[r] = NoRow
                       /\ reservations' = [reservations EXCEPT ![r] = DraftOf(b)]

(* OP-02: reads only. *)
Check(s) ==
  LET q == req[s].query IN
  /\ req[s].op = "check"
  /\ IF q.instrument_id \notin Instruments THEN Refuse(s, "UNKNOWN_INSTRUMENT")
     ELSE IF ~is_interval_valid(q.starts_at, q.ends_at)
     THEN Refuse(s, "INVALID_INTERVAL")
     ELSE \/ Refuse(s, "INSTRUMENT_INACTIVE")
          \/ Refuse(s, AvailabilityAnswer(reservations,
                         overlapping_blocking(reservations, q, now[s])))

-----------------------------------------------------------------------------
(* OP-03 to OP-05 concern one row. *)
Subject(s) == reservations[req[s].reservation_id]

(* BR-06: the owner or a supervisor; BR-07: a decision needs a supervisor  *)
(* who is not the owner.                                                   *)
MayAct(s) ==
  /\ req[s].requested_by \in Users
  /\ \/ /\ req[s].requested_by \in Supervisors
        /\ req[s].op \in {"approve", "reject"}
             => req[s].requested_by # Subject(s).user_id
     \/ /\ req[s].requested_by = Subject(s).user_id
        /\ req[s].op \in {"confirm", "cancel"}

(* Whoever may not act learns nothing of the row's state. *)
TurnAway(s) ==
  /\ req[s].op \in ActorOps
  /\ IF Subject(s) = NoRow THEN Refuse(s, "NOT_FOUND")
     ELSE IF req[s].requested_by \notin Users THEN Refuse(s, "UNKNOWN_USER")
     ELSE ~MayAct(s) /\ Refuse(s, "FORBIDDEN")

Concerns(s, ops) == req[s].op \in ops /\ Subject(s) # NoRow /\ MayAct(s)

(* BR-02, BR-04, BR-05: the instrument is taken, or it is not. *)
Allocate(s, state) ==
  \/ Refuse(s, "INSTRUMENT_INACTIVE")
  \/ Refuse(s, "MISSING_CERTIFICATION")
  \/ IF overlapping_blocking(reservations, Subject(s), now[s])
          \ {req[s].reservation_id} = {}
     THEN Write(s, state, "OK")
     ELSE Refuse(s, "OVERLAP")

(* Mutant: a cancelled reservation can be confirmed again. *)
ConfirmRevives(s) ==
  /\ Concerns(s, {"confirm"})
  /\ IF Subject(s).state \notin {"DRAFT", "CANCELLED"}
     THEN Refuse(s, "INVALID_STATE")
     ELSE IF now[s] >= Subject(s).starts_at THEN Refuse(s, "ALREADY_STARTED")
     ELSE \E state \in BLOCKING_STATES : Allocate(s, state)

(* OP-03: the state is judged before the time. *)
Confirm(s) ==
  /\ Concerns(s, {"confirm"})
  /\ IF Subject(s).state # "DRAFT" THEN Refuse(s, "INVALID_STATE")
     ELSE IF now[s] >= Subject(s).starts_at THEN Refuse(s, "ALREADY_STARTED")
     ELSE \E state \in BLOCKING_STATES : Allocate(s, state)

(* A request that nobody decided about in time (BR-08). *)
Dead(s) ==
  /\ Subject(s).state = "PENDING_APPROVAL"
  /\ ~approval_request_is_alive(Subject(s).starts_at, now[s])

(* Mutant: a cancellation that took effect is refused when repeated. *)
CancelOnlyOnce(s) ==
  /\ Concerns(s, {"cancel"})
  /\ IF Subject(s).state \in {"REJECTED", "EXPIRED", "CANCELLED"}
     THEN Refuse(s, "INVALID_STATE")
     ELSE IF Dead(s) THEN Write(s, "EXPIRED", "EXPIRED")
     ELSE IF /\ Subject(s).state = "CONFIRMED"
             /\ ~may_cancel_confirmed(Subject(s).starts_at, now[s])
     THEN Refuse(s, "TOO_LATE")
     ELSE Write(s, "CANCELLED", "OK")

(* OP-04: repeating it is a success that changes nothing (REQ-09).         *)
Cancel(s) ==
  /\ Concerns(s, {"cancel"})
  /\ IF Subject(s).state = "CANCELLED" THEN Refuse(s, "UNCHANGED")
     ELSE IF Subject(s).state \in {"REJECTED", "EXPIRED"}
     THEN Refuse(s, "INVALID_STATE")
     ELSE IF Dead(s) THEN Write(s, "EXPIRED", "EXPIRED")
     ELSE IF /\ Subject(s).state = "CONFIRMED"
             /\ ~may_cancel_confirmed(Subject(s).starts_at, now[s])
     THEN Refuse(s, "TOO_LATE")
     ELSE Write(s, "CANCELLED", "OK")

(* Mutant: a decision that was made can be made again. *)
DecideOnAgain(s) ==
  /\ Concerns(s, {"approve", "reject"})
  /\ IF Dead(s) THEN Write(s, "EXPIRED", "EXPIRED")
     ELSE IF req[s].op = "reject" THEN Write(s, "REJECTED", "OK")
     ELSE Allocate(s, "CONFIRMED")

(* OP-05: an approval allocates, a rejection needs nothing more (REQ-12).  *)
DecideOn(s) ==
  /\ Concerns(s, {"approve", "reject"})
  /\ IF Subject(s).state # "PENDING_APPROVAL" THEN Refuse(s, "INVALID_STATE")
     ELSE IF Dead(s) THEN Write(s, "EXPIRED", "EXPIRED")
     ELSE IF req[s].op = "reject" THEN Write(s, "REJECTED", "OK")
     ELSE Allocate(s, "CONFIRMED")

Answer(s) == \/ Create(s) \/ Check(s) \/ TurnAway(s)
             \/ Confirm(s) \/ Cancel(s) \/ DecideOn(s)

-----------------------------------------------------------------------------
Gone(s) ==
  /\ phase' = [phase EXCEPT ![s] = "idle"]
  /\ req' = [req EXCEPT ![s] = NoRequest]
  /\ now' = [now EXCEPT ![s] = 0]
  /\ answer' = [answer EXCEPT ![s] = None]
  /\ UNCHANGED <<reservations, clock>>

(* The answer is on its way and the session closed. *)
Close(s) == phase[s] = "answered" /\ Gone(s)

(* The server dies over a request; nothing was written. *)
Die(s) == phase[s] = "called" /\ Gone(s)

Tick == /\ clock < MaxTime
        /\ clock' = clock + 1
        /\ UNCHANGED <<reservations, phase, req, now, answer>>

(* The wall clock is set back: a request is judged by what it showed when  *)
(* the request arrived, whatever it shows now.                             *)
StepBack == /\ clock > 0
            /\ clock' = clock - 1
            /\ UNCHANGED <<reservations, phase, req, now, answer>>

Next == \/ Tick \/ StepBack
        \/ \E s \in Sessions : \/ \E q \in Requests : Call(s, q)
                               \/ Close(s) \/ Die(s)
        \/ \E s \in Sessions : Answer(s)

Spec == Init /\ [][Next]_vars

-----------------------------------------------------------------------------
(* The contract alone promises the core of BR-02: requests that are judged *)
(* by the times of their arrival, answered in another order and repeated   *)
(* never bring about two allocations of an instrument that overlap.        *)
AllocationsExclusive ==
  \A p, q \in ReservationIds :
    (/\ p # q
     /\ reservations[p].state = "CONFIRMED"
     /\ reservations[q].state = "CONFIRMED")
      => ~Overlap(reservations[p], reservations[q])
=============================================================================
