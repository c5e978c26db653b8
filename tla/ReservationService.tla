------------------------- MODULE ReservationService -------------------------
(***************************************************************************)
(* services/reservations.py over PostgreSQL in READ COMMITTED: concurrent  *)
(* requests, each in its own database session, one action per database     *)
(* statement together with the Python that runs up to the next one.        *)
(*                                                                         *)
(* A session is what api/reservations.py and db.get_session make of one    *)
(* HTTP request: the clock is read before the first statement, the service *)
(* function runs, and closing the session rolls back what it did not       *)
(* commit and frees its row locks.                                         *)
(***************************************************************************)
EXTENDS ReservationStore, FiniteSets

CONSTANTS
  Sessions,              \* database sessions: requests served concurrently
  NoOne,                 \* nobody holds the lock
  Requests,              \* the requests clients may send
  InitialReservations,   \* the reservations table at the start
  InitialInstruments,    \* is_active and requires_approval at the start
  InitialCertifications, \* the certifications table at the start
  AdminSettings,         \* what the lab manager may set on an instrument
  AdminCertifications,   \* what the lab manager may grant and revoke
  MaxTime                \* bound: the clock stops there

ASSUME ServiceAssumption ==
  /\ NoOne \notin Sessions
  /\ Requests \subseteq Request
  /\ InitialReservations \in Table /\ Exclusive(InitialReservations, 0)
  /\ InitialInstruments \in [Instruments -> Settings]
  /\ InitialCertifications \subseteq Certification
  /\ AdminSettings \subseteq Settings
  /\ AdminCertifications \subseteq Certification
  /\ MaxTime \in Nat

Bookings == {q.booking : q \in {x \in Requests : x.op = "create"}}

VARIABLES
  clock,           \* the application server's clock
  reservations,    \* committed rows
  instruments,     \* committed is_active and requires_approval
  certifications,  \* committed rows
  resLock,         \* holder of each reservation's row lock (FOR UPDATE)
  insLock,         \* holder of each instrument's row lock
  pc,              \* the next statement of each session
  req,             \* the request it serves
  now,             \* the time read when the request arrived
  row,             \* the session's copy of the reservation it locked
  target,          \* the state it has decided to write
  result           \* what the caller will be told

db == <<reservations, instruments, certifications>>
locks == <<resLock, insLock>>
local == <<req, now, row, target>>
vars == <<clock, db, locks, pc, local, result>>

Label == {"idle", "validate", "insert", "read_instrument", "query",
          "lock_reservation", "authorize", "decide", "certify",
          "lock_instrument", "overlap", "commit", "close"}

(* OK: done.  UNCHANGED: CancelResult.changed = False (REQ-09).  AVAILABLE, *)
(* CONFIRMED, PENDING_APPROVAL and INSTRUMENT_INACTIVE: answers of OP-02.   *)
Result == ErrorCode \cup {None, "OK", "UNCHANGED", "AVAILABLE",
                          "CONFIRMED", "PENDING_APPROVAL"}

TypeOK ==
  /\ clock \in Nat
  /\ reservations \in Table
  /\ instruments \in [Instruments -> Settings]
  /\ certifications \subseteq Certification
  /\ resLock \in [ReservationIds -> Sessions \cup {NoOne}]
  /\ insLock \in [Instruments -> Sessions \cup {NoOne}]
  /\ pc \in [Sessions -> Label]
  /\ req \in [Sessions -> Request \cup {NoRequest}]
  /\ now \in [Sessions -> Nat]
  /\ row \in [Sessions -> Row \cup {NoRow}]
  /\ target \in [Sessions -> ReservationState \cup {None}]
  /\ result \in [Sessions -> Result]

Init ==
  /\ clock = 0
  /\ reservations = InitialReservations
  /\ instruments = InitialInstruments
  /\ certifications = InitialCertifications
  /\ resLock = [r \in ReservationIds |-> NoOne]
  /\ insLock = [i \in Instruments |-> NoOne]
  /\ pc = [s \in Sessions |-> "idle"]
  /\ req = [s \in Sessions |-> NoRequest]
  /\ now = [s \in Sessions |-> 0]
  /\ row = [s \in Sessions |-> NoRow]
  /\ target = [s \in Sessions |-> None]
  /\ result = [s \in Sessions |-> None]

-----------------------------------------------------------------------------
(* Steps every operation is made of. *)

Go(s, label) == pc' = [pc EXCEPT ![s] = label]

(* The service function returns or raises: the answer is fixed, but the    *)
(* session, and every lock it holds, lives on until it is closed.          *)
Reply(s, code) == Go(s, "close") /\ result' = [result EXCEPT ![s] = code]

(* The decision is to write a state: remember it and go on. *)
Intend(s, state, label) ==
  Go(s, label) /\ target' = [target EXCEPT ![s] = state] /\ UNCHANGED result

Released(lock, s) ==
  [x \in DOMAIN lock |-> IF lock[x] = s THEN NoOne ELSE lock[x]]

ReleaseLocks(s) == /\ resLock' = Released(resLock, s)
                   /\ insLock' = Released(insLock, s)

(* Room in the finite set of ids for one more row: a bound of the model,   *)
(* the code's uuid4 keys do not run out.                                   *)
RoomForInsert ==
  Cardinality({t \in Sessions : pc[t] \in {"validate", "insert"}})
    < Cardinality({r \in ReservationIds : reservations[r] = NoRow})

FirstStatement(op) == CASE op = "create" -> "validate"
                        [] op = "check" -> "read_instrument"
                        [] op \in ActorOps -> "lock_reservation"

(* The endpoint: a fresh session, clock.now(), the call of the service. *)
Begin(s) ==
  /\ pc[s] = "idle"
  /\ \E q \in Requests :
       /\ q.op = "create" => RoomForInsert
       /\ req' = [req EXCEPT ![s] = q]
       /\ Go(s, FirstStatement(q.op))
  /\ now' = [now EXCEPT ![s] = clock]
  /\ UNCHANGED <<clock, db, locks, row, target, result>>

-----------------------------------------------------------------------------
(* OP-01 create_reservation *)

(* Mutant: START_IN_PAST is not looked at. *)
CreateRefusalIgnoresPast(b, at) ==
  IF b.user_id \notin Users THEN "UNKNOWN_USER"
  ELSE IF b.instrument_id \notin Instruments THEN "UNKNOWN_INSTRUMENT"
  ELSE IF ~instruments[b.instrument_id].is_active THEN "INSTRUMENT_INACTIVE"
  ELSE IF ~is_interval_valid(b.starts_at, b.ends_at) THEN "INVALID_INTERVAL"
  ELSE None

CreateRefusal(b, at) ==
  IF b.user_id \notin Users THEN "UNKNOWN_USER"
  ELSE IF b.instrument_id \notin Instruments THEN "UNKNOWN_INSTRUMENT"
  ELSE IF ~instruments[b.instrument_id].is_active THEN "INSTRUMENT_INACTIVE"
  ELSE IF ~is_interval_valid(b.starts_at, b.ends_at) THEN "INVALID_INTERVAL"
  ELSE IF b.starts_at <= at THEN "START_IN_PAST"
  ELSE None

ValidateCreate(s) ==
  /\ pc[s] = "validate"
  /\ LET refusal == CreateRefusal(req[s].booking, now[s]) IN
       \/ refusal # None /\ Reply(s, refusal)
       \/ refusal = None /\ Go(s, "insert") /\ UNCHANGED result
  /\ UNCHANGED <<clock, db, locks, local>>

(* Mutant: _lock_instrument asks for FOR UPDATE. *)
InstrumentLockModeForUpdate == "UPDATE"

(* The lock _lock_instrument takes. *)
InstrumentLockMode == "NO KEY UPDATE"

(* PostgreSQL: the foreign-key check of an INSERT asks for KEY SHARE on    *)
(* the instrument's row, which conflicts with FOR UPDATE only.             *)
KeyShareGranted(i) ==
  insLock[i] = NoOne \/ InstrumentLockMode \in {"KEY SHARE", "SHARE",
                                               "NO KEY UPDATE"}

InsertDraft(s) ==
  /\ pc[s] = "insert"
  /\ KeyShareGranted(req[s].booking.instrument_id)
  /\ \E r \in ReservationIds :
       /\ reservations[r] = NoRow
       /\ reservations' = [reservations EXCEPT ![r] = DraftOf(req[s].booking)]
  /\ Reply(s, "OK")
  /\ UNCHANGED <<clock, instruments, certifications, locks, local>>

-----------------------------------------------------------------------------
(* OP-02 check_availability *)

ReadInstrument(s) ==
  /\ pc[s] = "read_instrument"
  /\ LET q == req[s].query IN
       IF q.instrument_id \notin Instruments
       THEN Reply(s, "UNKNOWN_INSTRUMENT")
       ELSE IF ~is_interval_valid(q.starts_at, q.ends_at)
       THEN Reply(s, "INVALID_INTERVAL")
       ELSE IF ~instruments[q.instrument_id].is_active
       THEN Reply(s, "INSTRUMENT_INACTIVE")
       ELSE Go(s, "query") /\ UNCHANGED result
  /\ UNCHANGED <<clock, db, locks, local>>

QueryConflicts(s) ==
  /\ pc[s] = "query"
  /\ Reply(s, AvailabilityAnswer(reservations, overlapping_blocking(
                               reservations, req[s].query, now[s])))
  /\ UNCHANGED <<clock, db, locks, local>>

-----------------------------------------------------------------------------
(* OP-03 confirm_reservation, OP-04 cancel_reservation and                 *)
(* OP-05 decide_reservation: all begin by locking the reservation's row.   *)

(* Mutant: session.get without with_for_update. *)
LockReservationUnlocked(s) ==
  LET r == req[s].reservation_id IN
  /\ pc[s] = "lock_reservation"
  /\ reservations[r] # NoRow
  /\ row' = [row EXCEPT ![s] = reservations[r]]
  /\ Go(s, "authorize")
  /\ UNCHANGED <<clock, db, locks, req, now, target, result>>

(* _lock_reservation: SELECT .. FOR UPDATE.  A waiter that is let in reads *)
(* the row as the previous holder committed it (READ COMMITTED).           *)
LockReservation(s) ==
  LET r == req[s].reservation_id IN
  /\ pc[s] = "lock_reservation"
  /\ \/ /\ reservations[r] = NoRow
        /\ Reply(s, "NOT_FOUND")
        /\ UNCHANGED <<resLock, row>>
     \/ /\ reservations[r] # NoRow
        /\ resLock[r] = NoOne
        /\ resLock' = [resLock EXCEPT ![r] = s]
        /\ row' = [row EXCEPT ![s] = reservations[r]]
        /\ Go(s, "authorize")
        /\ UNCHANGED result
  /\ UNCHANGED <<clock, db, insLock, req, now, target>>

(* _require_authorized (BR-06): the owner or a supervisor. *)
Authorized(s) == \/ req[s].requested_by \in Supervisors
                 \/ req[s].requested_by = row[s].user_id

(* Mutant: a supervisor decides about anything, his own request included. *)
MayDecideOwn(s) == req[s].requested_by \in Supervisors

(* decide_reservation (BR-07): a supervisor who is not the owner. *)
MayDecide(s) == /\ req[s].requested_by \in Supervisors
                /\ req[s].requested_by # row[s].user_id

Permitted(s) == IF req[s].op \in {"approve", "reject"}
                THEN MayDecide(s) ELSE Authorized(s)

(* _require_user reads the user, then the permission is judged - before    *)
(* the state, so that an error code does not reveal a stranger's state.    *)
Authorize(s) ==
  /\ pc[s] = "authorize"
  /\ IF req[s].requested_by \notin Users THEN Reply(s, "UNKNOWN_USER")
     ELSE IF ~Permitted(s) THEN Reply(s, "FORBIDDEN")
     ELSE Go(s, "decide") /\ UNCHANGED result
  /\ UNCHANGED <<clock, db, locks, local>>

(* OP-03: reads the instrument, and lets the policy choose the state to    *)
(* ask for.  confirm_decision always gives a rejection or a blocking state *)
(* (theorem PolicyShapes of ReservationPolicyProofs), so the               *)
(* AssertionError after it has no step here.                               *)
DecideConfirm(s) ==
  /\ pc[s] = "decide" /\ req[s].op = "confirm"
  /\ LET instrument == instruments[row[s].instrument_id]
         d == confirm_decision(row[s].state, row[s].starts_at, now[s],
                               instrument.requires_approval)
     IN \/ /\ d.rejection # None
           /\ Reply(s, d.rejection) /\ UNCHANGED target
        \/ /\ d.rejection = None /\ ~instrument.is_active
           /\ Reply(s, "INSTRUMENT_INACTIVE") /\ UNCHANGED target
        \/ /\ d.rejection = None /\ instrument.is_active
           /\ Intend(s, d.target, "certify")
  /\ UNCHANGED <<clock, db, locks, req, now, row>>

(* Mutant: a repeated cancellation writes what the decision says, nothing. *)
DecideCancelAlwaysWrites(s) ==
  /\ pc[s] = "decide" /\ req[s].op = "cancel"
  /\ LET d == cancel_decision(row[s].state, row[s].starts_at, now[s]) IN
        IF d.target = None /\ d.rejection # None
        THEN Reply(s, d.rejection) /\ UNCHANGED target
        ELSE Intend(s, d.target, "commit")
  /\ UNCHANGED <<clock, db, locks, req, now, row>>

(* OP-04: nothing to write (a rejection, or the idempotent repetition of   *)
(* REQ-09, which does not commit and so keeps the row lock until the       *)
(* session is closed), or a state to write.                                *)
DecideCancel(s) ==
  /\ pc[s] = "decide" /\ req[s].op = "cancel"
  /\ LET d == cancel_decision(row[s].state, row[s].starts_at, now[s]) IN
        \/ /\ d.target = None
           /\ Reply(s, IF d.rejection = None THEN "UNCHANGED" ELSE d.rejection)
           /\ UNCHANGED target
        \/ d.target # None /\ Intend(s, d.target, "commit")
  /\ UNCHANGED <<clock, db, locks, req, now, row>>

(* Mutant: expire_request_if_dead is not called. *)
DecideRequestIgnoresExpiry(s) ==
  /\ pc[s] = "decide" /\ req[s].op \in {"approve", "reject"}
  /\ IF row[s].state # "PENDING_APPROVAL"
     THEN Reply(s, "INVALID_STATE") /\ UNCHANGED target
     ELSE IF req[s].op = "reject" THEN Intend(s, "REJECTED", "commit")
     ELSE Intend(s, "CONFIRMED", "certify")
  /\ UNCHANGED <<clock, db, locks, req, now, row>>

(* Mutant: the source state is not looked at. *)
DecideRequestAnyState(s) ==
  /\ pc[s] = "decide" /\ req[s].op \in {"approve", "reject"}
  /\ LET expiry == expiry_decision(row[s].state, row[s].starts_at, now[s])
     IN IF expiry.target # None THEN Intend(s, expiry.target, "commit")
        ELSE IF req[s].op = "reject" THEN Intend(s, "REJECTED", "commit")
        ELSE Intend(s, "CONFIRMED", "certify")
  /\ UNCHANGED <<clock, db, locks, req, now, row>>

(* Mutant: the approval looks at the instrument's setting, not at whether  *)
(* it is active.                                                           *)
DecideRequestOnOneInService(s) ==
  /\ pc[s] = "decide" /\ req[s].op \in {"approve", "reject"}
  /\ LET expiry == expiry_decision(row[s].state, row[s].starts_at, now[s])
         asked == instruments[row[s].instrument_id].requires_approval
     IN IF row[s].state # "PENDING_APPROVAL"
        THEN Reply(s, "INVALID_STATE") /\ UNCHANGED target
        ELSE IF expiry.target # None THEN Intend(s, expiry.target, "commit")
        ELSE IF req[s].op = "reject" THEN Intend(s, "REJECTED", "commit")
        ELSE IF ~asked
        THEN Reply(s, "INSTRUMENT_INACTIVE") /\ UNCHANGED target
        ELSE Intend(s, "CONFIRMED", "certify")
  /\ UNCHANGED <<clock, db, locks, req, now, row>>

(* OP-05: the state, then expire_request_if_dead, then the verdict; an     *)
(* approval also reads the instrument.                                     *)
DecideRequest(s) ==
  /\ pc[s] = "decide" /\ req[s].op \in {"approve", "reject"}
  /\ LET expiry == expiry_decision(row[s].state, row[s].starts_at, now[s])
         active == instruments[row[s].instrument_id].is_active
     IN IF row[s].state # "PENDING_APPROVAL"
        THEN Reply(s, "INVALID_STATE") /\ UNCHANGED target
        ELSE IF expiry.target # None THEN Intend(s, expiry.target, "commit")
        ELSE IF req[s].op = "reject" THEN Intend(s, "REJECTED", "commit")
        ELSE IF ~active
        THEN Reply(s, "INSTRUMENT_INACTIVE") /\ UNCHANGED target
        ELSE Intend(s, "CONFIRMED", "certify")
  /\ UNCHANGED <<clock, db, locks, req, now, row>>

(* Mutant: the caller's certificate, which is a supervisor's if he is not  *)
(* the owner.                                                              *)
CertifyRequester(s) ==
  /\ pc[s] = "certify"
  /\ IF certified(certifications, req[s].requested_by,
                  category[row[s].instrument_id], row[s].starts_at)
     THEN Go(s, "lock_instrument") /\ UNCHANGED result
     ELSE Reply(s, "MISSING_CERTIFICATION")
  /\ UNCHANGED <<clock, db, locks, local>>

(* The rest of _require_allocatable: the owner's certificate (BR-04). *)
Certify(s) ==
  /\ pc[s] = "certify"
  /\ IF certified(certifications, row[s].user_id,
                  category[row[s].instrument_id], row[s].starts_at)
     THEN Go(s, "lock_instrument") /\ UNCHANGED result
     ELSE Reply(s, "MISSING_CERTIFICATION")
  /\ UNCHANGED <<clock, db, locks, local>>

(* Mutant: enter_blocking_state does not take the lock. *)
LockInstrumentUnlocked(s) ==
  /\ pc[s] = "lock_instrument"
  /\ Go(s, "overlap")
  /\ UNCHANGED <<clock, db, locks, local, result>>

(* Mutant: one lock for the laboratory instead of one for each instrument. *)
LockInstrumentOfLab(s) ==
  /\ pc[s] = "lock_instrument"
  /\ \A i \in Instruments : insLock[i] = NoOne
  /\ insLock' = [i \in Instruments |-> s]
  /\ Go(s, "overlap")
  /\ UNCHANGED <<clock, db, resLock, local, result>>

(* enter_blocking_state, first statement: _lock_instrument.  The row it    *)
(* reads again is not looked at.                                           *)
LockInstrument(s) ==
  LET i == row[s].instrument_id IN
  /\ pc[s] = "lock_instrument"
  /\ insLock[i] = NoOne
  /\ insLock' = [insLock EXCEPT ![i] = s]
  /\ Go(s, "overlap")
  /\ UNCHANGED <<clock, db, resLock, local, result>>

(* Mutant: only allocations count, waiting requests do not. *)
CheckOverlapConfirmedOnly(s) ==
  /\ pc[s] = "overlap"
  /\ IF \A r \in overlapping_blocking(reservations, row[s], now[s])
                  \ {req[s].reservation_id} : reservations[r].state # "CONFIRMED"
     THEN Go(s, "commit") /\ UNCHANGED result
     ELSE Reply(s, "OVERLAP")
  /\ UNCHANGED <<clock, db, locks, local>>

(* Mutant: the overlap query is FOR UPDATE too, so an instrument's holder  *)
(* waits for reservations.                                                 *)
CheckOverlapLocksRivals(table, s) ==
  LET rivals == overlapping_blocking(table, row[s], now[s])
                  \ {req[s].reservation_id} IN
  /\ pc[s] = "overlap"
  /\ \A r \in rivals : resLock[r] \in {NoOne, s}
  /\ resLock' = [r \in ReservationIds |->
                   IF r \in rivals THEN s ELSE resLock[r]]
  /\ IF rivals = {} THEN Go(s, "commit") /\ UNCHANGED result
     ELSE Reply(s, "OVERLAP")
  /\ UNCHANGED <<clock, db, insLock, local>>

(* enter_blocking_state: BR-02 over the rows the session sees; the state   *)
(* is set in memory.                                                       *)
CheckOverlapIn(table, s) ==
  /\ pc[s] = "overlap"
  /\ IF overlapping_blocking(table, row[s], now[s])
          \ {req[s].reservation_id} = {}
     THEN Go(s, "commit") /\ UNCHANGED result
     ELSE Reply(s, "OVERLAP")
  /\ UNCHANGED <<clock, db, locks, local>>

(* READ COMMITTED: a statement sees what is committed when it begins. *)
CheckOverlap(s) == CheckOverlapIn(reservations, s)

(* Mutant: DomainError(EXPIRED) raised without the commit before it. *)
CommitLosesExpiry(s) ==
  /\ pc[s] = "commit"
  /\ IF target[s] = "EXPIRED" THEN UNCHANGED reservations
     ELSE reservations' = [reservations EXCEPT
                             ![req[s].reservation_id].state = target[s]]
  /\ ReleaseLocks(s)
  /\ Reply(s, IF target[s] = "EXPIRED" THEN "EXPIRED" ELSE "OK")
  /\ UNCHANGED <<clock, instruments, certifications, local>>

(* session.commit(), which ends confirm_reservation (435), the branches of *)
(* cancel_reservation (470) and decide_reservation (544, 556), and         *)
(* _write_expired (265): the UPDATE of the state column becomes visible    *)
(* and the row locks go, in one step.  An expiry is committed and then     *)
(* answered by the rejection EXPIRED (N-04).                               *)
Commit(s) ==
  /\ pc[s] = "commit"
  /\ reservations' = [reservations EXCEPT
                        ![req[s].reservation_id].state = target[s]]
  /\ ReleaseLocks(s)
  /\ Reply(s, IF target[s] = "EXPIRED" THEN "EXPIRED" ELSE "OK")
  /\ UNCHANGED <<clock, instruments, certifications, local>>

-----------------------------------------------------------------------------
(* get_session: leaving the with block rolls back and frees what is left.  *)
Closed(s) ==
  /\ Go(s, "idle")
  /\ ReleaseLocks(s)
  /\ req' = [req EXCEPT ![s] = NoRequest]
  /\ now' = [now EXCEPT ![s] = 0]
  /\ row' = [row EXCEPT ![s] = NoRow]
  /\ target' = [target EXCEPT ![s] = None]
  /\ result' = [result EXCEPT ![s] = None]
  /\ UNCHANGED <<clock, db>>

(* Mutant: the session is dropped without a rollback. *)
CloseLeaksLocks(s) ==
  /\ pc[s] = "close"
  /\ Go(s, "idle")
  /\ req' = [req EXCEPT ![s] = NoRequest]
  /\ now' = [now EXCEPT ![s] = 0]
  /\ row' = [row EXCEPT ![s] = NoRow]
  /\ target' = [target EXCEPT ![s] = None]
  /\ result' = [result EXCEPT ![s] = None]
  /\ UNCHANGED <<clock, db, locks>>

Close(s) == pc[s] = "close" /\ Closed(s)

(* The process or its connection dies before the answer: PostgreSQL rolls  *)
(* the transaction back.                                                   *)
Abort(s) == pc[s] \notin {"idle", "close"} /\ Closed(s)

-----------------------------------------------------------------------------
(* Outside src/: time, and the lab manager, who edits instruments and      *)
(* certificates directly in the database (TBD-02).                         *)

Tick == /\ clock < MaxTime
        /\ clock' = clock + 1
        /\ UNCHANGED <<db, locks, pc, local, result>>

(* An UPDATE takes NO KEY UPDATE on the row, so it waits for a session in  *)
(* its critical section.                                                   *)
SetInstrument(i) ==
  /\ insLock[i] = NoOne
  /\ \E setting \in AdminSettings :
       instruments' = [instruments EXCEPT ![i] = setting]
  /\ UNCHANGED <<clock, reservations, certifications, locks, pc, local, result>>

GrantCertification(c) ==
  /\ certifications' = certifications \cup {c}
  /\ UNCHANGED <<clock, reservations, instruments, locks, pc, local, result>>

RevokeCertification(c) ==
  /\ certifications' = certifications \ {c}
  /\ UNCHANGED <<clock, reservations, instruments, locks, pc, local, result>>

-----------------------------------------------------------------------------
Run(s) == \/ ValidateCreate(s) \/ InsertDraft(s)
          \/ ReadInstrument(s) \/ QueryConflicts(s)
          \/ Authorize(s)
          \/ DecideConfirm(s) \/ DecideCancel(s) \/ DecideRequest(s)
          \/ Certify(s) \/ CheckOverlap(s) \/ Commit(s) \/ Close(s)

Next ==
  \/ \E s \in Sessions : \/ Begin(s) \/ Run(s) \/ Abort(s)
                         \/ LockReservation(s) \/ LockInstrument(s)
  \/ \E i \in Instruments : SetInstrument(i)
  \/ \E c \in AdminCertifications :
       GrantCertification(c) \/ RevokeCertification(c)
  \/ Tick

Spec == Init /\ [][Next]_vars

(* clock.py reads the wall clock, which may also be set back.              *)
StepBack == /\ clock > 0
            /\ clock' = clock - 1
            /\ UNCHANGED <<db, locks, pc, local, result>>

UnsteadyNext == Next \/ StepBack

UnsteadySpec == Init /\ [][UnsteadyNext]_vars
=============================================================================
