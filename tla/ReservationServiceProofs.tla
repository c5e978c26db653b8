---------------------- MODULE ReservationServiceProofs ----------------------
(***************************************************************************)
(* The service keeps Coherent and implements the ledger, for any number of     *)
(* sessions, reservations, instruments and users.                          *)
(***************************************************************************)
EXTENDS ReservationGuarantees, ReservationStoreProofs, FiniteSetTheorems

(* The steps of session t read nothing that others may change behind it. *)
LEMMA SessionFrame ==
  ASSUME TypeOK, TypeOK', NEW t \in Sessions, SessionInv(t),
         pc'[t] = pc[t], req'[t] = req[t], now'[t] = now[t],
         row'[t] = row[t], target'[t] = target[t],
         \A r \in ReservationIds : resLock[r] = t =>
           resLock'[r] = t /\ reservations'[r] = reservations[r],
         \A i \in Instruments : insLock[i] = t => insLock'[i] = t,
         \A r \in ReservationIds :
           (/\ insLock[row[t].instrument_id] = t
            /\ Blocks(reservations'[r], now[t])
            /\ Overlap(reservations'[r], row[t]))
           => (/\ Blocks(reservations[r], now[t])
               /\ Overlap(reservations[r], row[t]))
  PROVE  SessionInv(t)'
<1> USE DEF SessionInv
<1>1. Entitled(t)'
  BY DEF Entitled, Permitted, Authorized, MayDecide
<1>2. RequestFits(t)'
  BY DEF RequestFits, Bookings
<1>3. RowIsFresh(t)'
  BY DEF RowIsFresh, RequestFits, ActorRequest, Holding
<1>4. AllocationIsGuarded(t)'
  <2>1. pc[t] \in Holding => row[t].instrument_id \in Instruments
    BY DEF RowIsFresh, Row
  <2>2. QED
    BY <2>1 DEF AllocationIsGuarded, MayAllocate, overlapping_blocking, Holding
<1>5. WriteIsLegal(t)'
  BY DEF WriteIsLegal
<1>6. QED
  BY <1>1, <1>2, <1>3, <1>4, <1>5

(* Only session s moves, the table stays, locks are only taken when free.  *)
LocalStep(s) ==
  /\ clock' = clock /\ reservations' = reservations
  /\ \A t \in Sessions \ {s} :
       /\ pc'[t] = pc[t] /\ req'[t] = req[t] /\ now'[t] = now[t]
       /\ row'[t] = row[t] /\ target'[t] = target[t]
  /\ \A r \in ReservationIds : resLock[r] \notin {s, NoOne} => resLock'[r] = resLock[r]
  /\ \A i \in Instruments : insLock[i] \notin {s, NoOne} => insLock'[i] = insLock[i]

LEMMA LocalFrame ==
  ASSUME Coherent, TypeOK', NEW s \in Sessions, LocalStep(s), SessionInv(s)'
  PROVE  Coherent'
<1>1. ASSUME NEW t \in Sessions, t # s PROVE SessionInv(t)'
  <2>1. t # NoOne
    BY ServiceAssumption
  <2>2. clock \in Nat
    BY DEF Coherent, TypeOK
  <2>3. QED
    BY <1>1, <2>1, <2>2, SessionFrame DEF Coherent, LocalStep
<1>2. QED
  BY <1>1 DEF Coherent

(* The endpoint starts a session: it holds nothing yet. *)
LEMMA BeginKeeps == ASSUME Coherent, NEW s \in Sessions, Begin(s) PROVE Coherent'
<1> USE DEF Begin, Go, db, locks
<1>1. PICK q \in Requests : /\ req' = [req EXCEPT ![s] = q]
                            /\ pc' = [pc EXCEPT ![s] = FirstStatement(q.op)]
  OBVIOUS
<1>2. q \in Request
  BY ServiceAssumption
<1>3. \/ q \in CreateRequest /\ FirstStatement(q.op) = "validate"
      \/ q \in CheckRequest /\ FirstStatement(q.op) = "read_instrument"
      \/ q \in ActorRequest /\ FirstStatement(q.op) = "lock_reservation"
  BY <1>2 DEF Request, CreateRequest, CheckRequest, ActorRequest,
              FirstStatement, ActorOps
<1>4. TypeOK'
  BY <1>1, <1>2, <1>3 DEF Coherent, TypeOK, Label
<1>5. SessionInv(s)'
  <2>1. pc'[s] = FirstStatement(q.op) /\ req'[s] = q /\ now'[s] = clock
    BY <1>1 DEF Coherent, TypeOK
  <2>2. q \in CreateRequest => q.booking \in Bookings
    BY DEF CreateRequest, Bookings
  <2>3. RequestFits(s)'
    BY <1>3, <2>1, <2>2 DEF RequestFits, Holding, Bookings
  <2>4. QED
    BY <1>3, <2>1, <2>3 DEF SessionInv, Entitled, RowIsFresh, AllocationIsGuarded,
                            WriteIsLegal, Holding, Coherent, TypeOK
<1>6. LocalStep(s)
  BY DEF LocalStep, Coherent, TypeOK
<1>7. QED
  BY <1>4, <1>5, <1>6, LocalFrame

(* A step of s that only moves on or fixes the answer. *)
LEMMA QuietKeeps ==
  ASSUME Coherent, NEW s \in Sessions, NEW label \in Label, NEW code \in Result,
         Go(s, label), result' = [result EXCEPT ![s] = code] \/ UNCHANGED result,
         UNCHANGED <<clock, db, locks, local>>, SessionInv(s)'
  PROVE  Coherent'
<1> USE DEF Go, db, locks, local
<1>1. TypeOK'
  BY DEF Coherent, TypeOK
<1>2. LocalStep(s)
  BY DEF LocalStep, Coherent, TypeOK
<1>3. QED
  BY <1>1, <1>2, LocalFrame

(* An answer leaves no obligation. *)
LEMMA ClosingIsFree ==
  ASSUME Coherent, NEW s \in Sessions, pc'[s] = "close"
  PROVE  SessionInv(s)'
BY DEF SessionInv, RequestFits, Entitled, RowIsFresh, AllocationIsGuarded,
       WriteIsLegal, Holding

LEMMA ReplyKeeps ==
  ASSUME Coherent, NEW s \in Sessions, NEW code \in Result, Reply(s, code),
         UNCHANGED <<clock, db, locks, local>>
  PROVE  Coherent'
<1>1. pc'[s] = "close"
  BY DEF Reply, Go, Coherent, TypeOK, SessionInv, local
<1>2. SessionInv(s)'
  BY <1>1, ClosingIsFree
<1>3. QED
  BY <1>2, QuietKeeps DEF Reply, Label

LEMMA ValidateCreateKeeps ==
  ASSUME Coherent, NEW s \in Sessions, ValidateCreate(s) PROVE Coherent'
<1> DEFINE refusal == CreateRefusal(req[s].booking, now[s])
<1>1. refusal \in Result
  BY DEF CreateRefusal, Result, ErrorCode
<1>2. CASE refusal # None
  BY <1>1, <1>2, ReplyKeeps DEF ValidateCreate
<1>3. CASE refusal = None
  <2>1. /\ req[s].booking.user_id \in Users
        /\ req[s].booking.instrument_id \in Instruments
        /\ is_interval_valid(req[s].booking.starts_at, req[s].booking.ends_at)
        /\ ~(req[s].booking.starts_at <= now[s])
    BY <1>3 DEF CreateRefusal, None
  <2>2. Go(s, "insert") /\ UNCHANGED result /\ UNCHANGED <<clock, db, locks, local>>
    BY <1>3 DEF ValidateCreate
  <2>3. RequestFits(s) /\ pc[s] = "validate" /\ now[s] \in Nat
    BY DEF Coherent, SessionInv, TypeOK, ValidateCreate
  <2>4. /\ pc'[s] = "insert" /\ req'[s] = req[s] /\ now'[s] = now[s]
        /\ clock' = clock
    BY <2>2 DEF Go, Coherent, TypeOK, local
  <2>5. now[s] < req[s].booking.starts_at
    BY <2>1, <2>3 DEF RequestFits, CreateRequest
  <2>6. SessionInv(s)'
    BY <2>1, <2>3, <2>4, <2>5
    DEF Coherent, SessionInv, RequestFits, Entitled,
        Permitted, Authorized, MayDecide, RowIsFresh, AllocationIsGuarded,
        WriteIsLegal, Holding, Bookings
  <2>7. QED
    BY <2>2, <2>6, QuietKeeps DEF Label, Result
<1>4. QED
  BY <1>2, <1>3

LEMMA ReadInstrumentKeeps ==
  ASSUME Coherent, NEW s \in Sessions, ReadInstrument(s) PROVE Coherent'
<1> DEFINE GoesOn ==
      /\ Go(s, "query") /\ UNCHANGED result
      /\ req[s].query.instrument_id \in Instruments
      /\ is_interval_valid(req[s].query.starts_at, req[s].query.ends_at)
<1>1. \/ \E code \in Result : Reply(s, code)
      \/ GoesOn
  BY DEF ReadInstrument, Result, ErrorCode
<1>2. UNCHANGED <<clock, db, locks, local>>
  BY DEF ReadInstrument
<1>3. CASE GoesOn
  <2>1. /\ pc'[s] = "query" /\ req'[s] = req[s] /\ now'[s] = now[s]
        /\ clock' = clock /\ req[s] \in CheckRequest
    BY <1>2, <1>3
    DEF Go, Coherent, TypeOK, local, SessionInv, RequestFits, ReadInstrument
  <2>2. SessionInv(s)'
    BY <1>3, <2>1 DEF Coherent, SessionInv, RequestFits, Entitled,
        Permitted, Authorized, MayDecide, RowIsFresh,
                AllocationIsGuarded, WriteIsLegal, Holding, Bookings
  <2>3. QED
    BY <1>2, <1>3, <2>2, QuietKeeps DEF Label, Result
<1>4. QED
  BY <1>1, <1>2, <1>3, ReplyKeeps

LEMMA QueryConflictsKeeps ==
  ASSUME Coherent, NEW s \in Sessions, QueryConflicts(s) PROVE Coherent'
<1> DEFINE code == AvailabilityAnswer(reservations, overlapping_blocking(
                     reservations, req[s].query, now[s]))
<1>1. code \in Result
  BY DEF AvailabilityAnswer, Result
<1>2. QED
  BY <1>1, ReplyKeeps DEF QueryConflicts

(* The inserted row is a draft, which holds no instrument. *)
LEMMA InsertDraftKeeps ==
  ASSUME Coherent, NEW s \in Sessions, InsertDraft(s) PROVE Coherent'
<1> USE DEF InsertDraft, Reply, Go, db, locks, local
<1> DEFINE draft == DraftOf(req[s].booking)
<1>1. PICK r \in ReservationIds :
        /\ reservations[r] = NoRow
        /\ reservations' = [reservations EXCEPT ![r] = draft]
  OBVIOUS
<1>2. draft \in Row
  BY StoreAssumption DEF Coherent, SessionInv, RequestFits, CreateRequest, DraftOf,
                         Row, ReservationState
<1>3. TypeOK'
  BY <1>1, <1>2 DEF Coherent, TypeOK, Table, Label, Result
<1>4. SessionInv(s)'
  <2>1. pc'[s] = "close"
    BY DEF Coherent, TypeOK, SessionInv
  <2>2. QED
    BY <2>1, ClosingIsFree
<1>5. ASSUME NEW t \in Sessions, t # s PROVE SessionInv(t)'
  <2>1. /\ TypeOK /\ SessionInv(t) /\ pc'[t] = pc[t] /\ req'[t] = req[t]
        /\ now'[t] = now[t] /\ row'[t] = row[t] /\ target'[t] = target[t]
        /\ resLock' = resLock /\ insLock' = insLock
    BY <1>5 DEF Coherent, TypeOK
  <2>2. ~Blocks(reservations'[r], now[t])
    BY <1>1 DEF Coherent, TypeOK, Table, Blocks, BLOCKING_STATES, DraftOf
  <2>3. \A x \in ReservationIds : x # r => reservations'[x] = reservations[x]
    BY <1>1 DEF Coherent, TypeOK, Table
  <2>4. CASE resLock[r] # t
    BY <1>3, <2>1, <2>2, <2>3, <2>4, SessionFrame
  <2>5. CASE resLock[r] = t
    <3>1. ASSUME pc[t] \in Holding PROVE req[t].reservation_id # r
      BY <1>1, <2>1, <3>1 DEF SessionInv, RowIsFresh, Row, NoRow, ReservationState
    <3>2. RequestFits(t)' /\ Entitled(t)'
      BY <2>1 DEF SessionInv, RequestFits, Bookings, Entitled, Permitted,
                  Authorized, MayDecide
    <3>3. RowIsFresh(t)'
      BY <2>1, <2>3, <3>1
      DEF SessionInv, RowIsFresh, RequestFits, ActorRequest
    <3>4. overlapping_blocking(reservations', row[t], now[t])
            \subseteq overlapping_blocking(reservations, row[t], now[t])
      BY <2>2, <2>3 DEF overlapping_blocking
    <3>5. AllocationIsGuarded(t)' /\ WriteIsLegal(t)'
      BY <2>1, <3>4 DEF SessionInv, AllocationIsGuarded, MayAllocate, WriteIsLegal
    <3>6. QED
      BY <3>2, <3>3, <3>5 DEF SessionInv
  <2>6. QED
    BY <2>4, <2>5
<1>6. QED
  BY <1>3, <1>4, <1>5 DEF Coherent

LEMMA LockReservationKeeps ==
  ASSUME Coherent, NEW s \in Sessions, LockReservation(s) PROVE Coherent'
<1> USE DEF LockReservation, Go, db, locks
<1> DEFINE r == req[s].reservation_id
<1>1. req[s] \in ActorRequest /\ r \in ReservationIds
  BY DEF Coherent, SessionInv, RequestFits, ActorRequest
<1>2. CASE reservations[r] = NoRow
  <2>1. Reply(s, "NOT_FOUND") /\ UNCHANGED <<clock, db, locks, local>>
    BY <1>2 DEF local
  <2>2. QED
    BY <2>1, ReplyKeeps DEF Result, ErrorCode
<1>3. CASE reservations[r] # NoRow
  <2>1. /\ reservations[r] \in Row
        /\ resLock[r] = NoOne
        /\ resLock' = [resLock EXCEPT ![r] = s]
        /\ row' = [row EXCEPT ![s] = reservations[r]]
        /\ pc' = [pc EXCEPT ![s] = "authorize"]
    BY <1>1, <1>3 DEF Coherent, TypeOK, Table
  <2>2. TypeOK'
    BY <1>1, <1>3, <2>1 DEF Coherent, TypeOK, Label
  <2>3. LocalStep(s)
    BY <1>1, <1>3, <2>1 DEF LocalStep, Coherent, TypeOK
  <2>4. /\ pc'[s] = "authorize" /\ row'[s] = reservations[r] /\ resLock'[r] = s
        /\ req' = req /\ now' = now /\ clock' = clock
        /\ reservations' = reservations
    BY <1>1, <2>1 DEF Coherent, TypeOK
  <2>5. SessionInv(s)'
    BY <1>1, <2>1, <2>4
    DEF Coherent, SessionInv, RequestFits, Entitled,
        Permitted, Authorized, MayDecide, RowIsFresh, AllocationIsGuarded,
        WriteIsLegal, Holding, Bookings
  <2>6. QED
    BY <2>2, <2>3, <2>5, LocalFrame
<1>4. QED
  BY <1>2, <1>3

LEMMA AuthorizeKeeps ==
  ASSUME Coherent, NEW s \in Sessions, Authorize(s) PROVE Coherent'
<1>1. UNCHANGED <<clock, db, locks, local>> /\ pc[s] = "authorize"
  BY DEF Authorize
<1>2. \/ Reply(s, "UNKNOWN_USER") \/ Reply(s, "FORBIDDEN")
      \/ /\ Go(s, "decide") /\ UNCHANGED result
         /\ req[s].requested_by \in Users /\ Permitted(s)
  BY DEF Authorize
<1>3. CASE /\ Go(s, "decide") /\ UNCHANGED result
           /\ req[s].requested_by \in Users /\ Permitted(s)
  <2>1. /\ pc'[s] = "decide" /\ UNCHANGED <<req, now, row, target, clock,
                                              reservations, resLock>>
    BY <1>1, <1>3 DEF Go, Coherent, TypeOK, db, locks, local
  <2>2. SessionInv(s)'
    BY <1>1, <1>3, <2>1
    DEF Coherent, SessionInv, RequestFits, Entitled,
        Permitted, Authorized, MayDecide, RowIsFresh, AllocationIsGuarded,
        WriteIsLegal, Holding, Bookings
  <2>3. QED
    BY <1>1, <1>3, <2>2, QuietKeeps DEF Label, Result
<1>4. QED
  BY <1>1, <1>2, <1>3, ReplyKeeps DEF Result, ErrorCode

(* What a session intends must be an allocation or a legal write. *)
LEMMA IntendKeeps ==
  ASSUME Coherent, NEW s \in Sessions, pc[s] = "decide",
         NEW state \in ReservationState, NEW label \in {"certify", "commit"},
         Intend(s, state, label), UNCHANGED <<clock, db, locks, req, now, row>>,
         label = "certify" => MayAllocate(s)',
         label = "commit" => state \notin BLOCKING_STATES /\ WriteIsLegal(s)'
  PROVE  Coherent'
<1> USE DEF Intend, Go, db, locks
<1>1. TypeOK'
  BY DEF Coherent, TypeOK, Label
<1>2. LocalStep(s)
  BY DEF LocalStep, Coherent, TypeOK
<1>3. pc'[s] = label /\ target'[s] = state
  BY DEF Coherent, TypeOK
<1>4. RequestFits(s)' /\ RowIsFresh(s)' /\ Entitled(s)'
  BY <1>3 DEF Coherent, SessionInv, RequestFits, RowIsFresh, Holding, Bookings,
              Entitled, Permitted, Authorized, MayDecide
<1>5. AllocationIsGuarded(s)' /\ WriteIsLegal(s)'
  BY <1>3 DEF AllocationIsGuarded, WriteIsLegal
<1>6. QED
  BY <1>1, <1>2, <1>4, <1>5, LocalFrame DEF SessionInv

LEMMA DecideConfirmKeeps ==
  ASSUME Coherent, NEW s \in Sessions, DecideConfirm(s) PROVE Coherent'
<1> DEFINE d == confirm_decision(row[s].state, row[s].starts_at, now[s],
                   instruments[row[s].instrument_id].requires_approval)
<1>1. /\ row[s] \in Row /\ now[s] \in Nat
      /\ row[s].state \in ReservationState /\ row[s].starts_at \in Nat
  BY DEF Coherent, SessionInv, RowIsFresh, TypeOK, DecideConfirm, Holding, Row
<1>2. /\ d.rejection \in {None, "INVALID_STATE", "ALREADY_STARTED"}
      /\ d.rejection = None =>
           /\ row[s].state = "DRAFT" /\ now[s] < row[s].starts_at
           /\ d.target \in BLOCKING_STATES
  BY <1>1 DEF confirm_decision, Decision, None, BLOCKING_STATES
<1>3. UNCHANGED <<clock, db, locks, req, now, row>> /\ pc[s] = "decide"
  BY DEF DecideConfirm
<1>4. CASE Intend(s, d.target, "certify") /\ d.rejection = None
  <2>1. MayAllocate(s)'
    BY <1>2, <1>3, <1>4 DEF DecideConfirm, MayAllocate, Intend, Coherent, TypeOK
  <2>2. QED
    BY <1>2, <1>3, <1>4, <2>1, IntendKeeps DEF BLOCKING_STATES, ReservationState
<1>5. CASE /\ UNCHANGED target
           /\ \/ Reply(s, d.rejection) /\ d.rejection # None
              \/ Reply(s, "INSTRUMENT_INACTIVE")
  BY <1>2, <1>3, <1>5, ReplyKeeps DEF Result, ErrorCode, local
<1>6. QED
  BY <1>4, <1>5 DEF DecideConfirm

LEMMA DecideCancelKeeps ==
  ASSUME Coherent, NEW s \in Sessions, DecideCancel(s) PROVE Coherent'
<1> DEFINE d == cancel_decision(row[s].state, row[s].starts_at, now[s])
<1>1. /\ row[s] \in Row /\ now[s] \in Nat
      /\ row[s].state \in ReservationState /\ row[s].starts_at \in Nat
  BY DEF Coherent, SessionInv, RowIsFresh, TypeOK, DecideCancel, Holding, Row
<1>2. /\ d.rejection \in {None, "TOO_LATE", "INVALID_STATE", "EXPIRED"}
      /\ d.target \in {None, "CANCELLED", "EXPIRED"}
      /\ d.target = "CANCELLED" =>
           \/ row[s].state = "DRAFT"
           \/ row[s].state = "PENDING_APPROVAL" /\ now[s] < row[s].starts_at
           \/ /\ row[s].state = "CONFIRMED"
              /\ may_cancel_confirmed(row[s].starts_at, now[s])
      /\ d.target = "EXPIRED" =>
           row[s].state = "PENDING_APPROVAL" /\ row[s].starts_at <= now[s]
  BY <1>1 DEF cancel_decision, expiry_decision, approval_request_is_alive,
              Decision, None, ReservationState
<1>3. UNCHANGED <<clock, db, locks, req, now, row>> /\ pc[s] = "decide"
  BY DEF DecideCancel
<1>4. CASE d.target # None /\ Intend(s, d.target, "commit")
  <2>1. pc'[s] = "commit" /\ target'[s] = d.target
    BY <1>4 DEF Intend, Go, Coherent, TypeOK
  <2>2. d.target \in {"CANCELLED", "EXPIRED"} /\ d.target \in ReservationState
        /\ d.target \notin BLOCKING_STATES
    BY <1>2, <1>4 DEF ReservationState, BLOCKING_STATES
  <2>3. row' = row /\ now' = now /\ req' = req /\ req[s].op = "cancel"
    BY <1>3 DEF DecideCancel
  <2>4. WriteIsLegal(s)'
    BY <1>2, <2>1, <2>2, <2>3 DEF WriteIsLegal
  <2>5. QED
    BY <1>3, <1>4, <2>2, <2>4, IntendKeeps
<1>5. CASE /\ d.target = None /\ UNCHANGED target
           /\ Reply(s, IF d.rejection = None THEN "UNCHANGED" ELSE d.rejection)
  BY <1>2, <1>3, <1>5, ReplyKeeps DEF Result, ErrorCode, local
<1>6. QED
  BY <1>4, <1>5 DEF DecideCancel

LEMMA DecideRequestKeeps ==
  ASSUME Coherent, NEW s \in Sessions, DecideRequest(s) PROVE Coherent'
<1> DEFINE expiry == expiry_decision(row[s].state, row[s].starts_at, now[s])
<1>1. row[s] \in Row /\ now[s] \in Nat /\ row[s].starts_at \in Nat
  BY DEF Coherent, SessionInv, RowIsFresh, TypeOK, DecideRequest, Holding, Row
<1>2. /\ expiry.target \in {None, "EXPIRED"}
      /\ row[s].state = "PENDING_APPROVAL" =>
           (expiry.target = "EXPIRED" <=> row[s].starts_at <= now[s])
  BY <1>1 DEF expiry_decision, approval_request_is_alive, Decision, None
<1>3. UNCHANGED <<clock, db, locks, req, now, row>> /\ pc[s] = "decide"
  BY DEF DecideRequest
<1>4. ASSUME NEW state \in {"EXPIRED", "REJECTED"}, Intend(s, state, "commit"),
             row[s].state = "PENDING_APPROVAL",
             state = "EXPIRED" => row[s].starts_at <= now[s],
             state = "REJECTED" => /\ now[s] < row[s].starts_at
                                   /\ req[s].op = "reject"
      PROVE  Coherent'
  <2>1. pc'[s] = "commit" /\ target'[s] = state
    BY <1>4 DEF Intend, Go, Coherent, TypeOK
  <2>2. WriteIsLegal(s)'
    BY <1>3, <1>4, <2>1 DEF DecideRequest, WriteIsLegal
  <2>3. QED
    BY <1>3, <1>4, <2>2, IntendKeeps DEF ReservationState, BLOCKING_STATES
<1>5. ASSUME Intend(s, "CONFIRMED", "certify"), row[s].state = "PENDING_APPROVAL",
             now[s] < row[s].starts_at, req[s].op = "approve"
      PROVE  Coherent'
  <2>1. target'[s] = "CONFIRMED"
    BY <1>5 DEF Intend, Coherent, TypeOK
  <2>2. MayAllocate(s)'
    BY <1>3, <1>5, <2>1 DEF MayAllocate
  <2>3. QED
    BY <1>3, <1>5, <2>2, IntendKeeps DEF ReservationState
<1>6. ASSUME NEW code \in {"INVALID_STATE", "INSTRUMENT_INACTIVE"},
             Reply(s, code), UNCHANGED target
      PROVE  Coherent'
  BY <1>3, <1>6, ReplyKeeps DEF Result, ErrorCode, local
<1>7. CASE row[s].state # "PENDING_APPROVAL"
  BY <1>6, <1>7 DEF DecideRequest
<1>8. CASE row[s].state = "PENDING_APPROVAL" /\ expiry.target # None
  <2>1. expiry.target = "EXPIRED" /\ row[s].starts_at <= now[s]
    BY <1>2, <1>8
  <2>2. Intend(s, "EXPIRED", "commit")
    BY <1>8, <2>1 DEF DecideRequest
  <2>3. QED
    BY <1>4, <1>8, <2>1, <2>2
<1>9. CASE row[s].state = "PENDING_APPROVAL" /\ expiry.target = None
  <2>1. now[s] < row[s].starts_at
    BY <1>1, <1>2, <1>9 DEF None
  <2>2. \/ Intend(s, "REJECTED", "commit") /\ req[s].op = "reject"
        \/ Intend(s, "CONFIRMED", "certify") /\ req[s].op = "approve"
        \/ Reply(s, "INSTRUMENT_INACTIVE") /\ UNCHANGED target
    BY <1>9 DEF DecideRequest
  <2>3. QED
    BY <1>4, <1>5, <1>6, <1>9, <2>1, <2>2
<1>10. QED
  BY <1>7, <1>8, <1>9

LEMMA CertifyKeeps ==
  ASSUME Coherent, NEW s \in Sessions, Certify(s) PROVE Coherent'
<1>1. UNCHANGED <<clock, db, locks, local>> /\ pc[s] = "certify"
  BY DEF Certify
<1>2. CASE Go(s, "lock_instrument") /\ UNCHANGED result
  <2>1. /\ pc'[s] = "lock_instrument"
        /\ UNCHANGED <<req, now, row, target, clock, reservations, resLock>>
    BY <1>1, <1>2 DEF Go, Coherent, TypeOK, db, locks, local
  <2>2. SessionInv(s)'
    BY <1>1, <2>1
    DEF Coherent, SessionInv, RequestFits, Entitled, Permitted, Authorized,
        MayDecide, RowIsFresh, AllocationIsGuarded, MayAllocate, WriteIsLegal,
        Holding, Bookings
  <2>3. QED
    BY <1>1, <1>2, <2>2, QuietKeeps DEF Label, Result
<1>3. QED
  BY <1>1, <1>2, ReplyKeeps DEF Certify, Result, ErrorCode

LEMMA LockInstrumentKeeps ==
  ASSUME Coherent, NEW s \in Sessions, LockInstrument(s) PROVE Coherent'
<1> USE DEF LockInstrument, Go, db, locks, local
<1>1. row[s] \in Row /\ row[s].instrument_id \in Instruments
  BY DEF Coherent, SessionInv, RowIsFresh, Holding, Row
<1>2. TypeOK'
  BY <1>1 DEF Coherent, TypeOK, Label
<1>3. LocalStep(s)
  BY <1>1 DEF LocalStep, Coherent, TypeOK
<1>4. /\ pc'[s] = "overlap" /\ insLock'[row[s].instrument_id] = s
      /\ UNCHANGED <<req, now, row, target, clock, reservations, resLock>>
  BY <1>1 DEF Coherent, TypeOK
<1>5. SessionInv(s)'
  BY <1>4 DEF Coherent, SessionInv, RequestFits, Entitled, Permitted, Authorized,
              MayDecide, RowIsFresh, AllocationIsGuarded, MayAllocate,
              WriteIsLegal, Holding, Bookings
<1>6. QED
  BY <1>2, <1>3, <1>5, LocalFrame

LEMMA CheckOverlapKeeps ==
  ASSUME Coherent, NEW s \in Sessions, CheckOverlap(s) PROVE Coherent'
<1>1. UNCHANGED <<clock, db, locks, local>> /\ pc[s] = "overlap"
  BY DEF CheckOverlap, CheckOverlapIn
<1>2. CASE /\ overlapping_blocking(reservations, row[s], now[s])
                \ {req[s].reservation_id} = {}
           /\ Go(s, "commit") /\ UNCHANGED result
  <2>1. /\ pc'[s] = "commit"
        /\ UNCHANGED <<req, now, row, target, clock, reservations, resLock,
                       insLock>>
    BY <1>1, <1>2 DEF Go, Coherent, TypeOK, db, locks, local
  <2>2. MayAllocate(s) /\ target[s] \in BLOCKING_STATES
    BY <1>1 DEF Coherent, SessionInv, AllocationIsGuarded, MayAllocate,
                BLOCKING_STATES
  <2>3. AllocationIsGuarded(s)' /\ WriteIsLegal(s)'
    BY <1>1, <1>2, <2>1, <2>2
    DEF Coherent, SessionInv, AllocationIsGuarded, MayAllocate, WriteIsLegal
  <2>4. SessionInv(s)'
    BY <1>1, <2>1, <2>3
    DEF Coherent, SessionInv, RequestFits, Entitled,
        Permitted, Authorized, MayDecide, RowIsFresh, Holding, Bookings
  <2>5. QED
    BY <1>1, <1>2, <2>4, QuietKeeps DEF Label, Result
<1>3. QED
  BY <1>1, <1>2, ReplyKeeps DEF CheckOverlap, CheckOverlapIn, Result, ErrorCode

(* The holder of both locks writes: nobody else works on this reservation, *)
(* and nobody else allocates this instrument.                              *)
LEMMA CommitKeeps ==
  ASSUME Coherent, NEW s \in Sessions, Commit(s) PROVE Coherent'
<1> USE DEF Commit, ReleaseLocks, Released, Reply, Go, local
<1> DEFINE r == req[s].reservation_id
<1>1. /\ pc[s] = "commit" /\ r \in ReservationIds /\ resLock[r] = s
      /\ reservations[r] \in Row /\ row[s] = reservations[r]
  BY DEF Coherent, SessionInv, RequestFits, ActorRequest, RowIsFresh, Holding
<1>2. target[s] \in ReservationState
  BY <1>1 DEF Coherent, TypeOK, SessionInv, AllocationIsGuarded, WriteIsLegal,
              BLOCKING_STATES, ReservationState
<1>3. TypeOK'
  <2>1. reservations' \in Table
    BY <1>1, <1>2 DEF Coherent, TypeOK, Table, Row
  <2>2. QED
    BY <2>1 DEF Coherent, TypeOK, Label, Result, ErrorCode
<1>4. SessionInv(s)'
  <2>1. pc'[s] = "close"
    BY DEF Coherent, TypeOK, SessionInv
  <2>2. QED
    BY <2>1, ClosingIsFree
<1>5. ASSUME NEW t \in Sessions, t # s PROVE SessionInv(t)'
  <2>1. /\ TypeOK /\ SessionInv(t) /\ pc'[t] = pc[t] /\ req'[t] = req[t]
        /\ now'[t] = now[t] /\ row'[t] = row[t] /\ target'[t] = target[t]
    BY <1>5 DEF Coherent, TypeOK
  <2>2. \A x \in ReservationIds : x # r => reservations'[x] = reservations[x]
    BY DEF Coherent, TypeOK, Table
  <2>3. \A x \in ReservationIds : resLock[x] = t =>
          resLock'[x] = t /\ reservations'[x] = reservations[x]
    BY <1>1, <1>5, <2>2 DEF Coherent, TypeOK
  <2>4. \A i \in Instruments : insLock[i] = t => insLock'[i] = t
    BY <1>5 DEF Coherent, TypeOK
  <2>5. ASSUME NEW x \in ReservationIds, insLock[row[t].instrument_id] = t,
               Blocks(reservations'[x], now[t]), Overlap(reservations'[x], row[t])
        PROVE  /\ Blocks(reservations[x], now[t])
               /\ Overlap(reservations[x], row[t])
    <3>1. CASE x # r
      BY <2>2, <2>5, <3>1
    <3>2. CASE x = r
      <4>1. /\ reservations'[r].state = target[s]
            /\ reservations'[r].instrument_id = row[s].instrument_id
        BY <1>1 DEF Coherent, TypeOK, Table, Row
      <4>2. target[s] \in BLOCKING_STATES
        BY <2>5, <3>2, <4>1 DEF Blocks
      <4>3. insLock[row[s].instrument_id] = s
        BY <1>1, <4>2 DEF Coherent, SessionInv, AllocationIsGuarded
      <4>4. row[t].instrument_id = row[s].instrument_id
        BY <2>5, <3>2, <4>1 DEF Overlap
      <4>5. QED
        BY <1>5, <2>5, <4>3, <4>4
    <3>3. QED
      BY <3>1, <3>2
  <2>6. QED
    BY <1>3, <2>1, <2>3, <2>4, <2>5, SessionFrame
<1>6. QED
  BY <1>3, <1>4, <1>5 DEF Coherent

(* Close and Abort: the session's locks go and nothing else. *)
LEMMA ClosedKeeps ==
  ASSUME Coherent, NEW s \in Sessions, Closed(s) PROVE Coherent'
<1> USE DEF Closed, ReleaseLocks, Released, Go, db
<1>1. TypeOK'
  BY DEF Coherent, TypeOK, Label, Result
<1>2. LocalStep(s)
  BY DEF LocalStep, Coherent, TypeOK
<1>3. pc'[s] = "idle"
  BY DEF Coherent, TypeOK
<1>4. SessionInv(s)'
  BY <1>3 DEF SessionInv, RequestFits, Entitled, RowIsFresh,
              AllocationIsGuarded, WriteIsLegal, Holding
<1>5. QED
  BY <1>1, <1>2, <1>4, LocalFrame

(* Time, instruments and certificates are no part of what sessions rely on.*)
LEMMA EnvironmentKeeps ==
  ASSUME Coherent, \/ Tick \/ StepBack \/ \E i \in Instruments : SetInstrument(i)
               \/ \E c \in AdminCertifications :
                    GrantCertification(c) \/ RevokeCertification(c)
  PROVE  Coherent'
<1>1. /\ clock' \in Nat
      /\ UNCHANGED <<reservations, resLock, insLock, pc, req, now, row, target,
                     result>>
  BY DEF Coherent, TypeOK, Tick, StepBack, SetInstrument, GrantCertification,
         RevokeCertification, db, locks, local
<1>2. TypeOK'
  <2>1. instruments' \in [Instruments -> Settings]
    BY ServiceAssumption DEF Coherent, TypeOK, Tick, StepBack, SetInstrument, db,
       GrantCertification, RevokeCertification
  <2>2. certifications' \subseteq Certification
    BY ServiceAssumption DEF Coherent, TypeOK, Tick, StepBack, SetInstrument, db,
       GrantCertification, RevokeCertification
  <2>3. QED
    BY <1>1, <2>1, <2>2 DEF Coherent, TypeOK
<1>3. ASSUME NEW t \in Sessions PROVE SessionInv(t)'
  BY <1>1, <1>2, <1>3, SessionFrame DEF Coherent
<1>4. QED
  BY <1>2, <1>3 DEF Coherent

-----------------------------------------------------------------------------
(* Whatever step is taken, also by a clock that is set back. *)
LEMMA StepKeepsCoherent == Coherent /\ [UnsteadyNext]_vars => Coherent'
<1> SUFFICES ASSUME Coherent, [UnsteadyNext]_vars PROVE Coherent'
  OBVIOUS
<1>1. ASSUME NEW s \in Sessions, Run(s) PROVE Coherent'
  BY <1>1, ValidateCreateKeeps, InsertDraftKeeps, ReadInstrumentKeeps,
     QueryConflictsKeeps, AuthorizeKeeps, DecideConfirmKeeps,
     DecideCancelKeeps, DecideRequestKeeps, CertifyKeeps, CheckOverlapKeeps,
     CommitKeeps, ClosedKeeps
  DEF Run, Close
<1>2. ASSUME NEW s \in Sessions,
             \/ Begin(s) \/ Abort(s) \/ LockReservation(s) \/ LockInstrument(s)
      PROVE  Coherent'
  BY <1>2, BeginKeeps, ClosedKeeps, LockReservationKeeps, LockInstrumentKeeps
  DEF Abort
<1>3. CASE UNCHANGED vars
  <2>1. TypeOK'
    BY <1>3 DEF vars, db, locks, local, Coherent, TypeOK
  <2>2. ASSUME NEW t \in Sessions PROVE SessionInv(t)'
    BY <1>3, <2>1, <2>2, SessionFrame DEF vars, db, locks, local, Coherent
  <2>3. QED
    BY <2>1, <2>2 DEF Coherent
<1>4. QED
  BY <1>1, <1>2, <1>3, EnvironmentKeeps DEF UnsteadyNext, Next

LEMMA InitCoherent == Init => Coherent
BY ServiceAssumption
DEF Init, Coherent, TypeOK, Label, Result, SessionInv, RequestFits, Entitled,
    RowIsFresh, AllocationIsGuarded, WriteIsLegal, Holding

(* Only Begin reads the clock, and it forgets no earlier reading but its own. *)
LEMMA StepKeepsTimely == Coherent /\ Timely /\ [Next]_vars => Timely'
<1> SUFFICES ASSUME Coherent, Timely, [Next]_vars PROVE Timely'
  OBVIOUS
<1> USE DEF Coherent, TypeOK, Timely
<1>1. ASSUME NEW s \in Sessions, Begin(s) \/ Close(s) \/ Abort(s) PROVE Timely'
  BY <1>1 DEF Begin, Close, Abort, Closed
<1>2. ASSUME NEW s \in Sessions,
             \/ ValidateCreate(s) \/ InsertDraft(s)
             \/ ReadInstrument(s) \/ QueryConflicts(s) \/ Authorize(s)
             \/ DecideConfirm(s) \/ DecideCancel(s) \/ DecideRequest(s)
             \/ Certify(s) \/ CheckOverlap(s) \/ Commit(s)
             \/ LockReservation(s) \/ LockInstrument(s)
      PROVE  UNCHANGED <<clock, now>>
  BY <1>2 DEF ValidateCreate, InsertDraft, ReadInstrument, QueryConflicts,
    Authorize, DecideConfirm, DecideCancel, DecideRequest, Certify, CheckOverlap,
    CheckOverlapIn, Commit, LockReservation, LockInstrument, local
<1>3. CASE \/ \E i \in Instruments : SetInstrument(i)
           \/ \E c \in AdminCertifications :
                GrantCertification(c) \/ RevokeCertification(c)
           \/ UNCHANGED vars
  BY <1>3 DEF SetInstrument, GrantCertification, RevokeCertification, vars, local
<1>4. CASE Tick
  BY <1>4 DEF Tick, local
<1>5. QED
  BY <1>1, <1>2, <1>3, <1>4 DEF Next, Run

(* An answer is fixed by the step that leads to the end of the session.    *)
LEMMA StepKeepsUnanswered ==
  ASSUME TypeOK, Unanswered, [UnsteadyNext]_vars
  PROVE  Unanswered'
<1> USE DEF TypeOK, Unanswered, Go, Reply, Intend
<1>1. ASSUME NEW s \in Sessions, Begin(s) \/ Close(s) \/ Abort(s)
      PROVE  Unanswered'
  BY <1>1 DEF Begin, Close, Abort, Closed
<1>2. ASSUME NEW s \in Sessions, LockReservation(s) \/ LockInstrument(s)
      PROVE  Unanswered'
  BY <1>2 DEF LockReservation, LockInstrument, local
<1>3. ASSUME NEW s \in Sessions,
             \/ ValidateCreate(s) \/ InsertDraft(s) \/ ReadInstrument(s)
             \/ QueryConflicts(s) \/ Authorize(s) \/ Certify(s)
             \/ CheckOverlap(s) \/ Commit(s)
      PROVE  Unanswered'
  BY <1>3 DEF ValidateCreate, InsertDraft, ReadInstrument, QueryConflicts,
    Authorize, Certify, CheckOverlap, CheckOverlapIn, Commit
<1>4. ASSUME NEW s \in Sessions,
             DecideConfirm(s) \/ DecideCancel(s) \/ DecideRequest(s)
      PROVE  Unanswered'
  BY <1>4 DEF DecideConfirm, DecideCancel, DecideRequest
<1>5. CASE UNCHANGED <<pc, result>>
  BY <1>5
<1>6. QED
  BY <1>1, <1>2, <1>3, <1>4, <1>5
  DEF UnsteadyNext, Next, Run, Tick, StepBack, SetInstrument,
      GrantCertification, RevokeCertification, vars

(* Who only moves on, or frees its locks, keeps the order of the locks.    *)
LEMMA MovingKeepsLocks ==
  ASSUME TypeOK, LocksWhileWorking, NEW s \in Sessions, NEW label,
         pc' = [pc EXCEPT ![s] = label],
         \/ /\ UNCHANGED locks /\ pc[s] # "close"
            /\ pc[s] \in Holding => label \in Holding \cup {"close"}
            /\ pc[s] \in {"overlap", "commit"} => label \in {"commit", "close"}
         \/ ReleaseLocks(s)
  PROVE  LocksWhileWorking'
<1>1. \A t \in Sessions : t # s => pc'[t] = pc[t]
  BY DEF TypeOK
<1>2. CASE UNCHANGED locks /\ ~ReleaseLocks(s)
  BY <1>1, <1>2 DEF TypeOK, LocksWhileWorking, locks
<1>3. CASE ReleaseLocks(s)
  <2>1. \A r \in ReservationIds : resLock'[r] # NoOne =>
          /\ resLock'[r] = resLock[r] /\ resLock[r] # s /\ resLock[r] \in Sessions
    BY <1>3, ServiceAssumption DEF TypeOK, ReleaseLocks, Released
  <2>2. \A i \in Instruments : insLock'[i] # NoOne =>
          /\ insLock'[i] = insLock[i] /\ insLock[i] # s /\ insLock[i] \in Sessions
    BY <1>3, ServiceAssumption DEF TypeOK, ReleaseLocks, Released
  <2>3. QED
    BY <1>1, <2>1, <2>2 DEF LocksWhileWorking
<1>4. QED
  BY <1>2, <1>3

LEMMA LockingKeepsLocks ==
  ASSUME TypeOK, LocksWhileWorking, NEW s \in Sessions,
         LockReservation(s) \/ LockInstrument(s)
  PROVE  LocksWhileWorking'
<1> USE DEF TypeOK, LockReservation, LockInstrument, Go, Reply
<1>1. /\ \A r \in ReservationIds :
          \/ resLock'[r] = resLock[r]
          \/ resLock'[r] = s /\ pc'[s] = "authorize"
      /\ \A i \in Instruments :
          \/ insLock'[i] = insLock[i]
          \/ insLock'[i] = s /\ pc'[s] = "overlap"
  OBVIOUS
<1>2. /\ pc[s] \in {"lock_reservation", "lock_instrument"}
      /\ pc[s] = "lock_instrument" => pc'[s] = "overlap"
      /\ \A t \in Sessions : t # s => pc'[t] = pc[t]
  OBVIOUS
<1>3. QED
  BY <1>1, <1>2 DEF LocksWhileWorking, Holding

LEMMA StepKeepsLocks ==
  ASSUME TypeOK, LocksWhileWorking, [UnsteadyNext]_vars
  PROVE  LocksWhileWorking'
<1> USE DEF Go, Reply, Intend
<1>1. ASSUME NEW s \in Sessions,
             \/ Begin(s) \/ ValidateCreate(s) \/ InsertDraft(s)
             \/ ReadInstrument(s) \/ QueryConflicts(s)
      PROVE  LocksWhileWorking'
  <2>1. PICK label : /\ pc' = [pc EXCEPT ![s] = label] /\ UNCHANGED locks
                     /\ pc[s] \notin Holding \cup {"close"}
    BY <1>1 DEF Begin, ValidateCreate, InsertDraft, ReadInstrument,
                QueryConflicts, Holding
  <2>2. QED
    BY <2>1, MovingKeepsLocks DEF Holding
<1>2. ASSUME NEW s \in Sessions,
             \/ Authorize(s) \/ DecideConfirm(s) \/ DecideCancel(s)
             \/ DecideRequest(s) \/ Certify(s) \/ CheckOverlap(s)
      PROVE  LocksWhileWorking'
  <2>1. PICK label : /\ pc' = [pc EXCEPT ![s] = label] /\ UNCHANGED locks
                     /\ pc[s] \in Holding \ {"commit"}
                     /\ label \in Holding \cup {"close"}
                     /\ pc[s] = "overlap" => label \in {"commit", "close"}
    BY <1>2 DEF Authorize, DecideConfirm, DecideCancel, DecideRequest, Certify,
                CheckOverlap, CheckOverlapIn, Holding
  <2>2. QED
    BY <2>1, MovingKeepsLocks DEF Holding
<1>3. ASSUME NEW s \in Sessions, Commit(s) \/ Close(s) \/ Abort(s)
      PROVE  LocksWhileWorking'
  BY <1>3, MovingKeepsLocks DEF Commit, Close, Abort, Closed
<1>4. CASE UNCHANGED <<pc, locks>>
  BY <1>4 DEF LocksWhileWorking, locks
<1>5. QED
  BY <1>1, <1>2, <1>3, <1>4, LockingKeepsLocks
  DEF UnsteadyNext, Next, Run, Tick, StepBack, SetInstrument,
      GrantCertification, RevokeCertification, vars

LEMMA CoherentAlways == UnsteadySpec => [](Coherent /\ Orderly)
<1>1. Init => Coherent /\ Orderly
  BY InitCoherent DEF Init, Orderly, Unanswered, LocksWhileWorking
<1>2. Coherent /\ Orderly /\ [UnsteadyNext]_vars => (Coherent /\ Orderly)'
  BY StepKeepsCoherent, StepKeepsUnanswered, StepKeepsLocks
  DEF Coherent, Orderly
<1>3. QED
  BY <1>1, <1>2, PTL DEF UnsteadySpec

(* Sessions rely on fresh rows and held locks in every reachable state.    *)
THEOREM ServiceInvariant == Spec => []IInv
<1>1. Init => IInv
  BY InitCoherent
  DEF IInv, Timely, Orderly, Unanswered, LocksWhileWorking, Init
<1>2. IInv /\ [Next]_vars => IInv'
  BY StepKeepsCoherent, StepKeepsTimely, StepKeepsUnanswered, StepKeepsLocks
  DEF IInv, Coherent, Orderly, UnsteadyNext
<1>3. QED
  BY <1>1, <1>2, PTL DEF Spec

(* Tables, locks and sessions are typed. *)
THEOREM ServiceType == Spec => []TypeOK
BY ServiceInvariant, PTL DEF IInv, Coherent

(* Only InsertDraft and Commit write reservations, only Tick moves time.   *)
LEMMA QuietStep ==
  ASSUME [Next]_vars
  PROVE  \/ \E s \in Sessions : InsertDraft(s) \/ Commit(s)
         \/ Tick
         \/ UNCHANGED <<reservations, clock>>
<1>1. ASSUME NEW s \in Sessions,
             \/ ValidateCreate(s) \/ ReadInstrument(s) \/ QueryConflicts(s)
             \/ Authorize(s) \/ DecideConfirm(s) \/ DecideCancel(s)
             \/ DecideRequest(s) \/ Certify(s) \/ CheckOverlap(s) \/ Close(s)
             \/ Begin(s) \/ Abort(s) \/ LockReservation(s) \/ LockInstrument(s)
      PROVE  UNCHANGED <<reservations, clock>>
  BY <1>1 DEF ValidateCreate, ReadInstrument, QueryConflicts, Authorize,
    DecideConfirm, DecideCancel, DecideRequest, Certify, CheckOverlap,
    CheckOverlapIn, Close,
    Closed, Begin, Abort, LockReservation, LockInstrument, db
<1>2. ASSUME \/ \E i \in Instruments : SetInstrument(i)
             \/ \E c \in AdminCertifications :
                  GrantCertification(c) \/ RevokeCertification(c)
             \/ UNCHANGED vars
      PROVE  UNCHANGED <<reservations, clock>>
  BY <1>2 DEF SetInstrument, GrantCertification, RevokeCertification, vars, db
<1>3. QED
  BY <1>1, <1>2 DEF Next, Run

LEMMA WritingStep ==
  ASSUME [UnsteadyNext]_vars
  PROVE  (\E s \in Sessions : InsertDraft(s) \/ Commit(s)) \/ UNCHANGED reservations
BY QuietStep DEF UnsteadyNext, Tick, StepBack, db

(* A clock that only goes forward is a case of one that also steps back,   *)
(* so what is proved of UnsteadySpec holds of Spec.                        *)
LEMMA SteadyIsUnsteady == Spec => UnsteadySpec
<1>1. [Next]_vars => [UnsteadyNext]_vars
  BY DEF UnsteadyNext
<1>2. QED
  BY <1>1, PTL DEF Spec, UnsteadySpec

(* The two kinds of write are steps of the ledger, judged on arrival. *)
LEMMA InsertIsJudged ==
  ASSUME Coherent, NEW s \in Sessions, InsertDraft(s)
  PROVE  \E r \in ReservationIds : Ledger!Create(r, req[s].booking, now[s])
<1>1. PICK r \in ReservationIds :
        /\ reservations[r] = NoRow
        /\ reservations' = [reservations EXCEPT ![r] = DraftOf(req[s].booking)]
  BY DEF InsertDraft
<1>2. Ledger!Create(r, req[s].booking, now[s])
  BY <1>1
  DEF Ledger!Create, Ledger!NoRow, NoRow, Ledger!DraftOf, DraftOf,
      Ledger!is_interval_valid, is_interval_valid, InsertDraft, Coherent, TypeOK,
      CreateRequest, SessionInv, RequestFits
<1>3. QED
  BY <1>2

LEMMA CommitIsJudged ==
  ASSUME Coherent, NEW s \in Sessions, Commit(s)
  PROVE  LET r == req[s].reservation_id IN
           \/ /\ req[s].op = "confirm" /\ reservations[r].state = "DRAFT"
              /\ \E state \in BLOCKING_STATES : Ledger!Allocate(r, state, now[s])
           \/ /\ req[s].op = "approve"
              /\ reservations[r].state = "PENDING_APPROVAL"
              /\ Ledger!Allocate(r, "CONFIRMED", now[s])
           \/ req[s].op = "cancel" /\ Ledger!Cancel(r, now[s])
           \/ req[s].op = "reject" /\ Ledger!Reject(r, now[s])
           \/ /\ req[s].op \in {"approve", "cancel", "reject"}
              /\ Ledger!Expire(r, now[s])
<1> DEFINE r == req[s].reservation_id
<1>1. /\ r \in ReservationIds /\ reservations[r] = row[s]
      /\ now[s] \in Nat /\ row[s].starts_at \in Nat
  BY DEF Commit, Coherent, TypeOK, SessionInv, RequestFits, ActorRequest,
         RowIsFresh, Holding, Row
<1>2. Ledger!Write(r, target[s])
  BY DEF Commit, Ledger!Write
<1>3. CASE target[s] \in BLOCKING_STATES
  <2>1. /\ MayAllocate(s)
        /\ overlapping_blocking(reservations, row[s], now[s]) \ {r} = {}
    BY <1>3 DEF Commit, Coherent, SessionInv, AllocationIsGuarded
  <2>2. Ledger!overlapping_blocking(reservations, row[s], now[s])
          = overlapping_blocking(reservations, row[s], now[s])
    BY DEF Ledger!overlapping_blocking, overlapping_blocking, Ledger!Blocks,
           Blocks, Ledger!Overlap, Overlap, Ledger!BLOCKING_STATES,
           BLOCKING_STATES
  <2>3. Ledger!Allocate(r, target[s], now[s])
    BY <1>1, <1>2, <2>1, <2>2
    DEF Ledger!Allocate, MayAllocate, Ledger!BLOCKING_STATES, BLOCKING_STATES
  <2>4. QED
    BY <1>1, <1>3, <2>1, <2>3 DEF MayAllocate
<1>4. CASE target[s] \notin BLOCKING_STATES
  <2>1. WriteIsLegal(s) /\ pc[s] = "commit"
    BY DEF Commit, Coherent, SessionInv
  <2>2. QED
    BY <1>1, <1>2, <1>4, <2>1
    DEF WriteIsLegal, Ledger!Cancel, Ledger!Reject, Ledger!Expire,
        Ledger!approval_request_is_alive, Ledger!may_cancel_confirmed,
        may_cancel_confirmed
<1>5. QED
  BY <1>3, <1>4

(* A step of the service is a step of the ledger or changes nothing of it. *)
LEMMA StepImplements ==
  IInv /\ [Next]_vars => [Ledger!Next]_(Ledger!vars)
<1> SUFFICES ASSUME IInv, [Next]_vars PROVE [Ledger!Next]_(Ledger!vars)
  OBVIOUS
<1> USE DEF Ledger!vars
<1>1. ASSUME NEW s \in Sessions, InsertDraft(s) PROVE Ledger!Next
  <2>1. now[s] \in 0 .. clock /\ req[s].booking \in Bookings
    BY <1>1 DEF InsertDraft, IInv, Coherent, Timely, TypeOK, SessionInv, RequestFits
  <2>2. QED
    BY <1>1, <2>1, InsertIsJudged DEF Ledger!Next, IInv
<1>2. ASSUME NEW s \in Sessions, Commit(s) PROVE Ledger!Next
  <2>1. now[s] \in 0 .. clock /\ req[s].reservation_id \in ReservationIds
    BY <1>2 DEF Commit, IInv, Coherent, Timely, TypeOK, SessionInv, RequestFits, ActorRequest, Holding
  <2>2. QED
    BY <1>2, <2>1, CommitIsJudged
    DEF IInv, Ledger!Next, Ledger!BLOCKING_STATES, BLOCKING_STATES
<1>3. CASE Tick
  BY <1>3 DEF Tick, Ledger!Tick, Ledger!Next, db
<1>4. QED
  BY <1>1, <1>2, <1>3, QuietStep

(* The statement-level service implements the atomic ledger. *)
THEOREM ServiceImplementsLedger == Spec => ImplementsLedger
<1>1. Init => Ledger!Init
  BY DEF Init, Ledger!Init
<1>2. QED
  BY <1>1, StepImplements, ServiceInvariant, PTL
  DEF Spec, ImplementsLedger, Ledger!Spec

(* Every write obeys its condition at the time its request arrived, also   *)
(* when the wall clock was set back in between.                            *)
THEOREM ServiceJudgesOnArrival == UnsteadySpec => JudgedOnArrival
<1> DEFINE Judged ==
      reservations' # reservations =>
        \E s \in Sessions : /\ pc[s] \in {"insert", "commit"} /\ pc'[s] = "close"
                            /\ JudgedAt(s, now[s])
<1>1. Coherent /\ [UnsteadyNext]_vars => Judged
  <2> SUFFICES ASSUME Coherent, [UnsteadyNext]_vars PROVE Judged
    OBVIOUS
  <2>1. ASSUME NEW s \in Sessions, InsertDraft(s) PROVE Judged
    <3>1. pc[s] = "insert" /\ pc'[s] = "close" /\ req[s].op = "create"
      BY <2>1 DEF InsertDraft, Reply, Go, Coherent, TypeOK, SessionInv,
                  RequestFits, CreateRequest
    <3>2. QED
      BY <2>1, <3>1, InsertIsJudged DEF JudgedAt
  <2>2. ASSUME NEW s \in Sessions, Commit(s) PROVE Judged
    <3>1. pc[s] = "commit" /\ pc'[s] = "close" /\ req[s].op \in ActorOps
      BY <2>2 DEF Commit, Reply, Go, Coherent, TypeOK, SessionInv, RequestFits,
                  ActorRequest, Holding
    <3>2. QED
      BY <2>2, <3>1, CommitIsJudged DEF JudgedAt
  <2>3. QED
    BY <2>1, <2>2, WritingStep
<1>2. QED
  BY <1>1, CoherentAlways, PTL DEF UnsteadySpec, JudgedOnArrival

(* BR-02 for the service itself: whatever the interleaving, the waiting and*)
(* the age of the times the sessions judge by, at no time do two           *)
(* reservations that hold one instrument overlap.                          *)
THEOREM ServiceExclusive == Spec => []BR02
<1>1. Init => BR02
  BY ServiceAssumption DEF Init, BR02, Exclusive, Blocks, BLOCKING_STATES
<1>2. IInv /\ BR02 /\ [Next]_vars => BR02'
  <2> SUFFICES ASSUME IInv, BR02, [Next]_vars PROVE BR02'
    OBVIOUS
  <2>1. reservations \in Table /\ clock \in Nat
    BY DEF IInv, Coherent, Timely, TypeOK
  <2>2. ASSUME NEW s \in Sessions, InsertDraft(s) PROVE BR02'
    <3>1. clock' = clock
      BY <2>2 DEF InsertDraft
    <3>2. PICK r \in ReservationIds :
            reservations' = [reservations EXCEPT ![r] = DraftOf(req[s].booking)]
      BY <2>2 DEF InsertDraft
    <3>3. DraftOf(req[s].booking).state = "DRAFT"
      BY DEF DraftOf
    <3>4. Exclusive([reservations EXCEPT ![r] = DraftOf(req[s].booking)], clock)
      BY <2>1, <3>3, InsertKeepsExclusive DEF BR02
    <3>5. QED
      BY <3>1, <3>2, <3>4 DEF BR02
  <2>3. ASSUME NEW s \in Sessions, Commit(s) PROVE BR02'
    <3> DEFINE r == req[s].reservation_id
    <3>1. /\ r \in ReservationIds /\ row[s] = reservations[r]
          /\ reservations[r] \in Row /\ now[s] \in 0 .. clock
          /\ target[s] \in ReservationState
      BY <2>3 DEF Commit, IInv, Coherent, Timely, TypeOK, SessionInv, RequestFits, ActorRequest,
         RowIsFresh, Holding, AllocationIsGuarded, WriteIsLegal,
         BLOCKING_STATES, ReservationState
    <3>2. /\ reservations' = [reservations EXCEPT ![r].state = target[s]]
          /\ clock' = clock
      BY <2>3 DEF Commit
    <3>3. CASE target[s] \in BLOCKING_STATES
      <4>1. overlapping_blocking(reservations, reservations[r], now[s]) \ {r} = {}
        BY <2>3, <3>1, <3>3 DEF Commit, IInv, Coherent, SessionInv, AllocationIsGuarded
      <4>2. QED
        BY <2>1, <3>1, <3>2, <3>3, <4>1, AllocateKeepsExclusive DEF BR02
    <3>4. CASE target[s] \notin BLOCKING_STATES
      BY <2>1, <3>1, <3>2, <3>4, ReleaseKeepsExclusive DEF BR02
    <3>5. QED
      BY <3>3, <3>4
  <2>4. CASE Tick
    <3>1. clock' \in Nat /\ clock <= clock' /\ reservations' = reservations
      BY <2>1, <2>4 DEF Tick, db
    <3>2. QED
      BY <2>1, <3>1, TimeKeepsExclusive DEF BR02
  <2>5. CASE UNCHANGED <<reservations, clock>>
    BY <2>5 DEF BR02
  <2>6. QED
    BY <2>2, <2>3, <2>4, <2>5, QuietStep
<1>3. QED
  BY <1>1, <1>2, ServiceInvariant, PTL DEF Spec

(* What the writer of a row knows of it when it commits.                   *)
LEMMA CommitKnows ==
  ASSUME Coherent, NEW s \in Sessions, Commit(s)
  PROVE  LET r == req[s].reservation_id IN
           /\ r \in ReservationIds /\ row[s] = reservations[r]
           /\ reservations[r] \in Row
           /\ target[s] \in ReservationState
           /\ reservations' = [reservations EXCEPT ![r].state = target[s]]
           /\ reservations[r].state \in {"DRAFT", "PENDING_APPROVAL", "CONFIRMED"}
BY DEF Commit, Coherent, TypeOK, SessionInv, RequestFits, ActorRequest,
       RowIsFresh, Holding, AllocationIsGuarded, MayAllocate, WriteIsLegal,
       BLOCKING_STATES, ReservationState

(* No two allocations ever overlap, whichever way the clock is moved: of   *)
(* two confirmed rows the later one was written by a session that held the *)
(* instrument's lock and saw the earlier one, which blocks at any time.    *)
THEOREM AllocationsStayExclusive == UnsteadySpec => []AllocationsExclusive
<1>1. Init => Coherent /\ AllocationsExclusive
  BY InitCoherent, ServiceAssumption
  DEF Init, AllocationsExclusive, Exclusive, Blocks, BLOCKING_STATES
<1>2. Coherent /\ AllocationsExclusive /\ [UnsteadyNext]_vars
        => AllocationsExclusive'
  <2> SUFFICES ASSUME Coherent, AllocationsExclusive, [UnsteadyNext]_vars
               PROVE  AllocationsExclusive'
    OBVIOUS
  <2> USE DEF AllocationsExclusive
  <2>1. reservations \in Table
    BY DEF Coherent, TypeOK
  <2>2. ASSUME NEW s \in Sessions, InsertDraft(s) PROVE AllocationsExclusive'
    BY <2>1, <2>2 DEF InsertDraft, DraftOf, Table
  <2>3. ASSUME NEW s \in Sessions, Commit(s) PROVE AllocationsExclusive'
    <3> DEFINE r == req[s].reservation_id
    <3>1. /\ r \in ReservationIds /\ row[s] = reservations[r]
          /\ reservations[r] \in Row
          /\ reservations' = [reservations EXCEPT ![r].state = target[s]]
      BY <2>3, CommitKnows
    <3>2. \A q \in ReservationIds : q # r => reservations'[q] = reservations[q]
      BY <2>1, <3>1 DEF Table
    <3>3. /\ reservations'[r].state = target[s]
          /\ reservations'[r].instrument_id = row[s].instrument_id
          /\ reservations'[r].starts_at = row[s].starts_at
          /\ reservations'[r].ends_at = row[s].ends_at
      BY <2>1, <3>1 DEF Table, Row
    <3>4. ASSUME NEW q \in ReservationIds, q # r, target[s] = "CONFIRMED",
                 reservations[q].state = "CONFIRMED"
          PROVE  /\ ~Overlap(reservations[q], reservations'[r])
                 /\ ~Overlap(reservations'[r], reservations[q])
      <4>1. q \notin overlapping_blocking(reservations, row[s], now[s])
        BY <2>3, <3>4 DEF Commit, Coherent, SessionInv, AllocationIsGuarded,
                          BLOCKING_STATES
      <4>2. reservations[q] \in Row
        BY <2>1, <3>4 DEF Table, NoRow
      <4>3. QED
        BY <3>1, <3>3, <3>4, <4>1, <4>2
        DEF overlapping_blocking, Blocks, BLOCKING_STATES, Overlap, Row
    <3>5. QED
      BY <3>2, <3>3, <3>4
  <2>4. CASE UNCHANGED reservations
    BY <2>4
  <2>5. QED
    BY <2>2, <2>3, <2>4, WritingStep
<1>3. QED
  BY <1>1, <1>2, CoherentAlways, PTL DEF UnsteadySpec

(* BR-07 for every step: the one who decides a request was permitted when  *)
(* he locked it, and while he holds the lock its owner stays its owner.    *)
THEOREM ServiceForeignSupervisor == UnsteadySpec => OnlyForeignSupervisorDecides
<1> DEFINE Decides(r, s) ==
      /\ pc[s] = "commit" /\ req[s].reservation_id = r
      /\ req[s].requested_by \in Supervisors
      /\ req[s].requested_by # reservations[r].user_id
<1> DEFINE Foreign ==
      \A r \in ReservationIds :
        (/\ reservations[r].state = "PENDING_APPROVAL"
         /\ reservations'[r].state \in {"CONFIRMED", "REJECTED"})
        => \E s \in Sessions : Decides(r, s)
<1>1. Coherent /\ [UnsteadyNext]_vars => Foreign
  <2> SUFFICES ASSUME Coherent, [UnsteadyNext]_vars, NEW x \in ReservationIds,
                      reservations[x].state = "PENDING_APPROVAL",
                      reservations'[x].state \in {"CONFIRMED", "REJECTED"}
               PROVE  \E s \in Sessions : Decides(x, s)
    OBVIOUS
  <2>1. reservations \in Table
    BY DEF Coherent, TypeOK
  <2>2. ASSUME NEW s \in Sessions, InsertDraft(s) PROVE FALSE
    BY <2>1, <2>2 DEF InsertDraft, DraftOf, Table
  <2>3. ASSUME NEW s \in Sessions, Commit(s) PROVE Decides(x, s)
    <3> DEFINE r == req[s].reservation_id
    <3>1. /\ pc[s] = "commit" /\ row[s] = reservations[r]
          /\ r \in ReservationIds
          /\ reservations' = [reservations EXCEPT ![r].state = target[s]]
      BY <2>1, <2>3, CommitKnows DEF Commit
    <3>2. x = r /\ target[s] \in {"CONFIRMED", "REJECTED"}
      BY <2>1, <3>1 DEF Table
    <3>3. req[s].op \in {"approve", "reject"}
      BY <2>1, <3>1, <3>2 DEF Coherent, SessionInv, AllocationIsGuarded,
         MayAllocate, WriteIsLegal, BLOCKING_STATES
    <3>4. QED
      BY <2>1, <3>1, <3>2, <3>3
      DEF Coherent, SessionInv, Entitled, Permitted, MayDecide, Holding
  <2>4. QED
    BY <2>2, <2>3, WritingStep
<1>2. QED
  BY <1>1, CoherentAlways, PTL DEF UnsteadySpec, OnlyForeignSupervisorDecides

(* ADR-01, no deadlock: locks are taken in one order, the reservation's    *)
(* before the instrument's and one of each, so whoever holds an            *)
(* instrument's lock waits for nothing, for any number of sessions.        *)
THEOREM ServiceWaitsEnd == UnsteadySpec => []WaitsEnd
<1>1. Coherent /\ Orderly => WaitsEnd
  <2> SUFFICES ASSUME Coherent, Orderly,
                      NEW s \in Sessions, NEW t \in Sessions,
                      NEW u \in Sessions, NEW v \in Sessions,
                      Waits(s, t), Waits(t, u), Waits(u, v)
               PROVE  FALSE
    BY DEF WaitsEnd
  <2>1. ASSUME NEW x \in Sessions, NEW y \in Sessions, Waits(x, y)
        PROVE  \/ /\ pc[x] = "lock_reservation"
                  /\ pc[y] \in Holding \cup {"close"}
               \/ /\ pc[x] = "lock_instrument"
                  /\ pc[y] \in {"overlap", "commit", "close"}
    <3>1. pc[x] = "lock_reservation" => req[x].reservation_id \in ReservationIds
      BY DEF Coherent, SessionInv, RequestFits, ActorRequest
    <3>2. pc[x] = "lock_instrument" => row[x].instrument_id \in Instruments
      BY DEF Coherent, SessionInv, RowIsFresh, Holding, Row
    <3>3. y # NoOne
      BY ServiceAssumption
    <3>4. QED
      BY <2>1, <3>1, <3>2, <3>3 DEF Waits, Orderly, LocksWhileWorking
  <2>2. pc[t] = "lock_instrument"
    BY <2>1 DEF Holding
  <2>3. QED
    BY <2>1, <2>2
<1>2. QED
  BY <1>1, CoherentAlways, PTL


-----------------------------------------------------------------------------
(* Every creation under way has an id of its own. *)
Creating == {s \in Sessions : pc[s] \in {"validate", "insert"}}
FreeIds == {r \in ReservationIds : reservations[r] = NoRow}
IdsSuffice == Cardinality(Creating) <= Cardinality(FreeIds)

Finite == IsFiniteSet(Sessions) /\ IsFiniteSet(ReservationIds)

LEMMA CreatingIsFinite ==
  ASSUME Finite
  PROVE  /\ IsFiniteSet(Creating) /\ Cardinality(Creating) \in Nat
         /\ IsFiniteSet(FreeIds) /\ Cardinality(FreeIds) \in Nat
         /\ IsFiniteSet(Creating') /\ Cardinality(Creating') \in Nat
         /\ IsFiniteSet(FreeIds') /\ Cardinality(FreeIds') \in Nat
<1>1. /\ Creating \subseteq Sessions /\ Creating' \subseteq Sessions
      /\ FreeIds \subseteq ReservationIds /\ FreeIds' \subseteq ReservationIds
  BY DEF Creating, FreeIds
<1>2. /\ IsFiniteSet(Creating) /\ IsFiniteSet(Creating')
      /\ IsFiniteSet(FreeIds) /\ IsFiniteSet(FreeIds')
  BY <1>1, FS_Subset DEF Finite
<1>3. QED
  BY <1>2, FS_CardinalityType

(* Only the arrival of a creation makes them more. *)
LEMMA CreatingGrows ==
  ASSUME TypeOK, [UnsteadyNext]_vars
  PROVE  \/ Creating' \subseteq Creating
         \/ RoomForInsert /\ \E s \in Sessions :
              UNCHANGED reservations /\ Creating' \subseteq Creating \cup {s}
<1> USE DEF Creating, TypeOK, Go, Reply, Intend
<1>1. ASSUME NEW s \in Sessions, Begin(s)
      PROVE  \/ Creating' \subseteq Creating
             \/ RoomForInsert /\ UNCHANGED reservations
                /\ Creating' \subseteq Creating \cup {s}
  <2>1. PICK q \in Requests : /\ q.op = "create" => RoomForInsert
                              /\ pc' = [pc EXCEPT ![s] = FirstStatement(q.op)]
    BY <1>1 DEF Begin
  <2>2. Creating' \subseteq Creating \cup {s} /\ UNCHANGED reservations
    BY <1>1, <2>1 DEF Begin, db
  <2>3. CASE q.op = "create"
    BY <2>1, <2>2, <2>3
  <2>4. CASE q.op # "create"
    <3>1. q.op \in ActorOps \cup {"check"}
      BY <2>4, ServiceAssumption
      DEF Request, CreateRequest, CheckRequest, ActorRequest
    <3>2. FirstStatement(q.op) \notin {"validate", "insert"}
      BY <3>1 DEF FirstStatement, ActorOps
    <3>3. QED
      BY <2>1, <3>2
  <2>5. QED
    BY <2>3, <2>4
<1>2. ASSUME NEW s \in Sessions,
             \/ LockReservation(s) \/ LockInstrument(s) \/ Abort(s) \/ Close(s)
             \/ ValidateCreate(s) \/ InsertDraft(s) \/ ReadInstrument(s)
             \/ QueryConflicts(s) \/ Authorize(s) \/ Certify(s) \/ Commit(s)
      PROVE  Creating' \subseteq Creating
  BY <1>2 DEF LockReservation, LockInstrument, Abort, Close, Closed,
    ValidateCreate, InsertDraft, ReadInstrument, QueryConflicts, Authorize,
    Certify, Commit
<1>3. ASSUME NEW s \in Sessions,
             \/ DecideConfirm(s) \/ DecideCancel(s) \/ DecideRequest(s)
             \/ CheckOverlap(s)
      PROVE  Creating' \subseteq Creating
  <2>1. \E label \in {"certify", "commit", "close"} : Go(s, label)
    BY <1>3 DEF DecideConfirm, DecideCancel, DecideRequest, CheckOverlap,
                CheckOverlapIn
  <2>2. QED
    BY <2>1
<1>4. ASSUME \/ \E i \in Instruments : SetInstrument(i)
             \/ \E c \in AdminCertifications :
                  GrantCertification(c) \/ RevokeCertification(c)
             \/ Tick \/ StepBack \/ UNCHANGED vars
      PROVE  Creating' \subseteq Creating
  BY <1>4 DEF SetInstrument, GrantCertification, RevokeCertification, Tick,
    StepBack, vars
<1>5. QED
  BY <1>1, <1>2, <1>3, <1>4 DEF UnsteadyNext, Next, Run

(* An insert takes one id and is no longer under way. *)
LEMMA InsertTakesOne ==
  ASSUME TypeOK, NEW s \in Sessions, InsertDraft(s)
  PROVE  \E r \in FreeIds : /\ s \in Creating /\ Creating' = Creating \ {s}
                            /\ FreeIds' = FreeIds \ {r}
<1>1. PICK r \in ReservationIds :
        /\ reservations[r] = NoRow
        /\ reservations' = [reservations EXCEPT ![r] = DraftOf(req[s].booking)]
  BY DEF InsertDraft
<1>2. DraftOf(req[s].booking) # NoRow
  <2>1. DraftOf(req[s].booking).state # NoRow.state
    BY DEF DraftOf, NoRow
  <2>2. QED
    BY <2>1
<1>3. FreeIds' = FreeIds \ {r}
  BY <1>1, <1>2 DEF TypeOK, Table, FreeIds
<1>4. s \in Creating /\ Creating' = Creating \ {s}
  BY DEF InsertDraft, TypeOK, Creating, Reply, Go
<1>5. QED
  BY <1>1, <1>3, <1>4 DEF FreeIds

(* An update frees no id and takes none. *)
LEMMA CommitTakesNone ==
  ASSUME Coherent, NEW s \in Sessions, Commit(s)
  PROVE  FreeIds' = FreeIds
<1> DEFINE r == req[s].reservation_id
<1>1. r \in ReservationIds /\ reservations[r] \in Row
  BY DEF Commit, Coherent, SessionInv, RequestFits, RowIsFresh, Holding,
         ActorRequest
<1>2. target[s] # NoRow.state
  BY CommitKeeps DEF Commit, Coherent, SessionInv, AllocationIsGuarded,
    WriteIsLegal, BLOCKING_STATES, NoRow
<1>3. /\ reservations'[r].state = target[s]
      /\ \A x \in ReservationIds : x # r => reservations'[x] = reservations[x]
  BY <1>1 DEF Commit, Coherent, TypeOK, Table, Row
<1>4. reservations[r] # NoRow
  <2>1. reservations[r].state # NoRow.state
    BY <1>1 DEF Row, NoRow, ReservationState
  <2>2. QED
    BY <2>1
<1>5. reservations'[r] # NoRow
  BY <1>2, <1>3
<1>6. QED
  BY <1>1, <1>3, <1>4, <1>5 DEF FreeIds

LEMMA StepKeepsIds ==
  ASSUME Finite, Coherent, IdsSuffice, [UnsteadyNext]_vars
  PROVE  IdsSuffice'
<1>1. CASE \E s \in Sessions : InsertDraft(s)
  <2>1. PICK s \in Creating, r \in FreeIds :
          Creating' = Creating \ {s} /\ FreeIds' = FreeIds \ {r}
    BY <1>1, InsertTakesOne DEF Coherent
  <2>2. /\ Cardinality(Creating') = Cardinality(Creating) - 1
        /\ Cardinality(FreeIds') = Cardinality(FreeIds) - 1
    BY <2>1, CreatingIsFinite, FS_RemoveElement
  <2>3. QED
    BY <2>2, CreatingIsFinite DEF IdsSuffice
<1>2. CASE ~\E s \in Sessions : InsertDraft(s)
  <2>1. FreeIds' = FreeIds
    BY <1>2, WritingStep, CommitTakesNone DEF FreeIds
  <2>2. CASE Creating' \subseteq Creating
    <3>1. Cardinality(Creating') <= Cardinality(Creating)
      BY <2>2, CreatingIsFinite, FS_Subset
    <3>2. QED
      BY <2>1, <3>1, CreatingIsFinite DEF IdsSuffice
  <2>3. ASSUME RoomForInsert, NEW s \in Sessions,
               Creating' \subseteq Creating \cup {s}
        PROVE  IdsSuffice'
    <3>1. /\ IsFiniteSet(Creating \cup {s})
          /\ Cardinality(Creating \cup {s}) \in Nat
          /\ Cardinality(Creating \cup {s}) <= Cardinality(Creating) + 1
      <4> DEFINE n == Cardinality(Creating)
                 m == Cardinality(Creating \cup {s})
      <4>1. n \in Nat /\ IsFiniteSet(Creating)
        BY CreatingIsFinite
      <4>2. IsFiniteSet(Creating \cup {s}) /\ (m = n \/ m = n + 1)
        BY <4>1, FS_AddElement, Zenon
      <4> HIDE DEF n, m
      <4>3. m \in Nat /\ m <= n + 1
        BY <4>1, <4>2
      <4>4. QED
        BY <4>2, <4>3 DEF n, m
    <3>2. Cardinality(Creating') <= Cardinality(Creating \cup {s})
      BY <2>3, <3>1, FS_Subset
    <3>3. Cardinality(Creating) < Cardinality(FreeIds)
      BY <2>3 DEF RoomForInsert, Creating, FreeIds
    <3>4. QED
      BY <2>1, <3>1, <3>2, <3>3, CreatingIsFinite DEF IdsSuffice
  <2>4. QED
    BY <2>2, <2>3, CreatingGrows DEF Coherent
<1>3. QED
  BY <1>1, <1>2

(* What an INSERT of a draft waits for is always there: its instrument's   *)
(* row in a lock mode that lets it in, in or out of a critical section,    *)
(* and an id.  CreateNeverWaits says so by ENABLED.                        *)
THEOREM InsertsNeverWait ==
  ASSUME Finite
  PROVE  UnsteadySpec =>
           [](\A s \in Sessions : pc[s] = "insert" =>
                /\ KeyShareGranted(req[s].booking.instrument_id)
                /\ \E r \in ReservationIds : reservations[r] = NoRow)
<1>1. Init => IdsSuffice
  <2>1. Init => Creating = {}
    BY DEF Init, Creating
  <2>2. QED
    BY <2>1, CreatingIsFinite, FS_EmptySet DEF IdsSuffice
<1>2. Coherent /\ IdsSuffice /\ [UnsteadyNext]_vars => IdsSuffice'
  BY StepKeepsIds
<1>3. IdsSuffice =>
        \A s \in Sessions : pc[s] = "insert" =>
          /\ KeyShareGranted(req[s].booking.instrument_id)
          /\ \E r \in ReservationIds : reservations[r] = NoRow
  <2> SUFFICES ASSUME IdsSuffice, NEW s \in Sessions, pc[s] = "insert"
               PROVE  /\ KeyShareGranted(req[s].booking.instrument_id)
                      /\ \E r \in ReservationIds : reservations[r] = NoRow
    OBVIOUS
  <2>1. Creating # {}
    BY DEF Creating
  <2>2. Cardinality(Creating) # 0 /\ Cardinality(FreeIds) # 0
    BY <2>1, CreatingIsFinite, FS_EmptySet DEF IdsSuffice
  <2>3. FreeIds # {}
    BY <2>2, FS_EmptySet
  <2>4. QED
    BY <2>3 DEF FreeIds, KeyShareGranted, InstrumentLockMode
<1>4. QED
  BY <1>1, <1>2, <1>3, CoherentAlways, PTL DEF UnsteadySpec
=============================================================================
