--------------------- MODULE ReservationContractProofs ---------------------
(***************************************************************************)
(* The service implements the contract of ReservationApi: its answers are  *)
(* those of atomic operations, for any number of sessions; and what the    *)
(* contract leaves open has its grounds in the tables (ReservationGrounds).*)
(***************************************************************************)
EXTENDS ReservationServiceProofs, ReservationGrounds

(* The contract names the helpers of the policy and the store again. *)
LEMMA SameHelpers ==
  /\ Api!None = None /\ Api!NoRow = NoRow /\ Api!NoRequest = NoRequest
  /\ Api!BLOCKING_STATES = BLOCKING_STATES
  /\ Api!ActorOps = ActorOps
  /\ \A a, b : Api!is_interval_valid(a, b) <=> is_interval_valid(a, b)
  /\ \A a, b : Api!may_cancel_confirmed(a, b) <=> may_cancel_confirmed(a, b)
  /\ \A a, b : Api!approval_request_is_alive(a, b)
                 <=> approval_request_is_alive(a, b)
  /\ \A b : Api!DraftOf(b) = DraftOf(b)
  /\ \A t, b, n : Api!overlapping_blocking(t, b, n)
                    = overlapping_blocking(t, b, n)
  /\ \A t, c : Api!AvailabilityAnswer(t, c) = AvailabilityAnswer(t, c)
BY DEF Api!None, None, Api!NoRow, NoRow, Api!NoRequest, NoRequest,
  Api!BLOCKING_STATES, BLOCKING_STATES, Api!ActorOps, ActorOps,
  Api!is_interval_valid, is_interval_valid,
  Api!may_cancel_confirmed, may_cancel_confirmed,
  Api!approval_request_is_alive, approval_request_is_alive,
  Api!DraftOf, DraftOf, Api!overlapping_blocking, overlapping_blocking,
  Api!Blocks, Blocks, Api!Overlap, Overlap,
  Api!AvailabilityAnswer, AvailabilityAnswer

(* Moving one session's label moves its phase and no other. *)
LEMMA PhaseMoves ==
  ASSUME TypeOK, NEW s \in Sessions, NEW label, Go(s, label)
  PROVE  [x \in Sessions |-> PhaseOf(pc'[x])]
           = [[x \in Sessions |-> PhaseOf(pc[x])] EXCEPT ![s] = PhaseOf(label)]
BY DEF Go, TypeOK

LEMMA Unmoved ==
  ASSUME TypeOK, NEW s \in Sessions, NEW label, Go(s, label),
         PhaseOf(pc[s]) = PhaseOf(label),
         UNCHANGED <<reservations, clock, req, now, result>>
  PROVE  UNCHANGED Api!vars
<1>1. [x \in Sessions |-> PhaseOf(pc'[x])] = [x \in Sessions |-> PhaseOf(pc[x])]
  BY PhaseMoves
<1>2. QED
  BY <1>1 DEF Api!vars

(* The answer of a session that was at work is the contract's answer. *)
LEMMA ReplyMaps ==
  ASSUME TypeOK, NEW s \in Sessions, NEW code, Reply(s, code),
         pc[s] \notin {"idle", "close"}, UNCHANGED <<clock, req, now>>
  PROVE  Api!Reply(s, code)
<1>1. /\ [x \in Sessions |-> PhaseOf(pc'[x])]
           = [[x \in Sessions |-> PhaseOf(pc[x])] EXCEPT ![s] = "answered"]
      /\ PhaseOf(pc[s]) = "called"
  BY PhaseMoves DEF Reply, PhaseOf
<1>2. QED
  BY <1>1 DEF Reply, Api!Reply

LEMMA RefuseMaps ==
  ASSUME TypeOK, NEW s \in Sessions, NEW code, Reply(s, code),
         pc[s] \notin {"idle", "close"},
         UNCHANGED <<clock, req, now, reservations>>
  PROVE  Api!Refuse(s, code)
BY ReplyMaps DEF Api!Refuse

(* OP-01 and OP-02. *)
LEMMA CreateMaps ==
  ASSUME Coherent, NEW s \in Sessions, ValidateCreate(s) \/ InsertDraft(s)
  PROVE  Api!Create(s) \/ UNCHANGED Api!vars
<1> DEFINE b == req[s].booking
<1>1. TypeOK /\ req[s].op = "create" /\ now[s] \in Nat /\ b.starts_at \in Nat
  BY DEF Coherent, TypeOK, SessionInv, RequestFits, ValidateCreate, InsertDraft,
         CreateRequest
<1>2. CASE ValidateCreate(s)
  <2>1. UNCHANGED <<clock, req, now, reservations>> /\ pc[s] = "validate"
    BY <1>2 DEF ValidateCreate, db, local
  <2>2. CASE CreateRefusal(b, now[s]) = None
    <3>1. Go(s, "insert") /\ UNCHANGED result
      BY <1>2, <2>2 DEF ValidateCreate
    <3>2. QED
      BY <1>1, <2>1, <3>1, Unmoved DEF PhaseOf
  <2>3. CASE CreateRefusal(b, now[s]) # None
    <3>1. Reply(s, CreateRefusal(b, now[s]))
      BY <1>2, <2>3 DEF ValidateCreate
    <3>2. Api!Refuse(s, CreateRefusal(b, now[s]))
      BY <1>1, <2>1, <3>1, RefuseMaps
    <3>3. QED
      BY <1>1, <2>3, <3>2, SameHelpers DEF CreateRefusal, Api!Create
  <2>4. QED
    BY <2>2, <2>3
<1>3. CASE InsertDraft(s)
  <2>1. /\ b.user_id \in Users /\ b.instrument_id \in Instruments
        /\ is_interval_valid(b.starts_at, b.ends_at) /\ now[s] < b.starts_at
    BY <1>3 DEF InsertDraft, Coherent, SessionInv, RequestFits
  <2>2. Api!Reply(s, "OK")
    BY <1>1, <1>3, ReplyMaps DEF InsertDraft, local
  <2>3. \E r \in ReservationIds :
          /\ reservations[r] = Api!NoRow
          /\ reservations' = [reservations EXCEPT ![r] = Api!DraftOf(b)]
    BY <1>3, SameHelpers DEF InsertDraft
  <2>4. ~(b.starts_at <= now[s])
    BY <1>1, <2>1
  <2>5. QED
    BY <1>1, <2>1, <2>2, <2>3, <2>4, SameHelpers DEF Api!Create
<1>4. QED
  BY <1>2, <1>3

LEMMA CheckMaps ==
  ASSUME Coherent, NEW s \in Sessions, ReadInstrument(s) \/ QueryConflicts(s)
  PROVE  Api!Check(s) \/ UNCHANGED Api!vars
<1> DEFINE q == req[s].query
<1>1. /\ TypeOK /\ req[s].op = "check"
      /\ UNCHANGED <<clock, req, now, reservations>>
      /\ pc[s] \in {"read_instrument", "query"}
  BY DEF Coherent, TypeOK, SessionInv, RequestFits, ReadInstrument, QueryConflicts,
         CheckRequest, db, local
<1>2. CASE ReadInstrument(s) /\ Go(s, "query") /\ UNCHANGED result
  BY <1>1, <1>2, Unmoved DEF PhaseOf, ReadInstrument
<1>3. CASE ReadInstrument(s) /\ ~(Go(s, "query") /\ UNCHANGED result)
  <2>1. \A code : Reply(s, code) => Api!Refuse(s, code)
    BY <1>1, RefuseMaps
  <2>2. QED
    BY <1>1, <1>3, <2>1, SameHelpers DEF ReadInstrument, Api!Check
<1>4. CASE QueryConflicts(s)
  <2>1. /\ q.instrument_id \in Instruments
        /\ is_interval_valid(q.starts_at, q.ends_at)
    BY <1>4 DEF QueryConflicts, Coherent, SessionInv, RequestFits
  <2>2. Api!Refuse(s, AvailabilityAnswer(reservations,
                        overlapping_blocking(reservations, q, now[s])))
    BY <1>1, <1>4, RefuseMaps DEF QueryConflicts
  <2>3. QED
    BY <1>1, <2>1, <2>2, SameHelpers DEF Api!Check
<1>5. QED
  BY <1>2, <1>3, <1>4

(* The first steps of OP-03 to OP-05. *)
LEMMA TurnAwayMaps ==
  ASSUME Coherent, NEW s \in Sessions, LockReservation(s) \/ Authorize(s)
  PROVE  Api!TurnAway(s) \/ UNCHANGED Api!vars
<1>1. /\ TypeOK /\ req[s] \in ActorRequest
      /\ UNCHANGED <<clock, req, now, reservations>>
      /\ pc[s] \in {"lock_reservation", "authorize"}
  BY DEF Coherent, SessionInv, RequestFits, Holding, LockReservation, Authorize,
         db, local
<1>2. req[s].op \in ActorOps /\ req[s].op \in Api!ActorOps
  BY <1>1, SameHelpers DEF ActorRequest
<1>3. \A code : Reply(s, code) => Api!Refuse(s, code)
  BY <1>1, RefuseMaps
<1>4. CASE LockReservation(s) /\ Go(s, "authorize") /\ UNCHANGED result
  BY <1>1, <1>4, Unmoved DEF PhaseOf, LockReservation
<1>5. CASE /\ LockReservation(s) /\ reservations[req[s].reservation_id] = NoRow
           /\ Reply(s, "NOT_FOUND")
  BY <1>2, <1>3, <1>5, SameHelpers DEF Api!TurnAway, Api!Subject
<1>6. CASE Authorize(s)
  <2>1. Api!Subject(s) = row[s] /\ row[s] # Api!NoRow
    BY <1>6, SameHelpers DEF Authorize, Coherent, SessionInv, RowIsFresh, Holding,
       Api!Subject, Row, NoRow, ReservationState
  <2>2. CASE Go(s, "decide") /\ UNCHANGED result
    BY <1>1, <1>6, <2>2, Unmoved DEF PhaseOf, Authorize
  <2>3. CASE req[s].requested_by \notin Users /\ Reply(s, "UNKNOWN_USER")
    BY <1>2, <1>3, <2>1, <2>3 DEF Api!TurnAway
  <2>4. CASE /\ req[s].requested_by \in Users /\ ~Permitted(s)
             /\ Reply(s, "FORBIDDEN")
    <3>1. ~Api!MayAct(s)
      BY <1>2, <2>1, <2>4
      DEF Api!MayAct, Permitted, Authorized, MayDecide, ActorOps
    <3>2. QED
      BY <1>2, <1>3, <2>1, <2>4, <3>1 DEF Api!TurnAway
  <2>5. QED
    BY <1>6, <2>2, <2>3, <2>4 DEF Authorize
<1>7. QED
  BY <1>4, <1>5, <1>6 DEF LockReservation

(* Past the permission check a session knows its subject and may act.      *)
LEMMA ConcernsItsSubject ==
  ASSUME Coherent, NEW s \in Sessions, pc[s] \in Holding \ {"authorize"}
  PROVE  /\ TypeOK /\ Api!Subject(s) = row[s] /\ row[s] \in Row
         /\ now[s] \in Nat /\ row[s].starts_at \in Nat
         /\ req[s].op \in ActorOps
         /\ \A ops : req[s].op \in ops => Api!Concerns(s, ops)
<1>1. /\ TypeOK /\ Api!Subject(s) = row[s] /\ row[s] \in Row
      /\ now[s] \in Nat /\ row[s].starts_at \in Nat
      /\ req[s].op \in ActorOps
  BY DEF Coherent, TypeOK, SessionInv, RequestFits, RowIsFresh, ActorRequest,
         Row, Api!Subject
<1>2. row[s] # Api!NoRow
  BY <1>1, SameHelpers DEF Row, NoRow, ReservationState
<1>3. Api!MayAct(s)
  BY <1>1 DEF Coherent, SessionInv, Entitled, Permitted, Authorized, MayDecide,
              Api!MayAct, ActorOps
<1>4. QED
  BY <1>1, <1>2, <1>3 DEF Api!Concerns

(* Whoever is allocating may be refused for any of BR-02, BR-04 and BR-05, *)
(* and if nothing stands in the way writes what it was to write.           *)
LEMMA AllocationMaps ==
  ASSUME Coherent, NEW s \in Sessions, pc[s] \in Holding \ {"authorize"},
         MayAllocate(s), Api!Allocate(s, target[s])
  PROVE  Api!Answer(s)
<1>1. /\ Api!Subject(s) = row[s] /\ now[s] \in Nat /\ row[s].starts_at \in Nat
      /\ \A ops : req[s].op \in ops => Api!Concerns(s, ops)
  BY ConcernsItsSubject
<1>2. CASE req[s].op = "confirm"
  BY <1>1, <1>2, SameHelpers DEF MayAllocate, Api!Confirm, Api!Answer
<1>3. CASE req[s].op = "approve"
  <2>1. ~Api!Dead(s)
    BY <1>1, <1>3, SameHelpers
    DEF MayAllocate, Api!Dead, approval_request_is_alive
  <2>2. QED
    BY <1>1, <1>3, <2>1 DEF MayAllocate, Api!DecideOn, Api!Answer
<1>4. QED
  BY <1>2, <1>3 DEF MayAllocate

LEMMA DecideConfirmMaps ==
  ASSUME Coherent, NEW s \in Sessions, DecideConfirm(s)
  PROVE  Api!Confirm(s) \/ UNCHANGED Api!vars
<1>1. /\ pc[s] = "decide" /\ req[s].op = "confirm"
      /\ UNCHANGED <<clock, req, now, reservations>>
  BY DEF DecideConfirm, db
<1>2. /\ TypeOK /\ Api!Subject(s) = row[s] /\ now[s] \in Nat
      /\ row[s] \in Row /\ row[s].starts_at \in Nat
      /\ Api!Concerns(s, {"confirm"})
  BY <1>1, ConcernsItsSubject DEF Holding
<1>3. \A code : Reply(s, code) => Api!Refuse(s, code)
  BY <1>1, <1>2, RefuseMaps
<1> DEFINE d == confirm_decision(row[s].state, row[s].starts_at, now[s],
                   instruments[row[s].instrument_id].requires_approval)
<1>4. CASE d.rejection # None /\ Reply(s, d.rejection)
  <2>1. \/ row[s].state # "DRAFT" /\ d.rejection = "INVALID_STATE"
        \/ /\ row[s].state = "DRAFT" /\ now[s] >= row[s].starts_at
           /\ d.rejection = "ALREADY_STARTED"
    BY <1>2, <1>4 DEF confirm_decision, Decision
  <2>2. QED
    BY <1>2, <1>3, <1>4, <2>1 DEF Api!Confirm
<1>5. CASE d.rejection = None /\ Reply(s, "INSTRUMENT_INACTIVE")
  <2>1. row[s].state = "DRAFT" /\ ~(now[s] >= row[s].starts_at)
    BY <1>2, <1>5 DEF confirm_decision, Decision, None
  <2>2. \E state \in Api!BLOCKING_STATES : Api!Allocate(s, state)
    BY <1>3, <1>5 DEF Api!Allocate, Api!BLOCKING_STATES
  <2>3. QED
    BY <1>2, <2>1, <2>2 DEF Api!Confirm
<1>6. CASE Intend(s, d.target, "certify")
  BY <1>1, <1>2, <1>6, Unmoved DEF PhaseOf, Intend
<1>7. QED
  BY <1>4, <1>5, <1>6 DEF DecideConfirm

LEMMA DecideCancelMaps ==
  ASSUME Coherent, NEW s \in Sessions, DecideCancel(s)
  PROVE  Api!Cancel(s) \/ UNCHANGED Api!vars
<1>1. /\ pc[s] = "decide" /\ req[s].op = "cancel"
      /\ UNCHANGED <<clock, req, now, reservations>>
  BY DEF DecideCancel, db
<1>2. /\ TypeOK /\ Api!Subject(s) = row[s] /\ now[s] \in Nat
      /\ row[s] \in Row /\ row[s].starts_at \in Nat
      /\ Api!Concerns(s, {"cancel"})
  BY <1>1, ConcernsItsSubject DEF Holding
<1>3. \A code : Reply(s, code) => Api!Refuse(s, code)
  BY <1>1, <1>2, RefuseMaps
<1> DEFINE d == cancel_decision(row[s].state, row[s].starts_at, now[s])
<1>4. CASE d.target = None
           /\ Reply(s, IF d.rejection = None THEN "UNCHANGED" ELSE d.rejection)
  <2>1. \/ row[s].state = "CANCELLED" /\ d.rejection = None
        \/ row[s].state \in {"REJECTED", "EXPIRED"}
           /\ d.rejection = "INVALID_STATE"
        \/ /\ row[s].state = "CONFIRMED"
           /\ ~may_cancel_confirmed(row[s].starts_at, now[s])
           /\ d.rejection = "TOO_LATE"
    BY <1>2, <1>4 DEF cancel_decision, expiry_decision, Decision, None, Row,
                      ReservationState
  <2>2. d.rejection # None => d.rejection \in {"INVALID_STATE", "TOO_LATE"}
    BY <2>1
  <2>3. QED
    BY <1>2, <1>3, <1>4, <2>1, SameHelpers DEF Api!Cancel, Api!Dead, None
<1>5. CASE Intend(s, d.target, "commit")
  BY <1>1, <1>2, <1>5, Unmoved DEF PhaseOf, Intend
<1>6. QED
  BY <1>4, <1>5 DEF DecideCancel

LEMMA DecideRequestMaps ==
  ASSUME Coherent, NEW s \in Sessions, DecideRequest(s)
  PROVE  Api!DecideOn(s) \/ UNCHANGED Api!vars
<1>1. /\ pc[s] = "decide" /\ req[s].op \in {"approve", "reject"}
      /\ UNCHANGED <<clock, req, now, reservations>>
  BY DEF DecideRequest, db
<1>2. /\ TypeOK /\ Api!Subject(s) = row[s] /\ now[s] \in Nat
      /\ row[s] \in Row /\ row[s].starts_at \in Nat
      /\ Api!Concerns(s, {"approve", "reject"})
  BY <1>1, ConcernsItsSubject DEF Holding
<1>3. \A code : Reply(s, code) => Api!Refuse(s, code)
  BY <1>1, <1>2, RefuseMaps
<1>4. CASE row[s].state # "PENDING_APPROVAL" /\ Reply(s, "INVALID_STATE")
  BY <1>2, <1>3, <1>4 DEF Api!DecideOn
<1>5. CASE /\ row[s].state = "PENDING_APPROVAL" /\ req[s].op = "approve"
           /\ expiry_decision(row[s].state, row[s].starts_at, now[s]).target
                = None
           /\ Reply(s, "INSTRUMENT_INACTIVE")
  <2>1. ~Api!Dead(s)
    BY <1>2, <1>5, SameHelpers
    DEF expiry_decision, Decision, None, Api!Dead
  <2>2. QED
    BY <1>2, <1>3, <1>5, <2>1 DEF Api!DecideOn, Api!Allocate
<1>6. CASE \E state, label : Intend(s, state, label)
                             /\ PhaseOf(label) = "called"
  BY <1>1, <1>2, <1>6, Unmoved DEF PhaseOf, Intend
<1>7. PhaseOf("commit") = "called" /\ PhaseOf("certify") = "called"
  BY DEF PhaseOf
<1>8. QED
  BY <1>1, <1>4, <1>5, <1>6, <1>7 DEF DecideRequest

(* The three steps of an allocation: the certificate, the lock, the query. *)
LEMMA AllocatingMaps ==
  ASSUME Coherent, NEW s \in Sessions,
         Certify(s) \/ LockInstrument(s) \/ CheckOverlap(s)
  PROVE  Api!Answer(s) \/ UNCHANGED Api!vars
<1>1. /\ pc[s] \in {"certify", "lock_instrument", "overlap"}
      /\ UNCHANGED <<clock, req, now, reservations>>
  BY DEF Certify, LockInstrument, CheckOverlap, CheckOverlapIn, db, local
<1>2. /\ TypeOK /\ Api!Subject(s) = row[s] /\ MayAllocate(s)
      /\ pc[s] \in Holding \ {"authorize"}
  BY <1>1, ConcernsItsSubject
  DEF Holding, Coherent, SessionInv, AllocationIsGuarded
<1>3. \A code : Reply(s, code) => Api!Refuse(s, code)
  BY <1>1, <1>2, RefuseMaps
<1>4. CASE Certify(s) /\ Reply(s, "MISSING_CERTIFICATION")
  BY <1>2, <1>3, <1>4, AllocationMaps DEF Api!Allocate
<1>5. CASE /\ CheckOverlap(s) /\ Reply(s, "OVERLAP")
           /\ overlapping_blocking(reservations, row[s], now[s])
                \ {req[s].reservation_id} # {}
  BY <1>2, <1>3, <1>5, AllocationMaps, SameHelpers DEF Api!Allocate
<1>6. CASE \E label : /\ Go(s, label) /\ UNCHANGED result
                      /\ PhaseOf(label) = "called"
  BY <1>1, <1>2, <1>6, Unmoved DEF PhaseOf
<1>7. /\ PhaseOf("lock_instrument") = "called" /\ PhaseOf("overlap") = "called"
      /\ PhaseOf("commit") = "called"
  BY DEF PhaseOf
<1>8. QED
  BY <1>4, <1>5, <1>6, <1>7
  DEF Certify, LockInstrument, CheckOverlap, CheckOverlapIn

(* The commit is the moment at which the request takes effect. *)
LEMMA CommitMaps ==
  ASSUME Coherent, NEW s \in Sessions, Commit(s) PROVE Api!Answer(s)
<1>1. /\ pc[s] = "commit" /\ UNCHANGED <<clock, req, now>>
      /\ pc[s] \in Holding \ {"authorize"}
  BY DEF Commit, local, Holding
<1>2. /\ TypeOK /\ Api!Subject(s) = row[s] /\ row[s] \in Row
      /\ now[s] \in Nat /\ row[s].starts_at \in Nat
      /\ \A ops : req[s].op \in ops => Api!Concerns(s, ops)
  BY <1>1, ConcernsItsSubject
<1>3. Api!Write(s, target[s], IF target[s] = "EXPIRED" THEN "EXPIRED" ELSE "OK")
  BY <1>1, <1>2, ReplyMaps DEF Commit, Api!Write
<1>4. CASE target[s] \in BLOCKING_STATES
  <2>1. /\ MayAllocate(s)
        /\ overlapping_blocking(reservations, row[s], now[s])
             \ {req[s].reservation_id} = {}
    BY <1>1, <1>4 DEF Coherent, SessionInv, AllocationIsGuarded
  <2>2. Api!Allocate(s, target[s])
    BY <1>2, <1>3, <1>4, <2>1, SameHelpers DEF Api!Allocate, BLOCKING_STATES
  <2>3. QED
    BY <1>1, <2>1, <2>2, AllocationMaps
<1>5. CASE target[s] \notin BLOCKING_STATES
  <2>1. WriteIsLegal(s)
    BY <1>1 DEF Coherent, SessionInv
  <2>2. Api!Dead(s) <=> /\ row[s].state = "PENDING_APPROVAL"
                        /\ row[s].starts_at <= now[s]
    BY <1>2, SameHelpers DEF Api!Dead, approval_request_is_alive
  <2>3. CASE target[s] = "CANCELLED"
    <3>1. req[s].op = "cancel" /\ ~Api!Dead(s)
      BY <1>1, <1>2, <1>5, <2>1, <2>2, <2>3 DEF WriteIsLegal
    <3>2. QED
      BY <1>1, <1>2, <1>3, <1>5, <2>1, <2>3, <3>1, SameHelpers
      DEF WriteIsLegal, Api!Cancel, Api!Answer
  <2>4. CASE target[s] = "REJECTED"
    <3>1. req[s].op = "reject" /\ ~Api!Dead(s)
      BY <1>1, <1>2, <1>5, <2>1, <2>2, <2>4 DEF WriteIsLegal
    <3>2. QED
      BY <1>1, <1>2, <1>3, <1>5, <2>1, <2>4, <3>1
      DEF WriteIsLegal, Api!DecideOn, Api!Answer
  <2>5. CASE target[s] = "EXPIRED"
    <3>1. /\ req[s].op \in {"cancel", "approve", "reject"} /\ Api!Dead(s)
          /\ row[s].state = "PENDING_APPROVAL"
      BY <1>1, <1>2, <1>5, <2>1, <2>2, <2>5 DEF WriteIsLegal
    <3>2. QED
      BY <1>2, <1>3, <2>5, <3>1 DEF Api!Cancel, Api!DecideOn, Api!Answer
  <2>6. QED
    BY <1>1, <1>5, <2>1, <2>3, <2>4, <2>5 DEF WriteIsLegal
<1>6. QED
  BY <1>4, <1>5

(* A session opens, closes or dies. *)
LEMMA BeginMaps ==
  ASSUME Coherent, NEW s \in Sessions, Begin(s)
  PROVE  \E q \in Requests : Api!Call(s, q)
<1>1. PICK q \in Requests : /\ req' = [req EXCEPT ![s] = q]
                            /\ Go(s, FirstStatement(q.op))
  BY DEF Begin
<1>2. PhaseOf(FirstStatement(q.op)) = "called"
  BY ServiceAssumption
  DEF Request, CreateRequest, CheckRequest, ActorRequest, FirstStatement,
      ActorOps, PhaseOf
<1>3. [x \in Sessions |-> PhaseOf(pc'[x])]
        = [[x \in Sessions |-> PhaseOf(pc[x])] EXCEPT ![s] = "called"]
  BY <1>1, <1>2, PhaseMoves DEF Coherent
<1>4. Api!Call(s, q)
  BY <1>1, <1>3 DEF Begin, Api!Call, PhaseOf, db
<1>5. QED
  BY <1>4

LEMMA GoneMaps ==
  ASSUME Coherent, NEW s \in Sessions, Close(s) \/ Abort(s)
  PROVE  Api!Close(s) \/ Api!Die(s)
<1>1. Go(s, "idle") /\ Closed(s)
  BY DEF Close, Abort, Closed
<1>2. [x \in Sessions |-> PhaseOf(pc'[x])]
        = [[x \in Sessions |-> PhaseOf(pc[x])] EXCEPT ![s] = "idle"]
  BY <1>1, PhaseMoves DEF Coherent, PhaseOf
<1>3. Api!Gone(s)
  BY <1>1, <1>2, SameHelpers DEF Closed, Api!Gone, db
<1>4. PhaseOf(pc[s]) = IF pc[s] = "close" THEN "answered" ELSE
                         IF pc[s] = "idle" THEN "idle" ELSE "called"
  BY DEF PhaseOf
<1>5. QED
  BY <1>3, <1>4 DEF Close, Abort, Api!Close, Api!Die

(* A session at work answers its request or is not seen.                   *)
LEMMA ServingMaps ==
  ASSUME Coherent, NEW s \in Sessions,
         Run(s) \/ LockReservation(s) \/ LockInstrument(s), ~Close(s)
  PROVE  Api!Answer(s) \/ UNCHANGED Api!vars
BY CreateMaps, CheckMaps, TurnAwayMaps, DecideConfirmMaps, DecideCancelMaps,
   DecideRequestMaps, AllocatingMaps, CommitMaps
DEF Run, Api!Answer

(* Every step of the service is a step of the contract or unseen by it.    *)
LEMMA StepMaps == Coherent /\ [UnsteadyNext]_vars => [Api!Next]_(Api!vars)
<1> SUFFICES ASSUME Coherent, [UnsteadyNext]_vars PROVE [Api!Next]_(Api!vars)
  OBVIOUS
<1>1. ASSUME NEW s \in Sessions, Api!Answer(s) PROVE Api!Next
  BY <1>1 DEF Api!Next
<1>2. ASSUME NEW s \in Sessions, Run(s) \/ LockReservation(s) \/ LockInstrument(s),
             ~Close(s)
      PROVE  Api!Answer(s) \/ UNCHANGED Api!vars
  BY <1>2, ServingMaps
<1>3. ASSUME NEW s \in Sessions, Begin(s) \/ Close(s) \/ Abort(s) PROVE Api!Next
  BY <1>3, BeginMaps, GoneMaps DEF Api!Next
<1>4. CASE Tick \/ StepBack
  BY <1>4 DEF Tick, StepBack, Api!Tick, Api!StepBack, Api!Next, db, local
<1>5. CASE \/ \E i \in Instruments : SetInstrument(i)
           \/ \E c \in AdminCertifications :
                GrantCertification(c) \/ RevokeCertification(c)
           \/ UNCHANGED vars
  BY <1>5 DEF SetInstrument, GrantCertification, RevokeCertification, vars, db,
              local, Api!vars
<1>6. QED
  BY <1>1, <1>2, <1>3, <1>4, <1>5 DEF UnsteadyNext, Next

(* Linearizability: the service, statement by statement, implements the    *)
(* atomic contract, also when the wall clock is set back.                  *)
THEOREM ServiceImplementsApi == UnsteadySpec => ImplementsApi
<1>1. Init => Coherent /\ Api!Init
  BY InitCoherent, SameHelpers DEF Init, Api!Init, PhaseOf
<1>2. Coherent /\ [UnsteadyNext]_vars
        => [(Api!vars)' # Api!vars => Api!Next]_(Api!vars)
  BY StepMaps
<1>3. QED
  BY <1>1, <1>2, StepKeepsCoherent, PTL DEF UnsteadySpec, ImplementsApi

-----------------------------------------------------------------------------
(* What a caller is told. *)

StepOf(s) == \/ Begin(s) \/ Run(s) \/ Abort(s)
             \/ LockReservation(s) \/ LockInstrument(s)

(* A session's control, request, copy and answer are its own. *)
LEMMA OthersUntouched ==
  ASSUME TypeOK, NEW s \in Sessions, NEW t \in Sessions, s # t, StepOf(t)
  PROVE  /\ pc'[s] = pc[s] /\ req'[s] = req[s]
         /\ row'[s] = row[s] /\ target'[s] = target[s] /\ result'[s] = result[s]
<1> USE DEF TypeOK, Reply, Go, Intend, local
<1>1. CASE \/ Begin(t) \/ Close(t) \/ Abort(t)
           \/ LockReservation(t) \/ LockInstrument(t)
  BY <1>1 DEF Begin, Close, Abort, Closed, LockReservation, LockInstrument
<1>2. CASE \/ ValidateCreate(t) \/ InsertDraft(t) \/ ReadInstrument(t)
           \/ QueryConflicts(t) \/ Authorize(t) \/ Certify(t)
           \/ CheckOverlap(t) \/ Commit(t)
  BY <1>2 DEF ValidateCreate, InsertDraft, ReadInstrument, QueryConflicts,
    Authorize, Certify, CheckOverlap, CheckOverlapIn, Commit
<1>3. CASE DecideConfirm(t) \/ DecideCancel(t) \/ DecideRequest(t)
  BY <1>3 DEF DecideConfirm, DecideCancel, DecideRequest
<1>4. QED
  BY <1>1, <1>2, <1>3 DEF StepOf, Run

LEMMA SomebodySteps ==
  ASSUME [UnsteadyNext]_vars
  PROVE  \/ \E t \in Sessions : StepOf(t)
         \/ UNCHANGED <<pc, req, row, target, result>>
BY DEF UnsteadyNext, Next, vars, StepOf, SetInstrument, GrantCertification,
       RevokeCertification, Tick, StepBack, local

LEMMA OnlyItsOwnStep ==
  ASSUME TypeOK, [UnsteadyNext]_vars, NEW s \in Sessions, ~StepOf(s)
  PROVE  /\ pc'[s] = pc[s] /\ req'[s] = req[s]
         /\ row'[s] = row[s] /\ target'[s] = target[s] /\ result'[s] = result[s]
BY OthersUntouched, SomebodySteps

(* The answers OK and UNCHANGED are given by three statements only. *)
LEMMA SuccessComesFrom ==
  ASSUME Coherent, NEW s \in Sessions, StepOf(s), pc'[s] = "close",
         result'[s] \in {"OK", "UNCHANGED"}, req'[s].op = "cancel"
  PROVE  /\ Commit(s) \/ DecideCancel(s)
         /\ reservations'[req'[s].reservation_id].state = "CANCELLED"
<1> USE DEF Coherent, TypeOK, Reply, Go, Intend, local
<1>1. ~(Begin(s) \/ Close(s) \/ Abort(s) \/ LockInstrument(s))
  <2>1. \A q \in Requests : FirstStatement(q.op) # "close"
    BY ServiceAssumption DEF Request, CreateRequest, CheckRequest, ActorRequest,
                             FirstStatement, ActorOps
  <2>2. QED
    BY <2>1 DEF Begin, Close, Abort, Closed, LockInstrument
<1>2. req' = req
  BY <1>1 DEF StepOf, Run, LockReservation, ValidateCreate, InsertDraft,
    ReadInstrument, QueryConflicts, Authorize, Certify, CheckOverlap,
    CheckOverlapIn, Commit, DecideConfirm, DecideCancel, DecideRequest
<1>3. ~( \/ ValidateCreate(s) \/ InsertDraft(s) \/ ReadInstrument(s)
         \/ QueryConflicts(s) )
  BY <1>2 DEF ValidateCreate, InsertDraft, ReadInstrument, QueryConflicts,
    SessionInv, RequestFits, CreateRequest, CheckRequest
<1>4. ~(LockReservation(s) \/ Authorize(s) \/ Certify(s) \/ CheckOverlap(s))
  BY DEF LockReservation, Authorize, Certify, CheckOverlap, CheckOverlapIn
<1>5. ~(DecideConfirm(s) \/ DecideRequest(s))
  BY <1>2 DEF DecideConfirm, DecideRequest
<1>6. CASE Commit(s)
  <2>1. /\ target[s] # "EXPIRED" /\ req[s].op = "cancel"
        /\ pc[s] = "commit" /\ SessionInv(s)
    BY <1>2, <1>6 DEF Commit
  <2>2. target[s] = "CANCELLED"
    BY <2>1 DEF SessionInv, AllocationIsGuarded, MayAllocate, WriteIsLegal
  <2>3. /\ req[s].reservation_id \in ReservationIds
        /\ reservations[req[s].reservation_id] \in Row
        /\ reservations' = [reservations EXCEPT
                              ![req[s].reservation_id].state = target[s]]
    BY <1>6, CommitKnows
  <2>4. QED
    BY <1>2, <1>6, <2>2, <2>3 DEF Table, Row
<1>7. CASE DecideCancel(s)
  <2>1. /\ row[s] = reservations[req[s].reservation_id] /\ row[s] \in Row
        /\ reservations' = reservations
    BY <1>7 DEF DecideCancel, SessionInv, RowIsFresh, Holding, db
  <2>2. row[s].state = "CANCELLED"
    BY <1>7, <2>1 DEF DecideCancel, cancel_decision, expiry_decision, Decision,
                      None, Row, ReservationState
  <2>3. QED
    BY <1>2, <1>7, <2>1, <2>2
<1>8. QED
  BY <1>1, <1>3, <1>4, <1>5, <1>6, <1>7 DEF StepOf, Run

(* No transition leaves CANCELLED. *)
LEMMA CancelledIsFinal ==
  ASSUME Coherent, [UnsteadyNext]_vars, NEW r \in ReservationIds,
         reservations[r].state = "CANCELLED"
  PROVE  reservations'[r].state = "CANCELLED"
<1>1. reservations \in Table
  BY DEF Coherent, TypeOK
<1>2. ASSUME NEW t \in Sessions, InsertDraft(t)
      PROVE  reservations'[r] = reservations[r]
  BY <1>1, <1>2 DEF InsertDraft, Table, NoRow
<1>3. ASSUME NEW t \in Sessions, Commit(t)
      PROVE  reservations'[r] = reservations[r]
  <2>1. req[t].reservation_id # r
    BY <1>1, <1>3, CommitKnows
  <2>2. QED
    BY <1>1, <1>3, <2>1, CommitKnows DEF Table
<1>4. QED
  BY <1>2, <1>3, WritingStep

(* REQ-16: whoever is told that the cancellation succeeded finds the       *)
(* reservation cancelled, then and for as long as the answer is on its way,*)
(* also when the clock is set back meanwhile.                              *)
THEOREM ServiceCancelSuccess == UnsteadySpec => []CancelSuccessNeverBlocks
<1>1. Init => CancelSuccessNeverBlocks
  BY DEF Init, CancelSuccessNeverBlocks
<1>2. Coherent /\ CancelSuccessNeverBlocks /\ [UnsteadyNext]_vars
        => CancelSuccessNeverBlocks'
  <2> SUFFICES ASSUME Coherent, CancelSuccessNeverBlocks, [UnsteadyNext]_vars,
                      NEW s \in Sessions, pc'[s] = "close",
                      req'[s].op = "cancel", result'[s] \in {"OK", "UNCHANGED"}
               PROVE  reservations'[req'[s].reservation_id].state = "CANCELLED"
    BY DEF CancelSuccessNeverBlocks
  <2>1. TypeOK
    BY DEF Coherent
  <2>2. CASE StepOf(s)
    BY <2>1, <2>2, SuccessComesFrom
  <2>3. CASE ~StepOf(s)
    <3>1. pc'[s] = pc[s] /\ req'[s] = req[s] /\ result'[s] = result[s]
      BY <2>1, <2>3, OnlyItsOwnStep
    <3>2. reservations[req[s].reservation_id].state = "CANCELLED"
      BY <3>1 DEF CancelSuccessNeverBlocks
    <3>3. req[s].reservation_id \in ReservationIds
      BY <2>1, <3>1 DEF TypeOK, Request, CreateRequest, CheckRequest,
                        ActorRequest, NoRequest
    <3>4. QED
      BY <3>1, <3>2, <3>3, CancelledIsFinal
  <2>4. QED
    BY <2>2, <2>3
<1>3. QED
  BY <1>1, <1>2, CoherentAlways, PTL DEF UnsteadySpec

-----------------------------------------------------------------------------
(* A reply and what it leaves in the table. *)

(* A commit changes the state of its reservation, to what the operation is *)
(* for or to EXPIRED, and tells which.                                     *)
LEMMA CommitTurns ==
  ASSUME Coherent, NEW s \in Sessions, Commit(s)
  PROVE  /\ pc[s] = "commit" /\ pc'[s] = "close"
         /\ target[s] # reservations[req[s].reservation_id].state
         /\ reservations'[req[s].reservation_id].state = target[s]
         /\ \A r \in ReservationIds : r # req[s].reservation_id
                                        => reservations'[r] = reservations[r]
         /\ req[s].op \in ActorOps /\ req[s].reservation_id \in ReservationIds
         /\ \/ target[s] = "EXPIRED" /\ result'[s] = "EXPIRED"
            \/ target[s] \in Target(req[s].op) /\ result'[s] = "OK"
<1>1. /\ pc[s] = "commit" /\ pc'[s] = "close"
      /\ result'[s] = IF target[s] = "EXPIRED" THEN "EXPIRED" ELSE "OK"
  BY DEF Commit, Reply, Go, Coherent, TypeOK
<1> DEFINE id == req[s].reservation_id
<1>2. /\ id \in ReservationIds /\ row[s] = reservations[id]
      /\ reservations[id] \in Row
      /\ reservations' = [reservations EXCEPT ![id].state = target[s]]
      /\ reservations \in Table
  BY CommitKnows DEF Coherent, TypeOK
<1>3. /\ reservations'[id].state = target[s]
      /\ \A r \in ReservationIds : r # id => reservations'[r] = reservations[r]
  BY <1>2 DEF Table, Row
<1>4. /\ target[s] # row[s].state
      /\ target[s] = "EXPIRED" \/ target[s] \in Target(req[s].op)
  <2>1. SessionInv(s)
    BY DEF Coherent
  <2>2. CASE target[s] \in BLOCKING_STATES
    BY <1>1, <2>1, <2>2
    DEF SessionInv, AllocationIsGuarded, MayAllocate, Target, BLOCKING_STATES
  <2>3. CASE target[s] \notin BLOCKING_STATES
    BY <1>1, <2>1, <2>3 DEF SessionInv, WriteIsLegal, Target
  <2>4. QED
    BY <2>2, <2>3
<1>5. req[s].op \in ActorOps
  BY <1>1 DEF Coherent, SessionInv, RequestFits, Holding, ActorRequest
<1>6. QED
  BY <1>1, <1>2, <1>3, <1>4, <1>5

LEMMA InsertTurns ==
  ASSUME Coherent, NEW s \in Sessions, InsertDraft(s)
  PROVE  /\ pc[s] = "insert" /\ pc'[s] = "close" /\ result'[s] = "OK"
         /\ req[s].op = "create" /\ Target(req[s].op) = {"DRAFT"}
         /\ \E r \in ReservationIds :
              /\ reservations[r] = NoRow /\ reservations'[r] # reservations[r]
              /\ reservations'[r].state = "DRAFT"
              /\ \A q \in ReservationIds : q # r =>
                   reservations'[q] = reservations[q]
<1>1. /\ pc[s] = "insert" /\ pc'[s] = "close" /\ result'[s] = "OK"
      /\ reservations \in Table
  BY DEF InsertDraft, Reply, Go, Coherent, TypeOK
<1>2. req[s].op = "create"
  BY <1>1 DEF Coherent, SessionInv, RequestFits, CreateRequest
<1>3. PICK r \in ReservationIds :
        /\ reservations[r] = NoRow
        /\ reservations' = [reservations EXCEPT ![r] = DraftOf(req[s].booking)]
  BY DEF InsertDraft
<1>4. /\ reservations'[r] # reservations[r]
      /\ reservations'[r].state = "DRAFT"
      /\ \A q \in ReservationIds : q # r => reservations'[q] = reservations[q]
  BY <1>1, <1>3 DEF Table, DraftOf, NoRow
<1>5. QED
  BY <1>1, <1>2, <1>3, <1>4 DEF Target

(* The answers that stand for a write are given by a write only. *)
LEMMA WritersAnswer ==
  ASSUME Coherent, NEW s \in Sessions, StepOf(s), result'[s] # result[s],
         result'[s] \in {"OK", "EXPIRED"}
  PROVE  InsertDraft(s) \/ Commit(s)
<1> USE DEF Coherent, TypeOK, Reply, Go, Intend
<1>1. ~(Begin(s) \/ Close(s) \/ Abort(s) \/ LockReservation(s) \/ LockInstrument(s))
  BY DEF Begin, Close, Abort, Closed, LockReservation, LockInstrument, None, local
<1>2. ~( \/ ValidateCreate(s) \/ ReadInstrument(s) \/ QueryConflicts(s)
         \/ Authorize(s) \/ Certify(s) \/ CheckOverlap(s) )
  BY DEF ValidateCreate, CreateRefusal, ReadInstrument, QueryConflicts,
    AvailabilityAnswer, Authorize, Certify, CheckOverlap, CheckOverlapIn
<1>3. pc[s] = "decide" => /\ row[s].state \in ReservationState
                          /\ row[s].starts_at \in Nat /\ now[s] \in Nat
  BY DEF SessionInv, RowIsFresh, Holding, Row
<1>4. ~(DecideConfirm(s) \/ DecideRequest(s))
  BY <1>3 DEF DecideConfirm, DecideRequest, confirm_decision, Decision, None
<1>5. ~DecideCancel(s)
  BY <1>3 DEF DecideCancel, cancel_decision, expiry_decision, Decision, None,
              ReservationState
<1>6. QED
  BY <1>1, <1>2, <1>4, <1>5 DEF StepOf, Run

(* N-04 for every step: a reservation changes in the step that fixes the   *)
(* answer OK, or EXPIRED, of the request that asked for a change of that   *)
(* row, and these answers are fixed in no other step.                      *)
THEOREM ServiceReplyMatchesWrite == UnsteadySpec => ReplyMatchesWrite
<1> DEFINE Answers ==
      \A r \in ReservationIds :
        reservations'[r] # reservations[r] =>
          \E s \in Sessions :
            /\ pc'[s] = "close" /\ pc[s] # "close"
            /\ IF req[s].op \in ActorOps THEN req[s].reservation_id = r
               ELSE req[s].op = "create" /\ reservations[r] = NoRow
            /\ \/ /\ result'[s] = "OK"
                  /\ reservations'[r].state \in Target(req[s].op)
               \/ /\ result'[s] = "EXPIRED"
                  /\ reservations'[r].state = "EXPIRED"
           Writes ==
      \A s \in Sessions :
        (result'[s] # result[s] /\ result'[s] \in {"OK", "EXPIRED"})
          => reservations' # reservations
<1>1. Coherent /\ [UnsteadyNext]_vars => Answers
  <2> SUFFICES ASSUME Coherent, [UnsteadyNext]_vars, NEW x \in ReservationIds,
                      reservations'[x] # reservations[x]
               PROVE  \E s \in Sessions :
                        /\ pc'[s] = "close" /\ pc[s] # "close"
                        /\ IF req[s].op \in ActorOps
                           THEN req[s].reservation_id = x
                           ELSE req[s].op = "create" /\ reservations[x] = NoRow
                        /\ \/ /\ result'[s] = "OK"
                              /\ reservations'[x].state \in Target(req[s].op)
                           \/ /\ result'[s] = "EXPIRED"
                              /\ reservations'[x].state = "EXPIRED"
    OBVIOUS
  <2>2. ASSUME NEW s \in Sessions, InsertDraft(s)
        PROVE  /\ pc'[s] = "close" /\ pc[s] # "close" /\ result'[s] = "OK"
               /\ req[s].op = "create" /\ reservations[x] = NoRow
               /\ reservations'[x].state \in Target(req[s].op)
    BY <2>2, InsertTurns
  <2>3. ASSUME NEW s \in Sessions, Commit(s)
        PROVE  /\ pc'[s] = "close" /\ pc[s] # "close"
               /\ req[s].op \in ActorOps /\ req[s].reservation_id = x
               /\ \/ /\ result'[s] = "OK"
                     /\ reservations'[x].state \in Target(req[s].op)
                  \/ /\ result'[s] = "EXPIRED"
                     /\ reservations'[x].state = "EXPIRED"
    BY <2>3, CommitTurns
  <2>4. QED
    BY <2>2, <2>3, WritingStep DEF ActorOps
<1>2. Coherent /\ [UnsteadyNext]_vars => Writes
  <2> SUFFICES ASSUME Coherent, [UnsteadyNext]_vars, NEW s \in Sessions,
                      result'[s] # result[s], result'[s] \in {"OK", "EXPIRED"}
               PROVE  reservations' # reservations
    OBVIOUS
  <2>1. StepOf(s)
    BY OnlyItsOwnStep DEF Coherent
  <2>2. CASE InsertDraft(s)
    BY <2>2, InsertTurns
  <2>3. CASE Commit(s)
    BY <2>3, CommitTurns
  <2>4. QED
    BY <2>1, <2>2, <2>3, WritersAnswer
<1>3. QED
  BY <1>1, <1>2, CoherentAlways, PTL DEF UnsteadySpec, ReplyMatchesWrite

-----------------------------------------------------------------------------
(* What a refusal or an availability says of the table.                    *)

LEMMA OverlapAnswers ==
  ASSUME Coherent, Unanswered, [UnsteadyNext]_vars, NEW s \in Sessions,
         pc[s] = "overlap", result'[s] # None
  PROVE  CheckOverlap(s)
<1>1. result[s] = None /\ TypeOK
  BY DEF Unanswered, Coherent
<1>2. StepOf(s)
  BY <1>1, OnlyItsOwnStep
<1>3. ~(LockInstrument(s) \/ LockReservation(s) \/ Begin(s) \/ Close(s) \/ Abort(s))
  BY <1>1 DEF LockInstrument, LockReservation, Begin, Close, Abort, Closed, TypeOK
<1>4. QED
  BY <1>2, <1>3 DEF StepOf, Run, ValidateCreate, InsertDraft, ReadInstrument,
    QueryConflicts, Authorize, DecideConfirm, DecideCancel, DecideRequest,
    Certify, Commit

LEMMA QueryAnswers ==
  ASSUME Coherent, Unanswered, [UnsteadyNext]_vars, NEW s \in Sessions,
         pc[s] = "query", result'[s] # None
  PROVE  result'[s] = AvailabilityAnswer(reservations, overlapping_blocking(
                        reservations, req[s].query, now[s]))
<1>1. result[s] = None /\ TypeOK
  BY DEF Unanswered, Coherent
<1>2. StepOf(s)
  BY <1>1, OnlyItsOwnStep
<1>3. ~(LockInstrument(s) \/ LockReservation(s) \/ Begin(s) \/ Close(s) \/ Abort(s))
  BY <1>1 DEF LockInstrument, LockReservation, Begin, Close, Abort, Closed, TypeOK
<1>4. QueryConflicts(s)
  BY <1>2, <1>3 DEF StepOf, Run, ValidateCreate, InsertDraft, ReadInstrument,
    Authorize, DecideConfirm, DecideCancel, DecideRequest, Certify,
    CheckOverlap, CheckOverlapIn, Commit
<1>5. QED
  BY <1>1, <1>4 DEF QueryConflicts, Reply, TypeOK

(* OP-02: an answer AVAILABLE is true when it is given, by the true clock, *)
(* although the query counts by the time at which the request arrived:     *)
(* that time is never ahead of the clock, so it lets no living request out.*)
THEOREM ServiceAvailableMeansFree == Spec => AvailableMeansFree
<1> DEFINE Free ==
      \A s \in Sessions :
        (pc[s] = "query" /\ result'[s] = "AVAILABLE") =>
          \A r \in ReservationIds :
            ( \/ reservations[r].state = "CONFIRMED"
              \/ /\ reservations[r].state = "PENDING_APPROVAL"
                 /\ clock < reservations[r].starts_at )
            => ~Overlap(reservations[r], req[s].query)
<1>1. IInv /\ [Next]_vars => Free
  <2> SUFFICES ASSUME IInv, [Next]_vars, NEW s \in Sessions,
                      pc[s] = "query", result'[s] = "AVAILABLE",
                      NEW r \in ReservationIds,
                      \/ reservations[r].state = "CONFIRMED"
                      \/ /\ reservations[r].state = "PENDING_APPROVAL"
                         /\ clock < reservations[r].starts_at
               PROVE  ~Overlap(reservations[r], req[s].query)
    OBVIOUS
  <2>1. now[s] \in Nat /\ clock \in Nat /\ now[s] <= clock
    BY DEF IInv, Coherent, TypeOK, Timely
  <2>2. reservations[r] \in Row /\ reservations[r].starts_at \in Nat
    BY DEF IInv, Coherent, TypeOK, Table, NoRow, Row
  <2>3. Blocks(reservations[r], now[s])
    BY <2>1, <2>2 DEF Blocks, BLOCKING_STATES
  <2>4. overlapping_blocking(reservations, req[s].query, now[s]) = {}
    BY QueryAnswers DEF IInv, Orderly, UnsteadyNext, None, AvailabilityAnswer
  <2>5. QED
    BY <2>3, <2>4 DEF overlapping_blocking
<1>2. QED
  BY <1>1, ServiceInvariant, PTL DEF Spec, AvailableMeansFree

(* BR-08: a refusal for an overlap, and an availability denied, rest on an *)
(* allocation or on a request that was alive when the refused one arrived, *)
(* never on a dead request that nobody has written as expired.             *)
THEOREM ServiceDeadRefuseNobody == UnsteadySpec => DeadRequestsRefuseNobody
<1> DEFINE Grounded ==
      \A s \in Sessions :
        LET asked == IF pc[s] = "query" THEN req[s].query ELSE row[s]
            denied == \/ pc[s] = "overlap" /\ result'[s] = "OVERLAP"
                      \/ /\ pc[s] = "query"
                         /\ result'[s] \in {"CONFIRMED", "PENDING_APPROVAL"}
        IN denied =>
             \E r \in ReservationIds :
               /\ reservations[r] # NoRow
               /\ Overlap(reservations[r], asked)
               /\ pc[s] = "overlap" => r # req[s].reservation_id
               /\ \/ reservations[r].state = "CONFIRMED"
                  \/ /\ reservations[r].state = "PENDING_APPROVAL"
                     /\ now[s] < reservations[r].starts_at
<1>1. Coherent /\ Unanswered /\ [UnsteadyNext]_vars => Grounded
  <2> SUFFICES ASSUME Coherent, Unanswered, [UnsteadyNext]_vars
               PROVE  Grounded
    OBVIOUS
  <2>1. ASSUME NEW b, NEW at, NEW r \in overlapping_blocking(reservations, b, at)
        PROVE  /\ r \in ReservationIds /\ reservations[r] # NoRow
               /\ Overlap(reservations[r], b)
               /\ \/ reservations[r].state = "CONFIRMED"
                  \/ /\ reservations[r].state = "PENDING_APPROVAL"
                     /\ at < reservations[r].starts_at
    BY <2>1 DEF overlapping_blocking, Blocks, BLOCKING_STATES, NoRow
  <2>2. ASSUME NEW s \in Sessions, pc[s] = "overlap", result'[s] = "OVERLAP"
        PROVE  \E r \in overlapping_blocking(reservations, row[s], now[s]) :
                 r # req[s].reservation_id
    BY <2>2, OverlapAnswers
    DEF None, CheckOverlap, CheckOverlapIn, Unanswered
  <2>3. ASSUME NEW s \in Sessions, pc[s] = "query",
               result'[s] \in {"CONFIRMED", "PENDING_APPROVAL"}
        PROVE  overlapping_blocking(reservations, req[s].query, now[s]) # {}
    BY <2>3, QueryAnswers DEF None, AvailabilityAnswer
  <2>4. QED
    BY <2>1, <2>2, <2>3
<1>2. QED
  BY <1>1, CoherentAlways, PTL DEF Orderly, UnsteadySpec, DeadRequestsRefuseNobody

-----------------------------------------------------------------------------
(* What the locks are held for. *)

LEMMA OthersLocksStay ==
  ASSUME TypeOK, [UnsteadyNext]_vars, NEW s \in Sessions, ~StepOf(s)
  PROVE  /\ \A r \in ReservationIds : resLock[r] = s <=> resLock'[r] = s
         /\ \A i \in Instruments : insLock[i] = s <=> insLock'[i] = s
<1>1. CASE UNCHANGED locks
  BY <1>1 DEF locks
<1>2. ASSUME NEW t \in Sessions, StepOf(t)
      PROVE  \/ UNCHANGED locks \/ ReleaseLocks(t)
             \/ LockReservation(t) \/ LockInstrument(t)
  BY <1>2 DEF StepOf, Begin, Run, Abort, Close, Closed, Commit, ValidateCreate,
    InsertDraft, ReadInstrument, QueryConflicts, Authorize, DecideConfirm,
    DecideCancel, DecideRequest, Certify, CheckOverlap, CheckOverlapIn
<1>3. ASSUME NEW t \in Sessions, t # s, ReleaseLocks(t)
      PROVE  /\ \A r \in ReservationIds : resLock[r] = s <=> resLock'[r] = s
             /\ \A i \in Instruments : insLock[i] = s <=> insLock'[i] = s
  BY <1>3, ServiceAssumption DEF ReleaseLocks, Released, TypeOK
<1>4. ASSUME NEW t \in Sessions, t # s, LockReservation(t) \/ LockInstrument(t)
      PROVE  /\ \A r \in ReservationIds : resLock[r] = s <=> resLock'[r] = s
             /\ \A i \in Instruments : insLock[i] = s <=> insLock'[i] = s
  BY <1>4, ServiceAssumption DEF LockReservation, LockInstrument, TypeOK
<1>5. (\E t \in Sessions : StepOf(t)) \/ UNCHANGED locks
  BY DEF UnsteadyNext, Next, vars, StepOf, SetInstrument, GrantCertification,
    RevokeCertification, Tick, StepBack
<1>6. QED
  BY <1>1, <1>2, <1>3, <1>4, <1>5

(* A reservation that is locked is not written by others. *)
LEMMA LockedStays ==
  ASSUME Coherent, [UnsteadyNext]_vars, NEW s \in Sessions, ~StepOf(s),
         NEW r \in ReservationIds, resLock[r] = s, reservations[r] \in Row
  PROVE  reservations'[r] = reservations[r]
<1>1. ASSUME NEW t \in Sessions, InsertDraft(t)
      PROVE  reservations'[r] = reservations[r]
  <2>1. reservations[r].state # NoRow.state
    BY DEF Row, NoRow, ReservationState
  <2>2. QED
    BY <1>1, <2>1 DEF InsertDraft, Coherent, TypeOK, Table
<1>2. ASSUME NEW t \in Sessions, Commit(t)
      PROVE  reservations'[r] = reservations[r]
  <2>1. resLock[req[t].reservation_id] = t /\ t # s
    BY <1>2 DEF Commit, StepOf, Run, Coherent, SessionInv, RowIsFresh, Holding
  <2>2. QED
    BY <1>2, <2>1 DEF Commit, Coherent, TypeOK, Table
<1>3. QED
  BY <1>1, <1>2, WritingStep

LEMMA OthersKeepReasons ==
  ASSUME Coherent, [UnsteadyNext]_vars, NEW s \in Sessions, ~StepOf(s),
         HasReasons(s)
  PROVE  HasReasons(s)'
<1>1. req'[s] = req[s] /\ row'[s] = row[s]
  BY OnlyItsOwnStep DEF Coherent
<1>2. /\ \A r \in ReservationIds : resLock[r] = s <=> resLock'[r] = s
      /\ \A i \in Instruments : insLock[i] = s <=> insLock'[i] = s
  BY OthersLocksStay DEF Coherent
<1>3. ASSUME NEW i \in Instruments, insLock[i] = s
      PROVE  reservations'[req[s].reservation_id]
               = reservations[req[s].reservation_id]
  BY <1>3, LockedStays DEF HasReasons
<1>4. QED
  BY <1>1, <1>2, <1>3 DEF HasReasons

(* Without locks no reason is needed. *)
LEMMA NoLocksNoReasons ==
  ASSUME NEW s \in Sessions,
         \A r \in ReservationIds : resLock[r] # s,
         \A i \in Instruments : insLock[i] # s
  PROVE  HasReasons(s)
BY DEF HasReasons

LEMMA IdleHoldsNothing ==
  ASSUME Orderly, NEW s \in Sessions, pc[s] \notin Holding \cup {"close"}
  PROVE  /\ \A r \in ReservationIds : resLock[r] # s
         /\ \A i \in Instruments : insLock[i] # s
BY ServiceAssumption DEF Orderly, LocksWhileWorking, Holding

LEMMA OwnStepKeepsReasons ==
  ASSUME Coherent, Orderly, NEW s \in Sessions, StepOf(s), HasReasons(s)
  PROVE  HasReasons(s)'
<1> USE DEF Coherent, TypeOK
<1>1. CASE Commit(s) \/ Close(s) \/ Abort(s)
  <2>1. ReleaseLocks(s)
    BY <1>1 DEF Commit, Close, Abort, Closed
  <2>2. /\ \A r \in ReservationIds : resLock'[r] # s
        /\ \A i \in Instruments : insLock'[i] # s
    BY <2>1, ServiceAssumption DEF ReleaseLocks, Released
  <2>3. QED
    BY <2>2 DEF HasReasons
<1>2. CASE \/ Begin(s) \/ ValidateCreate(s) \/ InsertDraft(s)
           \/ ReadInstrument(s) \/ QueryConflicts(s)
  <2>1. pc[s] \notin Holding \cup {"close"} /\ UNCHANGED locks
    BY <1>2 DEF Begin, ValidateCreate, InsertDraft, ReadInstrument,
                QueryConflicts, Holding
  <2>2. QED
    BY <2>1, IdleHoldsNothing DEF HasReasons, locks
<1>3. CASE LockReservation(s)
  <2>1. /\ pc[s] = "lock_reservation" /\ UNCHANGED <<insLock, req>>
        /\ UNCHANGED resLock
           \/ resLock' = [resLock EXCEPT ![req[s].reservation_id] = s]
    BY <1>3 DEF LockReservation
  <2>2. req[s] \in ActorRequest
    BY <2>1 DEF SessionInv, RequestFits
  <2>3. /\ \A r \in ReservationIds : resLock[r] # s
        /\ \A i \in Instruments : insLock[i] # s
    BY <2>1, IdleHoldsNothing DEF Holding
  <2>4. QED
    BY <2>1, <2>2, <2>3 DEF HasReasons
<1>4. CASE LockInstrument(s)
  <2>1. /\ pc[s] = "lock_instrument"
        /\ UNCHANGED <<resLock, req, row, reservations>>
        /\ insLock' = [insLock EXCEPT ![row[s].instrument_id] = s]
    BY <1>4 DEF LockInstrument, local, db
  <2>2. \A i \in Instruments : insLock[i] # s
    BY <2>1, ServiceAssumption DEF Orderly, LocksWhileWorking
  <2>3. /\ req[s] \in ActorRequest /\ resLock[req[s].reservation_id] = s
        /\ row[s] \in Row /\ row[s] = reservations[req[s].reservation_id]
        /\ MayAllocate(s)
    BY <2>1 DEF SessionInv, RequestFits, RowIsFresh, AllocationIsGuarded, Holding
  <2>4. QED
    BY <2>1, <2>2, <2>3 DEF HasReasons, MayAllocate, ActorRequest
<1>5. CASE \/ Authorize(s) \/ Certify(s) \/ CheckOverlap(s)
           \/ DecideConfirm(s) \/ DecideCancel(s) \/ DecideRequest(s)
  <2>1. UNCHANGED <<locks, req, row, reservations>>
    BY <1>5 DEF Authorize, Certify, CheckOverlap, CheckOverlapIn, DecideConfirm,
                DecideCancel, DecideRequest, local, db
  <2>2. QED
    BY <2>1 DEF HasReasons, locks
<1>6. QED
  BY <1>1, <1>2, <1>3, <1>4, <1>5 DEF StepOf, Run

(* A lock is held for the request that took it, an instrument's for an     *)
(* allocation whose reservation has not changed since it was checked.      *)
THEOREM ServiceLocksHaveReasons == UnsteadySpec => []LocksHaveReasons
<1>1. Init => LocksHaveReasons
  BY ServiceAssumption DEF Init, LocksHaveReasons, HasReasons
<1>2. Coherent /\ Orderly /\ LocksHaveReasons /\ [UnsteadyNext]_vars
        => LocksHaveReasons'
  BY OthersKeepReasons, OwnStepKeepsReasons DEF LocksHaveReasons
<1>3. QED
  BY <1>1, <1>2, CoherentAlways, PTL DEF UnsteadySpec

(* ADR-01: allocations of one instrument wait for each other, and nothing  *)
(* else waits for an instrument or makes anybody wait for it.              *)
THEOREM ServiceOnlyRivalsWait == UnsteadySpec => []OnlyRivalsWait
<1>1. Coherent /\ Orderly /\ LocksHaveReasons => OnlyRivalsWait
  <2> SUFFICES ASSUME Coherent, Orderly, LocksHaveReasons,
                      NEW s \in Sessions, NEW t \in Sessions, Waits(s, t)
               PROVE  \/ /\ pc[s] = "lock_reservation"
                         /\ req[t].op \in ActorOps
                         /\ req[t].reservation_id = req[s].reservation_id
                      \/ /\ pc[s] = "lock_instrument"
                         /\ req[t].op \in {"confirm", "approve"}
                         /\ req[t].reservation_id # req[s].reservation_id
                         /\ row[t].instrument_id = row[s].instrument_id
    BY DEF OnlyRivalsWait
  <2>1. CASE pc[s] = "lock_reservation"
    <3>1. req[s].reservation_id \in ReservationIds
      BY <2>1 DEF Coherent, SessionInv, RequestFits, ActorRequest
    <3>2. resLock[req[s].reservation_id] = t
      BY <2>1 DEF Waits
    <3>3. QED
      BY <2>1, <3>1, <3>2 DEF LocksHaveReasons, HasReasons, ActorRequest
  <2>2. CASE pc[s] = "lock_instrument"
    <3>1. /\ row[s].instrument_id \in Instruments
          /\ resLock[req[s].reservation_id] = s
      BY <2>2 DEF Coherent, SessionInv, RowIsFresh, Holding, Row
    <3>2. insLock[row[s].instrument_id] = t
      BY <2>2 DEF Waits
    <3>3. t # s
      BY <2>2, <3>1, <3>2, ServiceAssumption DEF Orderly, LocksWhileWorking
    <3>4. QED
      BY <2>2, <3>1, <3>2, <3>3 DEF LocksHaveReasons, HasReasons
  <2>3. QED
    BY <2>1, <2>2 DEF Waits
<1>2. QED
  BY <1>1, CoherentAlways, ServiceLocksHaveReasons, PTL
-----------------------------------------------------------------------------
(* Allocations and refusals have their grounds.                            *)

Allocating(s) == req[s].op \in {"confirm", "approve"}

(* The instrument was active, and its setting asked for the state that a   *)
(* confirmation is about to write.                                         *)
Wanted(s) == IF req[s].op = "confirm" THEN target[s] \in held[s]
             ELSE held[s] \cap BLOCKING_STATES # {}

(* The history holds what is so now while the request is being checked,    *)
(* and what its checks have found from there on.                           *)
Grounded(s) ==
  Allocating(s) =>
    /\ pc[s] \in {"decide", "certify"} => Facts(s) \subseteq held[s]
    /\ pc[s] = "certify" => Wanted(s)
    /\ \/ pc[s] \in {"lock_instrument", "overlap"}
       \/ pc[s] = "commit" /\ target[s] \in BLOCKING_STATES
       => Wanted(s) /\ "CERTIFIED" \in held[s]

(* The facts that allow an allocation are not forgotten on the way to it.  *)
LEMMA GroundsStay ==
  ASSUME Remember, NEW s \in Sessions, Allocating(s)',
         pc'[s] \in {"decide", "certify", "lock_instrument", "overlap", "commit"}
  PROVE  held[s] \cap Grounds \subseteq held'[s]
BY DEF Remember, Allocating

LEMMA FactsAreKept ==
  ASSUME Remember, NEW s \in Sessions, Allocating(s)',
         pc'[s] \in {"decide", "certify"}
  PROVE  /\ Facts(s)' \subseteq held'[s]
         /\ held[s] \subseteq held'[s]
BY DEF Remember, Allocating

(* What is wanted stays wanted as long as the intended state does.         *)
LEMMA WantedStays ==
  ASSUME NEW s \in Sessions, Wanted(s), held[s] \cap Grounds \subseteq held'[s],
         req'[s] = req[s], target'[s] = target[s], target[s] \in BLOCKING_STATES
  PROVE  Wanted(s)'
BY DEF Wanted, Grounds

(* A session whose reservation is in its hands may only intend to allocate *)
(* what it was asked to.                                                   *)
LEMMA IntendsToAllocate ==
  ASSUME Coherent, NEW s \in Sessions,
         \/ pc[s] \in {"certify", "lock_instrument", "overlap"}
         \/ pc[s] = "commit" /\ target[s] \in BLOCKING_STATES
  PROVE  target[s] \in BLOCKING_STATES /\ Allocating(s)
BY DEF Coherent, SessionInv, AllocationIsGuarded, MayAllocate, BLOCKING_STATES,
       Allocating

(* While it holds its reservation a session sees the facts of that row.    *)
LEMMA FactsOfRow ==
  ASSUME Coherent, NEW s \in Sessions, pc[s] \in {"decide", "certify"}
  PROVE  /\ Facts(s) = {Allowed(row[s].instrument_id), Training(row[s])}
         /\ row[s].starts_at \in Nat /\ now[s] \in Nat
         /\ row[s].state \in ReservationState
BY DEF Coherent, TypeOK, SessionInv, RowIsFresh, Holding, Facts, Row

LEMMA DecidingGrounds ==
  ASSUME Coherent, Remember, NEW s \in Sessions, Grounded(s),
         DecideConfirm(s) \/ DecideCancel(s) \/ DecideRequest(s)
  PROVE  Grounded(s)'
<1> DEFINE instrument == instruments[row[s].instrument_id]
<1>1. /\ pc[s] = "decide" /\ req' = req /\ TypeOK
      /\ pc'[s] \in {"close", "certify", "commit"}
  BY DEF DecideConfirm, DecideCancel, DecideRequest, Reply, Intend, Go,
         Coherent, TypeOK
<1>2. pc'[s] = "commit" => target'[s] \notin BLOCKING_STATES
  <2>1. DecideConfirm(s) => pc'[s] # "commit"
    BY <1>1 DEF DecideConfirm, Reply, Intend, Go, TypeOK
  <2>2. CASE DecideCancel(s)
    BY <1>1, <2>2, FactsOfRow
    DEF DecideCancel, Reply, Intend, Go, TypeOK, cancel_decision,
        expiry_decision, Decision, None, BLOCKING_STATES, ReservationState
  <2>3. CASE DecideRequest(s)
    BY <1>1, <2>3, FactsOfRow
    DEF DecideRequest, Reply, Intend, Go, TypeOK, expiry_decision, Decision,
        None, BLOCKING_STATES
  <2>4. QED
    BY <2>1, <2>2, <2>3
<1>3. pc'[s] = "certify" =>
        /\ instrument.is_active
        /\ req[s].op = "confirm" =>
             target'[s] = IF instrument.requires_approval
                          THEN "PENDING_APPROVAL" ELSE "CONFIRMED"
  BY <1>1, FactsOfRow
  DEF DecideConfirm, DecideCancel, DecideRequest, Reply, Intend, Go, TypeOK,
      confirm_decision, expiry_decision, Decision, None
<1>4. Allocating(s) => Allowed(row[s].instrument_id) \in held[s]
  BY <1>1, FactsOfRow DEF Grounded
<1>5. CASE pc'[s] = "certify" /\ Allocating(s)'
  <2>1. /\ Facts(s)' \subseteq held'[s] /\ held[s] \subseteq held'[s]
        /\ Allocating(s)
    BY <1>1, <1>5, FactsAreKept DEF Allocating
  <2>2. Wanted(s)'
    BY <1>1, <1>3, <1>4, <1>5, <2>1 DEF Wanted, Allowed, BLOCKING_STATES
  <2>3. QED
    BY <1>5, <2>1, <2>2 DEF Grounded
<1>6. QED
  BY <1>1, <1>2, <1>5 DEF Grounded

(* The checks that follow leave the request and what it intends.           *)
LEMMA CheckingGrounds ==
  ASSUME Coherent, Remember, NEW s \in Sessions, Grounded(s),
         Certify(s) \/ LockInstrument(s) \/ CheckOverlap(s)
  PROVE  Grounded(s)'
<1>1. /\ req' = req /\ target' = target
      /\ \/ Certify(s) /\ pc[s] = "certify" /\ pc'[s] = "lock_instrument"
         \/ pc[s] = "lock_instrument" /\ pc'[s] = "overlap"
         \/ pc[s] = "overlap" /\ pc'[s] = "commit"
         \/ pc'[s] = "close"
  BY DEF Certify, LockInstrument, CheckOverlap, CheckOverlapIn, Reply, Go,
         local, Coherent, TypeOK
<1>2. CASE pc'[s] = "close"
  BY <1>2 DEF Grounded
<1>3. CASE pc'[s] # "close"
  <2>1. target[s] \in BLOCKING_STATES /\ Allocating(s) /\ Allocating(s)'
    BY <1>1, <1>3, IntendsToAllocate DEF Allocating
  <2>2. held[s] \cap Grounds \subseteq held'[s]
    BY <1>1, <1>3, <2>1, GroundsStay
  <2>3. Wanted(s)
    BY <1>1, <1>3, <2>1 DEF Grounded
  <2>4. "CERTIFIED" \in held[s]
    <3>1. CASE Certify(s) /\ pc[s] = "certify" /\ pc'[s] = "lock_instrument"
      <4>1. certified(certifications, row[s].user_id,
                      category[row[s].instrument_id], row[s].starts_at)
        BY <3>1 DEF Certify, Reply, Go, Coherent, TypeOK
      <4>2. Training(row[s]) = "CERTIFIED"
        BY <4>1 DEF certified, certification_covers, Training
      <4>3. QED
        BY <2>1, <3>1, <4>2, FactsOfRow DEF Grounded
    <3>2. CASE pc[s] \in {"lock_instrument", "overlap"}
      BY <2>1, <3>2 DEF Grounded
    <3>3. QED
      BY <1>1, <1>3, <3>1, <3>2
  <2>5. Wanted(s)' /\ "CERTIFIED" \in held'[s]
    BY <1>1, <2>1, <2>2, <2>3, <2>4, WantedStays DEF Grounds
  <2>6. QED
    BY <1>1, <1>3, <2>5 DEF Grounded
<1>4. QED
  BY <1>2, <1>3

(* Every other statement is before the checks or after them.               *)
LEMMA OtherStatements ==
  ASSUME Coherent, Remember, NEW s \in Sessions, StepOf(s),
         ~(DecideConfirm(s) \/ DecideCancel(s) \/ DecideRequest(s)),
         ~(Certify(s) \/ LockInstrument(s) \/ CheckOverlap(s))
  PROVE  Grounded(s)'
<1>1. pc'[s] \notin {"certify", "lock_instrument", "overlap", "commit"}
  <2>1. \A q \in Requests : FirstStatement(q.op) \in
          {"validate", "read_instrument", "lock_reservation"}
    BY ServiceAssumption DEF Request, CreateRequest, CheckRequest, ActorRequest,
                             FirstStatement, ActorOps
  <2>2. Begin(s) => pc'[s] \in {"validate", "read_instrument", "lock_reservation"}
    BY <2>1 DEF Begin, Go, Coherent, TypeOK
  <2>3. QED
    BY <2>2 DEF StepOf, Run, LockReservation, ValidateCreate, InsertDraft,
      ReadInstrument, QueryConflicts, Authorize, Commit, Close, Abort, Closed,
      Reply, Go, Coherent, TypeOK
<1>2. QED
  BY <1>1, FactsAreKept DEF Grounded

LEMMA StepIsGrounded ==
  ASSUME Coherent, [GroundedNext]_groundedVars, NEW s \in Sessions, Grounded(s)
  PROVE  Grounded(s)'
<1>1. CASE UNCHANGED groundedVars
  BY <1>1 DEF groundedVars, vars, db, local, Grounded, Allocating, Wanted, Facts,
              Allowed, Training
<1>2. CASE GroundedNext
  <2>1. Remember /\ [UnsteadyNext]_vars
    BY <1>2 DEF GroundedNext
  <2>2. CASE StepOf(s)
    BY <2>1, <2>2, DecidingGrounds, CheckingGrounds, OtherStatements
  <2>3. CASE ~StepOf(s)
    <3>1. pc'[s] = pc[s] /\ req'[s] = req[s] /\ target'[s] = target[s]
      BY <2>1, <2>3, OnlyItsOwnStep DEF Coherent
    <3>2. CASE Allocating(s)
      <4>1. Allocating(s)'
        BY <3>1, <3>2 DEF Allocating
      <4>2. pc'[s] \in {"decide", "certify"} => Facts(s)' \subseteq held'[s]
        BY <2>1, <4>1, FactsAreKept
      <4>3. ASSUME \/ pc[s] \in {"certify", "lock_instrument", "overlap"}
                   \/ pc[s] = "commit" /\ target[s] \in BLOCKING_STATES
            PROVE  /\ held[s] \cap Grounds \subseteq held'[s]
                   /\ Wanted(s)'
        <5>1. held[s] \cap Grounds \subseteq held'[s]
          BY <2>1, <3>1, <4>1, <4>3, GroundsStay
        <5>2. Wanted(s) /\ target[s] \in BLOCKING_STATES
          BY <3>2, <4>3, IntendsToAllocate DEF Grounded
        <5>3. QED
          BY <3>1, <5>1, <5>2, WantedStays
      <4>4. QED
        BY <3>1, <3>2, <4>2, <4>3 DEF Grounded, Grounds
    <3>3. CASE ~Allocating(s)
      BY <3>1, <3>3 DEF Grounded, Allocating
    <3>4. QED
      BY <3>2, <3>3
  <2>4. QED
    BY <2>2, <2>3
<1>3. QED
  BY <1>1, <1>2

LEMMA GroundedSteps == [GroundedNext]_groundedVars => [UnsteadyNext]_vars
BY DEF GroundedNext, groundedVars

LEMMA GroundedAlways ==
  GroundedSpec => [](Coherent /\ Orderly /\ \A s \in Sessions : Grounded(s))
<1> DEFINE AllGrounded == \A s \in Sessions : Grounded(s)
<1>1. GroundedInit => Init /\ AllGrounded
  BY DEF GroundedInit, Init, Grounded
<1>2. Coherent /\ AllGrounded /\ [GroundedNext]_groundedVars => AllGrounded'
  BY StepIsGrounded
<1>3. GroundedSpec => UnsteadySpec
  BY <1>1, GroundedSteps, PTL DEF GroundedSpec, UnsteadySpec
<1>4. QED
  BY <1>1, <1>2, <1>3, CoherentAlways, PTL DEF GroundedSpec

(* REQ-04, REQ-10, REQ-11: behind every allocation is an instrument that   *)
(* was active and asked for that state, and an owner who was certified,    *)
(* while the request was served; whatever the lab manager does meanwhile.  *)
THEOREM ServiceAllocationsHaveGrounds == GroundedSpec => AllocationsHaveGrounds
<1> DEFINE Founded ==
      \A r \in ReservationIds :
        ( /\ reservations'[r] # reservations[r]
          /\ reservations'[r].state \in BLOCKING_STATES )
        => \E s \in Sessions :
             /\ pc[s] = "commit" /\ req[s].reservation_id = r
             /\ "CERTIFIED" \in held[s]
             /\ IF req[s].op = "confirm" THEN reservations'[r].state \in held[s]
                ELSE held[s] \cap BLOCKING_STATES # {}
<1>1. Coherent /\ (\A s \in Sessions : Grounded(s)) /\ [GroundedNext]_groundedVars
        => Founded
  <2> SUFFICES ASSUME Coherent, \A s \in Sessions : Grounded(s),
                      [GroundedNext]_groundedVars, NEW x \in ReservationIds,
                      reservations'[x] # reservations[x],
                      reservations'[x].state \in BLOCKING_STATES
               PROVE  \E s \in Sessions :
                        /\ pc[s] = "commit" /\ req[s].reservation_id = x
                        /\ "CERTIFIED" \in held[s]
                        /\ IF req[s].op = "confirm"
                           THEN reservations'[x].state \in held[s]
                           ELSE held[s] \cap BLOCKING_STATES # {}
    OBVIOUS
  <2>1. ~ \E s \in Sessions : InsertDraft(s)
    BY InsertTurns DEF BLOCKING_STATES
  <2>2. PICK s \in Sessions : Commit(s)
    BY <2>1, GroundedSteps, WritingStep
  <2>3. /\ pc[s] = "commit" /\ req[s].reservation_id = x
        /\ reservations'[x].state = target[s]
    BY <2>2, CommitTurns
  <2>4. Wanted(s) /\ "CERTIFIED" \in held[s]
    BY <2>3, IntendsToAllocate DEF Grounded
  <2>5. QED
    BY <2>3, <2>4 DEF Wanted
<1>2. QED
  BY <1>1, GroundedAlways, PTL DEF GroundedSpec, AllocationsHaveGrounds

(* Which statement refuses for the instrument or for the training.         *)
LEMMA RefusersAre ==
  ASSUME Coherent, NEW s \in Sessions, StepOf(s), Allocating(s),
         result'[s] # result[s],
         result'[s] \in {"INSTRUMENT_INACTIVE", "MISSING_CERTIFICATION"}
  PROVE  \/ /\ pc[s] = "decide" /\ ~instruments[row[s].instrument_id].is_active
            /\ result'[s] = "INSTRUMENT_INACTIVE"
         \/ /\ pc[s] = "certify" /\ result'[s] = "MISSING_CERTIFICATION"
            /\ ~certified(certifications, row[s].user_id,
                          category[row[s].instrument_id], row[s].starts_at)
<1> USE DEF Coherent, TypeOK, Reply, Go, Intend
<1>1. ~(Begin(s) \/ Close(s) \/ Abort(s) \/ LockReservation(s) \/ LockInstrument(s))
  BY DEF Begin, Close, Abort, Closed, LockReservation, LockInstrument, None, local
<1>2. ~(ValidateCreate(s) \/ InsertDraft(s) \/ ReadInstrument(s) \/ QueryConflicts(s))
  BY DEF ValidateCreate, InsertDraft, ReadInstrument, QueryConflicts, SessionInv,
    RequestFits, CreateRequest, CheckRequest, Allocating
<1>3. ~(Authorize(s) \/ CheckOverlap(s) \/ Commit(s) \/ DecideCancel(s))
  BY DEF Authorize, CheckOverlap, CheckOverlapIn, Commit, DecideCancel, Allocating
<1>4. CASE DecideConfirm(s)
  BY <1>4, FactsOfRow DEF DecideConfirm, confirm_decision, Decision, None
<1>5. CASE DecideRequest(s)
  BY <1>5, FactsOfRow DEF DecideRequest
<1>6. CASE Certify(s)
  BY <1>6 DEF Certify
<1>7. QED
  BY <1>1, <1>2, <1>3, <1>4, <1>5, <1>6 DEF StepOf, Run

(* BR-05 before BR-04: whoever is refused on account of the lab manager's  *)
(* tables is refused for what they said while the request was served.      *)
THEOREM ServiceRefusalsHaveGrounds == GroundedSpec => RefusalsHaveGrounds
<1> DEFINE Founded ==
      \A s \in Sessions :
        (req[s].op \in {"confirm", "approve"} /\ result'[s] # result[s]) =>
          /\ result'[s] = "INSTRUMENT_INACTIVE" => result'[s] \in held[s]
          /\ result'[s] = "MISSING_CERTIFICATION" =>
               /\ result'[s] \in held[s]
               /\ held[s] \cap BLOCKING_STATES # {}
<1>1. Coherent /\ (\A s \in Sessions : Grounded(s)) /\ [GroundedNext]_groundedVars
        => Founded
  <2> SUFFICES ASSUME Coherent, \A t \in Sessions : Grounded(t),
                      [GroundedNext]_groundedVars, NEW s \in Sessions,
                      Allocating(s), result'[s] # result[s],
                      result'[s] \in {"INSTRUMENT_INACTIVE",
                                      "MISSING_CERTIFICATION"}
               PROVE  /\ result'[s] \in held[s]
                      /\ result'[s] = "MISSING_CERTIFICATION" =>
                           held[s] \cap BLOCKING_STATES # {}
    BY DEF Allocating
  <2>1. StepOf(s)
    BY GroundedSteps, OnlyItsOwnStep DEF Coherent
  <2>2. CASE /\ pc[s] = "decide" /\ ~instruments[row[s].instrument_id].is_active
             /\ result'[s] = "INSTRUMENT_INACTIVE"
    BY <2>2, FactsOfRow DEF Grounded, Allowed
  <2>3. CASE /\ pc[s] = "certify" /\ result'[s] = "MISSING_CERTIFICATION"
             /\ ~certified(certifications, row[s].user_id,
                           category[row[s].instrument_id], row[s].starts_at)
    <3>1. Training(row[s]) = "MISSING_CERTIFICATION"
      BY <2>3 DEF certified, certification_covers, Training
    <3>2. Training(row[s]) \in held[s] /\ Wanted(s)
      BY <2>3, FactsOfRow DEF Grounded
    <3>3. held[s] \cap BLOCKING_STATES # {}
      BY <2>3, <3>2, IntendsToAllocate DEF Wanted
    <3>4. QED
      BY <2>3, <3>1, <3>2, <3>3
  <2>4. QED
    BY <2>1, <2>2, <2>3, RefusersAre
<1>2. QED
  BY <1>1, GroundedAlways, PTL DEF GroundedSpec, RefusalsHaveGrounds
=============================================================================
