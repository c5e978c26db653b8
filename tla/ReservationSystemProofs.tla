----------------------- MODULE ReservationSystemProofs -----------------------
(***************************************************************************)
(* The pool adds nothing to the behaviour of the service, whatever its     *)
(* size: what is proved of the service holds over it.  The pool's own      *)
(* properties rest on the service's invariant in turn: locks are held by   *)
(* those who are past the statement that takes a connection.  With its     *)
(* callers the running service implements the callers of the contract.     *)
(***************************************************************************)
EXTENDS ReservationSystem, ReservationContractProofs, FiniteSetTheorems

LEMMA RunSteps ==
  ASSUME NEW s \in Sessions, PooledRun(s)
  PROVE  Run(s)
BY DEF PooledRun, Statement, Committing, Leaving, Run, Visible,
       isolation_level, CheckOverlap

LEMMA TimeoutAborts ==
  ASSUME NEW s \in Sessions, PoolTimeout(s)
  PROVE  Abort(s)
BY DEF PoolTimeout, NeedsConnection, expire_on_commit, Abort

LEMMA PooledStepMaps == [PooledNext]_poolVars => [Next]_vars
<1> SUFFICES ASSUME [PooledNext]_poolVars PROVE [Next]_vars
  OBVIOUS
<1>1. CASE UNCHANGED poolVars
  BY <1>1 DEF poolVars
<1>2. ASSUME NEW s \in Sessions, PooledBegin(s) PROVE Next
  BY <1>2 DEF PooledBegin, Next
<1>3. ASSUME NEW s \in Sessions, Checkout(s) PROVE UNCHANGED vars
  BY <1>3 DEF Checkout
<1>4. ASSUME NEW s \in Sessions, PoolTimeout(s) PROVE Next
  BY <1>4, TimeoutAborts DEF Next
<1>5. ASSUME NEW s \in Sessions, PooledRun(s) PROVE Next
  BY <1>5, RunSteps DEF Next
<1>6. ASSUME NEW s \in Sessions, Dying(s) PROVE Next
  BY <1>6 DEF Dying, Next
<1>7. ASSUME NEW s \in Sessions,
             PooledLockReservation(s) \/ PooledLockInstrument(s)
      PROVE  Next
  BY <1>7 DEF PooledLockReservation, PooledLockInstrument, Next
<1>8. CASE Around
  BY <1>8 DEF Around, Next
<1>9. QED
  BY <1>1, <1>2, <1>3, <1>4, <1>5, <1>6, <1>7, <1>8 DEF PooledNext

(* ADR-01: for a pool of any size every run of the service over it is a    *)
(* run of the service alone, so all that holds of ReservationService holds *)
(* with the pool; READ COMMITTED and expire_on_commit = False carry it.    *)
THEOREM PoolImplementsService == PooledSpec => ImplementsService
<1>1. PoolInit => Init
  BY DEF PoolInit
<1>2. QED
  BY <1>1, PooledStepMaps, PTL DEF PooledSpec, ImplementsService, Spec

(* Every guarantee of the service stands over a pool of any size, with its *)
(* timeouts: exclusive allocation, one answer per effect, judgement on     *)
(* arrival, and the end of every chain of waits.                           *)
THEOREM PoolKeepsGuarantees ==
  PooledSpec =>
    /\ ImplementsLedger /\ ImplementsApi
    /\ []BR02 /\ []AllocationsExclusive /\ []WaitsEnd /\ []OnlyRivalsWait
    /\ []CancelSuccessNeverBlocks
    /\ ReplyMatchesWrite /\ JudgedOnArrival
    /\ OnlyForeignSupervisorDecides
    /\ AvailableMeansFree /\ DeadRequestsRefuseNobody
<1>1. PooledSpec => Spec
  BY PoolImplementsService DEF ImplementsService
<1>2. Spec => ImplementsLedger /\ []BR02
  BY ServiceImplementsLedger, ServiceExclusive
<1>3. Spec => /\ ImplementsApi /\ []AllocationsExclusive
              /\ []WaitsEnd /\ []OnlyRivalsWait
  BY SteadyIsUnsteady, ServiceImplementsApi, AllocationsStayExclusive,
     ServiceWaitsEnd, ServiceOnlyRivalsWait
<1>4. Spec => []CancelSuccessNeverBlocks /\ ReplyMatchesWrite
  BY SteadyIsUnsteady, ServiceCancelSuccess, ServiceReplyMatchesWrite
<1>5. Spec => JudgedOnArrival /\ OnlyForeignSupervisorDecides
  BY SteadyIsUnsteady, ServiceJudgesOnArrival, ServiceForeignSupervisor
<1>6. Spec => AvailableMeansFree /\ DeadRequestsRefuseNobody
  BY SteadyIsUnsteady, ServiceAvailableMeansFree, ServiceDeadRefuseNobody
<1>7. QED
  BY <1>1, <1>2, <1>3, <1>4, <1>5, <1>6

LEMMA ServiceHolds == PooledSpec => [](Coherent /\ Orderly)
BY PoolImplementsService, SteadyIsUnsteady, CoherentAlways, PTL
DEF ImplementsService

-----------------------------------------------------------------------------
(* Whoever frees its locks may give its connection back. *)
LEMMA FreeingKeeps ==
  ASSUME TypeOK, LocksNeedConnections, NEW s \in Sessions, ReleaseLocks(s),
         connected \ {s} \subseteq connected'
  PROVE  LocksNeedConnections'
<1>1. \A r \in ReservationIds : resLock'[r] # NoOne =>
        resLock'[r] = resLock[r] /\ resLock[r] # s
  BY ServiceAssumption DEF TypeOK, ReleaseLocks, Released
<1>2. \A i \in Instruments : insLock'[i] # NoOne =>
        insLock'[i] = insLock[i] /\ insLock[i] # s
  BY ServiceAssumption DEF TypeOK, ReleaseLocks, Released
<1>3. QED
  BY <1>1, <1>2 DEF LocksNeedConnections

(* A connection goes back with the locks, or by one who can have none.     *)
LEMMA CommittingKeeps ==
  ASSUME TypeOK, Orderly, LocksNeedConnections,
         NEW s \in Sessions, Committing(s)
  PROVE  LocksNeedConnections'
<1>1. CASE Commit(s)
  BY <1>1, FreeingKeeps DEF Committing, Commit, GiveBack
<1>2. CASE InsertDraft(s)
  <2>1. pc[s] = "insert" /\ UNCHANGED locks /\ connected' = connected \ {s}
    BY <1>2 DEF Committing, InsertDraft, GiveBack
  <2>2. /\ \A r \in ReservationIds : resLock[r] # s
        /\ \A i \in Instruments : insLock[i] # s
    BY <2>1, ServiceAssumption DEF Orderly, LocksWhileWorking, Holding
  <2>3. QED
    BY <2>1, <2>2 DEF LocksNeedConnections, locks
<1>3. QED
  BY <1>1, <1>2 DEF Committing

LEMMA LockingKeeps ==
  ASSUME TypeOK, LocksNeedConnections, NEW s \in Sessions,
         PooledLockReservation(s) \/ PooledLockInstrument(s)
  PROVE  LocksNeedConnections'
<1>1. s \in connected /\ UNCHANGED connected
  BY DEF PooledLockReservation, PooledLockInstrument
<1>2. /\ \A r \in ReservationIds : resLock'[r] \in {resLock[r], s}
      /\ \A i \in Instruments : insLock'[i] \in {insLock[i], s}
  BY DEF TypeOK, PooledLockReservation, PooledLockInstrument, LockReservation,
         LockInstrument
<1>3. QED
  BY <1>1, <1>2 DEF LocksNeedConnections

LEMMA PooledStepKeeps ==
  ASSUME TypeOK, Orderly, LocksNeedConnections, [PooledNext]_poolVars
  PROVE  LocksNeedConnections'
<1>1. CASE UNCHANGED <<locks, connected>>
  BY <1>1 DEF LocksNeedConnections, locks
<1>2. ASSUME NEW s \in Sessions, PooledBegin(s) PROVE LocksNeedConnections'
  BY <1>1, <1>2 DEF PooledBegin, Begin
<1>3. ASSUME NEW s \in Sessions, Checkout(s) PROVE LocksNeedConnections'
  BY <1>3 DEF Checkout, vars, LocksNeedConnections, locks
<1>4. ASSUME NEW s \in Sessions, Statement(s) PROVE LocksNeedConnections'
  BY <1>1, <1>4
  DEF Statement, ValidateCreate, ReadInstrument, QueryConflicts, Authorize,
      DecideConfirm, DecideCancel, DecideRequest, Certify, CheckOverlapIn
<1>5. ASSUME NEW s \in Sessions, Leaving(s) \/ Dying(s) \/ PoolTimeout(s)
      PROVE  LocksNeedConnections'
  BY <1>5, FreeingKeeps
  DEF Leaving, Dying, PoolTimeout, Close, Abort, Closed, GiveBack
<1>6. CASE Around
  BY <1>1, <1>6 DEF Around, SetInstrument, GrantCertification,
                    RevokeCertification, Tick
<1>7. QED
  BY <1>1, <1>2, <1>3, <1>4, <1>5, <1>6, CommittingKeeps, LockingKeeps
  DEF PooledNext, PooledRun, poolVars, vars

(* Whoever holds a lock holds a connection, for any number of sessions and *)
(* any size of the pool, also after a death, a timeout of the pool or a    *)
(* commit that gave the connection back: no wait for a connection can      *)
(* close a circle with a wait for a lock.                                  *)
THEOREM PoolLocksNeedConnections == PooledSpec => []LocksNeedConnections
<1>1. PoolInit => LocksNeedConnections
  BY DEF PoolInit, Init, LocksNeedConnections
<1>2. Coherent /\ Orderly /\ LocksNeedConnections /\ [PooledNext]_poolVars
        => LocksNeedConnections'
  BY PooledStepKeeps DEF Coherent
<1>3. QED
  BY <1>1, <1>2, ServiceHolds, PTL DEF PooledSpec

(* A connection is never left with a session that serves nobody. *)
ConnectedWork == \A s \in connected : s \in Sessions /\ pc[s] # "idle"

LEMMA StepKeepsWork ==
  ASSUME TypeOK, ConnectedWork, [PooledNext]_poolVars
  PROVE  ConnectedWork'
<1> USE DEF TypeOK, ConnectedWork, Go, Reply, Intend
<1>1. ASSUME NEW s \in Sessions, NEW label, label # "idle",
             pc' = [pc EXCEPT ![s] = label], connected' \subseteq connected
      PROVE  ConnectedWork'
  BY <1>1
<1>2. ASSUME NEW s \in Sessions, pc' = [pc EXCEPT ![s] = "idle"],
             connected' \subseteq connected \ {s}
      PROVE  ConnectedWork'
  BY <1>2
<1>3. ASSUME NEW s \in Sessions, PooledBegin(s) PROVE ConnectedWork'
  BY <1>1, <1>3 DEF PooledBegin, Begin, FirstStatement, ActorOps
<1>4. ASSUME NEW s \in Sessions, Checkout(s) PROVE ConnectedWork'
  BY <1>4 DEF Checkout, NeedsConnection, vars
<1>5. ASSUME NEW s \in Sessions, Statement(s) PROVE ConnectedWork'
  BY <1>1, <1>5
  DEF Statement, ValidateCreate, ReadInstrument, QueryConflicts, Authorize,
      DecideConfirm, DecideCancel, DecideRequest, Certify, CheckOverlapIn
<1>6. ASSUME NEW s \in Sessions,
             \/ Committing(s)
             \/ PooledLockReservation(s) \/ PooledLockInstrument(s)
      PROVE  ConnectedWork'
  BY <1>1, <1>6
  DEF Committing, InsertDraft, Commit, GiveBack, PooledLockReservation,
      PooledLockInstrument, LockReservation, LockInstrument
<1>7. ASSUME NEW s \in Sessions, Leaving(s) \/ Dying(s) \/ PoolTimeout(s)
      PROVE  ConnectedWork'
  BY <1>2, <1>7 DEF Leaving, Dying, PoolTimeout, Close, Abort, Closed, GiveBack
<1>8. CASE UNCHANGED <<pc, connected>>
  BY <1>8
<1>9. QED
  BY <1>3, <1>4, <1>5, <1>6, <1>7, <1>8
  DEF PooledNext, PooledRun, Around, SetInstrument, GrantCertification,
      RevokeCertification, Tick, poolVars, vars

(* Among the holders of connections somebody can always go on: whom a      *)
(* holder waits for holds a connection too, and the waits end.             *)
THEOREM PoolAlwaysDrains == PooledSpec => []PoolDrains
<1>1. TypeOK /\ ConnectedWork /\ LocksNeedConnections /\ WaitsEnd
        /\ (\A s \in Sessions : SessionInv(s)) => PoolDrains
  <2> SUFFICES ASSUME TypeOK, ConnectedWork, LocksNeedConnections, WaitsEnd,
                      \A s \in Sessions : SessionInv(s),
                      NEW s \in connected
               PROVE  \E h \in connected : /\ pc[h] # "idle"
                                           /\ \A t \in Sessions : ~Waits(h, t)
    BY DEF PoolDrains
  <2>1. ASSUME NEW x \in Sessions, NEW y \in Sessions, Waits(x, y)
        PROVE  y \in connected
    <3>1. y # NoOne
      BY ServiceAssumption
    <3>2. pc[x] = "lock_reservation" => req[x].reservation_id \in ReservationIds
      BY DEF SessionInv, RequestFits, ActorRequest
    <3>3. pc[x] = "lock_instrument" => row[x].instrument_id \in Instruments
      BY DEF SessionInv, RowIsFresh, Holding, Row
    <3>4. QED
      BY <2>1, <3>1, <3>2, <3>3 DEF Waits, LocksNeedConnections
  <2>2. CASE \A t \in Sessions : ~Waits(s, t)
    BY <2>2 DEF ConnectedWork
  <2>3. ASSUME NEW t \in Sessions, Waits(s, t),
               \A u \in Sessions : ~Waits(t, u)
        PROVE  \E h \in connected : /\ pc[h] # "idle"
                                    /\ \A u \in Sessions : ~Waits(h, u)
    BY <2>1, <2>3 DEF ConnectedWork
  <2>4. ASSUME NEW t \in Sessions, Waits(s, t), NEW u \in Sessions, Waits(t, u)
        PROVE  \E h \in connected : /\ pc[h] # "idle"
                                    /\ \A v \in Sessions : ~Waits(h, v)
    BY <2>1, <2>4 DEF ConnectedWork, WaitsEnd
  <2>5. QED
    BY <2>2, <2>3, <2>4
<1>2. PoolInit => ConnectedWork
  BY DEF PoolInit, ConnectedWork
<1>3. TypeOK /\ ConnectedWork /\ [PooledNext]_poolVars => ConnectedWork'
  BY StepKeepsWork
<1>4. PooledSpec => []LocksNeedConnections /\ []WaitsEnd
  BY PoolLocksNeedConnections, PoolKeepsGuarantees
<1>5. QED
  BY <1>1, <1>2, <1>3, <1>4, ServiceHolds, PTL DEF PooledSpec, Coherent

-----------------------------------------------------------------------------
(* The part of the type invariant that is the pool's own.  That connected  *)
(* is finite is what makes its cardinality a number.                       *)
PoolFits ==
  /\ connected \subseteq Sessions /\ IsFiniteSet(connected)
  /\ Cardinality(connected) <= PoolSize
  /\ snapshot \in [Sessions -> Table]
  /\ failed \subseteq Sessions

(* Connections are only given back, no snapshot is taken, and failures     *)
(* are told to sessions.                                                   *)
LEMMA ReturningFits ==
  ASSUME PoolFits, NEW T, connected' = connected \ T,
         snapshot' = snapshot, failed' \subseteq Sessions
  PROVE  PoolFits'
<1>1. /\ IsFiniteSet(connected')
      /\ Cardinality(connected') <= Cardinality(connected)
  BY FS_Subset DEF PoolFits
<1>2. Cardinality(connected') \in Nat /\ Cardinality(connected) \in Nat
  BY <1>1, FS_CardinalityType DEF PoolFits
<1>3. QED
  BY <1>1, <1>2, PoolAssumption DEF PoolFits

LEMMA CheckoutFits ==
  ASSUME PoolFits, reservations \in Table, NEW s \in Sessions, Checkout(s)
  PROVE  PoolFits'
<1>1. /\ IsFiniteSet(connected')
      /\ Cardinality(connected') = Cardinality(connected) + 1
  BY FS_AddElement DEF PoolFits, Checkout
<1>2. Cardinality(connected) \in Nat
  BY FS_CardinalityType DEF PoolFits
<1>3. Cardinality(connected) < PoolSize
  BY DEF Checkout
<1>4. Cardinality(connected') <= PoolSize
  BY <1>1, <1>2, <1>3, PoolAssumption
<1>5. QED
  BY <1>1, <1>4 DEF PoolFits, Checkout

(* No more connections than the pool has are out, whatever the sessions    *)
(* do: pool_size + max_overflow of db.py bounds what the server is asked   *)
(* for, and every snapshot is a table.                                     *)
THEOREM PoolTypeCorrect == PooledSpec => []PoolTypeOK
<1>1. PoolInit => PoolFits
  BY FS_EmptySet, PoolAssumption DEF PoolInit, PoolFits, NoSnapshot, Table
<1>2. Coherent /\ PoolFits /\ [PooledNext]_poolVars => PoolFits'
  <2> SUFFICES ASSUME Coherent, PoolFits, [PooledNext]_poolVars PROVE PoolFits'
    OBVIOUS
  <2>1. ASSUME NEW s \in Sessions, Checkout(s) PROVE PoolFits'
    BY <2>1, CheckoutFits DEF Coherent, TypeOK
  <2>2. ASSUME NEW s \in Sessions, PoolTimeout(s) PROVE PoolFits'
    BY <2>2, ReturningFits DEF PoolTimeout
  <2>3. ASSUME NEW s \in Sessions,
               (Committing(s) \/ Leaving(s) \/ Dying(s)) /\ Calm
        PROVE  PoolFits'
    BY <2>3, ReturningFits DEF Committing, Leaving, Dying, GiveBack, Calm
  <2>4. CASE UNCHANGED <<connected, snapshot>> /\ failed' \in {failed, {}}
    BY <2>4 DEF PoolFits
  <2>5. QED
    BY <2>1, <2>2, <2>3, <2>4
    DEF PooledNext, PooledRun, Statement, PooledBegin, PooledLockReservation,
        PooledLockInstrument, Dying, Around, Calm, poolVars
<1>3. TypeOK /\ PoolFits => PoolTypeOK
  BY DEF PoolFits, PoolTypeOK
<1>4. QED
  BY <1>1, <1>2, <1>3, ServiceHolds, PTL DEF PooledSpec, Coherent

(* Told that there is no connection, a caller finds nothing done: a        *)
(* session asks for its connection before its first statement only, since  *)
(* after a commit its objects are not expired.                             *)
THEOREM PoolFailureLeavesNoTrace == PooledSpec => FailureLeavesNoTrace
<1> DEFINE Nothing ==
      \A s \in failed' : result[s] \notin {"OK", "EXPIRED", "UNCHANGED"}
<1>1. Orderly /\ PooledNext => Nothing
  <2> SUFFICES ASSUME Orderly, PooledNext PROVE Nothing
    OBVIOUS
  <2>1. ASSUME NEW s \in Sessions, PoolTimeout(s) PROVE Nothing
    BY <2>1 DEF PoolTimeout, NeedsConnection, expire_on_commit, Orderly,
                Unanswered, None
  <2>2. CASE failed' = {}
    BY <2>2
  <2>3. QED
    BY <2>1, <2>2
    DEF PooledNext, PooledRun, PooledBegin, Checkout, Dying,
        PooledLockReservation, PooledLockInstrument, Around, Calm
<1>2. Orderly /\ [PooledNext]_poolVars => [Nothing]_poolVars
  BY <1>1
<1>3. QED
  BY <1>2, ServiceHolds, PTL DEF PooledSpec, FailureLeavesNoTrace
-----------------------------------------------------------------------------
(* Callers over the pool.  A step of the system is a step of the pool, so  *)
(* the service stays coherent, and each step of a session is one of the    *)
(* contract's answers or unseen.                                           *)

LEMMA SystemStepIsPooled == [SystemNext]_systemVars => [PooledNext]_poolVars
<1> SUFFICES ASSUME [SystemNext]_systemVars PROVE [PooledNext]_poolVars
  OBVIOUS
<1>1. ASSUME NEW s \in Sessions, Ask(s) \/ Work(s) \/ Respond(s) \/ Fail(s)
      PROVE  PooledNext
  BY <1>1 DEF Ask, Work, Respond, Fail, PooledNext, PooledRun
<1>2. CASE Elsewhere
  BY <1>2 DEF Elsewhere, PooledNext
<1>3. QED
  BY <1>1, <1>2 DEF SystemNext, Choose, systemVars

LEMMA SystemIsPooled == SystemSpec => PooledSpec
<1>1. SystemInit => PoolInit
  BY DEF SystemInit
<1>2. QED
  BY <1>1, SystemStepIsPooled, PTL DEF SystemSpec, PooledSpec

LEMMA SystemHolds ==
  SystemSpec => [](Coherent /\ Orderly) /\ []LocksHaveReasons
BY SystemIsPooled, ServiceHolds, PoolImplementsService, SteadyIsUnsteady,
   ServiceLocksHaveReasons DEF ImplementsService

(* The callers' module names the contract again. *)
LEMMA SameContract ==
  /\ Client!None = None /\ Client!NoRequest = NoRequest
  /\ Client!Init <=> Api!Init
  /\ Client!Tick <=> Api!Tick
  /\ \A s : Client!Close(s) <=> Api!Close(s)
  /\ \A s : Client!Die(s) <=> Api!Die(s)
  /\ \A s, q : Client!Call(s, q) <=> Api!Call(s, q)
BY DEF Client!None, None, Client!NoRequest, NoRequest, Api!None, Api!NoRequest,
  Client!Init, Api!Init, Client!Tick, Api!Tick,
  Client!Close, Api!Close, Client!Die, Api!Die, Client!Gone, Api!Gone,
  Client!Call, Api!Call

LEMMA SameAnswers ==
  ASSUME NEW s
  PROVE  Client!Answer(s) <=> Api!Answer(s)
BY DEF Client!Answer, Api!Answer,
  Client!Create, Api!Create, Client!Check, Api!Check,
  Client!TurnAway, Api!TurnAway, Client!Confirm, Api!Confirm,
  Client!Cancel, Api!Cancel, Client!DecideOn, Api!DecideOn,
  Client!Allocate, Api!Allocate, Client!Concerns, Api!Concerns,
  Client!Dead, Api!Dead, Client!MayAct, Api!MayAct,
  Client!Subject, Api!Subject, Client!Write, Api!Write,
  Client!Refuse, Api!Refuse, Client!Reply, Api!Reply,
  Client!None, Api!None, Client!NoRow, Api!NoRow,
  Client!ActorOps, Api!ActorOps,
  Client!BLOCKING_STATES, Api!BLOCKING_STATES,
  Client!is_interval_valid, Api!is_interval_valid,
  Client!may_cancel_confirmed, Api!may_cancel_confirmed,
  Client!approval_request_is_alive, Api!approval_request_is_alive,
  Client!DraftOf, Api!DraftOf,
  Client!overlapping_blocking, Api!overlapping_blocking,
  Client!Blocks, Api!Blocks, Client!Overlap, Api!Overlap,
  Client!AvailabilityAnswer, Api!AvailabilityAnswer

LEMMA AskSends ==
  ASSUME Coherent, NEW s \in Sessions, Ask(s)
  PROVE  Client!Send(s)
<1>1. PICK q \in Requests : Api!Call(s, q)
  BY BeginMaps DEF Ask, PooledBegin
<1>2. q = intent[connection[s]]
  <2>1. req' = [req EXCEPT ![s] = q] /\ s \in DOMAIN req
    BY <1>1 DEF Api!Call, Coherent, TypeOK
  <2>2. QED
    BY <2>1 DEF Ask
<1>3. Client!Call(s, intent[connection[s]])
  BY <1>1, <1>2, SameContract
<1>4. QED
  BY <1>3, SameContract DEF Ask, callers, Client!Send

LEMMA WorkServes ==
  ASSUME Coherent, NEW s \in Sessions, Work(s)
  PROVE  Client!Serve(s) \/ UNCHANGED Client!clientVars
<1>1. Api!Answer(s) \/ UNCHANGED Api!vars
  <2>1. CASE Checkout(s)
    BY <2>1 DEF Checkout, vars, db, local, Api!vars
  <2>2. CASE Statement(s) \/ Committing(s)
    <3>1. Run(s) /\ ~Close(s)
      BY <2>2 DEF Statement, Committing, Run, Visible, isolation_level,
         CheckOverlap, Close, ValidateCreate, InsertDraft, ReadInstrument,
         QueryConflicts, Authorize, DecideConfirm, DecideCancel, DecideRequest,
         Certify, CheckOverlapIn, Commit
    <3>2. QED
      BY <3>1, ServingMaps
  <2>3. CASE PooledLockReservation(s) \/ PooledLockInstrument(s)
    <3>1. (LockReservation(s) \/ LockInstrument(s)) /\ ~Close(s)
      BY <2>3 DEF PooledLockReservation, PooledLockInstrument, LockReservation,
                  LockInstrument, Close
    <3>2. QED
      BY <3>1, ServingMaps
  <2>4. QED
    BY <2>1, <2>2, <2>3 DEF Work
<1>2. Client!Note(s) /\ UNCHANGED <<intent, heard>>
  BY DEF Work
<1>3. CASE Api!Answer(s)
  BY <1>2, <1>3, SameAnswers DEF Client!Serve
<1>4. CASE UNCHANGED Api!vars
  <2>1. UNCHANGED took
    BY <1>2, <1>4 DEF Client!Note, Api!vars
  <2>2. QED
    BY <1>2, <1>4, <2>1 DEF Client!clientVars, Client!vars, Api!vars
<1>5. QED
  BY <1>1, <1>3, <1>4

(* Closing is answering, dying is not. *)
LEMMA ClosingCloses ==
  ASSUME Coherent, NEW s \in Sessions
  PROVE  /\ Close(s) => Client!Close(s)
         /\ Abort(s) => Client!Die(s)
<1>1. /\ Close(s) => ~Api!Die(s)
      /\ Abort(s) => ~Api!Close(s)
  BY DEF Close, Abort, Api!Close, Api!Die, PhaseOf
<1>2. QED
  BY <1>1, GoneMaps, SameContract

LEMMA EndingMaps ==
  ASSUME Coherent, NEW s \in Sessions, Respond(s) \/ Fail(s)
  PROVE  Client!Deliver(s) \/ Client!Lose(s) \/ Client!Crash(s)
<1>1. CASE Respond(s)
  BY <1>1, ClosingCloses DEF Respond, Leaving, Client!Deliver
<1>2. CASE Fail(s) /\ Leaving(s)
  BY <1>2, ClosingCloses DEF Fail, Leaving, callers, Client!Lose
<1>3. CASE Fail(s) /\ (Dying(s) \/ PoolTimeout(s))
  BY <1>3, ClosingCloses, TimeoutAborts DEF Fail, Dying, callers, Client!Crash
<1>4. QED
  BY <1>1, <1>2, <1>3 DEF Fail

LEMMA ElsewhereMaps ==
  ASSUME Elsewhere
  PROVE  Client!Pass \/ UNCHANGED Client!clientVars
<1>1. CASE Tick
  <2>1. Client!Tick
    BY <1>1, SameContract DEF Tick, Api!Tick, db, local
  <2>2. QED
    BY <2>1 DEF Elsewhere, callers, Client!Pass
<1>2. CASE ~Tick
  <2>1. UNCHANGED Api!vars
    BY <1>2 DEF Elsewhere, Around, SetInstrument, GrantCertification,
                RevokeCertification, local, Api!vars
  <2>2. QED
    BY <2>1 DEF Elsewhere, callers, Client!clientVars, Client!vars, Api!vars
<1>3. QED
  BY <1>1, <1>2

LEMMA SystemStepMaps ==
  Coherent /\ [SystemNext]_systemVars
    => [Client!ClientNext]_(Client!clientVars)
<1> SUFFICES ASSUME Coherent, [SystemNext]_systemVars
             PROVE  [Client!ClientNext]_(Client!clientVars)
  OBVIOUS
<1>1. ASSUME NEW c \in Clients, Choose(c) PROVE Client!ClientNext
  BY <1>1 DEF Choose, Client!ClientNext
<1>2. ASSUME NEW s \in Sessions, Ask(s) \/ Work(s) \/ Respond(s) \/ Fail(s)
      PROVE  Client!ClientNext \/ UNCHANGED Client!clientVars
  BY <1>2, AskSends, WorkServes, EndingMaps DEF Client!ClientNext
<1>3. CASE Elsewhere
  BY <1>3, ElsewhereMaps DEF Client!ClientNext
<1>4. CASE UNCHANGED systemVars
  <2>1. UNCHANGED Api!vars
    BY <1>4 DEF systemVars, poolVars, vars, db, local, Api!vars
  <2>2. QED
    BY <1>4, <2>1 DEF systemVars, callers, Client!clientVars, Client!vars,
                       Api!vars
<1>5. QED
  BY <1>1, <1>2, <1>3, <1>4 DEF SystemNext

(* Callers of the running service - statements that interleave, locks, a   *)
(* pool of any size and its timeouts - meet nothing that callers of the    *)
(* atomic contract do not meet.                                            *)
THEOREM SystemImplementsClients == SystemSpec => ImplementsClients
<1>1. SystemInit => Client!ClientInit
  <2>1. SystemInit => Api!Init
    BY SameHelpers DEF SystemInit, PoolInit, Init, Api!Init, PhaseOf
  <2>2. QED
    BY <2>1, SameContract DEF SystemInit, Client!ClientInit
<1>2. QED
  BY <1>1, SystemStepMaps, SystemHolds, PTL
  DEF SystemSpec, ImplementsClients, Client!ClientSpec

-----------------------------------------------------------------------------
(* What is proved of the callers of the contract. *)
Retries == INSTANCE ReservationClientProofs WITH
             phase <- [s \in Sessions |-> PhaseOf(pc[s])],
             answer <- result

LEMMA RetriesAssume ==
  /\ category \in [Instruments -> Retries!InstrumentCategory]
  /\ Requests \subseteq Retries!Request
  /\ InitialReservations \in Retries!Table
  /\ Retries!Exclusive(InitialReservations, 0)
<1>1. /\ Retries!InstrumentCategory = InstrumentCategory
      /\ Retries!Request = Request /\ Retries!Table = Table
  BY DEF Retries!InstrumentCategory, InstrumentCategory,
    Retries!Request, Request, Retries!CreateRequest, CreateRequest,
    Retries!CheckRequest, CheckRequest, Retries!ActorRequest, ActorRequest,
    Retries!ActorOps, ActorOps,
    Retries!Table, Table, Retries!Row, Row, Retries!NoRow, NoRow,
    Retries!ReservationState, ReservationState, Retries!None, None
<1>2. Retries!Exclusive(InitialReservations, 0)
        <=> Exclusive(InitialReservations, 0)
  BY DEF Retries!Exclusive, Exclusive, Retries!Blocks, Blocks,
    Retries!Overlap, Overlap, Retries!BLOCKING_STATES, BLOCKING_STATES
<1>3. QED
  BY <1>1, <1>2, ServiceAssumption, StoreAssumption

LEMMA RetriesAnswer ==
  ASSUME NEW s
  PROVE  Retries!Answer(s) <=> Client!Answer(s)
BY DEF Retries!Answer, Client!Answer,
  Retries!Create, Client!Create, Retries!Check, Client!Check,
  Retries!TurnAway, Client!TurnAway, Retries!Confirm, Client!Confirm,
  Retries!Cancel, Client!Cancel, Retries!DecideOn, Client!DecideOn,
  Retries!Allocate, Client!Allocate, Retries!Concerns, Client!Concerns,
  Retries!Dead, Client!Dead, Retries!MayAct, Client!MayAct,
  Retries!Subject, Client!Subject, Retries!Write, Client!Write,
  Retries!Refuse, Client!Refuse, Retries!Reply, Client!Reply,
  Retries!None, Client!None, Retries!NoRow, Client!NoRow,
  Retries!ActorOps, Client!ActorOps,
  Retries!BLOCKING_STATES, Client!BLOCKING_STATES,
  Retries!is_interval_valid, Client!is_interval_valid,
  Retries!may_cancel_confirmed, Client!may_cancel_confirmed,
  Retries!approval_request_is_alive, Client!approval_request_is_alive,
  Retries!DraftOf, Client!DraftOf,
  Retries!overlapping_blocking, Client!overlapping_blocking,
  Retries!Blocks, Client!Blocks, Retries!Overlap, Client!Overlap,
  Retries!AvailabilityAnswer, Client!AvailabilityAnswer

LEMMA RetriesStep ==
  [Client!ClientNext]_(Client!clientVars)
    => [Retries!ClientNext]_(Retries!clientVars)
<1>1. /\ Client!None = Retries!None /\ Client!NoRequest = Retries!NoRequest
      /\ Client!ReservationState = Retries!ReservationState
      /\ \A op, code : Client!Status(op, code) = Retries!Status(op, code)
  BY DEF Client!None, Retries!None, Client!NoRequest, Retries!NoRequest,
    Client!ReservationState, Retries!ReservationState,
    Client!Status, Retries!Status, Client!STATUS_BY_CODE, Retries!STATUS_BY_CODE,
    Client!ErrorCode, Retries!ErrorCode
<1>2. UNCHANGED Client!vars <=> UNCHANGED Retries!vars
  BY DEF Client!vars, Retries!vars
<1>3. /\ Client!Tick <=> Retries!Tick
      /\ \A s, q : Client!Call(s, q) <=> Retries!Call(s, q)
      /\ \A s : Client!Close(s) <=> Retries!Close(s)
      /\ \A s : Client!Die(s) <=> Retries!Die(s)
  BY <1>1 DEF Client!Tick, Retries!Tick, Client!Call, Retries!Call,
    Client!Close, Retries!Close, Client!Die, Retries!Die,
    Client!Gone, Retries!Gone
<1>4. \A c : Client!Decide(c) <=> Retries!Decide(c)
  BY <1>1, <1>2 DEF Client!Decide, Retries!Decide
<1>5. ASSUME NEW s
      PROVE  /\ Client!Send(s) <=> Retries!Send(s)
             /\ Client!Lose(s) <=> Retries!Lose(s)
             /\ Client!Crash(s) <=> Retries!Crash(s)
  BY <1>1, <1>3 DEF Client!Send, Retries!Send, Client!Lose, Retries!Lose,
    Client!Crash, Retries!Crash
<1>6. ASSUME NEW s PROVE Client!Serve(s) <=> Retries!Serve(s)
  BY <1>1, RetriesAnswer DEF Client!Serve, Retries!Serve, Client!Note,
    Retries!Note
<1>7. ASSUME NEW s PROVE Client!Deliver(s) <=> Retries!Deliver(s)
  BY <1>1, <1>3 DEF Client!Deliver, Retries!Deliver, Client!Believe,
    Retries!Believe
<1>8. Client!Pass <=> Retries!Pass
  BY <1>3 DEF Client!Pass, Retries!Pass
<1>9. QED
  BY <1>2, <1>4, <1>5, <1>6, <1>7, <1>8
  DEF Client!ClientNext, Retries!ClientNext, Client!clientVars,
      Retries!clientVars

LEMMA SystemRetries == SystemSpec => Retries!ClientSpec
<1>1. Client!ClientInit => Retries!ClientInit
  BY DEF Client!ClientInit, Retries!ClientInit, Client!Init, Retries!Init,
    Client!None, Retries!None, Client!NoRequest, Retries!NoRequest
<1>2. Client!ClientSpec => Retries!ClientSpec
  BY <1>1, RetriesStep, PTL DEF Client!ClientSpec, Retries!ClientSpec
<1>3. QED
  BY <1>2, SystemImplementsClients DEF ImplementsClients

LEMMA RetriesHold ==
  Retries!ClientSpec => /\ Retries!RepeatsAreHarmless
                        /\ []Retries!HeardStands
                        /\ []Retries!ClientInv
BY SystemAssumption, StoreAssumption, LeadTimeAssumption, ServiceAssumption,
   RetriesAssume, Retries!ClientRepeatsAreHarmless, Retries!ClientHeardStands,
   Retries!ClientInvariant

(* What was proved of atomic answers holds of the running service: whoever *)
(* asks again after his request took effect changes nothing and is told    *)
(* so, and a cancellation or rejection he has heard of is done and stays.  *)
THEOREM SystemRetriesAreHarmless ==
  SystemSpec => Client!RepeatsAreHarmless /\ []Client!HeardStands
<1>1. Retries!RepeatsAreHarmless => Client!RepeatsAreHarmless
  BY DEF Retries!RepeatsAreHarmless, Client!RepeatsAreHarmless,
    Retries!ActorOps, Client!ActorOps, Retries!None, Client!None,
    Retries!clientVars, Client!clientVars, Retries!vars, Client!vars
<1>2. Retries!HeardStands => Client!HeardStands
  BY DEF Retries!HeardStands, Client!HeardStands
<1>3. QED
  BY <1>1, <1>2, SystemRetries, RetriesHold, PTL

-----------------------------------------------------------------------------
(* Once his request has taken effect, no attempt of a caller waits for the *)
(* instrument or holds it: the row is no longer in a state to allocate.    *)
THEOREM SystemRepeatsStopEarly == SystemSpec => []RepeatsStopEarly
<1>1. Coherent /\ Orderly /\ LocksHaveReasons /\ Retries!ClientInv
        => RepeatsStopEarly
  <2> SUFFICES ASSUME Coherent, Orderly, LocksHaveReasons, Retries!ClientInv,
                      NEW s \in Sessions, req[s].op \in ActorOps,
                      took[connection[s]] # None
               PROVE  /\ pc[s] \notin {"certify", "lock_instrument", "overlap",
                                       "commit"}
                      /\ \A i \in Instruments : insLock[i] # s
    BY DEF RepeatsStopEarly
  <2> DEFINE q == req[s]
             state == reservations[q.reservation_id].state
  <2>1. CASE pc[s] = "idle"
    BY <2>1, ServiceAssumption DEF Orderly, LocksWhileWorking
  <2> SUFFICES ASSUME pc[s] # "idle"
               PROVE  /\ pc[s] \notin {"certify", "lock_instrument", "overlap",
                                       "commit"}
                      /\ \A i \in Instruments : insLock[i] # s
    BY <2>1
  <2>2. q = intent[connection[s]] /\ Retries!Marked(q, took[connection[s]])
    BY SystemAssumption
    DEF Retries!ClientInv, PhaseOf, Retries!None, None
  <2>3. /\ q.op = "confirm" => state # "DRAFT"
        /\ q.op = "cancel" => state \in {"CANCELLED", "EXPIRED"}
        /\ q.op \in {"approve", "reject"} =>
             state \notin {"DRAFT", "PENDING_APPROVAL"}
    BY <2>2 DEF Retries!Marked, Retries!ActorOps, ActorOps
  <2>4. pc[s] \in Holding => row[s] = reservations[q.reservation_id]
    BY DEF Coherent, SessionInv, RowIsFresh
  <2>5. pc[s] \notin {"certify", "lock_instrument", "overlap"}
    BY <2>3, <2>4 DEF Coherent, SessionInv, AllocationIsGuarded, MayAllocate,
                      Holding
  <2>6. pc[s] # "commit"
    BY <2>3, <2>4 DEF Coherent, SessionInv, AllocationIsGuarded, MayAllocate,
                      WriteIsLegal, Holding
  <2>7. \A i \in Instruments : insLock[i] # s
    BY <2>3 DEF LocksHaveReasons, HasReasons
  <2>8. QED
    BY <2>5, <2>6, <2>7
<1>2. SystemSpec => []Retries!ClientInv
  BY SystemRetries, RetriesHold
<1>3. QED
  BY <1>1, <1>2, SystemHolds, PTL
=============================================================================
