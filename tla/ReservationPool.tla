-------------------------- MODULE ReservationPool --------------------------
(***************************************************************************)
(* The service over the engine of db.py: a session gets a connection from  *)
(* a bounded pool before its first statement and gives it back when it     *)
(* commits or is closed, and what a statement sees is a matter of the      *)
(* transaction's isolation level.  Every step is one of ReservationService *)
(* under these conditions.                                                 *)
(***************************************************************************)
EXTENDS ReservationGuarantees

CONSTANT PoolSize    \* pool_size + max_overflow: 5 + 10 unless configured

ASSUME PoolAssumption == PoolSize \in Nat \ {0}

VARIABLES
  connected,   \* sessions that hold a connection
  snapshot,    \* what each sees if it sees one state of the table only
  failed       \* sessions told in this step that no connection was to be had

poolVars == <<vars, connected, snapshot, failed>>

(* Mutant: the level is not given and the server's default is this one. *)
isolation_level_of_server == "REPEATABLE READ"

isolation_level == "READ COMMITTED"

(* Mutant: SQLAlchemy's default. *)
expire_on_commit_default == TRUE

expire_on_commit == FALSE

NoSnapshot == [r \in ReservationIds |-> NoRow]

PoolTypeOK ==
  /\ TypeOK
  /\ connected \subseteq Sessions /\ Cardinality(connected) <= PoolSize
  /\ snapshot \in [Sessions -> Table]
  /\ failed \subseteq Sessions

PoolInit ==
  /\ Init
  /\ connected = {}
  /\ snapshot = [s \in Sessions |-> NoSnapshot]
  /\ failed = {}

-----------------------------------------------------------------------------
(* The session connects lazily: before its first statement and, if commits *)
(* expired its objects, again when the response reads them.                *)
NeedsConnection(s) ==
  \/ pc[s] \in {"validate", "read_instrument", "lock_reservation"}
  \/ expire_on_commit /\ pc[s] = "close" /\ result[s] = "OK"

(* What the next query of s sees: all that is committed, or what was when  *)
(* its transaction began.                                                  *)
Visible(s) == IF isolation_level = "READ COMMITTED" THEN reservations
              ELSE snapshot[s]

(* Mutant: connections are opened without a limit. *)
CheckoutUnlimited(s) ==
  /\ NeedsConnection(s) /\ s \notin connected
  /\ connected' = connected \cup {s}
  /\ failed' = {}
  /\ UNCHANGED <<vars, snapshot>>

Checkout(s) ==
  /\ NeedsConnection(s) /\ s \notin connected
  /\ Cardinality(connected) < PoolSize
  /\ connected' = connected \cup {s}
  /\ snapshot' = IF isolation_level = "READ COMMITTED" THEN snapshot
                 ELSE [snapshot EXCEPT ![s] = reservations]
  /\ failed' = {}
  /\ UNCHANGED vars

(* The pool is exhausted for longer than its timeout: the caller is told   *)
(* 500 and the session is closed.                                          *)
PoolTimeout(s) ==
  /\ NeedsConnection(s) /\ s \notin connected
  /\ Cardinality(connected) = PoolSize
  /\ Closed(s)
  /\ failed' = {s}
  /\ UNCHANGED <<connected, snapshot>>

GiveBack(s) == connected' = connected \ {s}

Calm == failed' = {} /\ UNCHANGED snapshot

PooledBegin(s) == Begin(s) /\ Calm /\ UNCHANGED connected

PooledLockReservation(s) ==
  /\ s \in connected
  /\ LockReservation(s)
  /\ Calm /\ UNCHANGED connected

PooledLockInstrument(s) ==
  /\ s \in connected
  /\ LockInstrument(s)
  /\ Calm /\ UNCHANGED connected

(* A statement, or Python between two of them. *)
Statement(s) ==
  /\ s \in connected
  /\ \/ ValidateCreate(s) \/ ReadInstrument(s) \/ QueryConflicts(s)
     \/ Authorize(s)
     \/ DecideConfirm(s) \/ DecideCancel(s) \/ DecideRequest(s)
     \/ Certify(s) \/ CheckOverlapIn(Visible(s), s)
  /\ UNCHANGED connected

(* With the end of the transaction the connection goes back. *)
Committing(s) ==
  /\ s \in connected
  /\ InsertDraft(s) \/ Commit(s)
  /\ GiveBack(s)

(* Mutant: get_session yields a session nobody closes. *)
LeavingLeaksConnection(s) ==
  /\ NeedsConnection(s) => s \in connected
  /\ Close(s)
  /\ UNCHANGED connected

(* get_session: a session that was rejected, or only read, still holds its *)
(* connection when the with block is left.                                 *)
Leaving(s) ==
  /\ NeedsConnection(s) => s \in connected
  /\ Close(s)
  /\ GiveBack(s)

PooledRun(s) == (Statement(s) \/ Committing(s) \/ Leaving(s)) /\ Calm

(* A wait ends: a session is at one of the three at a time. *)
Admitted(s) == \/ Checkout(s)
               \/ PooledLockReservation(s) \/ PooledLockInstrument(s)

Dying(s) == Abort(s) /\ GiveBack(s) /\ Calm

Around ==
  /\ \/ \E i \in Instruments : SetInstrument(i)
     \/ \E c \in AdminCertifications :
          GrantCertification(c) \/ RevokeCertification(c)
     \/ Tick
  /\ Calm /\ UNCHANGED connected

PooledNext ==
  \/ \E s \in Sessions :
       \/ PooledBegin(s) \/ Checkout(s) \/ PoolTimeout(s)
       \/ PooledRun(s) \/ Dying(s)
       \/ PooledLockReservation(s) \/ PooledLockInstrument(s)
  \/ Around

PooledSpec == PoolInit /\ [][PooledNext]_poolVars

(* A request that was accepted keeps running (one thread of the server     *)
(* serves it), PostgreSQL queues the waiters of a row lock, so a waiter is *)
(* let in although others come and go, and those who wait for a connection *)
(* are served in turn, if one is given back.  Clients, the clock, the lab  *)
(* manager, crashes and timeouts are under no obligation.                  *)
PooledFairness ==
  \A s \in Sessions : /\ WF_poolVars(PooledRun(s))
                      /\ SF_poolVars(Admitted(s))

FairPooledSpec == PooledSpec /\ PooledFairness

-----------------------------------------------------------------------------
(* ADR-01: the pool and the isolation level add nothing to the behaviour   *)
(* of the service, as long as the level is READ COMMITTED: the query that  *)
(* follows the wait for a lock sees what its last holder committed.        *)
ImplementsService == Spec

(* Those who wait for a connection hold no lock, and those who hold or     *)
(* wait for locks have their connection: the two waits cannot form a       *)
(* circle, however small the pool is.                                      *)
LocksNeedConnections ==
  /\ \A r \in ReservationIds : resLock[r] # NoOne => resLock[r] \in connected
  /\ \A i \in Instruments : insLock[i] # NoOne => insLock[i] \in connected

(* However the waits for connections and for locks mix, among those who    *)
(* hold a connection there is always one at work who waits for nobody and  *)
(* will give it back: an exhausted pool is never exhausted for good.       *)
PoolDrains ==
  connected # {} =>
    \E s \in connected : /\ pc[s] # "idle"
                         /\ \A t \in Sessions : ~Waits(s, t)

(* A caller who is told that there was no connection finds nothing done:   *)
(* after its commit an operation is answered without the database.         *)
FailureLeavesNoTrace ==
  [][ \A s \in failed' : result[s] \notin {"OK", "EXPIRED", "UNCHANGED"} ]_poolVars
=============================================================================
