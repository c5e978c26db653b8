------------------------ MODULE ReservationGuarantees ------------------------
(***************************************************************************)
(* What ReservationService guarantees, what its documents say and it does  *)
(* not, and the invariant the proofs rest on.                              *)
(***************************************************************************)
EXTENDS ReservationService

Ledger == INSTANCE ReservationLedger

(* Every run of the service is a run of the atomic ledger: requests that   *)
(* interleave statement by statement, wait for locks, die or judge by a    *)
(* stale time change the table only by the transitions of the state        *)
(* diagram, each under its conditions on the source state, on the time and *)
(* on the other reservations (REQ-05, REQ-16, and REQ-04 and REQ-11 but    *)
(* for BR-04 and BR-05, which ReservationGrounds states).                  *)
ImplementsLedger == Ledger!Spec

(* A request has been accepted and not answered, or its answer is fixed,   *)
(* whatever statement of the service it is at.                             *)
PhaseOf(label) == CASE label = "idle" -> "idle"
                    [] label = "close" -> "answered"
                    [] OTHER -> "called"

Api == INSTANCE ReservationApi WITH
         phase <- [s \in Sessions |-> PhaseOf(pc[s])],
         answer <- result

(* Linearizability: every request, however its statements interleave with  *)
(* those of others, is answered as if it had been performed in one step    *)
(* between its arrival and its answer, by the rows of that step: each code *)
(* is given for its reason only, in the order the documents give the       *)
(* checks, and a write and its answer are one.  This holds whatever the    *)
(* wall clock does.  (The formula is Api!Spec; written with the stutters   *)
(* first it costs TLC less.)                                               *)
ImplementsApi ==
  Api!Init /\ [][(Api!vars)' # Api!vars => Api!Next]_(Api!vars)

(* BR-02: at the true time no two reservations that hold an instrument     *)
(* overlap, whatever the sessions that allocated them believed the time    *)
(* to be.                                                                  *)
BR02 == Exclusive(reservations, clock)

(* The core of BR-02 that does not rest on the clock at all: no two         *)
(* allocations overlap, also when the wall clock was set back between the  *)
(* requests and a dead request revives.                                    *)
AllocationsExclusive ==
  \A p, q \in ReservationIds :
    (/\ p # q
     /\ reservations[p].state = "CONFIRMED"
     /\ reservations[q].state = "CONFIRMED")
      => ~Overlap(reservations[p], reservations[q])

(* REQ-16, last sentence: a caller who is told that the cancellation       *)
(* succeeded, now or earlier (REQ-09), finds the reservation cancelled,    *)
(* although others confirm or approve it meanwhile.                        *)
CancelSuccessNeverBlocks ==
  \A s \in Sessions :
    (pc[s] = "close" /\ req[s].op = "cancel" /\ result[s] \in {"OK", "UNCHANGED"})
      => reservations[req[s].reservation_id].state = "CANCELLED"

(* N-04 and the atomicity of a reply: the table changes exactly in the     *)
(* step in which some request gets the answer OK, and then at the row that *)
(* request names, or at a free one if it creates, and to the state it asks *)
(* for, or EXPIRED, and then the request is written as expired although    *)
(* its caller is rejected.  No other answer leaves a trace, and a request  *)
(* that dies leaves none.                                                  *)
ReplyMatchesWrite ==
  [][ \A r \in ReservationIds :
        reservations'[r] # reservations[r] =>
          \E s \in Sessions :
            /\ pc'[s] = "close" /\ pc[s] # "close"
            /\ IF req[s].op \in ActorOps THEN req[s].reservation_id = r
               ELSE req[s].op = "create" /\ reservations[r] = NoRow
            /\ \/ /\ result'[s] = "OK"
                  /\ reservations'[r].state \in Target(req[s].op)
               \/ /\ result'[s] = "EXPIRED"
                  /\ reservations'[r].state = "EXPIRED" ]_vars
  /\ [][ \A s \in Sessions :
           (result'[s] # result[s] /\ result'[s] \in {"OK", "EXPIRED"})
             => reservations' # reservations ]_vars

(* What session s does to the reservations is a step of the ledger judged  *)
(* at `at': a condition on the time it judged by and on the committed rows *)
(* of this moment, which other sessions may have written since it began.   *)
JudgedAt(s, at) ==
  LET r == req[s].reservation_id
      was == reservations[r].state IN
  \/ /\ req[s].op = "create"
     /\ \E free \in ReservationIds : Ledger!Create(free, req[s].booking, at)
  \/ /\ req[s].op = "confirm" /\ was = "DRAFT"
     /\ \E state \in BLOCKING_STATES : Ledger!Allocate(r, state, at)
  \/ /\ req[s].op = "approve" /\ was = "PENDING_APPROVAL"
     /\ Ledger!Allocate(r, "CONFIRMED", at)
  \/ req[s].op = "cancel" /\ Ledger!Cancel(r, at)
  \/ req[s].op = "reject" /\ Ledger!Reject(r, at)
  \/ req[s].op \in {"approve", "cancel", "reject"} /\ Ledger!Expire(r, at)

(* BR-03 and ADR-01 together: every write is the one its operation makes,  *)
(* and obeys that one's conditions for the time at which its request       *)
(* arrived, no other (clock.py), and for the table as it is when the write *)
(* is committed, however long the session waited for locks in between.     *)
JudgedOnArrival ==
  [][ reservations' # reservations =>
        \E s \in Sessions : /\ pc[s] \in {"insert", "commit"} /\ pc'[s] = "close"
                            /\ JudgedAt(s, now[s]) ]_vars

(* BR-07: a request leaves PENDING_APPROVAL for CONFIRMED or REJECTED only *)
(* by a supervisor's decision, never its owner's, also when the one who    *)
(* decides read the row before others changed it.                          *)
OnlyForeignSupervisorDecides ==
  [][ \A r \in ReservationIds :
        ( /\ reservations[r].state = "PENDING_APPROVAL"
          /\ reservations'[r].state \in {"CONFIRMED", "REJECTED"} )
        => \E s \in Sessions :
             /\ pc[s] = "commit" /\ req[s].reservation_id = r
             /\ req[s].requested_by \in Supervisors
             /\ req[s].requested_by # reservations[r].user_id ]_vars

(* OP-02: AVAILABLE is answered only if at that moment, by the true clock, *)
(* nobody is allocated the interval and no living request asks for it,     *)
(* although the query uses the time the request arrived.                   *)
AvailableMeansFree ==
  [][ \A s \in Sessions :
        (pc[s] = "query" /\ result'[s] = "AVAILABLE") =>
          \A r \in ReservationIds :
            ( \/ reservations[r].state = "CONFIRMED"
              \/ /\ reservations[r].state = "PENDING_APPROVAL"
                 /\ clock < reservations[r].starts_at )
            => ~Overlap(reservations[r], req[s].query) ]_vars

(* BR-08 without a job that expires requests: a request that nobody         *)
(* decided about stays PENDING_APPROVAL in the table after its start, yet  *)
(* from then on no allocation is refused and no availability denied on its *)
(* account.  Behind every such answer is an allocation, or a request that  *)
(* was alive when the refused one arrived.                                 *)
DeadRequestsRefuseNobody ==
  [][ \A s \in Sessions :
        LET asked == IF pc[s] = "query" THEN req[s].query ELSE row[s]
            denied == \/ pc[s] = "overlap" /\ result'[s] = "OVERLAP"
                      \/ /\ pc[s] = "query"
                         /\ result'[s] \in {"CONFIRMED", "PENDING_APPROVAL"}
        IN denied =>
             \E r \in ReservationIds :
               /\ reservations[r] # NoRow
               /\ Overlap(reservations[r], asked)
               /\ pc[s] = "overlap" => r # req[s].reservation_id
               /\ \/ reservations[r].state = "CONFIRMED"
                  \/ /\ reservations[r].state = "PENDING_APPROVAL"
                     /\ now[s] < reservations[r].starts_at ]_vars

(* ADR-01: the critical section of an instrument does not delay OP-01, an  *)
(* INSERT of a draft never waits for a lock.                               *)
CreateNeverWaits ==
  \A s \in Sessions : pc[s] = "insert" => ENABLED InsertDraft(s)

(* s waits for a row lock that t holds. *)
Waits(s, t) ==
  \/ pc[s] = "lock_reservation" /\ resLock[req[s].reservation_id] = t
  \/ pc[s] = "lock_instrument" /\ insLock[row[s].instrument_id] = t

(* ADR-01, no deadlock: whoever waits for a reservation waits at worst for *)
(* somebody who waits for an instrument, and that one for somebody who can *)
(* go on.  No chain of waits has a third link, so none closes to a circle, *)
(* of whatever length, and none grows with the number of sessions.         *)
WaitsEnd ==
  \A s, t, u, v \in Sessions : ~(Waits(s, t) /\ Waits(t, u) /\ Waits(u, v))

(* ADR-01: the lock on an instrument serializes confirmations and approvals *)
(* for that instrument, and different instruments go on side by side.      *)
(* Whoever waits does so for a request about the same reservation, or for  *)
(* the allocation of another one of the same instrument; he never waits    *)
(* for a cancellation, a rejection or an answer of another kind.           *)
OnlyRivalsWait ==
  \A s, t \in Sessions :
    Waits(s, t) =>
      \/ /\ pc[s] = "lock_reservation"
         /\ req[t].op \in ActorOps
         /\ req[t].reservation_id = req[s].reservation_id
      \/ /\ pc[s] = "lock_instrument"
         /\ req[t].op \in {"confirm", "approve"}
         /\ req[t].reservation_id # req[s].reservation_id
         /\ row[t].instrument_id = row[s].instrument_id

(* Every request is answered or dies: no session waits for a lock or for a *)
(* connection for ever, in particular there is no deadlock over the two    *)
(* kinds of lock (reservation first, then instrument), none between locks  *)
(* and the pool, and a rejected request frees what it holds.               *)
EveryRequestFinishes ==
  \A s \in Sessions : pc[s] # "idle" ~> pc[s] = "idle"

-----------------------------------------------------------------------------
(* What the documents say and the code does not do. *)

(* docs/specification.md, REQ-16: when a cancellation meets a confirmation *)
(* or an approval of the same reservation, at most one of them succeeds.   *)
AtMostOneOfCancelAndConfirm ==
  \A s, t \in Sessions :
    ~ /\ pc[s] = "close" /\ req[s].op = "cancel" /\ result[s] = "OK"
      /\ pc[t] = "close" /\ req[t].op \in {"confirm", "approve"}
      /\ result[t] = "OK"
      /\ req[s].reservation_id = req[t].reservation_id

(* docs/specification.md, BR-05: an instrument that is not active must not *)
(* get a new allocation.                                                   *)
InactiveNeverAllocated ==
  [][ \A r \in ReservationIds :
        (/\ reservations[r].state \notin BLOCKING_STATES
         /\ reservations'[r].state \in BLOCKING_STATES)
        => instruments[reservations[r].instrument_id].is_active ]_vars

-----------------------------------------------------------------------------
(* The inductive invariant of ReservationServiceProofs. *)

Holding == {"authorize", "decide", "certify", "lock_instrument",
            "overlap", "commit"}

(* The control state and the request fit each other. *)
RequestFits(s) ==
  /\ pc[s] \in {"validate", "insert"} =>
       req[s] \in CreateRequest /\ req[s].booking \in Bookings
  /\ pc[s] \in {"read_instrument", "query"} => req[s] \in CheckRequest
  /\ pc[s] = "query" =>
       /\ req[s].query.instrument_id \in Instruments
       /\ is_interval_valid(req[s].query.starts_at, req[s].query.ends_at)
  /\ pc[s] \in Holding \cup {"lock_reservation"} => req[s] \in ActorRequest
  /\ pc[s] = "insert" =>
       /\ req[s].booking.user_id \in Users
       /\ req[s].booking.instrument_id \in Instruments
       /\ is_interval_valid(req[s].booking.starts_at, req[s].booking.ends_at)
       /\ now[s] < req[s].booking.starts_at

(* Past the permission check the caller is known and permitted. *)
Entitled(s) ==
  pc[s] \in Holding \ {"authorize"} =>
    req[s].requested_by \in Users /\ Permitted(s)

(* Whoever works on a reservation holds its lock, and the copy it decides  *)
(* by is the committed row.                                                *)
RowIsFresh(s) ==
  pc[s] \in Holding =>
    /\ resLock[req[s].reservation_id] = s
    /\ row[s] = reservations[req[s].reservation_id]
    /\ row[s] \in Row

(* The allocation that is under way was asked for and judged possible at   *)
(* now[s].                                                                 *)
MayAllocate(s) ==
  /\ \/ /\ req[s].op = "confirm"
        /\ row[s].state = "DRAFT" /\ target[s] \in BLOCKING_STATES
     \/ /\ req[s].op = "approve"
        /\ row[s].state = "PENDING_APPROVAL" /\ target[s] = "CONFIRMED"
  /\ now[s] < row[s].starts_at

AllocationIsGuarded(s) ==
  /\ pc[s] \in {"certify", "lock_instrument", "overlap"} => MayAllocate(s)
  /\ pc[s] = "overlap" => insLock[row[s].instrument_id] = s
  /\ (pc[s] = "commit" /\ target[s] \in BLOCKING_STATES) =>
       /\ MayAllocate(s)
       /\ insLock[row[s].instrument_id] = s
       /\ overlapping_blocking(reservations, row[s], now[s])
            \ {req[s].reservation_id} = {}

(* Any other write that is under way is one the state diagram has. *)
WriteIsLegal(s) ==
  (pc[s] = "commit" /\ target[s] \notin BLOCKING_STATES) =>
    \/ /\ target[s] = "CANCELLED" /\ req[s].op = "cancel"
       /\ \/ row[s].state = "DRAFT"
          \/ row[s].state = "PENDING_APPROVAL" /\ now[s] < row[s].starts_at
          \/ /\ row[s].state = "CONFIRMED"
             /\ may_cancel_confirmed(row[s].starts_at, now[s])
    \/ /\ target[s] = "REJECTED" /\ req[s].op = "reject"
       /\ row[s].state = "PENDING_APPROVAL" /\ now[s] < row[s].starts_at
    \/ /\ target[s] = "EXPIRED"
       /\ req[s].op \in {"cancel", "approve", "reject"}
       /\ row[s].state = "PENDING_APPROVAL" /\ row[s].starts_at <= now[s]

SessionInv(s) == /\ RequestFits(s)
                 /\ Entitled(s)
                 /\ RowIsFresh(s)
                 /\ AllocationIsGuarded(s)
                 /\ WriteIsLegal(s)

(* While a session works on a reservation it holds the row's lock and      *)
(* knows the committed row; while it allocates it holds the instrument's   *)
(* lock and its overlap check still stands.  The clock plays no part.      *)
Coherent == TypeOK /\ \A s \in Sessions : SessionInv(s)

(* Nobody judges by a time that has not come. *)
Timely == \A s \in Sessions : now[s] <= clock

(* There is no answer before the service function has returned. *)
Unanswered == \A s \in Sessions : pc[s] # "close" => result[s] = None

(* Locks are held by those who work on a reservation, or are answered and  *)
(* not closed yet; an instrument's only from its lock to the end.          *)
LocksWhileWorking ==
  /\ \A r \in ReservationIds :
       resLock[r] # NoOne => pc[resLock[r]] \in Holding \cup {"close"}
  /\ \A i \in Instruments :
       insLock[i] # NoOne => pc[insLock[i]] \in {"overlap", "commit", "close"}

(* A lock is held for the request it was taken for.  Of an instrument's    *)
(* the holder is one whose request to allocate the instrument has passed   *)
(* every check of its reservation, which waits unchanged for what becomes  *)
(* of it, also after a refusal, until the session is closed.               *)
HasReasons(s) ==
  /\ \A r \in ReservationIds :
       resLock[r] = s => req[s] \in ActorRequest /\ req[s].reservation_id = r
  /\ \A i \in Instruments :
       insLock[i] = s =>
         LET r == req[s].reservation_id IN
         /\ r \in ReservationIds /\ resLock[r] = s
         /\ row[s] \in Row /\ row[s] = reservations[r]
         /\ row[s].instrument_id = i
         /\ \/ req[s].op = "confirm" /\ row[s].state = "DRAFT"
            \/ req[s].op = "approve" /\ row[s].state = "PENDING_APPROVAL"

LocksHaveReasons == \A s \in Sessions : HasReasons(s)

Orderly == Unanswered /\ LocksWhileWorking

IInv == Coherent /\ Timely /\ Orderly
=============================================================================
