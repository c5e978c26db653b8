# SWI-LAB in TLA+

SWI-LAB reserves the instruments of a university laboratory: a FastAPI service
over PostgreSQL with five operations, one state diagram and one rule that spans
several rows (BR-02: no two reservations that hold the same instrument
overlap). These modules model the whole path of a request, from a caller who
loses answers and asks again, through the reading of the clock and the pool of
connections, to the closing of the database session; they check it with TLC
and prove its main results with TLAPS for every number of sessions,
reservations, users, instruments, callers and connections. The two scripts of
the repository are modelled too. Paths below are relative to the repository.

## 1. The system

| Part | Code | State | Operations |
|---|---|---|---|
| Domain rules | `src/swilab/domain/rules.py` | none | `is_interval_valid` (BR-01), `certification_covers` (BR-04), `approval_request_is_alive` (BR-08), `may_cancel_confirmed` (BR-03) |
| Transition policy | `domain/transitions.py`, `states.py`, `errors.py` | none | `expiry_decision`, `cancel_decision`, `confirm_decision`; a decision is a target, a rejection, both (expiry only) or neither |
| Reservation Lifecycle | `services/reservations.py` | rows of `reservations` | OP-01 create, OP-03 confirm, OP-04 cancel; `enter_blocking_state`, the only entry to a state that holds an instrument; `_write_expired` |
| Approval Workflow | `services/reservations.py` | the same rows | OP-05 approve or reject |
| Availability Query | `services/reservations.py` | reads only | OP-02 check |
| Reservation Store | `models.py`, `db.py` | tables, row locks, one transaction per session | statements, `commit`, rollback on close |
| Clock | `clock.py` | wall-clock time | `now()`, read once per request |
| HTTP API | `api/reservations.py` | none | one endpoint per operation: open a session, read the clock, call the service |
| Connection pool | `db.py` | connections out of 5 + 10 | checkout, 30 s timeout, return at the end of a transaction |
| Error mapping, start | `main.py` | none | error code to HTTP status, `create_all` |
| Configuration | `config.py` | none | the database address |
| Demo script | `scripts/demo.py` | the ids it was told | `drop_all`, seed, 23 requests with announced answers |
| Mutation script | `scripts/mutation_check.py` | one temporary copy of the sources | copy, apply, run the suite, clean up, exit code |
| Callers | outside | what they want, what they believe | send, repeat |
| Lab manager | outside (TBD-02) | `is_active`, `requires_approval`, certificates | edits rows directly |
| Notification Service | documents only (TBD-03) | - | not implemented |

**How they interact.** An endpoint gets a session (`get_session`), reads the
clock, and calls one service function. OP-03, OP-04 and OP-05 first lock the
reservation's row (`FOR UPDATE`), read the user and check the permission, and
let the policy decide; an allocation then checks the instrument and the owner's
certificate, locks the instrument's row (`FOR NO KEY UPDATE`), runs the overlap
query and writes the state. `commit` publishes the write and frees the locks
together; a rejection is an exception, and the locks are freed when
`get_session` leaves its `with` block. The requests run in the threads of the
server's pool and meet in the database only: through committed rows and locks. Before
its first statement a session takes a connection from a bounded pool and waits
for one if there is none. A caller whose answer is lost sends the same request
again, perhaps while the first attempt is still on its way. The demo script
talks to the service like any caller; the mutation script runs the test suite
on altered copies of the sources.

**What is hard.** Two allocations may both look before either writes; a
transition reads the source state and writes later; a session may wait for two
locks while its `now` grows old; the manager edits the instrument between the
check and the allocation; an expiry is the one case that writes *and* rejects;
a rejected or dead request must leave neither a write nor a lock behind; the
foreign-key check of an INSERT meets the instrument's lock; those who wait for
a connection and those who wait for a lock could wait for each other; what a
query sees after the wait for a lock depends on the isolation level; a repeated
request meets the row its first attempt wrote; the wall clock may be set back;
a request that nobody decides about stays PENDING_APPROVAL in the table for
ever; one copy of the sources serves all mutations in turn. The list with code
lines is `hazards` in `PROJECT.json`.

**What makes each part correct.**

- Rules and policy: the tables are total, have only the four legal shapes, and
  a refusal never turns into a permission by mere waiting.
- Lifecycle and approval: every change of a row is a transition of the state
  diagram at a time that is not too late, also under concurrency; an allocation
  had its grounds in the manager's tables while it was served; what the caller is
  told matches what was written; a request is decided by a supervisor who does
  not own it; a cancellation reported as successful stays.
- Guardian: BR-02 at the true time.
- Availability: AVAILABLE is never said of an interval that is taken.
- Store, pool and sessions: nobody waits for ever, for a lock or for a
  connection; nothing half-done survives; a caller who is told that there was
  no connection finds nothing done.
- API: every answer is that of one atomic operation; a repetition of what took
  effect is harmless and recognisable; every rejection has a status.
- Scripts: the demo's labels announce what happens; exit code 0 of the
  mutation script means that every mutation was caught.

## 2. Modules

```
ReservationPolicy            rules.py, transitions.py, states.py, errors.py
  ReservationPolicyCheck     the tables under passing time       -> policy.cfg
    ReservationPolicyProofs
  ReservationStore           models.py, requests, the overlap query
    ReservationStoreProofs   what a write or a tick does to BR-02
    ReservationLedger        abstract: every transition one step
      MCReservationLedger                                        -> ledger.cfg
      ReservationLedgerProofs
    ReservationApi           abstract: every request answered in one step
      ReservationClient      callers, lost answers, statuses
        MCReservationClient                                      -> client.cfg
        ReservationClientProofs
    ReservationService       sessions, statements, locks, commits
      ReservationGuarantees  properties; INSTANCEs of ledger and API
        MCReservationService   -> race, crowd, duel, outofservice .cfg
        ReservationGrounds     what the manager's tables have said
          MCReservationGrounds                                -> lifecycle.cfg
        ReservationServiceProofs
          ReservationContractProofs      (the API)
        ReservationPool      connections, snapshots, timeouts
          MCReservationPool                                  -> progress.cfg
          ReservationSystem  callers over the pool
            MCReservationSystem                                -> system.cfg
            ReservationSystemProofs      (the pool and the whole system)
        Demo                 scripts/demo.py as a caller
          MCDemo                                                 -> demo.cfg
MutationCheck                scripts/mutation_check.py
  MCMutationCheck                                            -> mutation.cfg
  MutationCheckProofs
```

The layers are joined by refinement: `ReservationPool` implements
`ReservationService`, which implements `ReservationApi` and
`ReservationLedger`. `ReservationClient` puts callers on the abstract
`ReservationApi`; `ReservationSystem` puts the same callers on the pool, and
implements `ReservationClient`, so that what the small module shows of repeated
requests holds of the whole. As long as the clock is not set back, the contract
used by these callers implements `ReservationLedger` too.

`ReservationPolicy` translates the pure code. Time is a natural number of
ticks; the rules only compare and add, so the 60 minutes are the constant
`CANCELLATION_LEAD_TIME`.

`ReservationStore` has the shapes of rows and requests and `overlapping_blocking`, the SQL
condition of `_overlapping_blocking`. Users, roles and instrument categories
are constants, because no operation and no manager action of interest changes
them; names, e-mails, locations and `created_at` are never read and are left
out.

`ReservationLedger` is the abstract specification: the reservations table and
the clock, one atomic step for each transition. It does not know the manager's
tables (BR-04, BR-05, the target of REQ-10): they change between the check and
the commit, so no step on the reservations alone can be conditioned on them;
that part is stated by `ReservationGrounds`. A step is judged at *some*
instant up to the present, since the code reads the clock once on arrival
(BR-03, `clock.py`) and may commit much later. The ledger is the contract of
the documents' state diagram; that BR-02 follows from it is checked and proved
separately from concurrency.

`ReservationService` is the code. A session is a control state `pc` (the next
statement), the request `req`, the time `now`, the locked copy `row`, the state
`target` it will write and the `result` it will be told. One action is one
database statement with the Python up to the next one:

| Action | Code |
|---|---|
| `Begin` | an endpoint in `api/reservations.py`: session, `clock.now()`, call |
| `ValidateCreate`, `InsertDraft` | `create_reservation`; the INSERT asks for `KEY SHARE` on the instrument |
| `ReadInstrument`, `QueryConflicts` | `check_availability` |
| `LockReservation` | `_lock_reservation`; waits, then reads what was committed |
| `Authorize` | `_require_user`, `_require_authorized`, or BR-07 in `decide_reservation` |
| `DecideConfirm`, `DecideCancel`, `DecideRequest` | the middle part of OP-03, OP-04, OP-05 |
| `Certify` | the certificate query of `_require_allocatable` |
| `LockInstrument`, `CheckOverlap` | `enter_blocking_state` |
| `Commit` | `session.commit()` in OP-03, OP-04, OP-05 and `_write_expired` |
| `Close` | `get_session`: rollback, locks freed |
| `Abort` | the process or connection dies before the answer |
| `Tick`, `SetInstrument`, `GrantCertification`, `RevokeCertification` | time; the manager in the database |

`UnsteadySpec` adds `StepBack`, a wall clock that is set back.

`is_active` is judged in `DecideConfirm` and `DecideRequest`, not in `Certify`,
because the code judges the row it read there. Statements that read constant
data (the user) are part of the action that uses them; the window between a
flush and the commit is invisible to others in READ COMMITTED and is one
action.

`ReservationApi` is the contract of the five endpoints as a caller sees it: a
request is called, answered in one atomic step by the rows of that step and the
time of its arrival, and closed. It fixes the order of the checks and which
code goes with which reason. The manager's tables are hidden, because the
service reads them at an earlier moment than it answers; so any allocation may
be refused on their account, and any state that holds an instrument be its
target. What justifies the one and the other is said by `ReservationGrounds`.
The service is mapped to it by `PhaseOf(pc[s])`
and `result`.

`ReservationClient` puts callers on top: `Decide` picks a wish, `Send` sends it
or sends it again over any connection that is free, `Serve` is a step of the
API, and the answer is delivered, lost, or never given (`Deliver`, `Lose`,
`Crash`). `STATUS_BY_CODE` and the handlers of `main.py` are in `Status`; a
status of 500 tells a caller nothing. `took` is a ghost: what was really
written for a caller.

`ReservationPool` restricts every step of the service to a session that is
`connected`, adds `Checkout` and `PoolTimeout`, and gives the connection back
where the code does (`Committing`, `Leaving`, `Dying`). `isolation_level` and
`expire_on_commit` are the two settings of `db.py` that the model interprets:
under another level the overlap query sees `snapshot` instead of the committed
rows, and with expiry on commit the response needs a second connection.

`ReservationSystem` has all layers at once: each of its steps is a step of
`ReservationPool` together with what the callers make of it. `Ask` is a `Begin`
with the caller's intent, `Work` a checkout or a statement (with `Note`, the
ghost), `Respond` a close whose answer arrives (`Believe`), and `Fail` is a lost
answer, a death, or the 500 of a timeout of the pool: three ways in which a
caller is left without an answer. `Client` is `ReservationClient` seen through
`PhaseOf(pc[s])` and `result`.

`Demo` runs the script's 23 requests one by one through `ReservationService`
(`seed`, `Ask`, `Serve`, `Show`). A tick is a quarter of an hour; `starts_at` is
tomorrow at eight, which is 8 to 32 hours away, and `TomorrowAtEight` has both
ends. Each request carries the answer and the state its label announces.

`MutationCheck` is the script's loop: `fresh_copy`, `apply` (the edits up to the
first that does not fit), `run_suite` (whose outcome is any of green, failures,
or a crash that prints nothing on stdout), `next_mutation`, `interrupt`, which
leaves a copy in part, and `leave`, the `finally` block. Its `rmtree` ignores
errors, so `remove` may leave the directory and what is in it; and a Ctrl-C
before the `try`, or in the `finally`, passes it by (`interrupt_outside`). So
nothing is claimed of the directory. The table of mutations is a constant.

A definition whose comment begins with *Mutant* is a plausible mistake in the
definition after it. No specification uses them; replacing the definition by
the mutant must break the property named for it in `PROJECT.json`.

`ReservationGuarantees` states the properties of the service; the `MC` modules
give the values for TLC.

`ReservationGrounds` adds a history variable to `UnsteadySpec`: `held[s]` is what
has been true of the reservation of `s`, at some instant since its request was
found permitted and until it is answered: that its instrument was active and
asked for one state or the other (`Allowed`), or was not active, that the owner
was certified or was not (`Training`). It restricts no step of the service.

## 3. Properties and runs

| Run | Properties | Shows |
|---|---|---|
| `race` | `TypeOK`, `IInv`, `BR02`, `CancelSuccessNeverBlocks`, `ImplementsLedger`, `ReplyMatchesWrite`, `OnlyForeignSupervisorDecides`, `AvailableMeansFree` | two sessions, two overlapping drafts of two owners, all transitions of OP-03 to OP-05, availability queries, approval switched on and off, expiry, aborts |
| `crowd` | `BR02`, `WaitsEnd`, `OnlyRivalsWait`, `LocksHaveReasons` | three sessions, three drafts of one instrument in a chain (the first and last only touch) and one of another instrument that is drafted meanwhile |
| `lifecycle` | `CreateNeverWaits`, `AllocationsExclusive`, `ImplementsApi`, `JudgedOnArrival`, `DeadRequestsRefuseNobody`, `AllocationsHaveGrounds`, `RefusalsHaveGrounds` | all five operations, bad inputs, a manager who edits everything, a wall clock that is also set back |
| `ledger` | `TypeOK`, `BR02` | BR-02 follows from the atomic rules, with stale judgements |
| `policy` | `DecisionShapes`, `RefusalsAreStable` | the tables for all states and instants |
| `client` | `ClientTypeOK`, `HeardStands`, `ImplementsLedger`, `RepeatsAreHarmless`, `EveryIntentIsAnswered` | two callers, three connections, lost answers, repetitions that overtake |
| `progress` | `EveryRequestFinishes` | liveness: three sessions want two connections, the lock of one reservation and the lock of one instrument, under `FairPooledSpec` |
| `system` | `RepeatsStopEarly`, `ImplementsClients`, and of the pool `PoolTypeOK`, `LocksNeedConnections`, `PoolDrains`, `ImplementsService`, `FailureLeavesNoTrace` | two callers who repeat requests, three sessions, two connections, every statement, timeouts, deaths and lost answers |
| `demo` | `AnswersAsAnnounced` | the walk of the demo at both ends of the day |
| `mutation` | `TypeOK`, `ZeroMeansAllCaught`, `SurvivorsWereApplied` | every command line, every outcome of every run of the suite, interrupts anywhere, a clean-up that may fail |
| `duel` | `AtMostOneOfCancelAndConfirm`, violated | REQ-16 taken literally does not hold |
| `outofservice` | `InactiveNeverAllocated`, violated | BR-05 taken literally does not hold |

- `BR02`: at the true time no two reservations that hold an instrument
  overlap. It needs the instrument lock, the query under it, READ COMMITTED
  and the fact that what is expired at an old `now` is expired later.
- `AllocationsExclusive`: the part of BR-02 that does not rest on the clock. If
  the wall clock steps back a dead request revives, and BR-02 for requests is
  lost for a while; two confirmed reservations still never overlap. It is
  checked of the service (`lifecycle`) and proved of the contract alone too.
- `ImplementsLedger`: the service refines the ledger (the mapping is the
  identity on `reservations` and `clock`; sessions and locks are hidden): only
  transitions of the state diagram, none too late, allocations only where the
  interval is free. It says nothing of the manager's tables.
- `AllocationsHaveGrounds`: what of REQ-04, REQ-10 and REQ-11 the ledger leaves
  out. A reservation is allocated only if, while the request was served, its
  instrument was active, asked (for a confirmation) for the very state that is
  written, and the owner, not the caller, was certified. That all held at one
  instant, or still holds at the commit, is not so (`outofservice`).
- `RefusalsHaveGrounds`: the same of the codes INSTRUMENT_INACTIVE and
  MISSING_CERTIFICATION, which the contract lets any allocation meet, and of
  their order: BR-05 goes before BR-04.
- `ImplementsApi`: linearizability of all five operations, codes and their
  order included. It does not rest on the clock either.
- `JudgedOnArrival`: sharper than the ledger, which lets a step be judged at
  any past instant: every write is one that the operation of its request may
  make, judged for the time *its* request arrived (BR-03) and for the table as it
  is at the commit.
- `CancelSuccessNeverBlocks`: last sentence of REQ-16.
- `ReplyMatchesWrite`: a row changes exactly when the caller of a request that
  names it is answered OK, to the state asked for, or EXPIRED (N-04), and in no
  other step.
- `OnlyForeignSupervisorDecides`: BR-07 at the moment of the write.
- `AvailableMeansFree`: OP-02 by the true clock, although its `now` is older.
- `DeadRequestsRefuseNobody`: nobody writes EXPIRED when a request dies, so the
  row says PENDING_APPROVAL for ever; still it refuses no allocation and no
  availability.
- `WaitsEnd`: ADR-01, the order of the two kinds of lock. Whoever waits for a
  reservation waits at worst for somebody who waits for an instrument, and that
  one for somebody who can go on; a deadlock would be an endless chain.
- `OnlyRivalsWait`: ADR-01 (`docs/architecture-and-decisions.md:510`) promises
  that the lock serializes confirmations and approvals of one instrument while
  others go on. A coarser lock, or one that a cancellation takes too, would
  satisfy BR-02 and break this.
- `LocksHaveReasons`: why that is so. A lock is held for the request that took
  it, an instrument's for an allocation whose reservation stays as it was
  checked until the session is closed.
- `CreateNeverWaits`: ADR-01, a draft is inserted during a critical section.
- `RepeatsAreHarmless`, `HeardStands`: REQ-09 and its counterpart for the other
  operations, when answers are lost and attempts overtake each other. A
  repeated cancellation is told that it succeeded, a repeated confirmation
  INVALID_STATE although it had worked: it writes nothing, but the caller has
  to look at the reservation to know.
- `EveryIntentIsAnswered`: no rejection becomes a server error that repeats for
  ever, so whoever keeps asking learns how it ended.
- `ImplementsClients`: the whole system, as its callers see it, is the contract
  with callers. It would be false if, for instance, an expiry were answered and
  not written (`CommitLosesExpiry`).
- `RepeatsStopEarly`: a request that took effect and is repeated, or is
  overtaken by its own repetition, never waits for an instrument and never
  holds one: impatience of one caller does not delay allocations of others.
- `LocksNeedConnections`: a session that waits for a connection holds no lock,
  and a session that holds one has its connection: the two kinds of waiting
  cannot close a circle.
- `PoolDrains`: `WaitsEnd` and `LocksNeedConnections` put together: among those
  who hold a connection one is at work and waits for nobody, so a pool that is
  exhausted will get a connection back.
- `ImplementsService`: pool and isolation level add no behaviour. With
  REPEATABLE READ (the mutant `isolation_level_of_server`) the overlap query
  does not see what the last holder of the lock committed, which is the
  measurement of `docs/evidence-and-evolution.md:592-598`.
- `FailureLeavesNoTrace`: a caller who is told that there was no connection
  finds nothing done. `expire_on_commit = False` carries it.
- `EveryRequestFinishes`: no deadlock over the locks of reservations, of
  instruments and the connections of the pool, no starvation, no lock or
  connection left behind. An overlap query that locks the rows it
  meets, against the order of ADR-01 (`CheckOverlapLocksRivals`), or a connection that is not given back
  (`LeavingLeaksConnection`) break it.
- `AnswersAsAnnounced`: nobody but a reader compares the demo's labels with the
  answers it prints; each depends on all requests before.
- `ZeroMeansAllCaught`, `SurvivorsWereApplied`: what the exit code and the report
  of the mutation script are worth.

**Bounds.** `race`: two sessions suffice for every pairwise conflict, and the
third party of `crowd` covers the one that slips in between two others.
`MaxTime` is 2 in `race`: the drafts start at 2 and 3 with a lead time of 1, so
a request expires, a cancellation becomes too late and a start arrives while
others still hold older times. In `crowd` it is 1 with starts 1, 2, 3; with
three sessions and two instruments one can wait while another works on the
second instrument and the third cancels. In
`lifecycle` it is 1, with starts at 1 and 2, and the clock also goes back.
`RoomForInsert` keeps a request for a new row from starting when the finite set
of ids has none left. `client`: the first caller has two connections, enough
for an attempt to overtake another; both reservations start at 1 and the clock
goes to 1, so every wish also comes too late. No wish creates a valid draft,
because repeated creations would use up the ids. `system`: the student has two sessions,
so that his attempts overtake each other, the supervisor one; with two
connections there is a waiter while two others conflict over overlapping
drafts. Time goes to 1, when both drafts have begun. `progress`: two connections
let one session hold a lock another waits for, while the third waits for a
connection; three requests want the reservation `r1`, and its approval wants the
same instrument as the confirmation of `r2`. Time stands still there: passing
time would only end the contention, because every request would find its start
gone. `demo`: the walk may take
less than three quarters of an hour; after that the query the script expects to
meet the seeded reservation no longer does. The script itself gives each
request 10 s. `mutation`: four mutations of one or two edits, two that share an
edit, one with an edit whose text is lost. `SessionSymmetry` exchanges
sessions, and `demo` exchanges unused ids: nothing distinguishes them there. No
symmetry is used for liveness. Deadlock is checked where the system runs for
ever; it is off in `ledger` and `policy`, where only the clock moves at the end
and stops at its bound, in `client` and `system`, where the callers have heard all
they wanted, in `demo` and `mutation`, where the script ends, and in `duel`, where
no further request arrives.

**Fairness.** `PooledFairness` has weak fairness on each session's own
statements: an accepted request is run by a thread of the server and nothing
suspends it. It has strong fairness on the end of a wait (`Admitted`; a session
is in one wait at a time): for a row lock, because PostgreSQL queues the
waiters, so one is let in although others come between, and for a connection,
because the pool serves its waiters in turn. There
is none on timeouts, clients, the clock, the manager or crashes. A session that
dies or is told that there is no connection counts as finished.
`ClientFairness` is strong fairness on the sending, serving and delivery of a
caller's own attempts: he does not give up, and neither do all attempts die nor
all answers get lost.

**Where documents and code differ.**

1. `docs/specification.md:519` (REQ-16) says that of a cancellation and a
   confirmation that meet at most one succeeds. The code lets both succeed when
   the confirmation goes first: the cancellation is then judged by the new
   state. OP-04 in the same document (lines 705-712) and
   `tests/test_concurrency_req05.py:224` agree with the code. Run `duel`.
2. `docs/specification.md:211` (BR-05) says that an inactive instrument must
   not be allocated. `is_active` is read before the instrument is locked
   and not looked at under the lock, so a deactivation in between is missed.
   The documents leave the manager's interface open (TBD-02), so it
   is a difference in what is promised. Run `outofservice`.

A third one has no run of its own: `scripts/mutation_check.py:338` ignores the
return code of pytest, so a suite that dies before its first test looks green.
As the outcome `crash` of `run_suite` it is in the model: the exit code cannot
become 0 by it, but `main` goes on from a bare copy that was never tested.

## 4. Proofs

Assumptions: the named ones on constants (`LeadTimeAssumption`,
`StoreAssumption`, `LedgerAssumption`, `ApiAssumption`, `ServiceAssumption`,
`ClientAssumption`, `PoolAssumption`, `SystemAssumption`,
`MutationAssumption`). They say that ids
and rows have the right shape, that the initial table satisfies BR-02 at time
0, that the pool has at least one connection, and that a mutation is a sequence
of edits. The number of sessions, rows, users, instruments, requests, callers,
connections and mutations is arbitrary, and nothing is assumed finite, but for
`InsertsNeverWait`, which counts and has this as its hypothesis.

- `PolicyShapes`, `PolicyRefusalsAreStable`: the tables, for every lead time.
  The first makes the `AssertionError` branches of the service dead code, which
  is why they have no action.
- `LedgerType`, `LedgerExclusive`: BR-02 for the ledger. The step that counts is
  `AllocateKeepsExclusive` in `ReservationStoreProofs`: the allocated row was
  checked against what held the instrument at `now`; what holds it at a later
  time held it then too, because an expired request never revives.
  `TimeKeepsExclusive` is the same fact for a tick.
- `ServiceInvariant`: `IInv` is inductive. BR-02 and the refinement are not
  inductive alone: at `Commit` the row is written from a copy read several
  statements ago. `IInv` is `Coherent`, which says why the copy is still true,
  `Timely`, that nobody judges by a time that has not come, and `Orderly`, that
  there is no answer before the service function has returned and that locks
  are held by those at work only. `Coherent` and `Orderly` do not mention the
  clock and are kept by `StepBack` as well (`CoherentAlways`); what rests on
  them alone is proved of `UnsteadySpec`, which `Spec` implies
  (`SteadyIsUnsteady`). The parts of `Coherent`:
  `RowIsFresh`: whoever works on a reservation holds its lock, and its copy
  equals the committed row. `Entitled`: past the permission check the caller is
  permitted. `AllocationIsGuarded`: whoever is about to commit an allocation
  holds the instrument's lock, and its overlap query, asked at its own `now`,
  is still empty. `WriteIsLegal`: any other write under way is one of the state
  diagram. `RequestFits`: control state and request agree. The interesting case
  is `Commit` of another session: it cannot add a conflicting row, because both
  would hold the lock of the one instrument. `SessionFrame`, `LocalStep` and
  `LocalFrame` isolate what a step of one session does to the others.
- `ServiceImplementsLedger`: every `InsertDraft`, `Commit` and `Tick` is a step
  of the ledger, every other step a stutter (`QuietStep`).
- `ServiceJudgesOnArrival`: the same argument, with the instant named; of
  `UnsteadySpec`, since the instant is the one that was read.
- `ServiceExclusive`: BR-02 for the service, from `IInv` and the store lemmas.
- `AllocationsStayExclusive`: of `UnsteadySpec`, from `Coherent` alone: a
  confirmed row blocks at any time, so a later allocation saw it.
- `ServiceForeignSupervisor`: of `UnsteadySpec`, from `Entitled` and
  `RowIsFresh`; an owner never changes.
- `ServiceWaitsEnd`: of `UnsteadySpec`. By `LocksWhileWorking` (a part of
  `Orderly`) the holder of an instrument is past its last wait, and the holder
  of a reservation can only wait for an instrument.
- `InsertsNeverWait`: of `UnsteadySpec`, for finitely many sessions and ids. An
  INSERT finds its instrument's row in a lock mode that lets it in, and an id:
  `IdsSuffice`, that no more creations are under way than ids are free, is kept
  because only the arrival of a creation adds one (`CreatingGrows`), while an
  insert ends one and takes one id (`InsertTakesOne`). So the bound
  `RoomForInsert` of the model never holds back a request that has arrived.
- `ServiceLocksHaveReasons`: of `UnsteadySpec`. Its own inductive invariant,
  relative to `Coherent` and `Orderly`: a step of the holder keeps or drops its
  locks (`OwnStepKeepsReasons`); steps of others leave them, and the row of a
  locked reservation, alone (`LockedStays`, `OthersKeepReasons`). The case that
  `Coherent` does not cover is a session that was refused by the overlap query
  and is not closed yet: it holds two locks although it has its answer.
- `ServiceOnlyRivalsWait`: of `UnsteadySpec`, from these reasons: two sessions
  with different locks on reservations are about different reservations.
- `ServiceImplementsApi`: of `UnsteadySpec`. One lemma for each group of
  statements says that it is the atomic answer of the API or unseen by it
  (`CreateMaps`, `CheckMaps`, `TurnAwayMaps`, ..., `CommitMaps`); the
  linearization point is the statement that fixes the answer.
- `ServiceCancelSuccess`: of `UnsteadySpec`, from the same lemmas and
  `CancelledIsFinal`.
- `ServiceReplyMatchesWrite`: of `UnsteadySpec`. `WritingStep` says who writes,
  `WritersAnswer` who answers OK or EXPIRED; both name `InsertDraft` and
  `Commit`, and `InsertTurns` and `CommitTurns` say what these write. That a
  `Commit` changes its row at all rests on `WriteIsLegal` and `RowIsFresh`: the
  state it writes is never the one it read, and the row has not changed since.
- `ServiceAvailableMeansFree`: of `Spec`, since it needs `Timely`: a request
  alive at the true time was alive at the older time of the query.
  `ServiceDeadRefuseNobody`, its converse for refusals, does not.
- `ClientRepeatsAreHarmless`, `ClientHeardStands`: every attempt of a caller
  carries its one intent; `Marked` says what the reservation still shows of
  what was written for a caller, whatever others did since, and `Told` what an
  answer, under way or believed, entails. `ClientType` comes with them.
- `ClientKeepsContract`, `ContractExclusive`: callers use the server within the
  contract, and the contract alone, without statements and locks, keeps
  allocations apart. `AllocatedAlone` is its core: a row becomes CONFIRMED only
  in a step in which nothing else held its interval. Together with
  `ServiceImplementsApi` this is the core of BR-02 from the caller to the row
  lock.
- `ClientImplementsLedger`: callers move reservations only along the state
  diagram. An answer that writes is one ledger step, judged at the arrival of
  its request, an instant no later than the clock; `CreateIsLedgerStep` and
  `MoveIsLedgerStep` give the two kinds, and losing or repeating an answer
  changes neither rows nor clock.
- `PoolImplementsService`: step by step; `PoolKeepsGuarantees` draws the
  consequence, that all that is proved of the service holds over the pool.
  `PoolLocksNeedConnections` uses `LocksWhileWorking` of the service: a session
  that has not connected yet holds no lock. `PoolAlwaysDrains` follows a chain
  of waits: whom a holder of a connection waits for holds one too, by
  `PoolLocksNeedConnections`, and the chain ends, by `ServiceWaitsEnd`;
  `ConnectedWork` (a connection is never left with an idle session) is its own
  invariant. `PoolTypeCorrect`: the bound on connections; that `connected` is
  finite is proved with it. `PoolFailureLeavesNoTrace`: by `Unanswered`, since
  a session asks for a connection before its first statement only.
- `SystemImplementsClients`: a step of a caller over the pool is one over the
  contract or unseen by it: `Ask` is `Send` (`AskSends`), `Work` is `Serve` at
  the statement that fixes the answer and a stutter before (`WorkServes`, from
  `ServingMaps` of the refinement of the API), the ends are `Deliver`, `Lose`
  and `Crash` (`EndingMaps`). A timeout of the pool is a `Crash`: the request
  has not begun its first statement.
- `SystemRetriesAreHarmless`: `Retries` instantiates the module of the callers'
  proofs with the mapping, so that its theorems become theorems about the
  system; `RetriesStep` shows that the two instances have the same steps.
- `SystemRepeatsStopEarly`: three invariants meet. The callers' (`ClientInv`)
  says what the committed row shows once a request took effect, `Coherent` that
  whoever is past the decision has a copy of that row in a state to allocate or
  to leave, and `LocksHaveReasons` the same of whoever still holds an
  instrument after a refusal. They exclude each other.
- `ServiceAllocationsHaveGrounds`, `ServiceRefusalsHaveGrounds`: of
  `GroundedSpec`. The inductive invariant says what a session must remember at
  each statement: while it decides and certifies, what is so at this moment;
  past the decision, a ground of the instrument, for a confirmation the one for
  its `target`; past `Certify`, also the owner's certificate. The row under the
  lock cannot change (`Coherent`), so what was remembered is about the same owner,
  day and instrument.
- `ExitZero`, `Survivors`: the copy holds the edits of the
  mutation under way and of no other, and every mutation taken from the table
  was tested, survived, or ended the run. `RunTyped` rests on the same
  invariant: no edits are applied without a mutation.

Only model-checked: `CreateNeverWaits` (ENABLED; that the guard of the statement
holds is proved, `InsertsNeverWait`), `EveryRequestFinishes` and
`EveryIntentIsAnswered` (liveness under fairness) are outside the prover's
reach. The safety part of `EveryRequestFinishes`, that no circle of waits
closes, is proved (`ServiceWaitsEnd`, `PoolAlwaysDrains`); what stays with TLC
is that the fair scheduling brings everybody his turn. `AnswersAsAnnounced` is
about one fixed walk and the instance TLC checks is all of it, but for the
hour at which the script starts.

## 5. Not modelled

- Validation of request bodies (422), which ends a request before a session is
  opened, the layout of responses, the health endpoint: no state.
- `config.py`: one value, read once.
- Repeated creations: OP-01 has no idempotency key, so a caller who lost the
  answer makes a second draft. No document says otherwise, and BR-02 lets at
  most one of them hold the instrument.
- Uniqueness of e-mail addresses and of certificates, deleted rows: no
  operation of the service writes or deletes them.
- Serialization failures and lock timeouts: none occur in READ COMMITTED with
  the default settings; deadlocks are excluded by `WaitsEnd`.
- Two runs of the test suite on one database, which the head of
  `scripts/mutation_check.py` forbids and nothing prevents.
- The printed report of the mutation script beyond its exit code.
- Notifications (TBD-03) and the cleaning of dead requests (TBD-08): not in
  the code.

## 6. Plan

Done: policy, store, ledger, API, service, callers, pool, the whole system, both
scripts, their runs, and the theorems above.

1. Liveness of the whole system: fairness of `PooledFairness` and of the callers
   together should give `EveryIntentIsAnswered` over the pool. TLC checks the two
   parts apart (`progress`, `client`).
2. The request bodies that pydantic refuses (422), as one more answer.
