------------------------- MODULE ReservationSystem -------------------------
(***************************************************************************)
(* The whole path of a request: callers who lose answers and ask again,    *)
(* over the pool of connections, over the statements of the service.       *)
(* Every step is one of ReservationPool together with what the callers of  *)
(* ReservationClient make of it; the contract in between is gone.          *)
(***************************************************************************)
EXTENDS ReservationPool

CONSTANTS
  Clients,      \* the callers
  connection,   \* whose request each session serves
  Wishes        \* what each caller may want

ASSUME SystemAssumption ==
  /\ connection \in [Sessions -> Clients]
  /\ Wishes \in [Clients -> SUBSET Requests]

VARIABLES
  intent,   \* what the caller wants
  heard,    \* the answer it believes
  took      \* ghost: the state written for it, whether it knows or not

callers == <<intent, heard, took>>
systemVars == <<poolVars, callers>>

Client == INSTANCE ReservationClient WITH
            phase <- [s \in Sessions |-> PhaseOf(pc[s])],
            answer <- result

SystemInit ==
  /\ PoolInit
  /\ intent = [c \in Clients |-> NoRequest]
  /\ heard = [c \in Clients |-> None]
  /\ took = [c \in Clients |-> None]

-----------------------------------------------------------------------------
Choose(c) == UNCHANGED poolVars /\ Client!Decide(c)

(* The first attempt or another one. *)
Ask(s) ==
  /\ intent[connection[s]] # NoRequest
  /\ heard[connection[s]] = None
  /\ PooledBegin(s)
  /\ req'[s] = intent[connection[s]]
  /\ UNCHANGED callers

(* The service gets its connection, executes a statement, or is let into a *)
(* critical section.                                                       *)
Work(s) ==
  /\ \/ Checkout(s)
     \/ (Statement(s) \/ Committing(s)) /\ Calm
     \/ PooledLockReservation(s) \/ PooledLockInstrument(s)
  /\ Client!Note(s)
  /\ UNCHANGED <<intent, heard>>

Respond(s) ==
  /\ Leaving(s) /\ Calm
  /\ Client!Believe(s)
  /\ UNCHANGED <<intent, took>>

(* The answer is lost; the process dies; or there is no connection, and    *)
(* what the caller is told, 500, is nothing he can believe.                *)
Fail(s) ==
  /\ (Leaving(s) /\ Calm) \/ Dying(s) \/ PoolTimeout(s)
  /\ UNCHANGED callers

Elsewhere == Around /\ UNCHANGED callers

SystemNext ==
  \/ \E c \in Clients : Choose(c)
  \/ \E s \in Sessions : Ask(s) \/ Work(s) \/ Respond(s) \/ Fail(s)
  \/ Elsewhere

SystemSpec == SystemInit /\ [][SystemNext]_systemVars

-----------------------------------------------------------------------------
(* What is promised to callers of the contract is promised to callers of   *)
(* the running service: its statements, locks, connections and timeouts    *)
(* are invisible to them, except as answers that never come.               *)
ImplementsClients == Client!ClientSpec

(* ADR-01 under retries: once the request of a caller has taken effect, no *)
(* attempt that is repeated or was overtaken gets past the decision, so    *)
(* none waits for, or holds, the instrument that others want to allocate.  *)
RepeatsStopEarly ==
  \A s \in Sessions :
    (req[s].op \in ActorOps /\ took[connection[s]] # None)
      => /\ pc[s] \notin {"certify", "lock_instrument", "overlap", "commit"}
         /\ \A i \in Instruments : insLock[i] # s
=============================================================================
