-------------------------- MODULE ReservationClient --------------------------
(***************************************************************************)
(* Callers of the HTTP API over a network that loses answers.  A caller    *)
(* wants one thing and asks for it again until it is told how it ended,    *)
(* over any of its connections: a repetition may overtake a first attempt  *)
(* it gave up waiting for.  The server is ReservationApi, which the        *)
(* service implements; main.py turns its rejections into HTTP statuses.    *)
(***************************************************************************)
EXTENDS ReservationApi

CONSTANTS
  Clients,      \* the callers
  connection,   \* whose request each session serves
  Wishes        \* what each caller may want

ASSUME ClientAssumption ==
  /\ connection \in [Sessions -> Clients]
  /\ Wishes \in [Clients -> SUBSET Requests]

VARIABLES
  intent,   \* what the caller wants
  heard,    \* the answer it believes
  took      \* ghost: the state written for it, whether it knows or not

clientVars == <<vars, intent, heard, took>>

ClientTypeOK ==
  /\ TypeOK
  /\ intent \in [Clients -> Request \cup {NoRequest}]
  /\ heard \in [Clients -> Answers]
  /\ took \in [Clients -> ReservationState \cup {None}]

ClientInit ==
  /\ Init
  /\ intent = [c \in Clients |-> NoRequest]
  /\ heard = [c \in Clients |-> None]
  /\ took = [c \in Clients |-> None]

-----------------------------------------------------------------------------
(* main.py: the status of each rejection, entry by entry; nothing makes    *)
(* the table have every code.                                              *)

(* Mutant: the codes that came with v0.2 have no status. *)
StatusesOfV01 ==
  [UNKNOWN_USER |-> 404, UNKNOWN_INSTRUMENT |-> 404, NOT_FOUND |-> 404,
   FORBIDDEN |-> 403, INVALID_INTERVAL |-> 400, START_IN_PAST |-> 400,
   INSTRUMENT_INACTIVE |-> 409, INVALID_STATE |-> 409,
   MISSING_CERTIFICATION |-> 409, OVERLAP |-> 409, TOO_LATE |-> 409]

STATUS_BY_CODE ==
  [UNKNOWN_USER |-> 404, UNKNOWN_INSTRUMENT |-> 404, NOT_FOUND |-> 404,
   FORBIDDEN |-> 403, INVALID_INTERVAL |-> 400, START_IN_PAST |-> 400,
   INSTRUMENT_INACTIVE |-> 409, INVALID_STATE |-> 409,
   MISSING_CERTIFICATION |-> 409, OVERLAP |-> 409, TOO_LATE |-> 409,
   EXPIRED |-> 409, ALREADY_STARTED |-> 409]

(* OP-02 answers 200 also when the instrument is out of service, and a     *)
(* rejection the table does not have is a KeyError in the handler.         *)
Status(op, code) ==
  IF code \notin ErrorCode \/ (op = "check" /\ code = "INSTRUMENT_INACTIVE")
  THEN 200
  ELSE IF code \in DOMAIN STATUS_BY_CODE THEN STATUS_BY_CODE[code] ELSE 500

-----------------------------------------------------------------------------
Decide(c) ==
  /\ intent[c] = NoRequest
  /\ \E q \in Wishes[c] : intent' = [intent EXCEPT ![c] = q]
  /\ UNCHANGED <<vars, heard, took>>

(* The first attempt or another one. *)
Send(s) ==
  /\ intent[connection[s]] # NoRequest
  /\ heard[connection[s]] = None
  /\ Call(s, intent[connection[s]])
  /\ UNCHANGED <<intent, heard, took>>

(* The ghost notes whose request wrote what. *)
Note(s) ==
  took' = IF reservations' = reservations THEN took
          ELSE [took EXCEPT ![connection[s]] =
                  CHOOSE state \in ReservationState :
                    \E r \in ReservationIds :
                      /\ reservations'[r] # reservations[r]
                      /\ reservations'[r].state = state]

Serve(s) == Answer(s) /\ Note(s) /\ UNCHANGED <<intent, heard>>

(* A server error tells the caller nothing; what arrives after it believed *)
(* another answer is ignored.                                              *)
Believe(s) ==
  LET c == connection[s] IN
  heard' = IF heard[c] = None /\ Status(req[s].op, answer[s]) # 500
           THEN [heard EXCEPT ![c] = answer[s]] ELSE heard

Deliver(s) == Close(s) /\ Believe(s) /\ UNCHANGED <<intent, took>>

(* The answer is lost, or the server dies before it has answered. *)
Lose(s) == Close(s) /\ UNCHANGED <<intent, heard, took>>

Crash(s) == Die(s) /\ UNCHANGED <<intent, heard, took>>

Pass == Tick /\ UNCHANGED <<intent, heard, took>>

ClientNext ==
  \/ \E c \in Clients : Decide(c)
  \/ \E s \in Sessions : \/ Send(s) \/ Serve(s) \/ Deliver(s)
                         \/ Lose(s) \/ Crash(s)
  \/ Pass

ClientSpec == ClientInit /\ [][ClientNext]_clientVars

(* A caller does not give up, and neither do all of its attempts die nor   *)
(* are all of its answers lost.                                            *)
ClientFairness ==
  \A c \in Clients :
    LET Own == {s \in Sessions : connection[s] = c} IN
    /\ SF_clientVars(\E s \in Own : Send(s))
    /\ SF_clientVars(\E s \in Own : Serve(s))
    /\ SF_clientVars(\E s \in Own : Deliver(s))

FairClientSpec == ClientSpec /\ ClientFairness

-----------------------------------------------------------------------------
Bookings == {q.booking : q \in {x \in Requests : x.op = "create"}}

Ledger == INSTANCE ReservationLedger

(* The contract of the API and the state diagram agree: callers who lose   *)
(* answers, repeat requests and overtake themselves move reservations only *)
(* by its transitions, each judged at an instant that has been.            *)
ImplementsLedger == Ledger!Spec

(* REQ-09 and the state conditions of OP-03 and OP-05 under retries: once  *)
(* the request of a caller has taken effect, an attempt that comes after   *)
(* it - sent in ignorance, overtaken, or late - writes nothing, whatever   *)
(* others did to the reservation in between and however late it is, and is *)
(* answered by what says so: a cancellation by success, anything else by   *)
(* INVALID_STATE, never by a rejection that asks for another attempt.      *)
RepeatsAreHarmless ==
  [][ \A s \in Sessions :
        (/\ phase[s] = "called" /\ phase'[s] = "answered"
         /\ req[s].op \in ActorOps /\ took[connection[s]] # None)
        => /\ reservations' = reservations
           /\ answer'[s] = IF took[connection[s]] = "CANCELLED"
                           THEN "UNCHANGED" ELSE "INVALID_STATE" ]_clientVars

(* A caller who gave up hope for an answer and asked again is not deceived *)
(* by the one he gets: a cancellation that is reported as done is done and *)
(* stays done, and so is a rejection.                                      *)
HeardStands ==
  \A c \in Clients :
    LET q == intent[c] IN
    /\ (heard[c] \in {"OK", "UNCHANGED"} /\ q.op = "cancel")
         => reservations[q.reservation_id].state = "CANCELLED"
    /\ (heard[c] = "OK" /\ q.op = "reject")
         => reservations[q.reservation_id].state = "REJECTED"

(* The mapping of codes to statuses is complete for what is answered: a    *)
(* caller who keeps asking learns how his request ended; no rejection of   *)
(* the service turns into a server error that repeats for ever.            *)
EveryIntentIsAnswered ==
  \A c \in Clients : intent[c] # NoRequest ~> heard[c] # None
=============================================================================
