----------------------- MODULE ReservationClientProofs -----------------------
(***************************************************************************)
(* Retries are harmless, for any number of callers and connections.        *)
(***************************************************************************)
EXTENDS ReservationClient, TLAPS

(* The transitions of the state diagram, by the operation that makes them. *)
Legal(op, from, to) ==
  \/ op = "confirm" /\ from = "DRAFT" /\ to \in BLOCKING_STATES
  \/ op = "cancel" /\ to = "CANCELLED"
       /\ from \in {"DRAFT", "PENDING_APPROVAL", "CONFIRMED"}
  \/ op \in {"cancel", "approve", "reject"} /\ to = "EXPIRED"
       /\ from = "PENDING_APPROVAL"
  \/ op = "approve" /\ from = "PENDING_APPROVAL" /\ to = "CONFIRMED"
  \/ op = "reject" /\ from = "PENDING_APPROVAL" /\ to = "REJECTED"

(* What an answer does to the table. *)
Inserts(s) ==
  /\ req[s].op = "create" /\ req[s].booking.user_id \in Users
  /\ req[s].booking.instrument_id \in Instruments
  /\ \E r \in ReservationIds :
       /\ reservations[r] = NoRow
       /\ reservations' = [reservations EXCEPT ![r] = DraftOf(req[s].booking)]

Moves(s) ==
  LET r == req[s].reservation_id IN
  /\ req[s].op \in ActorOps
  /\ reservations[r] # NoRow /\ MayAct(s)
  /\ \E state \in ReservationState :
       /\ Legal(req[s].op, reservations[r].state, state)
       /\ reservations' = [reservations EXCEPT ![r].state = state]
       /\ answer'[s] \in {"OK", "EXPIRED"}
       /\ answer'[s] = "OK" => state # "EXPIRED"

(* A success that writes nothing is the repetition of a cancellation. *)
Rests(s) ==
  /\ reservations' = reservations
  /\ answer'[s] # "OK"
  /\ (answer'[s] = "UNCHANGED" /\ req[s].op = "cancel") =>
        reservations[req[s].reservation_id].state = "CANCELLED"

LEMMA ReplyTells ==
  ASSUME TypeOK, NEW s \in Sessions, NEW code, Reply(s, code)
  PROVE  answer'[s] = code /\ phase[s] = "called"
BY DEF Reply, TypeOK

LEMMA AnswerShape ==
  ASSUME TypeOK, NEW s \in Sessions, Answer(s)
  PROVE  Inserts(s) \/ Moves(s) \/ Rests(s)
<1> USE DEF Refuse, Write
<1>1. ASSUME NEW code, Refuse(s, code), code \notin {"OK", "UNCHANGED"}
      PROVE  Rests(s)
  BY <1>1, ReplyTells DEF Rests
<1>2. ASSUME NEW state \in ReservationState, NEW code \in {"OK", "EXPIRED"},
             Write(s, state, code), code = "OK" => state # "EXPIRED",
             req[s].op \in ActorOps, Subject(s) # NoRow, MayAct(s),
             Legal(req[s].op, Subject(s).state, state)
      PROVE  Moves(s)
  BY <1>2, ReplyTells DEF Moves, Subject
<1>3. CASE Create(s)
  <2>1. CASE \E code \in ErrorCode : Refuse(s, code)
    BY <1>1, <2>1 DEF ErrorCode
  <2>2. CASE Inserts(s)
    BY <2>2
  <2>3. QED
    BY <1>3, <2>1, <2>2 DEF Create, Inserts, ErrorCode
<1>4. CASE Check(s)
  BY <1>1, <1>4 DEF Check, AvailabilityAnswer
<1>5. CASE TurnAway(s)
  BY <1>1, <1>5 DEF TurnAway
<1>6. ASSUME NEW state \in BLOCKING_STATES, Allocate(s, state),
             req[s].op \in ActorOps, Subject(s) # NoRow, MayAct(s),
             Legal(req[s].op, Subject(s).state, state)
      PROVE  Moves(s) \/ Rests(s)
  <2>1. CASE Write(s, state, "OK")
    BY <1>2, <1>6, <2>1 DEF BLOCKING_STATES, ReservationState
  <2>2. QED
    BY <1>1, <1>6, <2>1 DEF Allocate
<1>7. CASE Confirm(s)
  BY <1>1, <1>6, <1>7 DEF Confirm, Concerns, Legal, ActorOps
<1>8. CASE Cancel(s)
  <2>1. CASE Subject(s).state = "CANCELLED"
    <3>1. Refuse(s, "UNCHANGED") /\ Subject(s).state = "CANCELLED"
      BY <1>8, <2>1 DEF Cancel
    <3>2. QED
      BY <3>1, ReplyTells DEF Rests, Subject
  <2>2. CASE Subject(s).state # "CANCELLED"
    <3>1. \/ Refuse(s, "INVALID_STATE") \/ Refuse(s, "TOO_LATE")
          \/ Dead(s) /\ Write(s, "EXPIRED", "EXPIRED")
          \/ /\ Write(s, "CANCELLED", "OK")
             /\ Subject(s).state \notin {"CANCELLED", "REJECTED", "EXPIRED"}
      BY <1>8, <2>2 DEF Cancel
    <3>2. req[s].op = "cancel" /\ Subject(s) # NoRow /\ MayAct(s)
      BY <1>8 DEF Cancel, Concerns
    <3>3. Subject(s).state \in ReservationState
      BY <3>2 DEF TypeOK, Subject, Table, Row, Request, ActorRequest,
                  CreateRequest, CheckRequest, NoRequest
    <3>4. QED
      BY <1>1, <1>2, <3>1, <3>2, <3>3 DEF Dead, Legal, ActorOps, ReservationState
  <2>3. QED
    BY <2>1, <2>2
<1>9. CASE DecideOn(s)
  BY <1>1, <1>2, <1>6, <1>9
  DEF DecideOn, Concerns, Dead, Legal, ActorOps, ReservationState,
      BLOCKING_STATES
<1>10. QED
  BY <1>3, <1>4, <1>5, <1>7, <1>8, <1>9 DEF Answer

-----------------------------------------------------------------------------
(* The invariant: what was written for a caller has marked its reservation *)
(* for good, and what was answered is still so.                            *)

Final == {"CANCELLED", "REJECTED", "EXPIRED"}

(* Caller and reservation after the caller's request took effect. *)
Marked(q, state) ==
  LET row == reservations[q.reservation_id] IN
  q.op \in ActorOps =>
    /\ row \in Row /\ q.requested_by \in Users
    /\ \/ /\ q.requested_by \in Supervisors
          /\ q.op \in {"approve", "reject"} => q.requested_by # row.user_id
       \/ /\ q.requested_by = row.user_id
          /\ q.op \in {"confirm", "cancel"}
    /\ q.op = "confirm" => state # "CANCELLED" /\ row.state # "DRAFT"
    /\ q.op = "cancel" => state \in {"CANCELLED", "EXPIRED"} /\ row.state = state
    /\ q.op \in {"approve", "reject"} =>
         state # "CANCELLED" /\ row.state \notin {"DRAFT", "PENDING_APPROVAL"}

Told(q, code) ==
  LET row == reservations[q.reservation_id] IN
  /\ (q.op = "cancel" /\ code \in {"OK", "UNCHANGED"})
       => row.state = "CANCELLED"
  /\ (q.op = "reject" /\ code = "OK") => row.state = "REJECTED"

ClientInv ==
  /\ ClientTypeOK
  /\ \A s \in Sessions : phase[s] # "idle" =>
       req[s] = intent[connection[s]] /\ req[s] \in Request
  /\ \A c \in Clients : took[c] # None =>
       intent[c] \in Request /\ Marked(intent[c], took[c])
  /\ \A s \in Sessions : phase[s] = "answered" => Told(req[s], answer[s])
  /\ \A c \in Clients : heard[c] # None =>
       intent[c] \in Request /\ Told(intent[c], heard[c])

(* No answer to anybody takes a mark away. *)
LEMMA RowsOnlyAdvance ==
  ASSUME TypeOK, NEW s \in Sessions, Answer(s), req[s] \in Request,
         NEW r \in ReservationIds, reservations[r] \in Row
  PROVE  /\ reservations'[r] \in Row
         /\ reservations'[r].user_id = reservations[r].user_id
         /\ reservations'[r].state # reservations[r].state =>
              /\ reservations[r].state \notin Final
              /\ reservations'[r].state # "DRAFT"
              /\ reservations'[r].state = "PENDING_APPROVAL"
                   => reservations[r].state = "DRAFT"
<1>1. Inserts(s) \/ Moves(s) \/ Rests(s)
  BY AnswerShape
<1>2. CASE Inserts(s)
  BY <1>2 DEF Inserts, TypeOK, Table, Row, NoRow, ReservationState
<1>3. CASE Moves(s)
  BY <1>3 DEF Moves, TypeOK, Table, Row, Legal, Final, BLOCKING_STATES
<1>4. CASE Rests(s)
  BY <1>4 DEF Rests
<1>5. QED
  BY <1>1, <1>2, <1>3, <1>4

LEMMA MarksStay ==
  ASSUME TypeOK, NEW s \in Sessions, Answer(s), req[s] \in Request,
         NEW q \in Request, NEW state, Marked(q, state)
  PROVE  Marked(q, state)'
<1>1. CASE q.op \notin ActorOps
  BY <1>1 DEF Marked
<1>2. CASE q.op \in ActorOps
  <2>1. /\ q.reservation_id \in ReservationIds
        /\ reservations[q.reservation_id] \in Row
    BY <1>2 DEF Marked, Request, ActorRequest, CreateRequest, CheckRequest,
                ActorOps
  <2>2. QED
    BY <1>2, <2>1, RowsOnlyAdvance DEF Marked, Final
<1>3. QED
  BY <1>1, <1>2

LEMMA WordsStay ==
  ASSUME TypeOK, NEW s \in Sessions, Answer(s), req[s] \in Request,
         NEW q \in Request, NEW code, Told(q, code)
  PROVE  Told(q, code)'
<1>1. CASE q.op \notin {"cancel", "reject"}
  BY <1>1 DEF Told
<1>2. CASE q.op \in {"cancel", "reject"}
  <2>1. q.reservation_id \in ReservationIds
    BY <1>2 DEF Request, ActorRequest, CreateRequest, CheckRequest
  <2>2. reservations[q.reservation_id].state \in Final
          => reservations[q.reservation_id] \in Row
    BY <2>1 DEF TypeOK, Table, NoRow, Final
  <2>3. QED
    BY <1>2, <2>1, <2>2, RowsOnlyAdvance DEF Told, Final
<1>3. QED
  BY <1>1, <1>2

LEMMA AnswerFrame ==
  ASSUME TypeOK, NEW s \in Sessions, Answer(s)
  PROVE  /\ phase[s] = "called" /\ phase' = [phase EXCEPT ![s] = "answered"]
         /\ UNCHANGED <<clock, req, now>>
         /\ \E code : answer' = [answer EXCEPT ![s] = code] /\ code \in Answers
<1> USE DEF Answer, Refuse, Write
<1>1. PICK code : Reply(s, code) /\ code \in Answers
  <2>1. CASE Create(s) \/ Check(s) \/ TurnAway(s)
    BY <2>1 DEF Create, Check, TurnAway, AvailabilityAnswer, Answers, ErrorCode
  <2>2. CASE Confirm(s) \/ Cancel(s) \/ DecideOn(s)
    BY <2>2 DEF Confirm, Cancel, DecideOn, Allocate, Answers, ErrorCode
  <2>3. QED
    BY <2>1, <2>2
<1>2. QED
  BY <1>1 DEF Reply

LEMMA AnswerTyped ==
  ASSUME TypeOK, NEW s \in Sessions, Answer(s), req[s] \in Request
  PROVE  TypeOK'
<1>1. reservations' \in Table
  <2>1. CASE Inserts(s)
    <3>1. DraftOf(req[s].booking) \in Row
      BY <2>1 DEF Inserts, Request, CreateRequest, CheckRequest, ActorRequest,
         ActorOps, DraftOf, Row, ReservationState
    <3>2. QED
      BY <2>1, <3>1 DEF Inserts, TypeOK, Table
  <2>2. CASE Moves(s)
    <3>1. /\ req[s].reservation_id \in ReservationIds
          /\ reservations[req[s].reservation_id] \in Row
      BY <2>2 DEF Moves, Request, ActorRequest, CreateRequest, CheckRequest,
         ActorOps, TypeOK, Table
    <3>2. QED
      BY <2>2, <3>1 DEF Moves, TypeOK, Table, Row
  <2>3. CASE Rests(s)
    BY <2>3 DEF Rests, TypeOK
  <2>4. QED
    BY <2>1, <2>2, <2>3, AnswerShape
<1>2. QED
  BY <1>1, AnswerFrame DEF TypeOK

(* What is written for a caller marks his reservation. *)
LEMMA ServeMarks ==
  ASSUME ClientTypeOK, NEW s \in Sessions, Serve(s), req[s] \in Request,
         reservations' # reservations
  PROVE  /\ took'[connection[s]] \in ReservationState
         /\ Marked(req[s], took[connection[s]])'
<1> DEFINE written(x) == \E r \in ReservationIds :
                           /\ reservations'[r] # reservations[r]
                           /\ reservations'[r].state = x
<1>1. took'[connection[s]] = CHOOSE x \in ReservationState : written(x)
  BY ClientAssumption DEF Serve, Note, ClientTypeOK
<1>2. TypeOK /\ Answer(s) /\ req' = req
  BY AnswerFrame DEF Serve, ClientTypeOK
<1>3. CASE Inserts(s)
  <2>1. PICK r \in ReservationIds :
          /\ reservations[r] = NoRow
          /\ reservations' = [reservations EXCEPT ![r] = DraftOf(req[s].booking)]
    BY <1>3 DEF Inserts
  <2>2. written("DRAFT") /\ "DRAFT" \in ReservationState
    BY <1>2, <2>1 DEF TypeOK, Table, NoRow, DraftOf, ReservationState
  <2>3. req[s].op \notin ActorOps
    BY <1>3 DEF Inserts, ActorOps
  <2>4. QED
    BY <1>1, <1>2, <2>2, <2>3 DEF Marked
<1>4. CASE Moves(s)
  <2> DEFINE r == req[s].reservation_id
  <2>1. r \in ReservationIds /\ reservations[r] \in Row
    BY <1>2, <1>4 DEF Moves, Request, ActorRequest, CreateRequest, CheckRequest,
       ActorOps, TypeOK, Table
  <2>2. PICK state \in ReservationState :
          /\ Legal(req[s].op, reservations[r].state, state)
          /\ reservations' = [reservations EXCEPT ![r].state = state]
    BY <1>4 DEF Moves
  <2>3. /\ reservations'[r] = [reservations[r] EXCEPT !.state = state]
        /\ \A q \in ReservationIds : q # r => reservations'[q] = reservations[q]
    BY <1>2, <2>1, <2>2 DEF TypeOK, Table
  <2>4. reservations'[r].state = state /\ reservations[r].state # state
    BY <2>1, <2>2, <2>3 DEF Legal, Row, BLOCKING_STATES
  <2>5. \A x : written(x) <=> x = state
    BY <2>1, <2>3, <2>4
  <2>6. took'[connection[s]] = state
    BY <1>1, <2>2, <2>5
  <2>7. reservations'[r] \in Row
        /\ reservations'[r].user_id = reservations[r].user_id
    BY <2>1, <2>3 DEF Row
  <2>8. MayAct(s)
    BY <1>4 DEF Moves
  <2>9. req[s].op \in ActorOps /\ req' = req
    BY <1>2, <1>4 DEF Moves
  <2>10. Marked(req[s], took[connection[s]])'
    BY <2>2, <2>4, <2>6, <2>7, <2>8, <2>9
    DEF Marked, MayAct, Subject, Legal, BLOCKING_STATES, ActorOps
  <2>11. QED
    BY <2>2, <2>6, <2>10
<1>5. CASE Rests(s)
  BY <1>5 DEF Rests
<1>6. QED
  BY <1>2, <1>3, <1>4, <1>5, AnswerShape

LEMMA AnswerTells ==
  ASSUME TypeOK, NEW s \in Sessions, Answer(s), req[s] \in Request
  PROVE  Told(req[s], answer[s])'
<1>1. req' = req
  BY AnswerFrame
<1>2. CASE Inserts(s)
  BY <1>1, <1>2 DEF Inserts, Told
<1>3. CASE Moves(s)
  <2>1. req[s].reservation_id \in ReservationIds
        /\ reservations[req[s].reservation_id] \in Row
    BY <1>3 DEF Moves, Request, ActorRequest, CreateRequest, CheckRequest,
       ActorOps, TypeOK, Table
  <2>2. QED
    BY <1>1, <1>3, <2>1
    DEF Moves, Told, Legal, TypeOK, Table, Row, BLOCKING_STATES
<1>4. CASE Rests(s)
  BY <1>1, <1>4 DEF Rests, Told
<1>5. QED
  BY <1>2, <1>3, <1>4, AnswerShape

LEMMA ServeKeeps ==
  ASSUME ClientInv, NEW s \in Sessions, Serve(s) PROVE ClientInv'
<1> DEFINE me == connection[s]
<1>1. /\ TypeOK /\ Answer(s) /\ UNCHANGED <<intent, heard>>
      /\ phase[s] = "called" /\ phase' = [phase EXCEPT ![s] = "answered"]
      /\ UNCHANGED <<clock, req, now>>
      /\ \E code : answer' = [answer EXCEPT ![s] = code] /\ code \in Answers
      /\ me \in Clients
  BY AnswerFrame, ClientAssumption DEF ClientInv, ClientTypeOK, Serve
<1>2. req[s] = intent[me] /\ req[s] \in Request
  BY <1>1 DEF ClientInv
<1>3. \/ UNCHANGED took
      \/ /\ took'[me] \in ReservationState
         /\ took' = [took EXCEPT ![me] = took'[me]]
         /\ Marked(req[s], took[me])'
  <2>1. CASE reservations' = reservations
    BY <2>1 DEF Serve, Note
  <2>2. CASE reservations' # reservations
    <3>1. /\ took'[me] \in ReservationState /\ Marked(req[s], took[me])'
      BY <1>2, <2>2, ServeMarks DEF ClientInv
    <3>2. took' = [took EXCEPT ![me] = took'[me]]
      <4>1. \E x : took' = [took EXCEPT ![me] = x]
        BY <2>2, Zenon DEF Serve, Note
      <4>2. took \in [Clients -> ReservationState \cup {None}]
        BY DEF ClientInv, ClientTypeOK
      <4>3. QED
        BY <1>1, <4>1, <4>2
    <3>3. QED
      BY <3>1, <3>2
  <2>3. QED
    BY <2>1, <2>2
<1>4. ClientTypeOK'
  <2>1. TypeOK'
    BY <1>1, <1>2, AnswerTyped
  <2>2. QED
    BY <1>1, <1>3, <2>1 DEF ClientInv, ClientTypeOK
<1>5. ASSUME NEW t \in Sessions, phase'[t] # "idle"
      PROVE  req'[t] = intent'[connection[t]] /\ req'[t] \in Request
  BY <1>1, <1>5 DEF ClientInv, TypeOK
<1>6. ASSUME NEW c \in Clients, took'[c] # None
      PROVE  intent'[c] \in Request /\ Marked(intent[c], took[c])'
  <2>1. CASE c = me /\ took' # took
    BY <1>1, <1>2, <1>3, <2>1 DEF Marked
  <2>2. CASE took'[c] = took[c]
    <3>1. intent[c] \in Request /\ Marked(intent[c], took[c])
      BY <1>6, <2>2 DEF ClientInv
    <3>2. Marked(intent[c], took[c])'
      <4>1. ASSUME NEW q \in Request, NEW state, Marked(q, state),
                   intent' = intent, q = intent[c], state = took[c]
            PROVE  Marked(intent[c], took[c])'
        <5>1. Marked(q, state)'
          BY <1>1, <1>2, <4>1, MarksStay
        <5>2. QED
          BY <2>2, <4>1, <5>1 DEF Marked
      <4>2. QED
        BY <1>1, <3>1, <4>1
    <3>3. QED
      BY <1>1, <3>1, <3>2
  <2>3. QED
    BY <1>3, <2>1, <2>2 DEF ClientInv, ClientTypeOK
<1>7. ASSUME NEW t \in Sessions, phase'[t] = "answered"
      PROVE  Told(req[t], answer[t])'
  <2>1. CASE t = s
    BY <1>1, <1>2, <2>1, AnswerTells
  <2>2. CASE t # s
    <3>1. /\ req'[t] = req[t] /\ answer'[t] = answer[t]
          /\ req[t] \in Request /\ Told(req[t], answer[t])
      BY <1>1, <1>7, <2>2 DEF ClientInv, TypeOK
    <3>2. ASSUME NEW q \in Request, NEW code, Told(q, code),
                 q = req[t], code = answer[t]
          PROVE  Told(req[t], answer[t])'
      <4>1. Told(q, code)'
        BY <1>1, <1>2, <3>2, WordsStay
      <4>2. QED
        BY <3>1, <3>2, <4>1 DEF Told
    <3>3. QED
      BY <3>1, <3>2
  <2>3. QED
    BY <2>1, <2>2
<1>8. ASSUME NEW c \in Clients, heard'[c] # None
      PROVE  intent'[c] \in Request /\ Told(intent[c], heard[c])'
  <2>1. intent[c] \in Request /\ Told(intent[c], heard[c])
    BY <1>1, <1>8 DEF ClientInv
  <2>2. ASSUME NEW q \in Request, NEW code, Told(q, code),
               q = intent[c], code = heard[c]
        PROVE  Told(intent[c], heard[c])'
    <3>1. Told(q, code)'
      BY <1>1, <1>2, <2>2, WordsStay
    <3>2. QED
      BY <1>1, <2>2, <3>1 DEF Told
  <2>3. QED
    BY <1>1, <2>1, <2>2
<1>9. QED
  BY <1>4, <1>5, <1>6, <1>7, <1>8 DEF ClientInv

(* Every other step leaves the table alone. *)
LEMMA QuietClientStep ==
  ASSUME ClientInv, [ClientNext]_clientVars,
         ~ \E s \in Sessions : Serve(s)
  PROVE  ClientInv'
<1> USE DEF ClientInv, ClientTypeOK, Told, Marked, TypeOK
<1>1. ASSUME NEW c \in Clients, Decide(c) PROVE ClientInv'
  <2>1. PICK q \in Wishes[c] : intent' = [intent EXCEPT ![c] = q]
    BY <1>1 DEF Decide
  <2>2. q \in Request
    BY ClientAssumption, ApiAssumption
  <2>3. intent[c] = NoRequest /\ NoRequest \notin Request
    BY <1>1 DEF Decide, NoRequest, Request, CreateRequest, CheckRequest,
                ActorRequest, ActorOps
  <2>4. UNCHANGED <<vars, heard, took>>
    BY <1>1 DEF Decide
  <2>5. \A d \in Clients : intent[d] \in Request => intent'[d] = intent[d]
    BY <2>1, <2>3
  <2>6. ClientTypeOK'
    BY <2>1, <2>2, <2>4 DEF vars
  <2>7. QED
    BY <2>4, <2>5, <2>6, ClientAssumption DEF vars
<1>2. ASSUME NEW s \in Sessions, Send(s) PROVE ClientInv'
  <2>1. intent[connection[s]] \in Request /\ connection[s] \in Clients
    BY <1>2, ClientAssumption DEF Send
  <2>2. /\ phase' = [phase EXCEPT ![s] = "called"]
        /\ req' = [req EXCEPT ![s] = intent[connection[s]]]
        /\ now' = [now EXCEPT ![s] = clock]
        /\ UNCHANGED <<reservations, clock, answer, intent, heard, took>>
    BY <1>2 DEF Send, Call
  <2>3. ClientTypeOK'
    BY <2>1, <2>2
  <2>4. QED
    BY <2>1, <2>2, <2>3
<1>3. ASSUME NEW s \in Sessions, Gone(s), UNCHANGED <<intent, took>>,
             \/ UNCHANGED heard
             \/ /\ heard' = [heard EXCEPT ![connection[s]] = answer[s]]
                /\ phase[s] = "answered"
      PROVE  ClientInv'
  <2>1. /\ phase' = [phase EXCEPT ![s] = "idle"]
        /\ req' = [req EXCEPT ![s] = NoRequest]
        /\ now' = [now EXCEPT ![s] = 0]
        /\ answer' = [answer EXCEPT ![s] = None]
        /\ UNCHANGED <<reservations, clock, intent, took>>
    BY <1>3 DEF Gone
  <2>2. ClientTypeOK'
    BY <1>3, <2>1 DEF Answers
  <2>3. ASSUME NEW c \in Clients, heard'[c] # None
        PROVE  intent'[c] \in Request /\ Told(intent[c], heard[c])'
    <3>1. CASE heard'[c] = heard[c]
      BY <2>1, <2>3, <3>1
    <3>2. CASE heard'[c] # heard[c]
      <4>1. c = connection[s] /\ heard'[c] = answer[s] /\ phase[s] = "answered"
        BY <1>3, <3>2
      <4>2. req[s] = intent[c] /\ req[s] \in Request /\ Told(req[s], answer[s])
        BY <4>1
      <4>3. QED
        BY <2>1, <4>1, <4>2
    <3>3. QED
      BY <3>1, <3>2
  <2>4. QED
    BY <2>1, <2>2, <2>3
<1>4. ASSUME NEW s \in Sessions, Deliver(s) \/ Lose(s) \/ Crash(s) PROVE ClientInv'
  BY <1>3, <1>4 DEF Deliver, Believe, Lose, Crash, Close, Die
<1>5. CASE Pass
  BY <1>5 DEF Pass, Tick
<1>6. CASE UNCHANGED clientVars
  BY <1>6 DEF clientVars, vars
<1>7. QED
  BY <1>1, <1>2, <1>4, <1>5, <1>6 DEF ClientNext

LEMMA ClientInvariant == ClientSpec => []ClientInv
<1>1. ClientInit => ClientInv
  BY ApiAssumption
  DEF ClientInit, Init, ClientInv, ClientTypeOK, TypeOK, Answers
<1>2. ClientInv /\ [ClientNext]_clientVars => ClientInv'
  BY ServeKeeps, QuietClientStep
<1>3. QED
  BY <1>1, <1>2, PTL DEF ClientSpec

(* Callers, answers and the server's sessions are typed, in particular     *)
(* what is recorded as written for a caller is always a state.             *)
THEOREM ClientType == ClientSpec => []ClientTypeOK
BY ClientInvariant, PTL DEF ClientInv

(* Callers who repeat, lose answers and overtake themselves drive the      *)
(* server by requests it knows only: what the service is proved to do      *)
(* under the contract it does for them, and what is proved of them here    *)
(* they may count on from the service.                                     *)
THEOREM ClientKeepsContract == ClientSpec => Spec
<1> DEFINE Known == intent \in [Clients -> Requests \cup {NoRequest}]
<1>1. ClientInit => Init /\ Known
  BY DEF ClientInit
<1>2. Known /\ [ClientNext]_clientVars => Known'
  <2> SUFFICES ASSUME Known, [ClientNext]_clientVars PROVE Known'
    OBVIOUS
  <2>1. ASSUME NEW c \in Clients, Decide(c) PROVE Known'
    BY <2>1, ClientAssumption DEF Decide
  <2>2. CASE UNCHANGED intent
    BY <2>2
  <2>3. QED
    BY <2>1, <2>2 DEF ClientNext, Send, Serve, Deliver, Lose, Crash, Pass,
                      clientVars
<1>3. Known /\ [ClientNext]_clientVars => [Next]_vars
  <2> SUFFICES ASSUME Known, [ClientNext]_clientVars PROVE [Next]_vars
    OBVIOUS
  <2>1. ASSUME NEW s \in Sessions, Send(s) PROVE Next
    <3>1. intent[connection[s]] \in Requests
      BY <2>1, ClientAssumption DEF Send
    <3>2. QED
      BY <2>1, <3>1 DEF Send, Next
  <2>2. ASSUME NEW s \in Sessions,
               Serve(s) \/ Deliver(s) \/ Lose(s) \/ Crash(s)
        PROVE  Next
    BY <2>2 DEF Serve, Deliver, Lose, Crash, Next
  <2>3. CASE Pass
    BY <2>3 DEF Pass, Next
  <2>4. CASE UNCHANGED vars
    BY <2>4
  <2>5. QED
    BY <2>1, <2>2, <2>3, <2>4 DEF ClientNext, Decide, clientVars
<1>4. QED
  BY <1>1, <1>2, <1>3, PTL DEF ClientSpec, Spec

-----------------------------------------------------------------------------
(* What the contract itself promises, whoever calls. *)

(* Only Allocate makes an allocation, and it has looked at all rows. *)
LEMMA AllocatedAlone ==
  ASSUME TypeOK, NEW s \in Sessions, Answer(s), req[s] \in Request,
         NEW r \in ReservationIds, reservations'[r].state = "CONFIRMED",
         reservations[r].state # "CONFIRMED"
  PROVE  /\ r = req[s].reservation_id /\ reservations[r] \in Row
         /\ reservations' = [reservations EXCEPT ![r].state = "CONFIRMED"]
         /\ overlapping_blocking(reservations, reservations[r], now[s])
              \ {r} = {}
<1>1. reservations' # reservations
  OBVIOUS
<1>2. ~Create(s) /\ ~Check(s) /\ ~TurnAway(s)
  BY <1>1 DEF Create, Check, TurnAway, Refuse, TypeOK, Table, DraftOf
<1>3. PICK state, code : Write(s, state, code)
  BY <1>1, <1>2
  DEF Answer, Confirm, Cancel, DecideOn, Allocate, Refuse
<1>4. /\ req[s].reservation_id \in ReservationIds
      /\ Subject(s) # NoRow /\ Subject(s) \in Row
  BY <1>2 DEF Answer, Confirm, Cancel, DecideOn, Concerns, Subject, TypeOK,
    Table, Request, ActorRequest, CreateRequest, CheckRequest
<1>5. r = req[s].reservation_id /\ state = "CONFIRMED"
  BY <1>1, <1>3, <1>4 DEF Write, TypeOK, Table, Subject, Row
<1>6. PICK to \in BLOCKING_STATES : Allocate(s, to)
  BY <1>1, <1>2, <1>3, <1>4, <1>5
  DEF Answer, Confirm, Cancel, DecideOn, Refuse, Write, BLOCKING_STATES,
      TypeOK, Table, Subject, Row
<1>7. QED
  BY <1>1, <1>3, <1>4, <1>5, <1>6 DEF Allocate, Refuse, Write, Subject

LEMMA AnswerKeepsExclusive ==
  ASSUME TypeOK, AllocationsExclusive, NEW s \in Sessions, Answer(s),
         req[s] \in Request
  PROVE  AllocationsExclusive'
<1> DEFINE Allocated(r) == reservations[r].state = "CONFIRMED"
<1>1. ASSUME NEW r \in ReservationIds, Allocated(r), Allocated(r)'
      PROVE  /\ reservations'[r].instrument_id = reservations[r].instrument_id
             /\ reservations'[r].starts_at = reservations[r].starts_at
             /\ reservations'[r].ends_at = reservations[r].ends_at
  <2>1. reservations[r] \in Row
    BY <1>1 DEF TypeOK, Table, NoRow
  <2>2. CASE Inserts(s)
    BY <1>1, <2>1, <2>2 DEF Inserts, TypeOK, Table, NoRow
  <2>3. CASE Moves(s)
    BY <1>1, <2>1, <2>3 DEF Moves, TypeOK, Table, Row
  <2>4. CASE Rests(s)
    BY <2>4 DEF Rests
  <2>5. QED
    BY <2>2, <2>3, <2>4, AnswerShape
<1>2. ASSUME NEW p \in ReservationIds, NEW q \in ReservationIds, p # q,
             ~Allocated(p), Allocated(p)', Allocated(q)'
      PROVE  /\ ~Overlap(reservations'[p], reservations'[q])
             /\ ~Overlap(reservations'[q], reservations'[p])
  <2>1. /\ reservations[p] \in Row
        /\ reservations' = [reservations EXCEPT ![p].state = "CONFIRMED"]
        /\ q \notin overlapping_blocking(reservations, reservations[p], now[s])
    BY <1>2, AllocatedAlone
  <2>2. reservations'[q] = reservations[q] /\ reservations[q] \in Row
    BY <1>2, <2>1 DEF TypeOK, Table, NoRow
  <2>3. /\ reservations'[p].instrument_id = reservations[p].instrument_id
        /\ reservations'[p].starts_at = reservations[p].starts_at
        /\ reservations'[p].ends_at = reservations[p].ends_at
    BY <2>1 DEF TypeOK, Table, Row
  <2>4. QED
    BY <1>2, <2>1, <2>2, <2>3
    DEF overlapping_blocking, Blocks, BLOCKING_STATES, Overlap, Row
<1>3. QED
  BY <1>1, <1>2 DEF AllocationsExclusive, Overlap

(* Whatever is served was asked for. *)
Served == \A s \in Sessions : phase[s] # "idle" => req[s] \in Requests

LEMMA ContractInvariant == Spec => [](TypeOK /\ Served)
<1>1. Init => TypeOK /\ Served
  BY ApiAssumption DEF Init, TypeOK, Served, Answers
<1>2. TypeOK /\ Served /\ [Next]_vars => (TypeOK /\ Served)'
  <2> SUFFICES ASSUME TypeOK, Served, [Next]_vars PROVE (TypeOK /\ Served)'
    OBVIOUS
  <2>1. ASSUME NEW s \in Sessions, Answer(s) PROVE (TypeOK /\ Served)'
    <3>1. phase[s] = "called" /\ phase' = [phase EXCEPT ![s] = "answered"]
          /\ UNCHANGED req
      BY <2>1, AnswerFrame
    <3>2. req[s] \in Request /\ Served'
      BY <3>1, ApiAssumption DEF TypeOK, Served
    <3>3. QED
      BY <2>1, <3>2, AnswerTyped
  <2>2. ASSUME NEW s \in Sessions, NEW q \in Requests, Call(s, q)
        PROVE  (TypeOK /\ Served)'
    BY <2>2, ApiAssumption DEF Call, TypeOK, Served
  <2>3. ASSUME NEW s \in Sessions, Close(s) \/ Die(s)
        PROVE  (TypeOK /\ Served)'
    BY <2>3 DEF Close, Die, Gone, TypeOK, Served, Answers
  <2>4. CASE Tick \/ StepBack
    BY <2>4 DEF Tick, StepBack, TypeOK, Served
  <2>5. CASE UNCHANGED vars
    BY <2>5 DEF vars, TypeOK, Served
  <2>6. QED
    BY <2>1, <2>2, <2>3, <2>4, <2>5 DEF Next
<1>3. QED
  BY <1>1, <1>2, PTL DEF Spec

(* Nothing but an answer touches the table. *)
LEMMA OnlyAnswersWrite ==
  ASSUME Served, [Next]_vars
  PROVE  \/ \E s \in Sessions : /\ Answer(s) /\ req[s] \in Requests
                                /\ phase[s] = "called"
         \/ UNCHANGED reservations
<1>1. ASSUME NEW s \in Sessions, Answer(s) PROVE phase[s] = "called"
  BY <1>1 DEF Answer, Create, Check, TurnAway, Confirm, Cancel, DecideOn,
              Allocate, Refuse, Write, Reply
<1>2. QED
  BY <1>1 DEF Served, Next, Call, Close, Die, Gone, Tick, StepBack, vars

(* The atomic contract keeps allocations apart, for any number of callers, *)
(* requests judged by past instants, and a clock that may be set back: an  *)
(* implementation needs no more than the contract.                         *)
THEOREM ContractExclusive == Spec => []AllocationsExclusive
<1>1. Init => AllocationsExclusive
  BY ApiAssumption DEF Init, AllocationsExclusive, Exclusive, Blocks,
                       BLOCKING_STATES
<1>2. TypeOK /\ Served /\ AllocationsExclusive /\ [Next]_vars
        => AllocationsExclusive'
  <2>1. UNCHANGED reservations /\ AllocationsExclusive => AllocationsExclusive'
    BY DEF AllocationsExclusive
  <2>2. QED
    BY <2>1, OnlyAnswersWrite, AnswerKeepsExclusive, ApiAssumption
<1>3. QED
  BY <1>1, <1>2, ContractInvariant, PTL DEF Spec

-----------------------------------------------------------------------------
(* An answer is a step of the ledger, judged when its request arrived. *)

LEMMA SameLedgerHelpers ==
  /\ Ledger!BLOCKING_STATES = BLOCKING_STATES
  /\ Ledger!NoRow = NoRow
  /\ \A b : Ledger!DraftOf(b) = DraftOf(b)
  /\ \A x, y : Ledger!is_interval_valid(x, y) = is_interval_valid(x, y)
  /\ \A x, y : Ledger!approval_request_is_alive(x, y)
                 = approval_request_is_alive(x, y)
  /\ \A x, y : Ledger!may_cancel_confirmed(x, y) = may_cancel_confirmed(x, y)
  /\ \A t, b, at : Ledger!overlapping_blocking(t, b, at)
                     = overlapping_blocking(t, b, at)
BY DEF Ledger!BLOCKING_STATES, BLOCKING_STATES, Ledger!NoRow, NoRow,
       Ledger!DraftOf, DraftOf, Ledger!is_interval_valid, is_interval_valid,
       Ledger!approval_request_is_alive, approval_request_is_alive,
       Ledger!may_cancel_confirmed, may_cancel_confirmed,
       Ledger!overlapping_blocking, overlapping_blocking, Ledger!Blocks, Blocks,
       Ledger!Overlap, Overlap

LEMMA CreateIsLedgerStep ==
  ASSUME TypeOK, NEW s \in Sessions, Create(s), req[s] \in Requests,
         reservations' # reservations
  PROVE  req[s].booking \in Bookings
         /\ \E r \in ReservationIds : Ledger!Create(r, req[s].booking, now[s])
<1>1. req[s].booking \in Bookings /\ req[s].booking.starts_at \in Nat
      /\ now[s] \in Nat
  BY ApiAssumption DEF Create, Bookings, TypeOK, Request, CreateRequest,
    CheckRequest, ActorRequest, ActorOps
<1>2. QED
  BY <1>1, SameLedgerHelpers DEF Create, Refuse, Reply, Ledger!Create

LEMMA MoveIsLedgerStep ==
  ASSUME TypeOK, NEW s \in Sessions, Confirm(s) \/ Cancel(s) \/ DecideOn(s),
         req[s] \in Requests, reservations' # reservations
  PROVE  LET r == req[s].reservation_id IN
           /\ r \in ReservationIds
           /\ \/ \E state \in BLOCKING_STATES : Ledger!Allocate(r, state, now[s])
              \/ Ledger!Cancel(r, now[s])
              \/ Ledger!Reject(r, now[s])
              \/ Ledger!Expire(r, now[s])
<1> DEFINE r == req[s].reservation_id
<1>1. /\ r \in ReservationIds /\ Subject(s) = reservations[r]
      /\ Subject(s) \in Row /\ Subject(s).starts_at \in Nat /\ now[s] \in Nat
  BY ApiAssumption
  DEF Confirm, Cancel, DecideOn, Concerns, Subject, TypeOK, Table, Row, Request,
      ActorRequest, CreateRequest, CheckRequest
<1>2. \A state, code : Write(s, state, code) => Ledger!Write(r, state)
  BY DEF Write, Reply, Ledger!Write
<1>3. \A code : ~Refuse(s, code)
  BY DEF Refuse
<1>4. ASSUME NEW state \in BLOCKING_STATES, Allocate(s, state),
             \/ Subject(s).state = "DRAFT"
             \/ Subject(s).state = "PENDING_APPROVAL" /\ state = "CONFIRMED",
             now[s] < Subject(s).starts_at
      PROVE  Ledger!Allocate(r, state, now[s])
  BY <1>1, <1>2, <1>3, <1>4, SameLedgerHelpers DEF Allocate, Ledger!Allocate
<1>5. CASE Confirm(s)
  <2>1. PICK state \in BLOCKING_STATES : Allocate(s, state)
    BY <1>3, <1>5 DEF Confirm
  <2>2. Subject(s).state = "DRAFT" /\ now[s] < Subject(s).starts_at
    BY <1>1, <1>3, <1>5 DEF Confirm
  <2>3. QED
    BY <1>1, <1>4, <2>1, <2>2
<1>6. ASSUME Dead(s), Write(s, "EXPIRED", "EXPIRED")
      PROVE  Ledger!Expire(r, now[s])
  BY <1>1, <1>2, <1>6, SameLedgerHelpers DEF Dead, Ledger!Expire
<1>7. CASE Cancel(s)
  <2>1. CASE Dead(s)
    <3>1. Write(s, "EXPIRED", "EXPIRED")
      BY <1>3, <1>7, <2>1 DEF Cancel
    <3>2. QED
      BY <1>1, <1>6, <2>1, <3>1
  <2>2. CASE ~Dead(s)
    <3>1. /\ Write(s, "CANCELLED", "OK")
          /\ Subject(s).state \notin {"CANCELLED", "REJECTED", "EXPIRED"}
          /\ Subject(s).state = "CONFIRMED" =>
               may_cancel_confirmed(Subject(s).starts_at, now[s])
      BY <1>3, <1>7, <2>2 DEF Cancel
    <3>2. Subject(s).state \in {"DRAFT", "PENDING_APPROVAL", "CONFIRMED"}
      BY <1>1, <3>1 DEF Row, ReservationState
    <3>3. Ledger!Cancel(r, now[s])
      BY <1>1, <1>2, <2>2, <3>1, <3>2, SameLedgerHelpers
      DEF Dead, Ledger!Cancel
    <3>4. QED
      BY <1>1, <3>3
  <2>3. QED
    BY <2>1, <2>2
<1>8. CASE DecideOn(s)
  <2>1. Subject(s).state = "PENDING_APPROVAL"
    BY <1>3, <1>8 DEF DecideOn
  <2>2. CASE Dead(s)
    <3>1. Write(s, "EXPIRED", "EXPIRED")
      BY <1>3, <1>8, <2>1, <2>2 DEF DecideOn
    <3>2. QED
      BY <1>1, <1>6, <2>2, <3>1
  <2>3. CASE ~Dead(s) /\ req[s].op = "reject"
    <3>1. Write(s, "REJECTED", "OK")
      BY <1>3, <1>8, <2>1, <2>3 DEF DecideOn
    <3>2. Ledger!Reject(r, now[s])
      BY <1>1, <1>2, <2>1, <2>3, <3>1, SameLedgerHelpers DEF Dead, Ledger!Reject
    <3>3. QED
      BY <1>1, <3>2
  <2>4. CASE ~Dead(s) /\ req[s].op # "reject"
    <3>1. Allocate(s, "CONFIRMED") /\ "CONFIRMED" \in BLOCKING_STATES
      BY <1>3, <1>8, <2>1, <2>4 DEF DecideOn, BLOCKING_STATES
    <3>2. now[s] < Subject(s).starts_at
      BY <1>1, <2>1, <2>4 DEF Dead, approval_request_is_alive
    <3>3. QED
      BY <1>1, <1>4, <2>1, <3>1, <3>2
  <2>5. QED
    BY <2>2, <2>3, <2>4
<1>9. QED
  BY <1>5, <1>7, <1>8

(* No caller can do to a reservation what the state diagram does not have, *)
(* however often it asks and however late its requests are answered.       *)
THEOREM ClientImplementsLedger == ClientSpec => ImplementsLedger
<1> DEFINE OnTime == \A s \in Sessions : now[s] <= clock
<1>1. ClientInit => OnTime /\ Ledger!Init
  BY DEF ClientInit, Init, Ledger!Init
<1>2. ASSUME TypeOK, OnTime, [ClientNext]_clientVars PROVE OnTime'
  <2>1. ASSUME NEW s \in Sessions,
               \/ now' = now \/ now' = [now EXCEPT ![s] = clock]
               \/ now' = [now EXCEPT ![s] = 0],
               clock' = clock
        PROVE  OnTime'
    BY <1>2, <2>1 DEF TypeOK
  <2>2. ASSUME NEW s \in Sessions,
               \/ Send(s) \/ Serve(s)
               \/ Deliver(s) \/ Lose(s) \/ Crash(s)
        PROVE  OnTime'
    <3>1. CASE Serve(s)
      BY <1>2, <2>1, <3>1, AnswerFrame DEF Serve
    <3>2. CASE ~Serve(s)
      BY <2>1, <2>2, <3>2
      DEF Send, Call, Deliver, Lose, Crash, Close, Die, Gone
    <3>3. QED
      BY <3>1, <3>2
  <2>3. CASE now' = now /\ clock' \in {clock, clock + 1}
    BY <1>2, <2>3 DEF TypeOK
  <2>4. QED
    BY <1>2, <2>2, <2>3
    DEF ClientNext, Decide, Pass, Tick, clientVars, vars
<1>3. TypeOK /\ Served /\ OnTime /\ [ClientNext]_clientVars
        => [Ledger!Next]_(Ledger!vars)
  <2> SUFFICES ASSUME TypeOK, Served, OnTime, [ClientNext]_clientVars
               PROVE  [Ledger!Next]_(Ledger!vars)
    OBVIOUS
  <2> USE DEF Ledger!vars
  <2>1. ASSUME NEW s \in Sessions, Serve(s) PROVE [Ledger!Next]_(Ledger!vars)
    <3>1. /\ Answer(s) /\ UNCHANGED clock /\ req[s] \in Requests
          /\ now[s] \in 0 .. clock
      BY <2>1, AnswerFrame DEF Serve, TypeOK, Served
    <3>2. CASE reservations' = reservations
      BY <3>1, <3>2
    <3>3. CASE Create(s) /\ reservations' # reservations
      BY <3>1, <3>3, CreateIsLedgerStep DEF Ledger!Next
    <3>4. CASE /\ Confirm(s) \/ Cancel(s) \/ DecideOn(s)
               /\ reservations' # reservations
      BY <3>1, <3>4, MoveIsLedgerStep, SameLedgerHelpers DEF Ledger!Next
    <3>5. CASE Check(s) \/ TurnAway(s)
      BY <3>1, <3>5 DEF Check, TurnAway, Refuse
    <3>6. QED
      BY <3>1, <3>2, <3>3, <3>4, <3>5 DEF Answer
  <2>2. CASE Pass
    BY <2>2 DEF Pass, Tick, Ledger!Tick, Ledger!Next
  <2>3. CASE UNCHANGED <<reservations, clock>>
    BY <2>3
  <2>4. QED
    BY <2>1, <2>2, <2>3
    DEF ClientNext, Decide, Send, Call, Deliver, Lose, Crash, Close, Die, Gone,
        clientVars, vars
<1>4. QED
  BY <1>1, <1>2, <1>3, ClientKeepsContract, ContractInvariant, PTL
  DEF ClientSpec, ImplementsLedger, Ledger!Spec

-----------------------------------------------------------------------------
(* A repetition of what has taken effect changes nothing and says so. *)
THEOREM ClientRepeatsAreHarmless == ClientSpec => RepeatsAreHarmless
<1> DEFINE Harmless ==
      \A s \in Sessions :
        (/\ phase[s] = "called" /\ phase'[s] = "answered"
         /\ req[s].op \in ActorOps /\ took[connection[s]] # None)
        => /\ reservations' = reservations
           /\ answer'[s] = IF took[connection[s]] = "CANCELLED"
                           THEN "UNCHANGED" ELSE "INVALID_STATE"
<1>1. ClientInv /\ [ClientNext]_clientVars => Harmless
  <2> SUFFICES ASSUME ClientInv, [ClientNext]_clientVars, NEW s \in Sessions,
                      phase[s] = "called", phase'[s] = "answered",
                      req[s].op \in ActorOps, took[connection[s]] # None
               PROVE  /\ reservations' = reservations
                      /\ answer'[s] = IF took[connection[s]] = "CANCELLED"
                                      THEN "UNCHANGED" ELSE "INVALID_STATE"
    OBVIOUS
  <2>1. TypeOK /\ connection[s] \in Clients
    BY ClientAssumption DEF ClientInv, ClientTypeOK
  <2>2. /\ req[s] = intent[connection[s]] /\ req[s] \in Request
        /\ Marked(req[s], took[connection[s]])
    BY <2>1 DEF ClientInv
  <2>3. Answer(s)
    <3>1. ASSUME NEW t \in Sessions, Serve(t) PROVE t = s
      BY <2>1, <3>1, AnswerFrame DEF Serve, TypeOK
    <3>2. ASSUME NEW t \in Sessions, Send(t) \/ Deliver(t) \/ Lose(t) \/ Crash(t)
          PROVE  phase'[s] # "answered"
      BY <2>1, <3>2 DEF Send, Call, Deliver, Lose, Crash, Close, Die, Gone, TypeOK
    <3>3. QED
      BY <3>1, <3>2 DEF ClientNext, Decide, Pass, Tick, clientVars, vars, Serve
  <2> DEFINE state == reservations[req[s].reservation_id].state
  <2>4. /\ Subject(s) # NoRow /\ req[s].requested_by \in Users /\ MayAct(s)
        /\ Subject(s).state = state /\ Subject(s) \in Row
    BY <2>2 DEF Marked, Subject, MayAct, Row, NoRow, ReservationState
  <2>5. CASE req[s].op = "confirm"
    <3>1. Refuse(s, "INVALID_STATE")
      BY <2>2, <2>3, <2>4, <2>5
      DEF Marked, Answer, Create, Check, TurnAway, Confirm, Cancel, DecideOn,
          Concerns, ActorOps
    <3>2. took[connection[s]] # "CANCELLED"
      BY <2>2, <2>5 DEF Marked, ActorOps
    <3>3. QED
      BY <2>1, <3>1, <3>2, ReplyTells DEF Refuse
  <2>6. CASE req[s].op = "cancel"
    <3>1. \/ took[connection[s]] = "CANCELLED" /\ Subject(s).state = "CANCELLED"
          \/ took[connection[s]] = "EXPIRED" /\ Subject(s).state = "EXPIRED"
      BY <2>2, <2>4, <2>6 DEF Marked, ActorOps
    <3>2. Cancel(s)
      BY <2>3, <2>4, <2>6
      DEF Answer, Create, Check, TurnAway, Confirm, DecideOn, Concerns
    <3>3. QED
      BY <2>1, <3>1, <3>2, ReplyTells DEF Cancel, Refuse
  <2>7. CASE req[s].op \in {"approve", "reject"}
    <3>1. Refuse(s, "INVALID_STATE")
      BY <2>2, <2>3, <2>4, <2>7
      DEF Marked, Answer, Create, Check, TurnAway, Confirm, Cancel, DecideOn,
          Concerns, ActorOps
    <3>2. took[connection[s]] # "CANCELLED"
      BY <2>2, <2>7 DEF Marked, ActorOps
    <3>3. QED
      BY <2>1, <3>1, <3>2, ReplyTells DEF Refuse
  <2>8. QED
    BY <2>5, <2>6, <2>7 DEF ActorOps
<1>2. QED
  BY <1>1, ClientInvariant, PTL DEF ClientSpec, RepeatsAreHarmless

(* What a caller was told about a cancellation or a rejection stays true. *)
THEOREM ClientHeardStands == ClientSpec => []HeardStands
<1>1. ClientInv => HeardStands
  BY DEF ClientInv, Told, HeardStands, None
<1>2. QED
  BY <1>1, ClientInvariant, PTL
=============================================================================
