-------------------------------- MODULE Demo --------------------------------
(***************************************************************************)
(* scripts/demo.py against the running service: it empties and seeds the   *)
(* database, then sends one request after the other and prints each answer *)
(* under a label that announces it.  Nobody but a reader compares the two. *)
(* One tick is a quarter of an hour.                                       *)
(***************************************************************************)
EXTENDS ReservationGuarantees, Sequences

CONSTANTS
  session,                              \* the script waits for each answer
  microscope, broken, guarded,          \* the instruments it seeds
  student, novice, boss,                \* and the users
  locked, expired_request,              \* and two reservations
  LastTick                              \* bound: how long the script may take

HOUR == 4

Created == {"created", "novice_reservation", "request", "second_request"}

VARIABLES
  step,       \* 0 before seed(), then the number of the request in Script
  starts_at,  \* eight o'clock of the next day
  ids         \* the ids it found in the answers

demoVars == <<vars, step, starts_at, ids>>

DemoInit ==
  /\ Init
  /\ step = 0
  /\ starts_at = 0
  /\ ids = [name \in Created |-> None]

-----------------------------------------------------------------------------
(* seed() *)

SeedInstruments ==
  [i \in Instruments |-> [is_active |-> i # broken,
                          requires_approval |-> i = guarded]]

SeedCertifications(start) ==
  [user_id : {student}, category : {category[microscope], category[guarded]},
   valid_until : {start + 365 * 24 * HOUR}]

(* An allocation that begins in half an hour, and a request nobody decided *)
(* about that began an hour ago.                                           *)
SeedReservations(at) ==
  [r \in ReservationIds |->
     CASE r = locked ->
            [instrument_id |-> microscope, user_id |-> student,
             starts_at |-> at + 2, ends_at |-> at + 2 + HOUR,
             state |-> "CONFIRMED"]
       [] r = expired_request ->
            [instrument_id |-> guarded, user_id |-> student,
             starts_at |-> at - HOUR, ends_at |-> at + HOUR,
             state |-> "PENDING_APPROVAL"]
       [] OTHER -> NoRow]

(* How far away tomorrow at eight is, just before midnight and just after. *)
TomorrowAtEight == {8 * HOUR, 32 * HOUR}

(* drop_all, create_all and the rows. *)
seed ==
  /\ step = 0 /\ clock >= HOUR
  /\ \E ahead \in TomorrowAtEight :
       /\ starts_at' = clock + ahead
       /\ certifications' = SeedCertifications(clock + ahead)
  /\ reservations' = SeedReservations(clock)
  /\ instruments' = SeedInstruments
  /\ step' = 1
  /\ UNCHANGED <<clock, locks, pc, local, result, ids>>

-----------------------------------------------------------------------------
(* main(): every request with the answer its label announces, and the      *)
(* state it announces for the reservation.                                 *)

New(name, instrument, user, from, to, answer) ==
  [op |-> "create", name |-> name, answer |-> answer,
   booking |-> [instrument_id |-> instrument, user_id |-> user,
                starts_at |-> from, ends_at |-> to]]

Free(instrument, from, to, answer) ==
  [op |-> "check", answer |-> answer,
   query |-> [instrument_id |-> instrument, starts_at |-> from, ends_at |-> to]]

Act(op, name, who, answer, state) ==
  [op |-> op, name |-> name, requested_by |-> who, answer |-> answer,
   state |-> state]

(* `start' is what seed() returned, `at' the script's own datetime.now().  *)
Script(start, at) ==
  LET stop == start + HOUR
      late == start + 6 * HOUR
      Later(x) == x + 3 * HOUR
  IN <<
  New("created", microscope, student, start, stop, "OK"),
  New("none", microscope, student, start, start, "INVALID_INTERVAL"),
  Free(microscope, start, stop, "AVAILABLE"),
  Free(microscope, at + 3, at + 5, "CONFIRMED"),
  Act("confirm", "created", student, "OK", "CONFIRMED"),
  New("novice_reservation", microscope, novice, Later(start), Later(stop), "OK"),
  Act("confirm", "novice_reservation", novice, "MISSING_CERTIFICATION", "DRAFT"),
  Act("cancel", "created", student, "OK", "CANCELLED"),
  Act("cancel", "created", student, "UNCHANGED", "CANCELLED"),
  Act("cancel", "locked", student, "TOO_LATE", "CONFIRMED"),
  Free(microscope, start, stop, "AVAILABLE"),
  New("request", guarded, student, late, late + HOUR, "OK"),
  Act("confirm", "request", student, "OK", "PENDING_APPROVAL"),
  Free(guarded, late, late + HOUR, "PENDING_APPROVAL"),
  Act("approve", "request", student, "FORBIDDEN", "PENDING_APPROVAL"),
  Act("approve", "request", boss, "OK", "CONFIRMED"),
  Free(guarded, late, late + HOUR, "CONFIRMED"),
  New("second_request", guarded, student, late + 3 * HOUR, late + 4 * HOUR, "OK"),
  Act("confirm", "second_request", student, "OK", "PENDING_APPROVAL"),
  Act("reject", "second_request", boss, "OK", "REJECTED"),
  Act("cancel", "second_request", student, "INVALID_STATE", "REJECTED"),
  Act("approve", "expired_request", boss, "EXPIRED", "EXPIRED"),
  Free(guarded, at - HOUR, at + HOUR, "AVAILABLE") >>

Length == 23

Entry == Script(starts_at, clock)[step]

IdOf(name) == CASE name = "locked" -> locked
                [] name = "expired_request" -> expired_request
                [] OTHER -> ids[name]

RequestFor(entry) ==
  CASE entry.op = "create" -> [op |-> "create", booking |-> entry.booking]
    [] entry.op = "check" -> [op |-> "check", query |-> entry.query]
    [] OTHER -> [op |-> entry.op, reservation_id |-> IdOf(entry.name),
                 requested_by |-> entry.requested_by]

(* The requests of every run of the script, for the constant Requests.     *)
DemoRequests ==
  LET Starts == {at + ahead : at \in HOUR..LastTick, ahead \in TomorrowAtEight}
      Entries == UNION {{Script(start, at)[k] : k \in 1..Length} :
                          start \in Starts, at \in HOUR..LastTick}
  IN ActorRequest
     \cup {[op |-> "create", booking |-> e.booking] :
             e \in {x \in Entries : x.op = "create"}}
     \cup {[op |-> "check", query |-> e.query] :
             e \in {x \in Entries : x.op = "check"}}

(* client.post, client.get *)
Ask(s) ==
  /\ step \in 1..Length
  /\ Begin(s)
  /\ req'[s] = RequestFor(Entry)
  /\ UNCHANGED <<step, starts_at, ids>>

(* The server works on it; of a new row the answer will give the id.       *)
Serve(s) ==
  /\ \/ ValidateCreate(s) \/ InsertDraft(s)
     \/ ReadInstrument(s) \/ QueryConflicts(s)
     \/ LockReservation(s) \/ Authorize(s)
     \/ DecideConfirm(s) \/ DecideCancel(s) \/ DecideRequest(s)
     \/ Certify(s) \/ LockInstrument(s) \/ CheckOverlap(s) \/ Commit(s)
  /\ ids' = [name \in Created |->
               IF pc[s] = "insert" /\ name = Entry.name
               THEN CHOOSE r \in ReservationIds : reservations'[r] # reservations[r]
               ELSE ids[name]]
  /\ UNCHANGED <<step, starts_at>>

(* show() prints whatever came; .json()["id"] of a refused creation is a   *)
(* KeyError, and the script ends.                                          *)
Show(s) ==
  /\ Close(s)
  /\ step' = IF Entry.op = "create" /\ Entry.name # "none" /\ result[s] # "OK"
             THEN Length + 1 ELSE step + 1
  /\ UNCHANGED <<starts_at, ids>>

(* The server dies over the request: httpx raises and the script ends.     *)
Break(s) == /\ Abort(s)
            /\ step' = Length + 1
            /\ UNCHANGED <<starts_at, ids>>

Pass == clock < LastTick /\ Tick /\ UNCHANGED <<step, starts_at, ids>>

DemoNext == \/ seed
            \/ Ask(session) \/ Serve(session) \/ Show(session)
            \/ Break(session)
            \/ Pass

DemoSpec == DemoInit /\ [][DemoNext]_demoVars

-----------------------------------------------------------------------------
(* The walk of the demo keeps what its labels promise at whatever hour of  *)
(* the day it is started and however its requests spread over less than    *)
(* three quarters of an hour: each answer, and the state it leaves the     *)
(* reservation in, is the one announced.  A request depends on all before. *)
AnswersAsAnnounced ==
  pc[session] = "close" =>
    /\ result[session] = Entry.answer
    /\ req[session].op \in ActorOps =>
         reservations[req[session].reservation_id].state = Entry.state
=============================================================================
