------------------------- MODULE ReservationGrounds -------------------------
(***************************************************************************)
(* The service with a memory of what the lab manager's tables said while a *)
(* request was being checked.  An operation reads the instrument and the   *)
(* certificates some statements before it answers, and the manager edits   *)
(* them meanwhile; so neither the tables of the moment of the answer nor   *)
(* the ledger, which does not know them, can say whether an allocation or  *)
(* a refusal had its grounds.                                              *)
(***************************************************************************)
EXTENDS ReservationGuarantees

VARIABLE held    \* history: what has been true of the reservation of each
                 \* session at some instant since its request was found
                 \* permitted

groundedVars == <<vars, held>>

(* BR-05 and REQ-10: what the instrument allows, a state to enter or none. *)
Allowed(i) == IF ~instruments[i].is_active THEN "INSTRUMENT_INACTIVE"
              ELSE IF instruments[i].requires_approval THEN "PENDING_APPROVAL"
              ELSE "CONFIRMED"

(* BR-04: the owner's training for the day the reservation starts. *)
Training(b) ==
  IF \E c \in certifications : /\ c.user_id = b.user_id
                               /\ c.category = category[b.instrument_id]
                               /\ b.starts_at < c.valid_until
  THEN "CERTIFIED" ELSE "MISSING_CERTIFICATION"

Facts(s) == LET b == reservations[req[s].reservation_id]
            IN {Allowed(b.instrument_id), Training(b)}

(* The facts an allocation rests on; the others are reasons to refuse it. *)
Grounds == BLOCKING_STATES \cup {"CERTIFIED"}

(* The history is kept for requests to allocate, while they are checked;   *)
(* whoever has passed the checks needs no reason for a refusal any more.   *)
Remember ==
  held' = [s \in Sessions |->
             CASE req'[s].op \notin {"confirm", "approve"} -> {}
               [] pc'[s] \in {"decide", "certify"} ->
                    held[s] \cup Facts(s)'
               [] pc'[s] \in {"lock_instrument", "overlap", "commit"} ->
                    held[s] \cap Grounds
               [] OTHER -> {}]

GroundedInit == Init /\ held = [s \in Sessions |-> {}]

GroundedNext == UnsteadyNext /\ Remember

GroundedSpec == GroundedInit /\ [][GroundedNext]_groundedVars

-----------------------------------------------------------------------------
(* REQ-04, REQ-10, REQ-11 as far as the manager's tables go: a reservation *)
(* enters a state that holds its instrument only for a request during      *)
(* which the instrument was active and, for a confirmation, its setting    *)
(* asked for the very state that is written (REQ-10), and during which the *)
(* owner - not the caller, who may be a supervisor - was certified.        *)
AllocationsHaveGrounds ==
  [][ \A r \in ReservationIds :
        ( /\ reservations'[r] # reservations[r]
          /\ reservations'[r].state \in BLOCKING_STATES )
        => \E s \in Sessions :
             /\ pc[s] = "commit" /\ req[s].reservation_id = r
             /\ "CERTIFIED" \in held[s]
             /\ IF req[s].op = "confirm" THEN reservations'[r].state \in held[s]
                ELSE held[s] \cap BLOCKING_STATES # {} ]_groundedVars

(* BR-05 before BR-04 (REQ-04, REQ-11): whoever is refused because of the  *)
(* instrument or of the owner's certificate was refused for something that *)
(* was so while the request was served, and of the certificate only if the *)
(* instrument was active then.                                             *)
RefusalsHaveGrounds ==
  [][ \A s \in Sessions :
        (req[s].op \in {"confirm", "approve"} /\ result'[s] # result[s]) =>
          /\ result'[s] = "INSTRUMENT_INACTIVE" => result'[s] \in held[s]
          /\ result'[s] = "MISSING_CERTIFICATION" =>
               /\ result'[s] \in held[s]
               /\ held[s] \cap BLOCKING_STATES # {} ]_groundedVars
=============================================================================
