-------------------------- MODULE ReservationPolicy --------------------------
(***************************************************************************)
(* The pure part of SWI-LAB: the business rules BR-01, BR-03, BR-04 and    *)
(* BR-08 (domain/rules.py) and the transition policy that decides, without *)
(* executing anything, what an operation does to a reservation in a given  *)
(* state at a given time (domain/transitions.py).                          *)
(*                                                                         *)
(* Time is a number of abstract ticks, so CANCELLATION_LEAD_TIME (60       *)
(* minutes in the code) is a parameter: the rules only compare and add.    *)
(***************************************************************************)
EXTENDS Integers

CONSTANT CANCELLATION_LEAD_TIME

ASSUME LeadTimeAssumption == CANCELLATION_LEAD_TIME \in Nat

None == "NONE"     \* Python's None, for a target or a rejection

ReservationState == {"DRAFT", "PENDING_APPROVAL", "CONFIRMED",
                     "CANCELLED", "REJECTED", "EXPIRED"}

BLOCKING_STATES == {"CONFIRMED", "PENDING_APPROVAL"}

ErrorCode == {"UNKNOWN_USER", "UNKNOWN_INSTRUMENT", "INSTRUMENT_INACTIVE",
              "INVALID_INTERVAL", "START_IN_PAST", "NOT_FOUND", "FORBIDDEN",
              "INVALID_STATE", "MISSING_CERTIFICATION", "OVERLAP",
              "TOO_LATE", "EXPIRED", "ALREADY_STARTED"}

-----------------------------------------------------------------------------
(* domain/rules.py *)

is_interval_valid(starts_at, ends_at) == ends_at > starts_at

certification_covers(valid_until, starts_at) == valid_until > starts_at

approval_request_is_alive(starts_at, now) == now < starts_at

may_cancel_confirmed(starts_at, now) == now + CANCELLATION_LEAD_TIME < starts_at

-----------------------------------------------------------------------------
(* domain/transitions.py *)

Decision(target, rejection) == [target |-> target, rejection |-> rejection]

Decisions == [target : ReservationState \cup {None},
              rejection : ErrorCode \cup {None}]

(* The shapes Decision.__post_init__ accepts: a change of state together   *)
(* with a rejection exists only as expiry, and expiry only as both.        *)
ValidDecision(d) ==
  /\ d.target = "EXPIRED" <=> d.rejection = "EXPIRED"
  /\ (d.target # None /\ d.rejection # None) => d.target = "EXPIRED"

expiry_decision(state, starts_at, now) ==
  IF state = "PENDING_APPROVAL" /\ ~approval_request_is_alive(starts_at, now)
  THEN Decision("EXPIRED", "EXPIRED")
  ELSE Decision(None, None)

(* Mutant: the lead time is applied to requests too, expired or not. *)
CancelDecisionLateFirst(state, starts_at, now) ==
  CASE state = "DRAFT" -> Decision("CANCELLED", None)
    [] state \in {"PENDING_APPROVAL", "CONFIRMED"} ->
         IF may_cancel_confirmed(starts_at, now)
         THEN Decision("CANCELLED", None)
         ELSE Decision(None, "TOO_LATE")
    [] state = "CANCELLED" -> Decision(None, None)
    [] state \in {"REJECTED", "EXPIRED"} -> Decision(None, "INVALID_STATE")

(* Mutant: an expired request is only rejected, nothing is to be written. *)
CancelDecisionRejectsOnly(state, starts_at, now) ==
  CASE state = "DRAFT" -> Decision("CANCELLED", None)
    [] state = "PENDING_APPROVAL" ->
         Decision(IF approval_request_is_alive(starts_at, now)
                  THEN "CANCELLED" ELSE None,
                  expiry_decision(state, starts_at, now).rejection)
    [] state = "CONFIRMED" ->
         IF may_cancel_confirmed(starts_at, now)
         THEN Decision("CANCELLED", None)
         ELSE Decision(None, "TOO_LATE")
    [] state = "CANCELLED" -> Decision(None, None)
    [] state \in {"REJECTED", "EXPIRED"} -> Decision(None, "INVALID_STATE")

cancel_decision(state, starts_at, now) ==
  CASE state = "DRAFT" -> Decision("CANCELLED", None)
    [] state = "PENDING_APPROVAL" ->
         IF expiry_decision(state, starts_at, now).target # None
         THEN expiry_decision(state, starts_at, now)
         ELSE Decision("CANCELLED", None)
    [] state = "CONFIRMED" ->
         IF may_cancel_confirmed(starts_at, now)
         THEN Decision("CANCELLED", None)
         ELSE Decision(None, "TOO_LATE")
    [] state = "CANCELLED" -> Decision(None, None)
    [] state \in {"REJECTED", "EXPIRED"} -> Decision(None, "INVALID_STATE")

(* Mutant: the time is judged before the state. *)
ConfirmDecisionTimeFirst(state, starts_at, now, requires_approval) ==
  CASE now >= starts_at -> Decision(None, "ALREADY_STARTED")
    [] now < starts_at /\ state # "DRAFT" -> Decision(None, "INVALID_STATE")
    [] now < starts_at /\ state = "DRAFT" ->
         Decision(IF requires_approval THEN "PENDING_APPROVAL" ELSE "CONFIRMED",
                  None)

(* Mutant: the setting requires_approval is not passed on. *)
ConfirmDecisionAtOnce(state, starts_at, now, requires_approval) ==
  CASE state # "DRAFT" -> Decision(None, "INVALID_STATE")
    [] state = "DRAFT" /\ now >= starts_at -> Decision(None, "ALREADY_STARTED")
    [] state = "DRAFT" /\ now < starts_at -> Decision("CONFIRMED", None)

confirm_decision(state, starts_at, now, requires_approval) ==
  CASE state # "DRAFT" -> Decision(None, "INVALID_STATE")
    [] state = "DRAFT" /\ now >= starts_at -> Decision(None, "ALREADY_STARTED")
    [] state = "DRAFT" /\ now < starts_at ->
         Decision(IF requires_approval THEN "PENDING_APPROVAL" ELSE "CONFIRMED",
                  None)
=============================================================================
