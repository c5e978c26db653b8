---------------------------- MODULE MutationCheck ----------------------------
(***************************************************************************)
(* scripts/mutation_check.py: every chosen mutation is put into a fresh    *)
(* copy of the repository and the test suite is run there.  The copy is    *)
(* one directory, the suite another process, and the exit code is read by  *)
(* somebody who does not read the output.                                  *)
(***************************************************************************)
EXTENDS Naturals, Sequences, SequencesExt

CONSTANTS
  MUTATIONS,   \* the labels of the table
  Unknown,     \* what else may stand on the command line
  Edits,       \* the edits of each mutation, in order
  Found,       \* the edits whose text a clean copy has exactly once
  None

ASSUME MutationAssumption ==
  /\ None \notin MUTATIONS \cup {"0", "1"}
  /\ \A m \in MUTATIONS : Edits[m] \in Seq(ToSet(Edits[m]))

VARIABLES
  pc,        \* the next step
  wanted,    \* the labels on the command line
  todo,      \* mutations still to come
  label,     \* the one under way, None while the bare copy is tested
  present,   \* the temporary directory exists
  copy,      \* the edits made in it
  survived,  \* mutations nothing caught
  raised,    \* an exception is on its way out
  exit,      \* the exit code; "1" is any but 0, a signal's included
  ran        \* ghost: what was tested, and what became of it

vars == <<pc, wanted, todo, label, present, copy, survived, raised, exit, ran>>

(* A suite that dies before it runs a test - no pytest, a conftest that    *)
(* cannot be imported - writes to stderr only.                             *)
Outcomes == {"green", "failures", "crash"}

(* run_suite: the FAILED and ERROR lines of its standard output. *)
AnyFailed(outcome) == outcome = "failures"

AllEdits == UNION {ToSet(Edits[m]) : m \in MUTATIONS}

TypeOK ==
  /\ pc \in {"main", "copy", "apply", "suite", "next", "finally", "done"}
  /\ wanted \subseteq MUTATIONS \cup Unknown
  /\ todo \subseteq MUTATIONS /\ label \in MUTATIONS \cup {None}
  /\ present \in BOOLEAN /\ raised \in BOOLEAN
  /\ copy \subseteq AllEdits
  /\ survived \subseteq MUTATIONS
  /\ exit \in {None, "0", "1"}
  /\ ran \subseteq [copy : SUBSET AllEdits, outcome : Outcomes]

Init ==
  /\ pc = "main" /\ wanted \in SUBSET (MUTATIONS \cup Unknown)
  /\ todo = {} /\ label = None
  /\ present = FALSE /\ copy = {}
  /\ survived = {} /\ raised = FALSE /\ exit = None /\ ran = {}

-----------------------------------------------------------------------------
Selected == {m \in MUTATIONS : wanted = {} \/ m \in wanted}

Raise == pc' = "finally" /\ raised' = TRUE

(* Labels it does not know are passed over, unless it knows none. *)
main ==
  /\ pc = "main"
  /\ todo' = Selected
  /\ IF Selected = {}
     THEN pc' = "done" /\ exit' = "1" /\ UNCHANGED present
     ELSE pc' = "copy" /\ present' = TRUE /\ UNCHANGED exit
  /\ UNCHANGED <<wanted, label, copy, survived, raised, ran>>

(* Mutant: the sources are copied once. *)
copy_once ==
  /\ pc = "copy"
  /\ pc' = IF label = None THEN "suite" ELSE "apply"
  /\ UNCHANGED <<wanted, todo, label, present, copy, survived, raised, exit, ran>>

(* What is there is removed and the sources are copied again. *)
fresh_copy ==
  /\ pc = "copy"
  /\ pc' = IF label = None THEN "suite" ELSE "apply"
  /\ present' = TRUE /\ copy' = {}
  /\ UNCHANGED <<wanted, todo, label, survived, raised, exit, ran>>

(* Mutant: an edit whose text is not found is passed over. *)
apply_what_fits ==
  /\ pc = "apply"
  /\ copy' = copy \cup (ToSet(Edits[label]) \cap Found)
  /\ pc' = "suite"
  /\ UNCHANGED <<wanted, todo, label, present, survived, raised, exit, ran>>

(* The edits one after the other, up to the first whose text is not there  *)
(* exactly once; that one is an error of the script.                       *)
apply ==
  /\ pc = "apply"
  /\ LET edits == Edits[label]
         misfits == {k \in DOMAIN edits : edits[k] \notin Found}
     IN \/ /\ misfits = {}
           /\ copy' = copy \cup ToSet(edits)
           /\ pc' = "suite" /\ UNCHANGED raised
        \/ /\ misfits # {}
           /\ copy' = copy \cup {edits[k] : k \in
                {j \in DOMAIN edits : \A n \in misfits : j < n}}
           /\ Raise
  /\ UNCHANGED <<wanted, todo, label, present, survived, exit, ran>>

(* Mutant: the bare copy, too, may survive. *)
run_suite_counts_bare ==
  /\ pc = "suite"
  /\ \E outcome \in Outcomes :
       /\ ran' = ran \cup {[copy |-> copy, outcome |-> outcome]}
       /\ survived' = IF AnyFailed(outcome) THEN survived
                      ELSE survived \cup {label}
  /\ pc' = "next"
  /\ UNCHANGED <<wanted, todo, label, present, copy, raised, exit>>

run_suite ==
  /\ pc = "suite"
  /\ \E outcome \in Outcomes :
       /\ ran' = ran \cup {[copy |-> copy, outcome |-> outcome]}
       /\ IF label = None /\ AnyFailed(outcome)
          THEN Raise /\ UNCHANGED survived
          ELSE /\ pc' = "next" /\ UNCHANGED raised
               /\ survived' = IF label = None \/ AnyFailed(outcome)
                              THEN survived ELSE survived \cup {label}
  /\ UNCHANGED <<wanted, todo, label, present, copy, exit>>

(* The order of the table plays no part. *)
next_mutation ==
  /\ pc = "next"
  /\ \/ todo = {} /\ pc' = "finally" /\ UNCHANGED <<todo, label>>
     \/ \E m \in todo : pc' = "copy" /\ label' = m /\ todo' = todo \ {m}
  /\ UNCHANGED <<wanted, present, copy, survived, raised, exit, ran>>

(* Ctrl-C, or an error of the file system, inside the try block: a copy is *)
(* half removed, or some of the edits are made.                            *)
interrupt ==
  /\ pc \in {"copy", "apply", "suite", "next"}
  /\ Raise
  /\ copy' \in SUBSET (copy \cup IF pc = "apply" THEN ToSet(Edits[label])
                                 ELSE {})
  /\ UNCHANGED <<wanted, todo, label, present, survived, exit, ran>>

(* rmtree with ignore_errors: what it cannot remove stays, and it does not *)
(* say so.                                                                 *)
remove == \/ present' = FALSE /\ copy' = {}
          \/ UNCHANGED present /\ copy' \in SUBSET copy

(* finally, and the exit code, unless an exception passes; that one is not *)
(* 0 either.                                                               *)
leave ==
  /\ pc = "finally" /\ pc' = "done"
  /\ remove
  /\ exit' = IF raised \/ survived # {} THEN "1" ELSE "0"
  /\ UNCHANGED <<wanted, todo, label, survived, raised, ran>>

(* The same where no finally follows: before the directory is made, before *)
(* the try block is entered, and in the finally itself or the report after *)
(* it.                                                                     *)
interrupt_outside ==
  /\ \/ pc = "main" /\ UNCHANGED <<present, copy>>
     \/ pc = "copy" /\ label = None /\ UNCHANGED <<present, copy>>
     \/ pc = "finally" /\ remove
  /\ pc' = "done" /\ raised' = TRUE /\ exit' = "1"
  /\ UNCHANGED <<wanted, todo, label, survived, ran>>

Next == \/ main \/ fresh_copy \/ apply \/ run_suite \/ next_mutation
        \/ interrupt \/ interrupt_outside \/ leave

Spec == Init /\ [][Next]_vars

-----------------------------------------------------------------------------
Tested(edits, outcome) == [copy |-> edits, outcome |-> outcome] \in ran

(* The exit code is 0 only if the suite was run on the bare copy without a *)
(* failure, and on every chosen mutation alone, whole and in a clean copy, *)
(* with one: not on a copy that still holds the mutation before it.        *)
ZeroMeansAllCaught ==
  exit = "0" =>
    /\ Tested({}, "green") \/ Tested({}, "crash")
    /\ \A m \in Selected : Tested(ToSet(Edits[m]), "failures")

(* What is reported as survived was really put into the copy, every edit   *)
(* of it; a mutation that could not be applied ends the run instead, and   *)
(* is neither caught nor survived.                                         *)
SurvivorsWereApplied ==
  \A m \in survived : \E outcome \in Outcomes \ {"failures"} :
    Tested(ToSet(Edits[m]), outcome)
=============================================================================
