------------------------ MODULE MutationCheckProofs ------------------------
(***************************************************************************)
(* What an exit code and a survivor of mutation_check.py mean, for any     *)
(* table of mutations, whatever the suite answers and wherever the script  *)
(* is interrupted.                                                         *)
(***************************************************************************)
EXTENDS MutationCheck, TLAPS

BareTested == Tested({}, "green") \/ Tested({}, "crash")

Judged(m) == m \in survived \/ Tested(ToSet(Edits[m]), "failures")

(* The copy holds what is about to be tested and nothing else. *)
CopyFits ==
  /\ pc = "apply" => label # None /\ copy = {}
  /\ pc = "suite" => copy = IF label = None THEN {} ELSE ToSet(Edits[label])

(* Every chosen mutation is still to come, under way or judged. *)
NothingSkipped ==
  /\ pc \in {"copy", "apply", "suite"} =>
       \A m \in Selected : m \in todo \/ m = label \/ Judged(m)
  /\ pc = "next" => \A m \in Selected : m \in todo \/ Judged(m)
  /\ pc = "finally" /\ ~raised => \A m \in Selected : Judged(m)
  /\ \/ label # None /\ pc # "main"
     \/ pc = "next"
     \/ pc = "finally" /\ ~raised
     => BareTested

Inv ==
  /\ todo \subseteq MUTATIONS /\ label \in MUTATIONS \cup {None}
  /\ label = None => survived = {}
  /\ pc = "main" => label = None
  /\ CopyFits /\ NothingSkipped
  /\ SurvivorsWereApplied /\ ZeroMeansAllCaught

LEMMA InitInv == Init => Inv
BY MutationAssumption DEF Init, Inv, CopyFits, NothingSkipped, SurvivorsWereApplied,
       ZeroMeansAllCaught

(* Tests are remembered, and what was asked for does not change. *)
LEMMA Remembered ==
  ASSUME ran \subseteq ran', wanted' = wanted
  PROVE  /\ \A edits, outcome : Tested(edits, outcome) => Tested(edits, outcome)'
         /\ Selected' = Selected
BY DEF Tested, Selected

LEMMA SuiteKeeps == Inv /\ run_suite => Inv'
<1> SUFFICES ASSUME Inv, run_suite PROVE Inv'
  OBVIOUS
<1>1. PICK outcome \in Outcomes :
        /\ ran' = ran \cup {[copy |-> copy, outcome |-> outcome]}
        /\ \/ /\ label = None /\ AnyFailed(outcome)
              /\ Raise /\ UNCHANGED survived
           \/ /\ ~(label = None /\ AnyFailed(outcome))
              /\ pc' = "next" /\ UNCHANGED raised
              /\ survived' = IF label = None \/ AnyFailed(outcome)
                             THEN survived ELSE survived \cup {label}
  BY DEF run_suite
<1>2. /\ pc = "suite" /\ UNCHANGED <<wanted, todo, label, present, copy, exit>>
      /\ copy = IF label = None THEN {} ELSE ToSet(Edits[label])
  BY DEF run_suite, Inv, CopyFits
<1>3. /\ \A e, o : Tested(e, o) => Tested(e, o)'
      /\ Selected' = Selected
  BY <1>1, <1>2, Remembered
<1>4. Tested(copy, outcome)'
  BY <1>1, <1>2 DEF Tested
<1>5. SurvivorsWereApplied'
  BY <1>1, <1>2, <1>3, <1>4 DEF Inv, SurvivorsWereApplied, AnyFailed
<1>6. ZeroMeansAllCaught'
  BY <1>2, <1>3 DEF Inv, ZeroMeansAllCaught
<1>7. NothingSkipped'
  <2>1. CASE pc' = "next"
    <3>1. \A m \in Selected : m \in todo' \/ Judged(m)'
      <4>1. ASSUME NEW m \in MUTATIONS, Judged(m) PROVE Judged(m)'
        BY <1>1, <1>3, <4>1 DEF Judged
      <4>2. ASSUME label \in MUTATIONS PROVE Judged(label)'
        BY <1>1, <1>2, <1>4, <2>1, <4>2, MutationAssumption
        DEF Judged, AnyFailed, Raise
      <4>3. QED
        BY <1>2, <4>1, <4>2 DEF Inv, NothingSkipped, Selected
    <3>2. BareTested'
      BY <1>1, <1>2, <1>3, <1>4, <2>1
      DEF Inv, NothingSkipped, BareTested, AnyFailed, Raise, Outcomes
    <3>3. QED
      BY <1>3, <2>1, <3>1, <3>2 DEF NothingSkipped
  <2>2. CASE pc' = "finally" /\ raised' /\ label = None
    BY <1>2, <2>2 DEF NothingSkipped
  <2>3. QED
    BY <1>1, <2>1, <2>2 DEF Raise
<1>8. QED
  BY <1>1, <1>2, <1>5, <1>6, <1>7 DEF Inv, CopyFits, Raise

LEMMA StepInv == Inv /\ [Next]_vars => Inv'
<1> SUFFICES ASSUME Inv, [Next]_vars PROVE Inv'
  OBVIOUS
<1> USE DEF Inv, CopyFits, NothingSkipped
<1>1. CASE run_suite
  BY <1>1, SuiteKeeps
<1>2. CASE UNCHANGED ran /\ UNCHANGED wanted
  <2>1. /\ \A e, o : Tested(e, o) <=> Tested(e, o)'
        /\ Selected' = Selected /\ Selected \subseteq MUTATIONS
    BY <1>2 DEF Tested, Selected
  <2>2. BareTested <=> BareTested'
    BY <2>1 DEF BareTested
  <2>3. survived' = survived => \A m : Judged(m) <=> Judged(m)'
    BY <2>1 DEF Judged
  <2>4. survived' = survived => SurvivorsWereApplied'
    BY <2>1 DEF SurvivorsWereApplied
  <2>5. exit' = exit \/ exit' = "1" => ZeroMeansAllCaught'
    BY <2>1 DEF ZeroMeansAllCaught
  <2>6. CASE main
    BY <2>1, <2>2, <2>3, <2>4, <2>5, <2>6 DEF main
  <2>7. CASE fresh_copy
    BY <2>1, <2>2, <2>3, <2>4, <2>5, <2>7 DEF fresh_copy
  <2>8. CASE apply
    BY <2>1, <2>2, <2>3, <2>4, <2>5, <2>8 DEF apply, Raise
  <2>9. CASE next_mutation
    BY <2>1, <2>2, <2>3, <2>4, <2>5, <2>9, MutationAssumption DEF next_mutation
  <2>10. CASE interrupt
    BY <2>1, <2>2, <2>3, <2>4, <2>5, <2>10 DEF interrupt, Raise
  <2>11. CASE interrupt_outside
    BY <2>1, <2>2, <2>3, <2>4, <2>5, <2>11 DEF interrupt_outside
  <2>12. CASE leave
    <3>1. ZeroMeansAllCaught'
      BY <2>1, <2>2, <2>3, <2>12 DEF leave, ZeroMeansAllCaught, Judged, BareTested
    <3>2. QED
      BY <2>1, <2>2, <2>3, <2>4, <2>12, <3>1 DEF leave
  <2>13. CASE UNCHANGED vars
    BY <2>1, <2>2, <2>3, <2>4, <2>5, <2>13 DEF vars
  <2>14. QED
    BY <1>1, <2>6, <2>7, <2>8, <2>9, <2>10, <2>12, <2>13, <2>11 DEF Next
<1>3. QED
  BY <1>1, <1>2
  DEF Next, vars, main, fresh_copy, apply, next_mutation, interrupt,
      interrupt_outside, leave

LEMMA InvAlways == Spec => []Inv
BY InitInv, StepInv, PTL DEF Spec

(* What is in the copy comes from the table, also after an edit that does  *)
(* not apply, and only mutations of the table are ever under way.          *)
THEOREM RunTyped == Spec => []TypeOK
<1>1. Init => TypeOK
  BY MutationAssumption DEF Init, TypeOK
<1>2. Inv /\ TypeOK /\ [Next]_vars => TypeOK'
  <2> SUFFICES ASSUME Inv, TypeOK, [Next]_vars PROVE TypeOK'
    OBVIOUS
  <2> USE DEF TypeOK
  <2>1. CASE main
    BY <2>1 DEF main, Selected
  <2>2. CASE fresh_copy
    BY <2>2 DEF fresh_copy
  <2>3. CASE apply
    <3>1. label \in MUTATIONS
      BY <2>3 DEF apply, Inv, CopyFits
    <3>2. ToSet(Edits[label]) \subseteq AllEdits
      BY <3>1 DEF AllEdits
    <3>3. \A k \in DOMAIN Edits[label] : Edits[label][k] \in AllEdits
      BY <3>2 DEF ToSet
    <3>4. copy' \subseteq AllEdits
      BY <2>3, <3>2, <3>3 DEF apply
    <3>5. QED
      BY <2>3, <3>4 DEF apply, Raise
  <2>4. CASE run_suite
    <3>1. PICK outcome \in Outcomes :
            ran' = ran \cup {[copy |-> copy, outcome |-> outcome]}
      BY <2>4 DEF run_suite
    <3>2. ran' \subseteq [copy : SUBSET AllEdits, outcome : Outcomes]
      BY <3>1
    <3>3. QED
      BY <2>4, <3>2 DEF run_suite, Raise
  <2>5. CASE next_mutation
    BY <2>5 DEF next_mutation
  <2>6. CASE interrupt
    <3>1. pc = "apply" => ToSet(Edits[label]) \subseteq AllEdits
      BY DEF Inv, CopyFits, AllEdits
    <3>2. QED
      BY <2>6, <3>1 DEF interrupt, Raise
  <2>7. CASE leave
    BY <2>7 DEF leave, remove
  <2>8. CASE interrupt_outside
    BY <2>8 DEF interrupt_outside, remove
  <2>9. CASE UNCHANGED vars
    BY <2>9 DEF vars
  <2>10. QED
    BY <2>1, <2>2, <2>3, <2>4, <2>5, <2>6, <2>7, <2>8, <2>9 DEF Next
<1>3. QED
  BY <1>1, <1>2, InvAlways, PTL DEF Spec

(* Exit code 0 means what the head of the script says of it: the suite     *)
(* failed on each chosen mutation, alone in a clean copy.                  *)
THEOREM ExitZero == Spec => []ZeroMeansAllCaught
<1>1. Inv => ZeroMeansAllCaught
  BY DEF Inv
<1>2. QED
  BY <1>1, InvAlways, PTL

(* A survivor is a mutation the suite has really seen.                     *)
THEOREM Survivors == Spec => []SurvivorsWereApplied
<1>1. Inv => SurvivorsWereApplied
  BY DEF Inv
<1>2. QED
  BY <1>1, InvAlways, PTL
=============================================================================
