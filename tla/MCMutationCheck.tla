--------------------------- MODULE MCMutationCheck ---------------------------
(***************************************************************************)
(* Values for model checking MutationCheck: four mutations of one or two   *)
(* edits; the second edit of the last has lost its text.                   *)
(***************************************************************************)
EXTENDS MutationCheck, TLC

CONSTANTS m1, m2, m3, m4, e1, e2, e3, e4, e5

MCMutations == {m1, m2, m3, m4}

MCEdits == (m1 :> <<e1>>) @@ (m2 :> <<e2, e3>>) @@ (m3 :> <<e1, e3>>)
           @@ (m4 :> <<e4, e5>>)
=============================================================================
