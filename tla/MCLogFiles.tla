----------------------------- MODULE MCLogFiles -----------------------------
(* LogFiles on small instances. *)
EXTENDS LogFiles, TLC

Symmetry == Permutations(Rotators)

(* One kind of mishap per behaviour, as often as it likes. *)
OneMishap == Cardinality(mishaps) <= 1
=============================================================================
