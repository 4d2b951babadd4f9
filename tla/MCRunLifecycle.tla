--------------------------- MODULE MCRunLifecycle ---------------------------
(* Instances of RunLifecycle for TLC; the cfg files choose the constants.  *)
EXTENDS RunLifecycle, TLC

(* Run ids, handlers and workers are interchangeable in safety checks. *)
Symmetry == Permutations(Runs) \cup Permutations(Handlers) \cup Permutations(Workers)
=============================================================================
