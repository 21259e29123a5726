----------------------------- MODULE MCWriteBack ----------------------------
(* A small instance of WriteBack: interchangeable keys and workers. *)
EXTENDS WriteBack, TLC

Symmetric == Permutations(Keys) \cup Permutations(Workers)
=============================================================================
