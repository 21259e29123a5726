---- MODULE MCWriteThrough ----
(* A small instance of WriteThrough: interchangeable keys and workers. *)
EXTENDS WriteThrough, TLC

Symmetric == Permutations(Keys) \cup Permutations(Workers)
====
