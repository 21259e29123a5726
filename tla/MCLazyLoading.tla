---- MODULE MCLazyLoading ----
(* A small instance of LazyLoading: interchangeable keys and workers. *)
EXTENDS LazyLoading, TLC

Symmetric == Permutations(Keys) \cup Permutations(Workers)
====
