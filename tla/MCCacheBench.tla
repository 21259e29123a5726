---- MODULE MCCacheBench ----
(* A small instance of CacheBench: one key, interchangeable workers. *)
EXTENDS CacheBench

Symmetric == Permutations(Workers)
====
