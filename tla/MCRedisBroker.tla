--------------------------- MODULE MCRedisBroker ----------------------------
(* A small instance of RedisBroker for TLC. *)
EXTENDS RedisBroker, TLC
=============================================================================
