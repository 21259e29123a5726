--------------------------- MODULE MCRabbitBroker ----------------------------
(* A small instance of RabbitBroker for TLC. *)
EXTENDS RabbitBroker, TLC
=============================================================================
