--------------------------- MODULE MCEngineBreaker ---------------------------
(* A small instance of EngineBreaker for TLC. *)
EXTENDS EngineBreaker

CONSTANTS c1, c2
=============================================================================
