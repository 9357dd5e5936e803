-------------------------- MODULE MCOutputManager --------------------------
(* Bounded instance of OutputManager: a queue of two events, so that it is  *)
(* often full, and enough calls for two swaps to surround a line.           *)
EXTENDS OutputManager

=============================================================================
