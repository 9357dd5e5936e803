----------------------------- MODULE MCTailers -----------------------------
(* Bounded instance of Tailers: every type of source, three pieces of file   *)
(* with one upset and two runs of the program, two lines and two exits of a  *)
(* process, and a channel that one error fills.                              *)
EXTENDS Tailers

=============================================================================
