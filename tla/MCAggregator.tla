---------------------------- MODULE MCAggregator ----------------------------
(* Bounded instance of Aggregator: four lines, three of them equal, a        *)
(* window of one tick and a channel of one batch.                            *)
EXTENDS Aggregator, TLC

CONSTANTS a1, a2, a3, b1

MCLines == {a1, a2, a3, b1}
MCKeyOf == (a1 :> "a") @@ (a2 :> "a") @@ (a3 :> "a") @@ (b1 :> "b")

=============================================================================
