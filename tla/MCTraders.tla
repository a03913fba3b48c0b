----------------------------- MODULE MCTraders -----------------------------
(* Traders for TLC: seeds on both sides of zero. *)
EXTENDS Traders

MCSeeds == -1 .. 2
=============================================================================
