------------------------- MODULE MCReactionPlanner -------------------------
(* ReactionPlanner for TLC: the bounds of the presets and values next to them. *)
EXTENDS ReactionPlanner

MCProfiles ==
    {[symbol |-> Symbol, seconds |-> 1], [symbol |-> Symbol, seconds |-> 4],
     [symbol |-> "other", seconds |-> 1]}

MCSamples ==
    {0, 1, 2, 3, 6, 1000, 1500, 3000, 4000, 5000, 7000, 8000, 10000, 10001, 60000, 120000}
=============================================================================
