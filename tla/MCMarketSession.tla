-------------------------- MODULE MCMarketSession --------------------------
(* MarketSession for TLC: a start in every half hour of the first week. *)
EXTENDS MarketSession

MCStart == {30 * k : k \in 0 .. 7 * 48 - 1} \cup {Day - 1, 6 * 60 + 29, 5 * Day - 541}
=============================================================================
