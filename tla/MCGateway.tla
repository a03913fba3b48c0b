----------------------------- MODULE MCGateway -----------------------------
(* Gateway for TLC: connections are interchangeable, and so are tickers of digits. *)
EXTENDS Gateway, TLC

GatewaySymmetry == Permutations(Conns) \cup Permutations(Tickers \ Lettered)
=============================================================================
