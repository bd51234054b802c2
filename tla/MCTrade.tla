------------------------------ MODULE MCTrade ------------------------------
(* Small instances of Trade.                                               *)
EXTENDS Trade, TLC

CONSTANTS a, b, chair, coin, s1, s2
=============================================================================
