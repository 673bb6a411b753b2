------------------------------- MODULE MCLadder ------------------------------
(* An instance of Ladder for TLC: three rates, as in the built-in ladder.  *)
EXTENDS Ladder
MCRates == <<5, 10, 20>>
=============================================================================
