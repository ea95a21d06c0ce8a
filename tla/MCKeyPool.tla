------------------------------ MODULE MCKeyPool ------------------------------
(***************************************************************************)
(* Two CReserveKey objects and a pool kept at one key beyond the next.     *)
(***************************************************************************)
EXTENDS KeyPool, TLC

CONSTANTS h1, h2

Symmetric == Permutations({h1, h2})
=============================================================================
