--------------------------- MODULE MCOrphanBlocks ---------------------------
(***************************************************************************)
(* A small tree for OrphanBlocks.                                          *)
(*                                                                         *)
(*   g - p - a - x        a, b and c have the same stake, d has another,   *)
(*       |\                p, x, y and z are proofs of work.               *)
(*       | b - y          b is refused, d may be indexed and not           *)
(*       |\                connected.                                      *)
(*       c d - z                                                           *)
(***************************************************************************)
EXTENDS OrphanBlocks

MCParent == [b \in Block \ {Genesis} |->
    CASE b = "p" -> "g" [] b \in {"a", "b", "c", "d"} -> "p" [] b = "x" -> "a" [] b = "y" -> "b" [] b = "z" -> "d"]

MCHeight == [b \in Block |->
    CASE b = "g" -> 0 [] b = "p" -> 1 [] b \in {"x", "y", "z"} -> 3 [] OTHER -> 2]

MCAncestors ==
    LET anc[b \in Block] == IF b = Genesis THEN {b} ELSE {b} \cup anc[MCParent[b]]
    IN  anc

MCStake == [b \in Block |->
    CASE b \in {"a", "b", "c"} -> "s" [] b = "d" -> "r" [] OTHER -> None]
=============================================================================
