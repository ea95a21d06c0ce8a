---------------------------- MODULE MCChainState ----------------------------
(***************************************************************************)
(* A small block tree for ChainState.                                      *)
(*                                                                         *)
(*   g - a1 - a2 - a3        a1 holds the coinbase cb (two outputs),       *)
(*         |\                a2 holds t1, a3 holds t3,                     *)
(*         | b2 - b3         b2 holds nothing, b3 the coinbase cb3,        *)
(*         |                                                               *)
(*         c2 - c3 - c4      c2 holds t2, c3 holds t3, c4 nothing          *)
(*                                                                         *)
(* t1 and t2 spend the same output of cb, t3 spends t1, t4 spends the other *)
(* output of cb and is in no block.  So c3 never connects: its t3 spends a *)
(* transaction that is not on its chain.  When it fails as a postponed     *)
(* block, c4 is connected on top of what is not there, and for b3 the node *)
(* tries to leave what was never connected.                                *)
(***************************************************************************)
EXTENDS ChainState

MCParent == [b \in Block \ {Genesis} |->
    CASE b = "a1" -> "g"
      [] b \in {"a2", "b2", "c2"} -> "a1"
      [] b = "a3" -> "a2" [] b = "b3" -> "b2" [] b = "c3" -> "c2" [] b = "c4" -> "c3"]

MCChainTrust == [b \in Block |->
    CASE b = "g" -> 1 [] b = "a1" -> 2 [] b = "a2" -> 3 [] b = "b2" -> 4
      [] b = "c2" -> 5 [] b = "a3" -> 6 [] b = "c3" -> 7 [] b = "b3" -> 8 [] b = "c4" -> 9]

MCHeight == [b \in Block |->
    CASE b = "g" -> 0 [] b = "a1" -> 1 [] b \in {"a2", "b2", "c2"} -> 2 [] b = "c4" -> 4 [] OTHER -> 3]

MCAncestors ==
    LET anc[b \in Block] == IF b = Genesis THEN {b} ELSE {b} \cup anc[MCParent[b]]
    IN  anc

MCBlockTxs == [b \in Block |->
    CASE b = "a1" -> <<"cb">> [] b = "a2" -> <<"t1">> [] b = "c2" -> <<"t2">>
      [] b \in {"a3", "c3"} -> <<"t3">> [] b = "b3" -> <<"cb3">> [] OTHER -> <<>>]

MCTx == {"cb", "cb3", "t1", "t2", "t3", "t4"}

\* An outpoint is the pair of the transaction and the number of its output.
MCOutpoint == {<<"cb", 0>>, <<"cb", 1>>, <<"t1", 0>>}

MCProducer == [o \in MCOutpoint |-> o[1]]

MCIns == [t \in MCTx |->
    CASE t \in {"t1", "t2"} -> {<<"cb", 0>>} [] t = "t4" -> {<<"cb", 1>>}
      [] t = "t3" -> {<<"t1", 0>>} [] OTHER -> {}]

MCLockable == {<<"cb", 0>>}
=============================================================================
