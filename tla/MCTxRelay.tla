----------------------------- MODULE MCTxRelay -----------------------------
(***************************************************************************)
(* A peer that answers, and may announce again and send unasked, and one   *)
(* that may not answer; a transaction, its child, which has a dstx, and    *)
(* its grandchild, of which one orphan at a time is kept.                  *)
(***************************************************************************)
EXTENDS TxRelay

MCParents == [t \in Tx |-> Tx \cap (CASE t = "a" -> {} [] t = "b" -> {"a"} [] OTHER -> {"a", "b"})]

MCAnnounces ==
    [x \in Peer |-> [i \in Inv |->
        CASE i.hash = "c" -> IF x = "p" THEN 2 ELSE 1
          [] i = [type |-> "tx", hash |-> "b"] /\ x = "p" -> 1
          [] OTHER -> 0]]
MCUnasked == [x \in Peer |-> { i \in Inv : x = "p" /\ i.type = "dstx" }]
=============================================================================
