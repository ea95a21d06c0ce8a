----------------------------- MODULE MCInstantX -----------------------------
(***************************************************************************)
(* Two transactions that share an input, and the votes of two primenodes,  *)
(* one of which is in the quorums of two heights.                          *)
(***************************************************************************)
EXTENDS InstantX

CONSTANTS p1, p2

MCIns == [t \in Tx |-> IF t = "t1" THEN {"a", "o"} ELSE {"o", "b"}]
MCLockHeight == [t \in Tx |-> 4]

\* One primenode drops out of the quorum from one height to the next.
MCQuorum == [h \in Height |-> IF h = 4 THEN {p1, p2} ELSE {p2}]

Vote(p, t, h) == [vinPrimenode |-> p, txHash |-> t, nBlockHeight |-> h]

\* Everyone votes for t1 at the heights whose quorum has him, two vote for t2.
MCVotes ==
    { v \in { Vote(p, "t1", h) : p \in Primenode, h \in Height } : v.vinPrimenode \in MCQuorum[v.nBlockHeight] }
    \cup { Vote(p, "t2", 4) : p \in {p1, p2} }

\* The height of the request only.
MCGoodVotes == { Vote(p, t, 4) : p \in {p1, p2}, t \in Tx }
=============================================================================
