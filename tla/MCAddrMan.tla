----------------------------- MODULE MCAddrMan -----------------------------
(***************************************************************************)
(* Five services on four hosts, heard of from two peers, in two new        *)
(* buckets and one tried bucket, all of one place.                         *)
(***************************************************************************)
EXTENDS AddrMan

\* a and a2 are one host with two ports.
MCIp == [a \in Addr |-> IF a = "a2" THEN "a" ELSE a]

\* From the first peer all go to one bucket, from the second they spread.
MCGetNewBucket ==
    [a \in Addr |-> [s \in Source |-> IF s = "s1" \/ a = "c" THEN "n1" ELSE "n2"]]
MCGetTriedBucket == [a \in Addr |-> "k1"]
=============================================================================
