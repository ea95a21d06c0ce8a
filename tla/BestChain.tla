------------------------------ MODULE BestChain ------------------------------
(***************************************************************************)
(* What the transaction database promises, whatever SetBestChain does to   *)
(* keep the promise: it always holds exactly one chain, completely         *)
(* connected, and moves to a strictly heavier valid chain in one step.     *)
(* The promise holds until the ledger is torn, by a job that goes on from  *)
(* a block that is not connected; then only the weight of the chain that   *)
(* is named best is promised.                                              *)
(***************************************************************************)
EXTENDS Integers, Sequences

CONSTANTS Block, Genesis, ChainTrust, Ancestors, BlockTxs, Tx, Outpoint, Producer, Ins, None

VARIABLES best,   \* the block whose chain is connected
          txs,    \* the transactions of that chain
          spent,  \* [Outpoint -> Tx or None], by whom each output is spent
          torn    \* whether the promise has ended

ledger == <<best, txs, spent, torn>>

ChainTxs(b) == UNION { { BlockTxs[a][i] : i \in DOMAIN BlockTxs[a] } : a \in Ancestors[b] }

\* Every output is spent at most once on the chain, and only if it is on it.
ValidChain(b) ==
    \A o \in Outpoint : \A t, u \in ChainTxs(b) :
        o \in Ins[t] => Producer[o] \in ChainTxs(b) /\ (o \in Ins[u] => t = u)

Init == best = Genesis /\ txs = {} /\ spent = [o \in Outpoint |-> None] /\ torn = FALSE

Switch(b) ==
    /\ ~ torn /\ ~ torn'
    /\ ChainTrust[b] > ChainTrust[best]
    /\ ValidChain(b)
    /\ best' = b
    /\ txs' = ChainTxs(b)
    /\ spent' = [o \in Outpoint |-> IF \E t \in ChainTxs(b) : o \in Ins[t]
                                      THEN CHOOSE t \in ChainTxs(b) : o \in Ins[t] ELSE None]

\* A torn ledger: what it holds is anything, what it names is no lighter.
Torn(b) ==
    /\ torn'
    /\ ChainTrust[b] >= ChainTrust[best]
    /\ best' = b

Next == \E b \in Block : Switch(b) \/ Torn(b)

Spec == Init /\ [][Next]_ledger
=============================================================================
