------------------------------ MODULE TxRelay ------------------------------
(***************************************************************************)
(* How a node gets loose transactions (main.cpp, net.h): a peer announces  *)
(* one, AskFor queues a request, SendMessages sends it when it is due, and *)
(* the transaction comes, is put into the memory pool, refused, or kept as *)
(* an orphan until its parents are known.                                  *)
(*                                                                         *)
(* Handlers and SendMessages hold cs_main and are one step each, except    *)
(* for the loop over vWorkQueue, one step for each transaction in it.      *)
(* Outside: blocks (a request for one is like any other), the messages the *)
(* node relays, bans, and what a node with fImporting set ignores.         *)
(***************************************************************************)
EXTENDS Integers, FiniteSets

CONSTANTS
    Peer,
    Tx,                 \* hashes
    Parents,            \* [Tx -> transactions among Tx whose outputs it spends]
    Big,                \* transactions of more than 5000 bytes
    Mixed,              \* transactions that a primenode sends as a dstx
    MAX_ORPHAN_TRANSACTIONS,
    MAPASKFOR_MAX_SZ,
    MaxAlreadyAsked,    \* how many requests mapAlreadyAskedFor keeps
    Retry,              \* two minutes, in ticks of the clock
    Answering,          \* peers that answer every getdata
    Announces,          \* bound: [Peer -> [Inv -> how often it announces it]]
    Unasked,            \* bound: [Peer -> what it may send, once, without being asked]
    Mineable            \* bound: transactions that blocks may have

ASSUME RelayAssumption ==
    /\ Parents \in [Tx -> SUBSET Tx] /\ Mixed \subseteq Tx /\ Answering \subseteq Peer
    /\ MAX_ORPHAN_TRANSACTIONS \in Nat /\ MAPASKFOR_MAX_SZ \in Nat
    /\ LET Inventory == [type : {"tx"}, hash : Tx] \cup [type : {"dstx"}, hash : Mixed]
       IN  Announces \in [Peer -> [Inventory -> Nat]] /\ Unasked \in [Peer -> SUBSET Inventory]
    /\ Mineable \subseteq Tx
    /\ MaxAlreadyAsked \in Nat \ {0, 1} /\ Retry \in Nat \ {0}

VARIABLES
    pool,           \* mempool
    chain,          \* the transactions in txdb
    orphans,        \* mapOrphanTransactions
    byPrev,         \* mapOrphanTransactionsByPrev; no entry is the empty set
    dstx,           \* mapDarksendBroadcastTxes
    setAskFor,      \* [Peer -> hashes]
    mapAskFor,      \* [Peer -> pairs of a time and what to ask for then]; equal pairs are one
    alreadyAsked,   \* mapAlreadyAskedFor: [Inv -> time], 0 for none
    now,            \* the clock
    asked,          \* [Peer -> what it was asked for and has not answered]
    announced,      \* [Peer -> [Inv -> how often it announced it]]
    unasked,        \* history: [Peer -> what it has sent without being asked]
    vWorkQueue,     \* a set: the order makes no difference
    vEraseQueue

ledgerVars == <<pool, chain>>
orphanVars == <<orphans, byPrev>>
loopVars == <<vWorkQueue, vEraseQueue>>
askVars == <<setAskFor, mapAskFor, alreadyAsked>>
peerVars == <<asked, announced, unasked>>
vars == <<ledgerVars, orphanVars, dstx, askVars, now, peerVars, loopVars>>

Inv == [type : {"tx"}, hash : Tx] \cup [type : {"dstx"}, hash : Mixed]

\* Nothing else has cs_main while the loop runs.
Idle == vWorkQueue = {} /\ vEraseQueue = {}

Init ==
    /\ pool = {} /\ chain \in { S \in SUBSET Mineable : \A t \in S : Parents[t] \subseteq S }
    /\ orphans = {} /\ byPrev = [t \in Tx |-> {}] /\ dstx = {}
    /\ setAskFor = [p \in Peer |-> {}] /\ mapAskFor = [p \in Peer |-> {}]
    /\ alreadyAsked = [i \in Inv |-> 0] /\ now = Retry
    /\ asked = [p \in Peer |-> {}] /\ announced = [p \in Peer |-> [i \in Inv |-> 0]]
    /\ unasked = [p \in Peer |-> {}]
    /\ vWorkQueue = {} /\ vEraseQueue = {}

-----------------------------------------------------------------------------
(* Requests. *)

AlreadyHave(i) == IF i.type = "dstx" THEN i.hash \in dstx ELSE i.hash \in pool \cup orphans \cup chain

\* limitedmap: a new entry that fills the map drops the one with the least time.
Remember(i, T) ==
    LET kept == { j \in Inv : alreadyAsked[j] # 0 }
        oldest == { j \in kept : \A k \in kept : alreadyAsked[j] <= alreadyAsked[k] }
        new == [alreadyAsked EXCEPT ![i] = T]
    IN  IF i \in kept \/ Cardinality(kept) + 1 < MaxAlreadyAsked THEN {new}
        ELSE { [new EXCEPT ![j] = 0] : j \in oldest }

RequestTime(i) == IF alreadyAsked[i] + Retry > now THEN alreadyAsked[i] + Retry ELSE now

AskFor(p, i) ==
    IF Cardinality(mapAskFor[p]) > MAPASKFOR_MAX_SZ \/ i.hash \in setAskFor[p]
    THEN UNCHANGED askVars
    ELSE /\ setAskFor' = [setAskFor EXCEPT ![p] = @ \cup {i.hash}]
         /\ mapAskFor' = [mapAskFor EXCEPT ![p] = @ \cup {<<RequestTime(i), i>>}]
         /\ alreadyAsked' \in Remember(i, RequestTime(i))

\* The inv message, also for what p announced before.
ReceiveInv(p, i) ==
    /\ Idle /\ announced[p][i] < Announces[p][i]
    /\ announced' = [announced EXCEPT ![p][i] = @ + 1]
    /\ IF AlreadyHave(i) THEN UNCHANGED askVars ELSE AskFor(p, i)
    /\ UNCHANGED <<ledgerVars, orphanVars, dstx, now, asked, unasked, loopVars>>

\* Wrong on purpose: what is asked for is no longer expected.
SendGetDataForgets(p) ==
    LET due == { i \in Inv : \E T \in 0..now : <<T, i>> \in mapAskFor[p] }
    IN  /\ Idle /\ due # {}
        /\ mapAskFor' = [mapAskFor EXCEPT ![p] = { e \in @ : e[1] > now }]
        /\ asked' = [asked EXCEPT ![p] = @ \cup { i \in due : ~ AlreadyHave(i) }]
        /\ setAskFor' = [setAskFor EXCEPT ![p] = @ \ { i.hash : i \in due }]
        /\ UNCHANGED <<ledgerVars, orphanVars, dstx, alreadyAsked, now, announced, unasked,
                   loopVars>>

\* Wrong on purpose: of what is due, one is asked for and the others are dropped.
SendGetDataLoses(p) ==
    LET due == { i \in Inv : \E T \in 0..now : <<T, i>> \in mapAskFor[p] }
        had == { i \in due : AlreadyHave(i) }
    IN  /\ Idle /\ due # {}
        /\ mapAskFor' = [mapAskFor EXCEPT ![p] = { e \in @ : e[1] > now }]
        /\ \E i \in due : asked' = [asked EXCEPT ![p] = @ \cup ({i} \ had)]
        /\ setAskFor' = [setAskFor EXCEPT ![p] = @ \ { i.hash : i \in had }]
        /\ UNCHANGED <<ledgerVars, orphanVars, dstx, alreadyAsked, now, announced, unasked,
                   loopVars>>

\* SendMessages asks p for what is due, or does not expect it any more.
SendGetData(p) ==
    LET due == { i \in Inv : \E T \in 0..now : <<T, i>> \in mapAskFor[p] }
        had == { i \in due : AlreadyHave(i) }
    IN  /\ Idle /\ due # {}
        /\ mapAskFor' = [mapAskFor EXCEPT ![p] = { e \in @ : e[1] > now }]
        /\ asked' = [asked EXCEPT ![p] = @ \cup (due \ had)]
        /\ setAskFor' = [setAskFor EXCEPT ![p] = @ \ { i.hash : i \in had }]
        /\ UNCHANGED <<ledgerVars, orphanVars, dstx, alreadyAsked, now, announced, unasked,
                   loopVars>>

-----------------------------------------------------------------------------
(* Orphans. *)

\* Wrong on purpose: the index keeps what the map has not.
DelistNothing(index, E) == index

\* EraseOrphanTx on the index, for each orphan of E.
Delist(index, E) == [t \in Tx |-> index[t] \ { h \in E : t \in Parents[h] }]

\* AddOrphanTx, then LimitOrphanTxSize, which erases at random.
KeepOrphan(t) ==
    LET new == {t} \ (orphans \cup Big)
        index == [x \in Tx |-> byPrev[x] \cup { h \in new : x \in Parents[h] }]
        all == orphans \cup new
        excess == Cardinality(all) - MAX_ORPHAN_TRANSACTIONS
    IN  \E E \in SUBSET all :
          /\ Cardinality(E) = IF excess > 0 THEN excess ELSE 0
          /\ orphans' = all \ E /\ byPrev' = Delist(index, E)

\* AcceptToMemoryPool: whether t is standard, pays, and conflicts with nothing is a
\* choice.  Its parents must be in txdb; those in the memory pool are not looked for.
Verdicts(t) ==
    {"refused"} \cup
    IF t \in pool \cup chain THEN {}
    ELSE IF Parents[t] \subseteq chain THEN {"accepted"} ELSE {"missing"}

\* What tx and dstx do with a transaction that is new.
Take(t) ==
    \E verdict \in Verdicts(t) :
      /\ pool' = IF verdict = "accepted" THEN pool \cup {t} ELSE pool
      /\ vWorkQueue' = IF verdict = "accepted" THEN {t} ELSE {}
      /\ IF verdict = "missing" THEN KeepOrphan(t) ELSE UNCHANGED orphanVars

\* A transaction comes from p, which may have been asked for it or not: the handler does
\* not look.
ReceiveTx(p, i) ==
    /\ Idle /\ i \in asked[p] \cup (Unasked[p] \ unasked[p])
    /\ asked' = [asked EXCEPT ![p] = @ \ {i}]
    /\ unasked' = [unasked EXCEPT ![p] = @ \cup ({i} \ asked[p])]
    /\ \/ \* AlreadyHave, or a dstx that its primenode may not send or has not signed
          /\ AlreadyHave(i) \/ i.type = "dstx"
          /\ UNCHANGED <<pool, orphanVars, dstx, setAskFor, alreadyAsked, vWorkQueue>>
       \/ /\ ~ AlreadyHave(i)
          /\ \* the primenode of a dstx may be unknown
             dstx' \in IF i.type = "dstx" THEN {dstx, dstx \cup {i.hash}} ELSE {dstx}
          /\ setAskFor' = [setAskFor EXCEPT ![p] = @ \ {i.hash}]
          /\ alreadyAsked' = [alreadyAsked EXCEPT ![i] = 0]
          /\ Take(i.hash)
    /\ UNCHANGED <<chain, mapAskFor, now, announced, vEraseQueue>>

\* The orphans that wait for a transaction of vWorkQueue are tried.
WorkOff ==
    /\ \E t \in vWorkQueue :
       \E verdict \in [byPrev[t] -> {"accepted", "refused", "missing"}] :
         /\ \A o \in byPrev[t] : verdict[o] \in Verdicts(o)
         /\ LET accepted == { o \in byPrev[t] : verdict[o] = "accepted" }
            IN  pool' = pool \cup accepted /\ vWorkQueue' = (vWorkQueue \ {t}) \cup accepted
         /\ vEraseQueue' = vEraseQueue \cup { o \in byPrev[t] : verdict[o] # "missing" }
    /\ UNCHANGED <<chain, orphanVars, dstx, askVars, now, peerVars>>

EraseQueued ==
    /\ vWorkQueue = {} /\ vEraseQueue # {}
    /\ orphans' = orphans \ vEraseQueue
    /\ byPrev' = Delist(byPrev, vEraseQueue \cap orphans)
    /\ vEraseQueue' = {}
    /\ UNCHANGED <<ledgerVars, dstx, askVars, now, peerVars, vWorkQueue>>

-----------------------------------------------------------------------------
(* The rest of the node, the peers and the clock. *)

\* A block with t is connected.
Confirm(t) ==
    /\ Idle /\ t \in Mineable \ chain /\ Parents[t] \subseteq chain
    /\ chain' = chain \cup {t} /\ pool' = pool \ {t}
    /\ UNCHANGED <<orphanVars, dstx, askVars, now, peerVars, loopVars>>

\* It is disconnected, and t is taken back or refused.
Unconfirm(t) ==
    /\ Idle /\ t \in chain /\ \A u \in chain : t \notin Parents[u]
    /\ chain' = chain \ {t} /\ pool' \in {pool, pool \cup {t}}
    /\ UNCHANGED <<orphanVars, dstx, askVars, now, peerVars, loopVars>>

\* The wallet or an RPC command sends t, which does not look for orphans.
SendRaw(t) ==
    /\ Idle /\ "accepted" \in Verdicts(t)
    /\ pool' = pool \cup {t} /\ UNCHANGED chain
    /\ UNCHANGED <<orphanVars, dstx, askVars, now, peerVars, loopVars>>

\* t conflicts with a block, and goes.
Conflict(t) ==
    /\ Idle /\ t \in pool
    /\ pool' = pool \ {t} /\ UNCHANGED chain
    /\ UNCHANGED <<orphanVars, dstx, askVars, now, peerVars, loopVars>>

\* p does not have what it was asked for, or does not answer.  A notfound is not handled.
NoAnswer(p, i) ==
    /\ p \notin Answering /\ i \in asked[p]
    /\ asked' = [asked EXCEPT ![p] = @ \ {i}]
    /\ UNCHANGED <<ledgerVars, orphanVars, dstx, askVars, now, announced, unasked,
                   loopVars>>

\* p goes, and what the node keeps for it.  Connected again, it announces what is new.
Disconnect(p) ==
    /\ Idle /\ setAskFor[p] # {}
    /\ setAskFor' = [setAskFor EXCEPT ![p] = {}] /\ mapAskFor' = [mapAskFor EXCEPT ![p] = {}]
    /\ asked' = [asked EXCEPT ![p] = {}]
    /\ UNCHANGED <<ledgerVars, orphanVars, dstx, alreadyAsked, now, announced, unasked,
                   loopVars>>

\* The clock, while a time that is kept may still matter, or lie behind another one.
Tick ==
    /\ Idle
    /\ \/ \E i \in Inv : alreadyAsked[i] + Retry > now
       \/ \E p \in Peer : \E e \in mapAskFor[p] : e[1] >= now
    /\ now' = now + 1
    /\ UNCHANGED <<ledgerVars, orphanVars, dstx, askVars, peerVars, loopVars>>

Next ==
    \/ \E p \in Peer, i \in Inv : ReceiveInv(p, i) \/ ReceiveTx(p, i) \/ NoAnswer(p, i)
    \/ \E p \in Peer : SendGetData(p) \/ Disconnect(p)
    \/ WorkOff \/ EraseQueued
    \/ \E t \in Tx : Confirm(t) \/ Unconfirm(t) \/ SendRaw(t) \/ Conflict(t)
    \/ Tick

Spec == Init /\ [][Next]_vars

\* The threads that handle and send messages come back to every peer, the loop ends,
\* the clock goes on, and peers in Answering answer.
FairSpec ==
    /\ Spec
    /\ WF_vars(WorkOff) /\ WF_vars(EraseQueued) /\ WF_vars(Tick)
    /\ \A p \in Peer : SF_vars(SendGetData(p))
    /\ \A p \in Answering : SF_vars(\E i \in asked[p] : ReceiveTx(p, i))

-----------------------------------------------------------------------------
(* Properties. *)

\* Every variable has its type.
TypeOK ==
    /\ pool \subseteq Tx /\ chain \subseteq Tx /\ orphans \subseteq Tx /\ dstx \subseteq Mixed
    /\ byPrev \in [Tx -> SUBSET Tx]
    /\ setAskFor \in [Peer -> SUBSET Tx] /\ mapAskFor \in [Peer -> SUBSET (Nat \X Inv)]
    /\ alreadyAsked \in [Inv -> Nat] /\ now \in Nat
    /\ asked \in [Peer -> SUBSET Inv] /\ announced \in [Peer -> [Inv -> Nat]]
    /\ unasked \in [Peer -> SUBSET Inv]
    /\ vWorkQueue \subseteq Tx /\ vEraseQueue \subseteq Tx

\* The index lists each orphan under each of its parents and nothing else: the loop
\* over vWorkQueue reads mapOrphanTransactions at what the index lists, which would make
\* an empty transaction of a hash that is not there.
OrphanIndexExact == \A t \in Tx : byPrev[t] = { o \in orphans : t \in Parents[o] }

\* The places of a hash at p, whether as tx or as dstx: it waits to be asked for, or to
\* be answered.  p's setAskFor has it as long as there is one.
Positions(p, h) ==
    Cardinality({ e \in mapAskFor[p] : e[2].hash = h }) + Cardinality({ i \in asked[p] : i.hash = h })

PlacedOnce(p, h) == Positions(p, h) <= 1 /\ (Positions(p, h) = 1 => h \in setAskFor[p])

\* "a peer may not have multiple non-responded queue positions for a single inv item"
\* (AskFor), whatever is announced again and again, asked for, refused, found elsewhere
\* or answered late by others.  The exception is a transaction that the peer itself sent
\* without being asked: it takes the hash out of setAskFor and leaves its place in
\* mapAskFor, and the next inv queues the hash a second time.
OneUnlessUnasked ==
    \A p \in Peer, h \in Tx : (\A i \in unasked[p] : i.hash # h) => PlacedOnce(p, h)

\* "Recursively process any orphan transactions that depended on this one": an orphan
\* that waits for a transaction the loop takes up, with every parent in the memory pool
\* or in the chain, is settled.  AcceptToMemoryPool wants its parents in txdb, so that it
\* goes on waiting.
OrphansFollow ==
    [][\A t \in vWorkQueue \ vWorkQueue' : \A o \in byPrev[t] :
         Parents[o] \subseteq pool' \cup chain => o \in vEraseQueue']_vars

\* What the loop does instead: it accepts no orphan at all, for each waits for a
\* transaction that was taken into the memory pool just now.
LoopAcceptsNothing == [][vWorkQueue # {} => pool' = pool]_vars

\* A request that is queued for a peer that answers gets the transaction, from it or
\* from another, or an answer, whatever other peers and the rest of the node do.
RequestsAreSettled ==
    \A p \in Answering, i \in [type : {"tx"}, hash : Tx \ Mixed] :
      (\E e \in mapAskFor[p] : e[2] = i) ~> (AlreadyHave(i) \/ i.hash \notin setAskFor[p])
=============================================================================
