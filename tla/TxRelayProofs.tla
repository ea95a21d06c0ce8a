--------------------------- MODULE TxRelayProofs ---------------------------
(***************************************************************************)
(* What TxRelay keeps true for any transactions, peers and limits: the     *)
(* index of the orphans is exact, the loop over vWorkQueue accepts none of *)
(* them, and a hash has one place at a peer that did not send it unasked.  *)
(***************************************************************************)
EXTENDS TxRelay, FiniteSetTheorems, TLAPS

\* What the loop works off was accepted, and so is not in txdb.
QueueInv == vWorkQueue \cap chain = {}

\* One place at most for a hash h among the requests M that wait and A that are not
\* answered, and S knows of it.
Once(M, A, S, h) ==
    /\ \A e \in M : e[2].hash = h => h \in S
    /\ \A i \in A : i.hash = h => h \in S
    /\ \A e, f \in M : e[2].hash = h /\ f[2].hash = h => e = f
    /\ \A i, j \in A : i.hash = h /\ j.hash = h => i = j
    /\ \A e \in M, i \in A : e[2].hash = h => i.hash # h

\* p has not sent h without being asked.
Quiet(p, h) == \A i \in unasked[p] : i.hash # h

PositionInv == \A p \in Peer, h \in Tx : Quiet(p, h) => Once(mapAskFor[p], asked[p], setAskFor[p], h)

IInv == TypeOK /\ OrphanIndexExact /\ QueueInv /\ PositionInv

-----------------------------------------------------------------------------
(* Types. *)

\* Every request is for a hash of Tx.
LEMMA InvHash ==
  ASSUME NEW i \in Inv
  PROVE  i.hash \in Tx /\ (i.type = "dstx" => i.hash \in Mixed)
BY RelayAssumption DEF Inv

\* Times stay times when a request is remembered.
LEMMA RememberType ==
  ASSUME TypeOK, NEW i \in Inv, NEW T \in Nat, NEW new \in Remember(i, T)
  PROVE  new \in [Inv -> Nat]
BY DEF Remember, TypeOK

\* The index with new orphans is an index.
LEMMA DelistType ==
  ASSUME NEW index \in [Tx -> SUBSET Tx], NEW E
  PROVE  Delist(index, E) \in [Tx -> SUBSET Tx]
BY DEF Delist

\* A kept or refused orphan leaves both maps typed.
LEMMA KeepOrphanType ==
  ASSUME TypeOK, NEW t \in Tx, KeepOrphan(t)
  PROVE  orphans' \subseteq Tx /\ byPrev' \in [Tx -> SUBSET Tx]
<1> DEFINE new == {t} \ (orphans \cup Big)
           index == [x \in Tx |-> byPrev[x] \cup { h \in new : x \in Parents[h] }]
<1>1. index \in [Tx -> SUBSET Tx]
  BY DEF TypeOK
<1>2. PICK E \in SUBSET (orphans \cup new) : orphans' = (orphans \cup new) \ E /\ byPrev' = Delist(index, E)
  BY DEF KeepOrphan
<1>3. byPrev' \in [Tx -> SUBSET Tx]
  BY <1>1, <1>2, DelistType
<1> QED BY <1>2, <1>3 DEF TypeOK

\* Taking a transaction leaves what it may change typed.
LEMMA TakeType ==
  ASSUME TypeOK, NEW t \in Tx, Take(t)
  PROVE  pool' \subseteq Tx /\ vWorkQueue' \subseteq Tx /\ orphans' \subseteq Tx /\ byPrev' \in [Tx -> SUBSET Tx]
<1>1. PICK verdict \in Verdicts(t) :
        /\ pool' = IF verdict = "accepted" THEN pool \cup {t} ELSE pool
        /\ vWorkQueue' = IF verdict = "accepted" THEN {t} ELSE {}
        /\ IF verdict = "missing" THEN KeepOrphan(t) ELSE UNCHANGED orphanVars
  BY DEF Take
<1>2. orphans' \subseteq Tx /\ byPrev' \in [Tx -> SUBSET Tx]
  <2>1. CASE verdict = "missing" BY <1>1, <2>1, KeepOrphanType
  <2>2. CASE verdict # "missing" BY <1>1, <2>2 DEF TypeOK, orphanVars
  <2> QED BY <2>1, <2>2
<1> QED BY <1>1, <1>2 DEF TypeOK

\* Every step keeps the types.
LEMMA TypeStep ==
  ASSUME TypeOK, [Next]_vars
  PROVE  TypeOK'
<1> USE DEF TypeOK, ledgerVars, orphanVars, loopVars, askVars, peerVars
<1>1. ASSUME NEW p \in Peer, NEW i \in Inv, ReceiveInv(p, i)
      PROVE  TypeOK'
  <2> USE <1>1
  <2>1. i.hash \in Tx
    BY InvHash
  <2>2. RequestTime(i) \in Nat
    BY RelayAssumption DEF RequestTime
  <2>3. /\ setAskFor' \in [Peer -> SUBSET Tx] /\ mapAskFor' \in [Peer -> SUBSET (Nat \X Inv)]
        /\ alreadyAsked' \in [Inv -> Nat]
    <3>1. CASE UNCHANGED askVars BY <3>1
    <3>2. CASE /\ setAskFor' = [setAskFor EXCEPT ![p] = @ \cup {i.hash}]
               /\ mapAskFor' = [mapAskFor EXCEPT ![p] = @ \cup {<<RequestTime(i), i>>}]
               /\ alreadyAsked' \in Remember(i, RequestTime(i))
      BY <2>1, <2>2, <3>2, RememberType
    <3> QED BY <3>1, <3>2 DEF ReceiveInv, AskFor
  <2>4. announced' \in [Peer -> [Inv -> Nat]]
    BY DEF ReceiveInv
  <2> QED BY <2>3, <2>4 DEF ReceiveInv
<1>2. ASSUME NEW p \in Peer, NEW i \in Inv, ReceiveTx(p, i)
      PROVE  TypeOK'
  <2> USE <1>2
  <2>1. i.hash \in Tx /\ (i.type = "dstx" => i.hash \in Mixed)
    BY InvHash
  <2>2. asked' \in [Peer -> SUBSET Inv] /\ unasked' \in [Peer -> SUBSET Inv]
    BY DEF ReceiveTx
  <2>3. CASE UNCHANGED <<pool, orphanVars, dstx, setAskFor, alreadyAsked, vWorkQueue>>
    BY <2>2, <2>3 DEF ReceiveTx
  <2>4. CASE /\ dstx' \in IF i.type = "dstx" THEN {dstx, dstx \cup {i.hash}} ELSE {dstx}
             /\ setAskFor' = [setAskFor EXCEPT ![p] = @ \ {i.hash}]
             /\ alreadyAsked' = [alreadyAsked EXCEPT ![i] = 0]
             /\ Take(i.hash)
    <3>1. pool' \subseteq Tx /\ vWorkQueue' \subseteq Tx /\ orphans' \subseteq Tx /\ byPrev' \in [Tx -> SUBSET Tx]
      BY <2>1, <2>4, TakeType
    <3>2. dstx' \subseteq Mixed /\ setAskFor' \in [Peer -> SUBSET Tx] /\ alreadyAsked' \in [Inv -> Nat]
      BY <2>1, <2>4
    <3> QED BY <2>2, <3>1, <3>2 DEF ReceiveTx
  <2> QED BY <2>3, <2>4 DEF ReceiveTx
<1>3. ASSUME NEW p \in Peer, NEW i \in Inv, NoAnswer(p, i)
      PROVE  TypeOK'
  BY <1>3 DEF NoAnswer
<1>4. ASSUME NEW p \in Peer, SendGetData(p)
      PROVE  TypeOK'
  BY <1>4 DEF SendGetData
<1>5. ASSUME NEW p \in Peer, Disconnect(p)
      PROVE  TypeOK'
  BY <1>5 DEF Disconnect
<1>6. CASE WorkOff
  BY <1>6 DEF WorkOff
<1>7. CASE EraseQueued
  <2>1. orphans' \subseteq Tx /\ byPrev' \in [Tx -> SUBSET Tx]
    BY <1>7, DelistType DEF EraseQueued
  <2> QED BY <1>7, <2>1 DEF EraseQueued
<1>8. ASSUME NEW t \in Tx, Confirm(t) \/ Unconfirm(t) \/ SendRaw(t) \/ Conflict(t)
      PROVE  TypeOK'
  BY <1>8 DEF Confirm, Unconfirm, SendRaw, Conflict
<1>9. CASE Tick
  BY <1>9 DEF Tick
<1>10. CASE UNCHANGED vars
  BY <1>10 DEF vars
<1> QED BY <1>1, <1>2, <1>3, <1>4, <1>5, <1>6, <1>7, <1>8, <1>9, <1>10 DEF Next

-----------------------------------------------------------------------------
(* The orphans. *)

\* AddOrphanTx and LimitOrphanTxSize keep the index exact.
LEMMA KeepOrphanIndex ==
  ASSUME TypeOK, OrphanIndexExact, NEW t \in Tx, KeepOrphan(t)
  PROVE  OrphanIndexExact'
<1> DEFINE new == {t} \ (orphans \cup Big)
           index == [x \in Tx |-> byPrev[x] \cup { h \in new : x \in Parents[h] }]
<1>1. PICK E \in SUBSET (orphans \cup new) : orphans' = (orphans \cup new) \ E /\ byPrev' = Delist(index, E)
  BY DEF KeepOrphan
<1>2. ASSUME NEW x \in Tx
      PROVE  byPrev'[x] = { o \in orphans' : x \in Parents[o] }
  <2>1. byPrev'[x] = index[x] \ { h \in E : x \in Parents[h] }
    BY <1>1 DEF Delist
  <2>2. index[x] = { o \in orphans \cup new : x \in Parents[o] }
    BY DEF OrphanIndexExact
  <2> QED BY <1>1, <2>1, <2>2
<1> QED BY <1>2 DEF OrphanIndexExact

\* Erasing what the loop has done with keeps the index exact.
LEMMA EraseQueuedIndex ==
  ASSUME TypeOK, OrphanIndexExact, EraseQueued
  PROVE  OrphanIndexExact'
<1>1. ASSUME NEW x \in Tx
      PROVE  byPrev'[x] = { o \in orphans' : x \in Parents[o] }
  <2>1. byPrev'[x] = byPrev[x] \ { h \in vEraseQueue \cap orphans : x \in Parents[h] }
    BY DEF EraseQueued, Delist
  <2>2. byPrev[x] = { o \in orphans : x \in Parents[o] }
    BY DEF OrphanIndexExact
  <2> QED BY <2>1, <2>2 DEF EraseQueued
<1> QED BY <1>1 DEF OrphanIndexExact

\* Every step keeps the index exact.
LEMMA IndexStep ==
  ASSUME TypeOK, OrphanIndexExact, [Next]_vars
  PROVE  OrphanIndexExact'
<1>1. ASSUME UNCHANGED orphanVars
      PROVE  OrphanIndexExact'
  BY <1>1 DEF orphanVars, OrphanIndexExact
<1>2. ASSUME NEW p \in Peer, NEW i \in Inv, ReceiveTx(p, i), ~ UNCHANGED orphanVars
      PROVE  OrphanIndexExact'
  <2>1. Take(i.hash)
    BY <1>2 DEF ReceiveTx
  <2>2. KeepOrphan(i.hash)
    BY <1>2, <2>1 DEF Take
  <2> QED BY <2>2, InvHash, KeepOrphanIndex
<1>3. CASE EraseQueued
  BY <1>3, EraseQueuedIndex
<1>4. ASSUME NEW p \in Peer, NEW i \in Inv, ReceiveInv(p, i) \/ NoAnswer(p, i)
      PROVE  OrphanIndexExact'
  BY <1>1, <1>4 DEF ReceiveInv, NoAnswer
<1>5. ASSUME NEW p \in Peer, SendGetData(p) \/ Disconnect(p)
      PROVE  OrphanIndexExact'
  BY <1>1, <1>5 DEF SendGetData, Disconnect
<1>6. ASSUME NEW t \in Tx, Confirm(t) \/ Unconfirm(t) \/ SendRaw(t) \/ Conflict(t)
      PROVE  OrphanIndexExact'
  BY <1>1, <1>6 DEF Confirm, Unconfirm, SendRaw, Conflict
<1>7. CASE WorkOff \/ Tick \/ UNCHANGED vars
  BY <1>1, <1>7 DEF WorkOff, Tick, vars
<1> QED BY <1>1, <1>2, <1>3, <1>4, <1>5, <1>6, <1>7 DEF Next

\* While the loop runs, none of the orphans it tries may be accepted.
LEMMA NothingAccepted ==
  ASSUME OrphanIndexExact, QueueInv, TypeOK, NEW t \in vWorkQueue, NEW o \in byPrev[t]
  PROVE  "accepted" \notin Verdicts(o)
<1>1. t \in Tx /\ t \notin chain
  BY DEF QueueInv, TypeOK
<1>2. t \in Parents[o]
  BY <1>1 DEF OrphanIndexExact
<1>3. ~ Parents[o] \subseteq chain
  BY <1>1, <1>2
<1> QED BY <1>3 DEF Verdicts

\* So a step of the loop leaves the pool alone, and only shortens the queue.
LEMMA WorkOffStep ==
  ASSUME OrphanIndexExact, QueueInv, TypeOK, WorkOff
  PROVE  pool' = pool /\ vWorkQueue' \subseteq vWorkQueue
<1>1. PICK t \in vWorkQueue : \E verdict \in [byPrev[t] -> {"accepted", "refused", "missing"}] :
        /\ \A o \in byPrev[t] : verdict[o] \in Verdicts(o)
        /\ LET accepted == { o \in byPrev[t] : verdict[o] = "accepted" }
           IN  pool' = pool \cup accepted /\ vWorkQueue' = (vWorkQueue \ {t}) \cup accepted
  BY DEF WorkOff
<1>2. PICK verdict \in [byPrev[t] -> {"accepted", "refused", "missing"}] :
        /\ \A o \in byPrev[t] : verdict[o] \in Verdicts(o)
        /\ LET accepted == { o \in byPrev[t] : verdict[o] = "accepted" }
           IN  pool' = pool \cup accepted /\ vWorkQueue' = (vWorkQueue \ {t}) \cup accepted
  BY <1>1
<1>3. { o \in byPrev[t] : verdict[o] = "accepted" } = {}
  BY <1>2, NothingAccepted
<1> QED BY <1>2, <1>3

\* Every step keeps the queue clear of what is in txdb.
LEMMA QueueStep ==
  ASSUME TypeOK, OrphanIndexExact, QueueInv, [Next]_vars
  PROVE  QueueInv'
<1>1. ASSUME UNCHANGED <<vWorkQueue, chain>>
      PROVE  QueueInv'
  BY <1>1 DEF QueueInv
<1>2. ASSUME NEW p \in Peer, NEW i \in Inv, ReceiveTx(p, i)
      PROVE  QueueInv'
  <2>1. chain' = chain
    BY <1>2 DEF ReceiveTx
  <2>2. CASE vWorkQueue' = vWorkQueue
    BY <1>1, <2>1, <2>2
  <2>3. CASE Take(i.hash)
    BY <2>1, <2>3 DEF Take, Verdicts, QueueInv
  <2> QED BY <1>2, <2>2, <2>3 DEF ReceiveTx
<1>3. CASE WorkOff
  BY <1>3, WorkOffStep DEF QueueInv, WorkOff
<1>4. ASSUME NEW p \in Peer, NEW i \in Inv, ReceiveInv(p, i) \/ NoAnswer(p, i)
      PROVE  QueueInv'
  BY <1>1, <1>4 DEF ReceiveInv, NoAnswer, ledgerVars, loopVars
<1>5. ASSUME NEW p \in Peer, SendGetData(p) \/ Disconnect(p)
      PROVE  QueueInv'
  BY <1>1, <1>5 DEF SendGetData, Disconnect, ledgerVars, loopVars
<1>6. ASSUME NEW t \in Tx, Confirm(t) \/ Unconfirm(t) \/ SendRaw(t) \/ Conflict(t)
      PROVE  QueueInv'
  BY <1>6 DEF Confirm, Unconfirm, SendRaw, Conflict, loopVars, Idle, QueueInv
<1>7. CASE EraseQueued \/ Tick \/ UNCHANGED vars
  BY <1>1, <1>7 DEF EraseQueued, Tick, vars, ledgerVars, loopVars
<1> QED BY <1>2, <1>3, <1>4, <1>5, <1>6, <1>7 DEF Next
-----------------------------------------------------------------------------
(* The queue of a peer. *)

\* What ReceiveInv queues has a hash that the peer is not expected to send yet.
LEMMA AskForPosition ==
  ASSUME TypeOK, PositionInv, NEW p \in Peer, NEW i \in Inv, AskFor(p, i), UNCHANGED <<asked, unasked>>
  PROVE  PositionInv'
<1>1. CASE UNCHANGED askVars
  BY <1>1 DEF PositionInv, Quiet, askVars
<1>2. CASE /\ i.hash \notin setAskFor[p]
           /\ setAskFor' = [setAskFor EXCEPT ![p] = @ \cup {i.hash}]
           /\ mapAskFor' = [mapAskFor EXCEPT ![p] = @ \cup {<<RequestTime(i), i>>}]
  <2> SUFFICES ASSUME NEW q \in Peer, NEW h \in Tx, Quiet(q, h)'
               PROVE  Once(mapAskFor'[q], asked'[q], setAskFor'[q], h)
    BY DEF PositionInv
  <2>1. Once(mapAskFor[q], asked[q], setAskFor[q], h)
    BY DEF PositionInv, Quiet
  <2> DEFINE new == <<RequestTime(i), i>>
  <2>2. new[2] = i
    OBVIOUS
  <2> HIDE DEF new
  <2>3. CASE q = p
    <3>1. setAskFor'[q] = setAskFor[q] \cup {i.hash} /\ mapAskFor'[q] = mapAskFor[q] \cup {new} /\ asked'[q] = asked[q]
      BY <1>2, <2>3 DEF TypeOK, new
    <3>2. i.hash \notin setAskFor[q]
      BY <1>2, <2>3
    <3> QED BY <2>1, <2>2, <3>1, <3>2 DEF Once
  <2>4. CASE q # p
    <3>1. setAskFor'[q] = setAskFor[q] /\ mapAskFor'[q] = mapAskFor[q] /\ asked'[q] = asked[q]
      BY <1>2, <2>4 DEF TypeOK
    <3> QED BY <2>1, <3>1
  <2> QED BY <2>3, <2>4
<1> QED BY <1>1, <1>2 DEF AskFor

\* A request that is sent goes from the queue to what is unanswered, or is forgotten.
LEMMA SendGetDataPosition ==
  ASSUME TypeOK, PositionInv, NEW p \in Peer, SendGetData(p)
  PROVE  PositionInv'
<1> DEFINE due == { i \in Inv : \E T \in 0..now : <<T, i>> \in mapAskFor[p] }
           had == { i \in due : AlreadyHave(i) }
<1>1. /\ mapAskFor' = [mapAskFor EXCEPT ![p] = { e \in @ : e[1] > now }]
      /\ asked' = [asked EXCEPT ![p] = @ \cup (due \ had)]
      /\ setAskFor' = [setAskFor EXCEPT ![p] = @ \ { i.hash : i \in had }]
      /\ unasked' = unasked
  BY DEF SendGetData
<1>2. ASSUME NEW i \in due
      PROVE  \E e \in mapAskFor[p] : e[2] = i /\ ~ (e[1] > now)
  <2>1. PICK T \in 0..now : <<T, i>> \in mapAskFor[p]
    OBVIOUS
  <2>2. <<T, i>>[2] = i /\ ~ (<<T, i>>[1] > now)
    BY DEF TypeOK
  <2> QED BY <2>1, <2>2
<1> SUFFICES ASSUME NEW q \in Peer, NEW h \in Tx, Quiet(q, h)'
             PROVE  Once(mapAskFor'[q], asked'[q], setAskFor'[q], h)
  BY DEF PositionInv
<1>3. Once(mapAskFor[q], asked[q], setAskFor[q], h)
  BY <1>1 DEF PositionInv, Quiet
<1>4. CASE q # p
  <2>1. setAskFor'[q] = setAskFor[q] /\ mapAskFor'[q] = mapAskFor[q] /\ asked'[q] = asked[q]
    BY <1>1, <1>4 DEF TypeOK
  <2> QED BY <1>3, <2>1
<1>5. CASE q = p
  <2> DEFINE left == { e \in mapAskFor[p] : e[1] > now }
  <2>1. /\ mapAskFor'[q] = left /\ asked'[q] = asked[p] \cup (due \ had)
        /\ setAskFor'[q] = setAskFor[p] \ { i.hash : i \in had }
    BY <1>1, <1>5 DEF TypeOK
  <2>2. ASSUME NEW e \in left, NEW i \in due, i.hash = h
        PROVE  e[2].hash # h
    <3>1. PICK f \in mapAskFor[p] : f[2] = i /\ ~ (f[1] > now)
      BY <1>2
    <3>2. e \in mapAskFor[p] /\ e # f
      BY <3>1
    <3> QED BY <3>1, <3>2, <1>3, <1>5, <2>2 DEF Once
  <2>3. ASSUME NEW i \in due, i.hash = h
        PROVE  /\ h \in setAskFor[p]
               /\ \A j \in asked[p] : j.hash # h
               /\ \A j \in due : j.hash = h => j = i
    <3>1. PICK f \in mapAskFor[p] : f[2] = i
      BY <1>2
    <3>2. ASSUME NEW j \in due, j.hash = h
          PROVE  j = i
      <4>1. PICK g \in mapAskFor[p] : g[2] = j
        BY <1>2
      <4> QED BY <3>1, <3>2, <4>1, <1>3, <1>5, <2>3 DEF Once
    <3> QED BY <3>1, <3>2, <1>3, <1>5, <2>3 DEF Once
  <2> HIDE DEF due
  <2>4. \A e \in left : e[2].hash = h => h \in setAskFor'[q]
    BY <2>1, <2>2, <1>3, <1>5 DEF Once
  <2>5. \A j \in asked'[q] : j.hash = h => h \in setAskFor'[q]
    BY <2>1, <2>3, <1>3, <1>5 DEF Once
  <2>6. \A j, k \in asked'[q] : j.hash = h /\ k.hash = h => j = k
    BY <2>1, <2>3, <1>3, <1>5 DEF Once
  <2>7. \A e \in left, j \in asked'[q] : e[2].hash = h => j.hash # h
    BY <2>1, <2>2, <1>3, <1>5 DEF Once
  <2>8. \A e, f \in left : e[2].hash = h /\ f[2].hash = h => e = f
    BY <1>3, <1>5 DEF Once
  <2> QED BY <2>1, <2>4, <2>5, <2>6, <2>7, <2>8 DEF Once
<1> QED BY <1>4, <1>5

\* A transaction that was asked for takes the only place its hash has.  One that was not
\* is one the peer sent unasked.
LEMMA ReceiveTxPosition ==
  ASSUME TypeOK, PositionInv, NEW p \in Peer, NEW i \in Inv, ReceiveTx(p, i)
  PROVE  PositionInv'
<1>1. /\ asked' = [asked EXCEPT ![p] = @ \ {i}] /\ mapAskFor' = mapAskFor
      /\ unasked' = [unasked EXCEPT ![p] = @ \cup ({i} \ asked[p])]
      /\ setAskFor' = setAskFor \/ setAskFor' = [setAskFor EXCEPT ![p] = @ \ {i.hash}]
  BY DEF ReceiveTx
<1> SUFFICES ASSUME NEW q \in Peer, NEW h \in Tx, Quiet(q, h)'
             PROVE  Once(mapAskFor'[q], asked'[q], setAskFor'[q], h)
  BY DEF PositionInv
<1>2. unasked'[q] = IF q = p THEN unasked[p] \cup ({i} \ asked[p]) ELSE unasked[q]
  BY <1>1 DEF TypeOK
<1>3. Once(mapAskFor[q], asked[q], setAskFor[q], h)
  BY <1>2 DEF PositionInv, Quiet
<1>4. CASE q # p
  <2>1. setAskFor'[q] = setAskFor[q] /\ mapAskFor'[q] = mapAskFor[q] /\ asked'[q] = asked[q]
    BY <1>1, <1>4 DEF TypeOK
  <2> QED BY <1>3, <2>1
<1>5. CASE q = p
  <2>1. /\ mapAskFor'[q] = mapAskFor[q] /\ asked'[q] = asked[q] \ {i}
        /\ setAskFor[q] \ {i.hash} \subseteq setAskFor'[q]
    BY <1>1, <1>5 DEF TypeOK
  <2>2. i \in asked[q] \/ i.hash # h
    BY <1>2, <1>5 DEF Quiet
  <2> QED BY <1>3, <2>1, <2>2 DEF Once
<1> QED BY <1>4, <1>5

\* Every step keeps the places.
LEMMA PositionStep ==
  ASSUME TypeOK, PositionInv, [Next]_vars
  PROVE  PositionInv'
<1>1. ASSUME UNCHANGED <<setAskFor, mapAskFor, asked, unasked>>
      PROVE  PositionInv'
  BY <1>1 DEF PositionInv, Quiet
<1>2. ASSUME NEW p \in Peer, NEW i \in Inv, ReceiveInv(p, i)
      PROVE  PositionInv'
  <2>1. UNCHANGED <<asked, unasked>>
    BY <1>2 DEF ReceiveInv
  <2> QED BY <1>1, <1>2, <2>1, AskForPosition DEF ReceiveInv, askVars
<1>3. ASSUME NEW p \in Peer, NEW i \in Inv, ReceiveTx(p, i)
      PROVE  PositionInv'
  BY <1>3, ReceiveTxPosition
<1>4. ASSUME NEW p \in Peer, NEW i \in Inv, NoAnswer(p, i)
      PROVE  PositionInv'
  <2>1. /\ UNCHANGED <<setAskFor, mapAskFor, unasked>>
        /\ \A q \in Peer : asked'[q] \subseteq asked[q]
    BY <1>4 DEF NoAnswer, TypeOK, askVars
  <2> QED BY <2>1 DEF PositionInv, Quiet, Once
<1>5. ASSUME NEW p \in Peer, SendGetData(p)
      PROVE  PositionInv'
  BY <1>5, SendGetDataPosition
<1>6. ASSUME NEW p \in Peer, Disconnect(p)
      PROVE  PositionInv'
  <2>1. /\ UNCHANGED unasked
        /\ mapAskFor'[p] = {} /\ asked'[p] = {}
        /\ \A q \in Peer \ {p} : /\ mapAskFor'[q] = mapAskFor[q] /\ asked'[q] = asked[q]
                               /\ setAskFor'[q] = setAskFor[q]
    BY <1>6 DEF Disconnect, TypeOK
  <2> QED BY <2>1 DEF PositionInv, Quiet, Once
<1>7. ASSUME NEW t \in Tx, Confirm(t) \/ Unconfirm(t) \/ SendRaw(t) \/ Conflict(t)
      PROVE  PositionInv'
  BY <1>1, <1>7 DEF Confirm, Unconfirm, SendRaw, Conflict, askVars, peerVars
<1>8. CASE WorkOff \/ EraseQueued \/ Tick \/ UNCHANGED vars
  BY <1>1, <1>8 DEF WorkOff, EraseQueued, Tick, vars, askVars, peerVars
<1> QED BY <1>2, <1>3, <1>4, <1>5, <1>6, <1>7, <1>8 DEF Next

\* Places that are unique by hash are at most one.
LEMMA PositionsCount ==
  ASSUME PositionInv
  PROVE  OneUnlessUnasked
<1> SUFFICES ASSUME NEW p \in Peer, NEW h \in Tx, Quiet(p, h)
             PROVE  PlacedOnce(p, h)
  BY DEF OneUnlessUnasked, Quiet
<1> DEFINE waiting == { e \in mapAskFor[p] : e[2].hash = h }
           unanswered == { i \in asked[p] : i.hash = h }
<1>0. Once(mapAskFor[p], asked[p], setAskFor[p], h)
  BY DEF PositionInv
<1>1. \A x, y \in waiting : x = y
  BY <1>0 DEF Once
<1>2. \A x, y \in unanswered : x = y
  BY <1>0 DEF Once
<1>3. waiting = {} \/ unanswered = {}
  BY <1>0 DEF Once
<1>4. waiting # {} \/ unanswered # {} => h \in setAskFor[p]
  BY <1>0 DEF Once
<1>7. Positions(p, h) = Cardinality(waiting) + Cardinality(unanswered)
  BY DEF Positions
<1> HIDE DEF waiting, unanswered
<1>5. Cardinality(waiting) = IF waiting = {} THEN 0 ELSE 1
  <2>1. CASE waiting = {} BY <2>1, FS_EmptySet
  <2>2. CASE waiting # {}
    <3>1. PICK x : waiting = {x}
      BY <1>1, <2>2
    <3> QED BY <2>2, <3>1, FS_Singleton
  <2> QED BY <2>1, <2>2
<1>6. Cardinality(unanswered) = IF unanswered = {} THEN 0 ELSE 1
  <2>1. CASE unanswered = {} BY <2>1, FS_EmptySet
  <2>2. CASE unanswered # {}
    <3>1. PICK x : unanswered = {x}
      BY <1>2, <2>2
    <3> QED BY <2>2, <3>1, FS_Singleton
  <2> QED BY <2>1, <2>2
<1> QED BY <1>3, <1>4, <1>5, <1>6, <1>7 DEF PlacedOnce

-----------------------------------------------------------------------------
(* Theorems. *)

\* The invariant holds at the start.
LEMMA InitInvariant ==
  ASSUME Init
  PROVE  IInv
<1>1. TypeOK
  BY RelayAssumption DEF Init, TypeOK
<1>2. OrphanIndexExact
  BY DEF Init, OrphanIndexExact
<1>3. QueueInv /\ PositionInv
  BY DEF Init, QueueInv, PositionInv, Once
<1> QED BY <1>1, <1>2, <1>3 DEF IInv

\* The invariant holds in every state.
LEMMA InductiveInvariant == Spec => []IInv
<1>1. IInv /\ [Next]_vars => IInv'
  BY TypeStep, IndexStep, QueueStep, PositionStep DEF IInv
<1> QED BY InitInvariant, <1>1, PTL DEF Spec

\* Every variable of the relay has its type.
THEOREM TypeCorrect == Spec => []TypeOK
<1>1. IInv => TypeOK
  BY DEF IInv
<1> QED BY <1>1, InductiveInvariant, PTL

\* mapOrphanTransactionsByPrev lists the orphans under their parents and nothing else,
\* whatever is added, evicted at random, or erased after the loop.
THEOREM IndexOfOrphans == Spec => []OrphanIndexExact
<1>1. IInv => OrphanIndexExact
  BY DEF IInv
<1> QED BY <1>1, InductiveInvariant, PTL

\* A hash has one place at most in the queue of a peer and among what it was asked for,
\* and setAskFor knows of it, unless that peer has sent the hash without being asked:
\* whatever it announces, however often, and whatever other peers send.
THEOREM QueuePositions == Spec => []OneUnlessUnasked
<1>1. IInv => OneUnlessUnasked
  BY PositionsCount DEF IInv
<1> QED BY <1>1, InductiveInvariant, PTL

\* The loop over vWorkQueue never takes an orphan into the memory pool, for any
\* transactions: what it waits for is never in txdb.
THEOREM OrphansNotAccepted == Spec => LoopAcceptsNothing
<1>1. IInv /\ [Next]_vars => (vWorkQueue # {} => pool' = pool)
  <2> SUFFICES ASSUME IInv, [Next]_vars, vWorkQueue # {}
               PROVE  pool' = pool
    OBVIOUS
  <2>1. CASE WorkOff
    BY <2>1, WorkOffStep DEF IInv
  <2>2. CASE EraseQueued \/ Tick \/ UNCHANGED vars
    BY <2>2 DEF EraseQueued, Tick, ledgerVars, vars
  <2>3. ASSUME NEW p \in Peer, NEW i \in Inv, ReceiveInv(p, i) \/ ReceiveTx(p, i) \/ NoAnswer(p, i)
        PROVE  pool' = pool
    BY <2>3 DEF ReceiveInv, ReceiveTx, NoAnswer, ledgerVars, Idle
  <2>4. ASSUME NEW p \in Peer, SendGetData(p) \/ Disconnect(p)
        PROVE  pool' = pool
    BY <2>4 DEF SendGetData, Disconnect, ledgerVars
  <2>5. ASSUME NEW t \in Tx, Confirm(t) \/ Unconfirm(t) \/ SendRaw(t) \/ Conflict(t)
        PROVE  FALSE
    BY <2>5 DEF Confirm, Unconfirm, SendRaw, Conflict, Idle
  <2> QED BY <2>1, <2>2, <2>3, <2>4, <2>5 DEF Next
<1> QED BY <1>1, InductiveInvariant, PTL DEF Spec, LoopAcceptsNothing
=============================================================================
