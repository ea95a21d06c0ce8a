--------------------------- MODULE InstantXProofs ---------------------------
(***************************************************************************)
(* What holds of InstantX for every set of transactions, primenodes,       *)
(* quorums and votes.                                                      *)
(***************************************************************************)
EXTENDS InstantX, FiniteSetTheorems, TLAPS

\* What is true of one lock: the height is the request's or not known yet, and its
\* votes are of primenodes of the quorum they name, seen, and of one each.
LockOK(t, lock, seen) ==
    /\ lock \in Lock
    /\ lock.nBlockHeight \in {0, LockHeight[t]}
    /\ \A i \in DOMAIN lock.vecConsensusVotes :
         LET v == lock.vecConsensusVotes[i] IN v[1] \in Quorum[v[2]] /\ <<v[1], t>> \in seen
    /\ \A i, j \in DOMAIN lock.vecConsensusVotes :
         lock.vecConsensusVotes[i][1] = lock.vecConsensusVotes[j][1] => i = j

LocksOK ==
    /\ mapTxLocks = [t \in DOMAIN mapTxLocks |-> mapTxLocks[t]]
    /\ DOMAIN mapTxLocks \subseteq Tx
    /\ \A t \in DOMAIN mapTxLocks : LockOK(t, mapTxLocks[t], mapTxLockVote)

MapsTyped ==
    /\ mapTxLockReq \subseteq Tx /\ mapTxLockReqRejected \subseteq Tx
    /\ mapTxLockVote \subseteq Primenode \X Tx
    /\ mapLockedInputs \in [Outpoint -> Tx \cup {None}]
    /\ request \in [tx : Tx, nBlockHeight : Height \cup {0}] \cup {None}
    /\ spentBy \in [Outpoint -> Tx \cup {None}]
    /\ reorgs \in 0..MaxReorgs /\ aborted \in BOOLEAN

\* A request is accepted or refused once, and what it locks is its own.
RequestInv ==
    /\ mapTxLockReq \cap mapTxLockReqRejected = {}
    /\ request # None => request.tx \notin mapTxLockReq \cup mapTxLockReqRejected
    /\ \A o \in Outpoint : mapLockedInputs[o] # None => o \in Ins[mapLockedInputs[o]]

-----------------------------------------------------------------------------
(* Single locks. *)

LEMMA NewLockOK ==
    ASSUME NEW t \in Tx, NEW seen, NEW h \in {0, LockHeight[t]}
    PROVE  LockOK(t, NewLock(h), seen)
<1>1. h \in Height \cup {0}
    BY InstantXAssumption DEF InstantXAssumption
<1> QED BY <1>1 DEF LockOK, NewLock, Lock

LEMMA LockOKMonotone ==
    ASSUME NEW t, NEW l, NEW seen, NEW more, LockOK(t, l, seen), seen \subseteq more
    PROVE  LockOK(t, l, more)
  BY DEF LockOK

LEMMA LockOKExpiration ==
    ASSUME NEW t, NEW l, NEW seen, LockOK(t, l, seen), NEW e \in {Later, Now, Past}
    PROVE  LockOK(t, [l EXCEPT !.nExpiration = e], seen)
<1> DEFINE k == [l EXCEPT !.nExpiration = e]
<1>1. l \in Lock
    BY DEF LockOK
<1>2. k \in Lock /\ k.nBlockHeight = l.nBlockHeight /\ k.vecConsensusVotes = l.vecConsensusVotes
    BY <1>1 DEF Lock
<1>3. LockOK(t, k, seen)
    <2> HIDE DEF k
    <2> QED BY <1>2 DEF LockOK
<1> QED BY <1>3

LEMMA LockOKHeight ==
    ASSUME NEW t \in Tx, NEW l, NEW seen, LockOK(t, l, seen)
    PROVE  LockOK(t, [l EXCEPT !.nBlockHeight = LockHeight[t]], seen)
<1> DEFINE k == [l EXCEPT !.nBlockHeight = LockHeight[t]]
<1>1. l \in Lock /\ LockHeight[t] \in Height
    BY InstantXAssumption DEF LockOK, InstantXAssumption
<1>2. k \in Lock /\ k.nBlockHeight = LockHeight[t] /\ k.vecConsensusVotes = l.vecConsensusVotes
    BY <1>1 DEF Lock
<1>3. LockOK(t, k, seen)
    <2> HIDE DEF k
    <2> QED BY <1>2 DEF LockOK
<1> QED BY <1>3

\* A vote not seen before goes into a lock.
LEMMA LockOKAppend ==
    ASSUME NEW t \in Tx, NEW l, NEW seen, LockOK(t, l, seen),
           NEW p \in Primenode, NEW h \in Height, p \in Quorum[h], <<p, t>> \notin seen
    PROVE  LockOK(t, [l EXCEPT !.vecConsensusVotes = Append(@, <<p, h>>)], seen \cup {<<p, t>>})
<1> DEFINE k == [l EXCEPT !.vecConsensusVotes = Append(@, <<p, h>>)]
           old == l.vecConsensusVotes
           new == Append(old, <<p, h>>)
<1>1. old \in Seq(Primenode \X Height) /\ new \in Seq(Primenode \X Height)
    BY DEF LockOK, Lock
<1>2. k \in Lock /\ k.nBlockHeight = l.nBlockHeight /\ k.vecConsensusVotes = new
    BY <1>1 DEF LockOK, Lock
<1>3. /\ DOMAIN new = DOMAIN old \cup {Len(old) + 1} /\ DOMAIN old = 1..Len(old) /\ Len(old) \in Nat
      /\ new[Len(old) + 1] = <<p, h>> /\ \A i \in DOMAIN old : new[i] = old[i]
    BY <1>1
<1> HIDE DEF new
<1>4. /\ \A i \in DOMAIN old : old[i][1] \in Quorum[old[i][2]] /\ <<old[i][1], t>> \in seen
      /\ \A i, j \in DOMAIN old : old[i][1] = old[j][1] => i = j
    BY DEF LockOK
<1>5. \A i \in DOMAIN old : old[i][1] # p
    BY <1>4
<1> HIDE DEF old
<1>6. \A i \in DOMAIN new : new[i][1] \in Quorum[new[i][2]] /\ <<new[i][1], t>> \in seen \cup {<<p, t>>}
    BY <1>3, <1>4
<1>7. \A i, j \in DOMAIN new : new[i][1] = new[j][1] => i = j
    BY <1>3, <1>4, <1>5
<1>8. LockOK(t, k, seen \cup {<<p, t>>})
    <2> HIDE DEF k
    <2> QED BY <1>2, <1>6, <1>7 DEF LockOK
<1> QED BY <1>8

-----------------------------------------------------------------------------
(* The map of locks. *)

LEMMA CreateNewLockOK ==
    ASSUME LocksOK, NEW t \in Tx
    PROVE  /\ CreateNewLock(t) = [u \in DOMAIN CreateNewLock(t) |-> CreateNewLock(t)[u]]
           /\ DOMAIN CreateNewLock(t) = DOMAIN mapTxLocks \cup {t}
           /\ \A u \in DOMAIN CreateNewLock(t) : LockOK(u, CreateNewLock(t)[u], mapTxLockVote)
<1>1. DOMAIN CreateNewLock(t) = DOMAIN mapTxLocks \cup {t}
    BY DEF CreateNewLock
<1>2. ASSUME NEW u \in DOMAIN mapTxLocks \cup {t} PROVE LockOK(u, CreateNewLock(t)[u], mapTxLockVote)
    <2>1. CASE u \notin DOMAIN mapTxLocks
        <3>1. u = t /\ CreateNewLock(t)[u] = NewLock(LockHeight[t])
            BY <2>1 DEF CreateNewLock
        <3> QED BY <3>1, NewLockOK
    <2>2. CASE u \in DOMAIN mapTxLocks /\ u = t
        <3>1. CreateNewLock(t)[u] = [mapTxLocks[u] EXCEPT !.nBlockHeight = LockHeight[t]]
            BY <2>2 DEF CreateNewLock
        <3> QED BY <2>2, <3>1, LockOKHeight DEF LocksOK
    <2>3. CASE u \in DOMAIN mapTxLocks /\ u # t
        <3>1. CreateNewLock(t)[u] = mapTxLocks[u]
            BY <2>3 DEF CreateNewLock
        <3> QED BY <2>3, <3>1 DEF LocksOK
    <2> QED BY <2>1, <2>2, <2>3
<1>3. CreateNewLock(t) = [u \in DOMAIN CreateNewLock(t) |-> CreateNewLock(t)[u]]
    BY DEF CreateNewLock
<1> QED BY <1>1, <1>2, <1>3

LEMMA AddSignatureOK ==
    ASSUME LocksOK, NEW v \in Votes, <<v.vinPrimenode, v.txHash>> \notin mapTxLockVote,
           v.vinPrimenode \in Quorum[v.nBlockHeight],
           NEW seen, seen = mapTxLockVote \cup {<<v.vinPrimenode, v.txHash>>}
    PROVE  /\ AddSignature(v) = [u \in DOMAIN AddSignature(v) |-> AddSignature(v)[u]]
           /\ DOMAIN AddSignature(v) = DOMAIN mapTxLocks \cup {v.txHash}
           /\ \A u \in DOMAIN AddSignature(v) : LockOK(u, AddSignature(v)[u], seen)
<1> DEFINE t == v.txHash
           old == IF t \in DOMAIN mapTxLocks THEN mapTxLocks[t] ELSE NewLock(0)
<1>1. t \in Tx /\ v.vinPrimenode \in Primenode /\ v.nBlockHeight \in Height
    BY InstantXAssumption DEF InstantXAssumption
<1>2. LockOK(t, old, mapTxLockVote)
    <2>1. CASE t \in DOMAIN mapTxLocks
        BY <2>1 DEF LocksOK
    <2>2. CASE t \notin DOMAIN mapTxLocks
        BY <1>1, <2>2, NewLockOK
    <2> QED BY <2>1, <2>2
<1>3. DOMAIN AddSignature(v) = DOMAIN mapTxLocks \cup {t}
    BY DEF AddSignature
<1>4. AddSignature(v)[t] = [old EXCEPT !.vecConsensusVotes = Append(@, <<v.vinPrimenode, v.nBlockHeight>>)]
    BY DEF AddSignature
<1>5. \A u \in DOMAIN mapTxLocks \ {t} : AddSignature(v)[u] = mapTxLocks[u]
    BY DEF AddSignature
<1>6. AddSignature(v) = [u \in DOMAIN AddSignature(v) |-> AddSignature(v)[u]]
    BY DEF AddSignature
<1> HIDE DEF old
<1>7. LockOK(t, AddSignature(v)[t], seen)
    <2>1. LockOK(t, [old EXCEPT !.vecConsensusVotes = Append(@, <<v.vinPrimenode, v.nBlockHeight>>)],
                 mapTxLockVote \cup {<<v.vinPrimenode, t>>})
        BY <1>1, <1>2, LockOKAppend
    <2> QED BY <1>4, <2>1
<1>8. ASSUME NEW u \in DOMAIN mapTxLocks \ {t} PROVE LockOK(u, AddSignature(v)[u], seen)
    <2>1. LockOK(u, mapTxLocks[u], mapTxLockVote)
        BY DEF LocksOK
    <2> QED BY <1>5, <2>1, LockOKMonotone
<1> QED BY <1>3, <1>6, <1>7, <1>8

\* Cancelling changes expirations only.
LEMMA CancelBothOK ==
    ASSUME NEW locks, NEW t, NEW u, NEW seen, \A w \in DOMAIN locks : LockOK(w, locks[w], seen)
    PROVE  /\ CancelBoth(t, u, locks) = [w \in DOMAIN CancelBoth(t, u, locks) |-> CancelBoth(t, u, locks)[w]]
           /\ DOMAIN CancelBoth(t, u, locks) = DOMAIN locks
           /\ \A w \in DOMAIN locks : LockOK(w, CancelBoth(t, u, locks)[w], seen)
<1>1. ASSUME NEW w \in DOMAIN locks PROVE LockOK(w, CancelBoth(t, u, locks)[w], seen)
    <2>1. \/ CancelBoth(t, u, locks)[w] = locks[w]
          \/ CancelBoth(t, u, locks)[w] = [locks[w] EXCEPT !.nExpiration = Now]
        BY DEF CancelBoth
    <2>2. LockOK(w, locks[w], seen)
        OBVIOUS
    <2>3. LockOK(w, [locks[w] EXCEPT !.nExpiration = Now], seen)
        BY <2>2, LockOKExpiration
    <2> QED BY <2>1, <2>2, <2>3
<1>2. DOMAIN CancelBoth(t, u, locks) = DOMAIN locks
    BY DEF CancelBoth
<1>3. CancelBoth(t, u, locks) = [w \in DOMAIN CancelBoth(t, u, locks) |-> CancelBoth(t, u, locks)[w]]
    BY DEF CancelBoth
<1> QED BY <1>1, <1>2, <1>3

LEMMA StepLocks == LocksOK /\ MapsTyped /\ [Next]_vars => LocksOK'
<1> SUFFICES ASSUME LocksOK, MapsTyped, [Next]_vars PROVE LocksOK'
    OBVIOUS
<1>1. ASSUME mapTxLocks' = mapTxLocks, mapTxLockVote \subseteq mapTxLockVote' PROVE LocksOK'
    BY <1>1, LockOKMonotone DEF LocksOK
<1>2. ASSUME NEW t \in Tx, mapTxLocks' \in {mapTxLocks, CreateNewLock(t)}, UNCHANGED mapTxLockVote PROVE LocksOK'
    <2>1. CASE mapTxLocks' = mapTxLocks
        BY <1>1, <1>2, <2>1
    <2>2. CASE mapTxLocks' = CreateNewLock(t)
        BY <1>2, <2>2, CreateNewLockOK DEF LocksOK
    <2> QED BY <1>2, <2>1, <2>2
<1>3. ASSUME NEW t, NEW u, mapTxLocks' = CancelBoth(t, u, mapTxLocks), UNCHANGED mapTxLockVote PROVE LocksOK'
    <2>1. \A w \in DOMAIN mapTxLocks : LockOK(w, mapTxLocks[w], mapTxLockVote)
        BY DEF LocksOK
    <2> DEFINE l == mapTxLocks
               m == CancelBoth(t, u, l)
    <2> HIDE DEF l
    <2>2. /\ m = [w \in DOMAIN m |-> m[w]] /\ DOMAIN m = DOMAIN l
          /\ \A w \in DOMAIN l : LockOK(w, m[w], mapTxLockVote)
        <3>1. \A w \in DOMAIN l : LockOK(w, l[w], mapTxLockVote)
            BY <2>1 DEF l
        <3> QED BY ONLY <3>1, CancelBothOK
    <2>3. mapTxLocks' = m /\ mapTxLockVote' = mapTxLockVote
        BY <1>3 DEF l
    <2>4. DOMAIN l \subseteq Tx
        BY DEF l, LocksOK
    <2> HIDE DEF m
    <2> QED BY ONLY <2>2, <2>3, <2>4 DEF LocksOK
<1>4. ASSUME NEW t \in Tx, ReceiveRequest(t) PROVE LocksOK'
    BY <1>2, <1>4 DEF ReceiveRequest
<1>5. CASE AcceptRequest
    BY <1>1, <1>5 DEF AcceptRequest
<1>6. CASE RejectRequest
    BY <1>1, <1>3, <1>6 DEF RejectRequest
<1>7. ASSUME NEW v \in Votes, IgnoreVote(v) PROVE LocksOK'
    BY <1>1, <1>7 DEF IgnoreVote
<1>8. ASSUME NEW v \in Votes, CountVote(v) PROVE LocksOK'
    <2> DEFINE locks == AddSignature(v)
    <2>1. /\ mapTxLockVote' = mapTxLockVote \cup {<<v.vinPrimenode, v.txHash>>}
          /\ <<v.vinPrimenode, v.txHash>> \notin mapTxLockVote
          /\ v.vinPrimenode \in Quorum[v.nBlockHeight]
        BY <1>8 DEF CountVote
    <2>2. v.txHash \in Tx
        BY InstantXAssumption DEF InstantXAssumption
    <2>3. /\ locks = [u \in DOMAIN locks |-> locks[u]] /\ DOMAIN locks \subseteq Tx
          /\ \A u \in DOMAIN locks : LockOK(u, locks[u], mapTxLockVote')
        BY <2>1, <2>2, AddSignatureOK DEF LocksOK
    <2>4. mapTxLocks' = locks \/ \E u : mapTxLocks' = CancelBoth(v.txHash, u, locks)
        BY <1>8 DEF CountVote
    <2> HIDE DEF locks
    <2>5. CASE mapTxLocks' = locks
        BY <2>3, <2>5 DEF LocksOK
    <2>6. ASSUME NEW u, mapTxLocks' = CancelBoth(v.txHash, u, locks) PROVE LocksOK'
        <3> DEFINE new == CancelBoth(v.txHash, u, locks)
        <3>1. /\ new = [w \in DOMAIN new |-> new[w]] /\ DOMAIN new = DOMAIN locks
              /\ \A w \in DOMAIN locks : LockOK(w, new[w], mapTxLockVote')
            BY <2>3, CancelBothOK
        <3>2. mapTxLocks' = new
            BY <2>6
        <3> HIDE DEF new
        <3> QED BY <2>3, <3>1, <3>2 DEF LocksOK
    <2> QED BY <2>4, <2>5, <2>6
<1>9. ASSUME NEW t \in Tx, SendRequest(t) PROVE LocksOK'
    BY <1>2, <1>9 DEF SendRequest
<1>10. ASSUME NEW t \in Tx, ReceiveTx(t) \/ ConnectTx(t) \/ LoseTx(t) PROVE LocksOK'
    BY <1>1, <1>10 DEF ReceiveTx, ConnectTx, LoseTx, lockVars
<1>11. ASSUME NEW t \in Tx, TimePasses(t) PROVE LocksOK'
    <2>1. /\ t \in DOMAIN mapTxLocks /\ mapTxLockVote' = mapTxLockVote
          /\ mapTxLocks' = [mapTxLocks EXCEPT ![t].nExpiration = Past]
        BY <1>11 DEF TimePasses
    <2>2. ASSUME NEW u \in DOMAIN mapTxLocks PROVE LockOK(u, mapTxLocks'[u], mapTxLockVote)
        <3>1. mapTxLocks'[u] \in {mapTxLocks[u], [mapTxLocks[u] EXCEPT !.nExpiration = Past]}
            BY <2>1 DEF LocksOK
        <3>2. LockOK(u, mapTxLocks[u], mapTxLockVote)
            BY DEF LocksOK
        <3>3. LockOK(u, [mapTxLocks[u] EXCEPT !.nExpiration = Past], mapTxLockVote)
            BY <3>2, LockOKExpiration
        <3> QED BY <3>1, <3>2, <3>3
    <2> QED BY <2>1, <2>2 DEF LocksOK
<1>12. CASE Clean
    <2> DEFINE done == Expired \cap mapTxLockReq
    <2>1. /\ mapTxLocks' = [t \in DOMAIN mapTxLocks \ Expired |-> mapTxLocks[t]]
          /\ mapTxLockVote \ { pt \in mapTxLockVote : pt[2] \in done } \subseteq mapTxLockVote'
        BY <1>12 DEF Clean
    <2>2. ASSUME NEW t \in DOMAIN mapTxLocks \ Expired PROVE LockOK(t, mapTxLocks[t], mapTxLockVote')
        <3>1. LockOK(t, mapTxLocks[t], mapTxLockVote)
            BY DEF LocksOK
        <3>2. \A p : <<p, t>> \in mapTxLockVote => <<p, t>> \in mapTxLockVote'
            BY <2>1
        <3> QED BY <3>1, <3>2 DEF LockOK
    <2> QED BY <2>1, <2>2 DEF LocksOK
<1>13. CASE UNCHANGED vars
    BY <1>1, <1>13 DEF vars, lockVars
<1> QED BY <1>4, <1>5, <1>6, <1>7, <1>8, <1>9, <1>10, <1>11, <1>12, <1>13 DEF Next

-----------------------------------------------------------------------------
(* The other maps. *)

LEMMA StepMaps == MapsTyped /\ [Next]_vars => MapsTyped'
<1> SUFFICES ASSUME MapsTyped, [Next]_vars PROVE MapsTyped'
    OBVIOUS
<1> USE DEF MapsTyped
<1>1. \A t \in Tx : Spend(t) \in [Outpoint -> Tx \cup {None}] /\ LockInputs(t) \in [Outpoint -> Tx \cup {None}]
    BY DEF Spend, LockInputs
<1>2. request # None => request.tx \in Tx /\ request.nBlockHeight \in Height \cup {0}
    OBVIOUS
<1>3. ASSUME NEW t \in Tx, ReceiveRequest(t) PROVE MapsTyped'
    <2>1. LockHeight[t] \in Height
        BY InstantXAssumption DEF InstantXAssumption
    <2> QED BY <1>3, <2>1 DEF ReceiveRequest
<1>4. CASE AcceptRequest
    <2>1. \A own \in OwnVotes(request.tx, request.nBlockHeight) : own \subseteq Primenode \X Tx
        BY <1>2, <1>4, InstantXAssumption DEF OwnVotes, AcceptRequest, InstantXAssumption
    <2> QED BY <1>1, <1>2, <1>4, <2>1 DEF AcceptRequest
<1>5. CASE RejectRequest
    BY <1>1, <1>2, <1>5 DEF RejectRequest
<1>6. ASSUME NEW v \in Votes PROVE <<v.vinPrimenode, v.txHash>> \in Primenode \X Tx
    BY InstantXAssumption DEF InstantXAssumption
<1>7. ASSUME NEW v \in Votes, IgnoreVote(v) PROVE MapsTyped'
    BY <1>6, <1>7 DEF IgnoreVote
<1>8. ASSUME NEW v \in Votes, CountVote(v) PROVE MapsTyped'
    <2>1. mapLockedInputs' = mapLockedInputs \/ mapLockedInputs' = LockInputs(v.txHash)
        BY <1>8 DEF CountVote
    <2>2. aborted' \in BOOLEAN
        <3>1. aborted' = aborted \/ aborted' = (v.txHash \in mapTxLockReqRejected)
            BY <1>8 DEF CountVote
        <3>2. aborted \in BOOLEAN
            OBVIOUS
        <3>3. CASE aborted' = aborted
            BY <3>2, <3>3
        <3>4. CASE aborted' = (v.txHash \in mapTxLockReqRejected)
            <4>1. CASE v.txHash \in mapTxLockReqRejected
                BY <3>4, <4>1
            <4>2. CASE v.txHash \notin mapTxLockReqRejected
                BY <3>4, <4>2
            <4> QED BY <4>1, <4>2
        <3> QED BY <3>1, <3>3, <3>4
    <2>3. v.txHash \in Tx
        BY InstantXAssumption DEF InstantXAssumption
    <2> QED BY <1>1, <1>6, <1>8, <2>1, <2>2, <2>3 DEF CountVote
<1>9. ASSUME NEW t \in Tx, SendRequest(t) PROVE MapsTyped'
    BY <1>1, <1>9 DEF SendRequest
<1>10. ASSUME NEW t \in Tx, ReceiveTx(t) \/ ConnectTx(t) \/ LoseTx(t) PROVE MapsTyped'
    <2>1. spentBy' \in [Outpoint -> Tx \cup {None}]
        BY <1>1, <1>10 DEF ReceiveTx, ConnectTx, LoseTx
    <2>2. reorgs' \in 0..MaxReorgs
        BY <1>10, InstantXAssumption DEF ReceiveTx, ConnectTx, LoseTx, InstantXAssumption
    <2> QED BY <1>10, <2>1, <2>2 DEF ReceiveTx, ConnectTx, LoseTx, lockVars
<1>11. ASSUME NEW t \in Tx, TimePasses(t) PROVE MapsTyped'
    BY <1>11 DEF TimePasses
<1>12. CASE Clean
    BY <1>12 DEF Clean
<1>13. CASE UNCHANGED vars
    BY <1>13 DEF vars, lockVars
<1> QED BY <1>3, <1>4, <1>5, <1>7, <1>8, <1>9, <1>10, <1>11, <1>12, <1>13 DEF Next

-----------------------------------------------------------------------------
(* Requests and the inputs they lock. *)

LEMMA StepRequest == MapsTyped /\ RequestInv /\ [Next]_vars => RequestInv'
<1> SUFFICES ASSUME MapsTyped, RequestInv, [Next]_vars PROVE RequestInv'
    OBVIOUS
<1> USE DEF RequestInv
<1>0. None \notin Tx /\ (request # None => request.tx \in Tx)
    BY InstantXAssumption DEF InstantXAssumption, MapsTyped
<1>1. ASSUME NEW t \in Tx, NEW o \in Outpoint, LockInputs(t)[o] # None PROVE o \in Ins[LockInputs(t)[o]]
    BY <1>1 DEF LockInputs
<1>2. ASSUME UNCHANGED <<mapTxLockReq, mapTxLockReqRejected, request, mapLockedInputs>> PROVE RequestInv'
    BY <1>2
<1>3. ASSUME NEW t \in Tx, ReceiveRequest(t) PROVE RequestInv'
    <2>1. request'.tx = t
        BY <1>3 DEF ReceiveRequest
    <2> QED BY <1>3, <2>1 DEF ReceiveRequest
<1>4. CASE AcceptRequest
    BY <1>4 DEF AcceptRequest
<1>5. CASE RejectRequest
    <2>1. request # None /\ mapLockedInputs' = LockInputs(request.tx)
        BY <1>5 DEF RejectRequest
    <2>2. mapTxLockReq' \cap mapTxLockReqRejected' = {} /\ request' = None
        BY <1>5 DEF RejectRequest
    <2> QED BY <1>0, <1>1, <2>1, <2>2
<1>6. ASSUME NEW v \in Votes, IgnoreVote(v) PROVE RequestInv'
    BY <1>2, <1>6 DEF IgnoreVote
<1>7. ASSUME NEW v \in Votes, CountVote(v) PROVE RequestInv'
    <2>1. v.txHash \in Tx
        BY InstantXAssumption DEF InstantXAssumption
    <2>2. mapLockedInputs' = mapLockedInputs \/ mapLockedInputs' = LockInputs(v.txHash)
        BY <1>7 DEF CountVote
    <2>3. UNCHANGED <<mapTxLockReq, mapTxLockReqRejected, request>>
        BY <1>7 DEF CountVote
    <2> QED BY <1>1, <2>1, <2>2, <2>3
<1>8. ASSUME NEW t \in Tx, SendRequest(t) PROVE RequestInv'
    BY <1>8 DEF SendRequest
<1>9. ASSUME NEW t \in Tx, ReceiveTx(t) \/ ConnectTx(t) \/ LoseTx(t) \/ TimePasses(t) PROVE RequestInv'
    BY <1>2, <1>9 DEF ReceiveTx, ConnectTx, LoseTx, TimePasses, lockVars
<1>10. CASE Clean
    <2>1. /\ mapTxLockReq' \subseteq mapTxLockReq /\ mapTxLockReqRejected' \subseteq mapTxLockReqRejected
          /\ request' = request
        BY <1>10 DEF Clean
    <2>2. \A o \in Outpoint : mapLockedInputs'[o] \in {None, mapLockedInputs[o]}
        BY <1>10 DEF Clean
    <2> QED BY <2>1, <2>2
<1>11. CASE UNCHANGED vars
    BY <1>2, <1>11 DEF vars, lockVars
<1> QED BY <1>3, <1>4, <1>5, <1>6, <1>7, <1>8, <1>9, <1>10, <1>11 DEF Next

LEMMA StepExpires == LocksOK /\ MapsTyped /\ RequestInv /\ AcceptedLockExpires /\ [Next]_vars => AcceptedLockExpires'
<1> SUFFICES ASSUME LocksOK, MapsTyped, RequestInv, AcceptedLockExpires, [Next]_vars PROVE AcceptedLockExpires'
    OBVIOUS
<1> USE DEF AcceptedLockExpires
<1>1. ASSUME mapLockedInputs' = mapLockedInputs, mapTxLockReqRejected \subseteq mapTxLockReqRejected',
             mapTxLockReq \subseteq mapTxLockReq', DOMAIN mapTxLocks \subseteq DOMAIN mapTxLocks'
      PROVE AcceptedLockExpires'
    BY <1>1
<1>2. \A t \in Tx : DOMAIN CreateNewLock(t) = DOMAIN mapTxLocks \cup {t}
    BY DEF CreateNewLock
<1>3. ASSUME NEW t \in Tx, ReceiveRequest(t) PROVE AcceptedLockExpires'
    <2>1. DOMAIN mapTxLocks \subseteq DOMAIN mapTxLocks'
        BY <1>2, <1>3 DEF ReceiveRequest
    <2> QED BY <1>1, <1>3, <2>1 DEF ReceiveRequest
<1>4. CASE AcceptRequest
    BY <1>1, <1>4 DEF AcceptRequest
<1>5. CASE RejectRequest
    <2>1. DOMAIN mapTxLocks' = DOMAIN mapTxLocks
        BY <1>5 DEF RejectRequest, CancelBoth
    <2>2. /\ mapTxLockReq' = mapTxLockReq /\ mapTxLockReqRejected' = mapTxLockReqRejected \cup {request.tx}
          /\ mapLockedInputs' = LockInputs(request.tx)
        BY <1>5 DEF RejectRequest
    <2>3. \A o \in Outpoint : mapLockedInputs'[o] \in {mapLockedInputs[o], request.tx}
        BY <2>2 DEF LockInputs
    <2> QED BY <2>1, <2>2, <2>3
<1>6. ASSUME NEW v \in Votes, IgnoreVote(v) PROVE AcceptedLockExpires'
    BY <1>1, <1>6 DEF IgnoreVote
<1>7. ASSUME NEW v \in Votes, CountVote(v) PROVE AcceptedLockExpires'
    <2>1. DOMAIN AddSignature(v) = DOMAIN mapTxLocks \cup {v.txHash}
        BY DEF AddSignature
    <2>2. DOMAIN mapTxLocks' = DOMAIN AddSignature(v)
        BY <1>7 DEF CountVote, CancelBoth
    <2>3. UNCHANGED <<mapTxLockReq, mapTxLockReqRejected>>
        BY <1>7 DEF CountVote
    <2>4. \/ mapLockedInputs' = mapLockedInputs
          \/ v.txHash \in mapTxLockReq /\ mapLockedInputs' = LockInputs(v.txHash)
        BY <1>7 DEF CountVote
    <2>5. \A o \in Outpoint : LockInputs(v.txHash)[o] \in {mapLockedInputs[o], v.txHash}
        BY DEF LockInputs
    <2> QED BY <2>1, <2>2, <2>3, <2>4, <2>5
<1>8. ASSUME NEW t \in Tx, SendRequest(t) PROVE AcceptedLockExpires'
    <2>1. DOMAIN mapTxLocks \subseteq DOMAIN mapTxLocks'
        BY <1>2, <1>8 DEF SendRequest
    <2> QED BY <1>1, <1>8, <2>1 DEF SendRequest
<1>9. ASSUME NEW t \in Tx, ReceiveTx(t) \/ ConnectTx(t) \/ LoseTx(t) \/ TimePasses(t) PROVE AcceptedLockExpires'
    <2>1. DOMAIN mapTxLocks \subseteq DOMAIN mapTxLocks'
        BY <1>9 DEF ReceiveTx, ConnectTx, LoseTx, TimePasses, lockVars
    <2> QED BY <1>1, <1>9, <2>1 DEF ReceiveTx, ConnectTx, LoseTx, TimePasses, lockVars
<1>10. CASE Clean
    <2> DEFINE done == Expired \cap mapTxLockReq
    <2>1. /\ mapTxLockReq' = mapTxLockReq \ done
          /\ mapTxLockReqRejected' = mapTxLockReqRejected \ done
          /\ DOMAIN mapTxLocks' = DOMAIN mapTxLocks \ Expired
          /\ mapLockedInputs' = [o \in Outpoint |-> IF \E t \in done : o \in Ins[t] THEN None ELSE mapLockedInputs[o]]
        BY <1>10 DEF Clean
    <2>2. mapTxLockReqRejected' = mapTxLockReqRejected
        BY <2>1 DEF RequestInv
    <2>3. SUFFICES ASSUME NEW o \in Outpoint, mapLockedInputs'[o] \notin mapTxLockReqRejected' \cup {None}
                   PROVE mapLockedInputs'[o] \in mapTxLockReq' \cap DOMAIN mapTxLocks'
        OBVIOUS
    <2>4. mapLockedInputs'[o] = mapLockedInputs[o] /\ \A t \in done : o \notin Ins[t]
        BY <2>1, <2>3
    <2>5. mapLockedInputs[o] \in mapTxLockReq \cap DOMAIN mapTxLocks /\ o \in Ins[mapLockedInputs[o]]
        BY <2>2, <2>3, <2>4 DEF RequestInv
    <2>6. mapLockedInputs[o] \notin done
        BY <2>4, <2>5
    <2> HIDE DEF AcceptedLockExpires
    <2> QED BY <2>1, <2>4, <2>5, <2>6
<1>11. CASE UNCHANGED vars
    BY <1>1, <1>11 DEF vars, lockVars
<1> QED BY <1>3, <1>4, <1>5, <1>6, <1>7, <1>8, <1>9, <1>10, <1>11 DEF Next

-----------------------------------------------------------------------------
(* The theorems. *)

IInv == LocksOK /\ MapsTyped /\ RequestInv /\ AcceptedLockExpires

LEMMA InitIInv == Init => IInv
<1> SUFFICES ASSUME Init PROVE IInv
    OBVIOUS
<1>1. LocksOK
    BY DEF Init, LocksOK
<1>2. MapsTyped
    <2>1. mapLockedInputs \in [Outpoint -> Tx \cup {None}] /\ spentBy \in [Outpoint -> Tx \cup {None}]
        BY DEF Init
    <2>2. reorgs \in 0..MaxReorgs
        BY InstantXAssumption DEF Init, InstantXAssumption
    <2>3. /\ mapTxLockReq = {} /\ mapTxLockReqRejected = {} /\ mapTxLockVote = {}
          /\ request = None /\ aborted = FALSE
        BY DEF Init
    <2> QED BY <2>1, <2>2, <2>3 DEF MapsTyped
<1>3. RequestInv /\ AcceptedLockExpires
    BY DEF Init, RequestInv, AcceptedLockExpires
<1> QED BY <1>1, <1>2, <1>3 DEF IInv

LEMMA Inductive == Spec => []IInv
<1>1. IInv /\ [Next]_vars => IInv'
    BY StepLocks, StepMaps, StepRequest, StepExpires DEF IInv
<1> QED BY <1>1, InitIInv, PTL DEF Spec

\* Every map of instantx.cpp keeps its type, whatever requests and votes come.
THEOREM TypeCorrect == Spec => []TypeOK
<1>1. IInv => TypeOK
    <2> SUFFICES ASSUME IInv PROVE TypeOK
        OBVIOUS
    <2>1. DOMAIN mapTxLocks \subseteq Tx /\ \A t \in DOMAIN mapTxLocks : mapTxLocks[t] \in Lock
        BY DEF IInv, LocksOK, LockOK
    <2> QED BY <2>1 DEF IInv, MapsTyped, TypeOK
<1> QED BY <1>1, Inductive, PTL

\* A primenode has one vote in a lock at most, whatever the order of requests, votes
\* and clean-ups.
THEOREM VotesAreDistinct == Spec => []VotesCountOnce
<1>1. IInv => VotesCountOnce
    BY DEF IInv, LocksOK, LockOK, VotesCountOnce
<1> QED BY <1>1, Inductive, PTL

\* An input locked for a request that was not refused has a request and a lock, so
\* that CleanTransactionLocksList finds and releases it.
THEOREM AcceptedLocksExpire == Spec => []AcceptedLockExpires
<1>1. IInv => AcceptedLockExpires
    BY DEF IInv
<1> QED BY <1>1, Inductive, PTL

\* CountSignatures counts no more votes than there are primenodes of the quorum
\* that voted.
LEMMA SignaturesAreVoters ==
    ASSUME NEW t \in Tx, NEW locks, NEW seen, LockOK(t, locks[t], seen), CountSignatures(locks[t]) >= Required
    PROVE  Cardinality(Voters(t, locks)) >= Required
<1> DEFINE votes == locks[t].vecConsensusVotes
           h == LockHeight[t]
           counted == { i \in DOMAIN votes : votes[i][2] = h }
           f == [i \in counted |-> votes[i][1]]
<1>1. /\ votes \in Seq(Primenode \X Height)
      /\ \A i \in DOMAIN votes : votes[i][1] \in Quorum[votes[i][2]]
      /\ \A i, j \in DOMAIN votes : votes[i][1] = votes[j][1] => i = j
      /\ locks[t].nBlockHeight \in {0, h}
    BY DEF LockOK, Lock
<1>2. Required \in Nat \ {0}
    BY InstantXAssumption DEF InstantXAssumption
<1>3. locks[t].nBlockHeight = h /\ CountSignatures(locks[t]) = Cardinality(counted)
    <2>1. locks[t].nBlockHeight # 0
        <3>1. locks[t].nBlockHeight = 0 => CountSignatures(locks[t]) = 0
            BY DEF CountSignatures
        <3> QED BY <3>1, <1>2
    <2>2. locks[t].nBlockHeight = h
        BY <1>1, <2>1
    <2> QED BY <2>1, <2>2 DEF CountSignatures
<1>4. IsFiniteSet(counted)
    <2>1. IsFiniteSet(1..Len(votes)) /\ DOMAIN votes = 1..Len(votes)
        BY <1>1, FS_Interval
    <2>2. counted \in SUBSET (1..Len(votes))
        BY <2>1
    <2> HIDE DEF counted, votes
    <2> QED BY <2>1, <2>2, FS_Subset
<1>5. Voters(t, locks) = { votes[i][1] : i \in counted }
    <2>1. \A i \in counted : votes[i] = <<votes[i][1], h>> /\ votes[i][1] \in Quorum[h]
        BY <1>1
    <2> HIDE DEF h
    <2>2. Voters(t, locks) \subseteq { votes[i][1] : i \in counted }
        BY <1>1 DEF Voters, h
    <2>3. { votes[i][1] : i \in counted } \subseteq Voters(t, locks)
        BY <2>1 DEF Voters, h
    <2> QED BY <2>2, <2>3
<1>6. f \in Surjection(counted, Voters(t, locks)) /\ f \in Injection(counted, Voters(t, locks))
    <2>1. f \in [counted -> Voters(t, locks)] /\ \A p \in Voters(t, locks) : \E i \in counted : f[i] = p
        BY <1>5
    <2>2. \A i, j \in counted : f[i] = f[j] => i = j
        BY <1>1
    <2> HIDE DEF f, counted
    <2> QED BY <2>1, <2>2 DEF Surjection, Injection, IsInjective
<1>7. Cardinality(Voters(t, locks)) = Cardinality(counted)
    <2> HIDE DEF f, counted
    <2> QED BY <1>4, <1>6, FS_Surjection
<1> QED BY <1>3, <1>7

\* ProcessConsensusVote locks an input only for a request that enough distinct
\* primenodes of the request's own quorum voted for.
THEOREM AcceptedLocksHaveVotes == Spec => AcceptedLockByVotes
<1> DEFINE Step ==
        \A o \in Outpoint :
            LET t == mapLockedInputs'[o]
            IN  t # mapLockedInputs[o] /\ t # None /\ t \notin mapTxLockReqRejected'
                => t \in DOMAIN mapTxLocks' /\ Cardinality(Voters(t, mapTxLocks')) >= Required
<1>1. ASSUME IInv, IInv', [Next]_vars PROVE [Step]_vars
    <2>1. SUFFICES ASSUME NEW o \in Outpoint, mapLockedInputs'[o] # mapLockedInputs[o], mapLockedInputs'[o] # None,
                          mapLockedInputs'[o] \notin mapTxLockReqRejected'
                   PROVE /\ mapLockedInputs'[o] \in DOMAIN mapTxLocks'
                         /\ Cardinality(Voters(mapLockedInputs'[o], mapTxLocks')) >= Required
        OBVIOUS
    <2>2. ASSUME NEW v \in Votes, CountVote(v)
          PROVE  mapLockedInputs'[o] = v.txHash /\ v.txHash \in DOMAIN mapTxLocks' /\ CountSignatures(mapTxLocks'[v.txHash]) >= Required
        <3>1. mapLockedInputs' # mapLockedInputs
            BY <2>1
        <3>2. mapTxLocks' = AddSignature(v) /\ mapLockedInputs' = LockInputs(v.txHash) /\ Complete(v.txHash, AddSignature(v))
            BY <2>2, <3>1 DEF CountVote
        <3> QED BY <2>1, <3>2 DEF LockInputs, Complete
    <2>3. ASSUME RejectRequest PROVE FALSE
        <3>1. mapLockedInputs' = LockInputs(request.tx) /\ request.tx \in mapTxLockReqRejected'
            BY <2>3 DEF RejectRequest
        <3> QED BY <2>1, <3>1 DEF LockInputs
    <2>4. ASSUME Clean PROVE FALSE
        BY <2>1, <2>4 DEF Clean
    <2>5. ASSUME NEW t \in Tx, ReceiveRequest(t) \/ SendRequest(t) \/ ReceiveTx(t) \/ ConnectTx(t) \/ LoseTx(t) \/ TimePasses(t)
          PROVE FALSE
        BY <2>1, <2>5 DEF ReceiveRequest, SendRequest, ReceiveTx, ConnectTx, LoseTx, TimePasses, lockVars
    <2>6. ASSUME NEW v \in Votes, IgnoreVote(v) PROVE FALSE
        BY <2>1, <2>6 DEF IgnoreVote
    <2>7. ASSUME AcceptRequest \/ UNCHANGED vars PROVE FALSE
        BY <2>1, <2>7 DEF AcceptRequest, vars, lockVars
    <2>8. PICK v \in Votes : CountVote(v)
        BY <1>1, <2>3, <2>4, <2>5, <2>6, <2>7 DEF Next
    <2>9. LockOK(v.txHash, mapTxLocks'[v.txHash], mapTxLockVote') /\ v.txHash \in Tx
        BY <1>1, <2>2, <2>8, InstantXAssumption DEF IInv, LocksOK, InstantXAssumption
    <2> QED BY <2>2, <2>8, <2>9, SignaturesAreVoters
<1>2. IInv /\ IInv' /\ [Next]_vars => [Step]_vars
    BY <1>1
<1> QED BY <1>2, Inductive, PTL DEF Spec, AcceptedLockByVotes

-----------------------------------------------------------------------------
(* Requests that share no input.  Until a transaction is displaced, the     *)
(* inputs of an accepted request are spent by it, so two have none in       *)
(* common, and neither locks nor releases the other's.                      *)

Holds(t)       == \A o \in Ins[t] : mapLockedInputs[o] = t
HoldsNothing(t) == \A o \in Ins[t] : mapLockedInputs[o] # t

TogetherInv ==
    reorgs = 0 => \A t \in mapTxLockReq :
        /\ \A o \in Ins[t] : spentBy[o] = t
        /\ Holds(t) \/ HoldsNothing(t)

LEMMA StepTogether == IInv /\ TogetherInv /\ [Next]_vars => TogetherInv'
<1> SUFFICES ASSUME IInv, TogetherInv, [Next]_vars, reorgs' = 0, NEW t \in mapTxLockReq'
             PROVE  /\ \A o \in Ins[t] : spentBy'[o] = t
                    /\ Holds(t)' \/ HoldsNothing(t)'
    BY DEF TogetherInv
<1> DEFINE Goal == (\A o \in Ins[t] : spentBy'[o] = t) /\ (Holds(t)' \/ HoldsNothing(t)')
<1>t. /\ \A u \in Tx : Ins[u] \subseteq Outpoint
      /\ mapTxLockReq \subseteq Tx /\ None \notin Tx /\ reorgs \in Nat
      /\ request # None => request.tx \in Tx /\ request.tx \notin mapTxLockReq \cup mapTxLockReqRejected
      /\ mapLockedInputs \in [Outpoint -> Tx \cup {None}] /\ spentBy \in [Outpoint -> Tx \cup {None}]
    BY InstantXAssumption DEF InstantXAssumption, IInv, MapsTyped, RequestInv
<1>r. reorgs = 0
    <2>1. reorgs' = reorgs \/ reorgs' = reorgs + 1
        BY DEF Next, ReceiveRequest, SendRequest, ReceiveTx, ConnectTx, LoseTx, TimePasses, AcceptRequest,
               RejectRequest, IgnoreVote, CountVote, Clean, vars
    <2> QED BY <1>t, <2>1
<1>o. ASSUME t \in mapTxLockReq PROVE (\A o \in Ins[t] : spentBy[o] = t) /\ (Holds(t) \/ HoldsNothing(t))
    BY <1>r, <1>o DEF TogetherInv
\* A request that was neither accepted nor refused has locked nothing.
<1>n. ASSUME NEW u \in Tx, u \notin mapTxLockReq \cup mapTxLockReqRejected PROVE HoldsNothing(u)
    BY <1>t, <1>n DEF HoldsNothing, IInv, AcceptedLockExpires
\* What another transaction spends, locks or frees leaves t as it was.
<1>s. ASSUME NEW u \in Tx, Acceptable(u), spentBy' = Spend(u), t \in mapTxLockReq PROVE \A o \in Ins[t] : spentBy'[o] = t
    BY <1>t, <1>o, <1>s DEF Acceptable, Spend
<1>k. ASSUME UNCHANGED <<mapTxLockReq, mapLockedInputs, spentBy>> PROVE Goal
    BY <1>o, <1>k DEF Holds, HoldsNothing
<1>1. ASSUME NEW u \in Tx, ReceiveRequest(u) PROVE Goal
    BY <1>k, <1>1 DEF ReceiveRequest
<1>p. ASSUME NEW u \in Tx, u \notin mapTxLockReq \cup mapTxLockReqRejected, Acceptable(u),
             mapTxLockReq' = mapTxLockReq \cup {u}, spentBy' = Spend(u), UNCHANGED mapLockedInputs
      PROVE  Goal
    <2>1. CASE t = u
        <3>1. HoldsNothing(t)
            BY <1>n, <1>p, <2>1
        <3> QED BY <1>t, <1>p, <2>1, <3>1 DEF Spend, HoldsNothing
    <2>2. CASE t # u
        <3>1. t \in mapTxLockReq
            BY <1>p, <2>2
        <3> QED BY <1>o, <1>s, <1>p, <3>1 DEF Holds, HoldsNothing
    <2> QED BY <2>1, <2>2
<1>2. CASE AcceptRequest
    BY <1>t, <1>p, <1>2 DEF AcceptRequest
<1>3. CASE RejectRequest
    <2>1. /\ request.tx \in Tx /\ t \in mapTxLockReq /\ t # request.tx
          /\ mapLockedInputs' = LockInputs(request.tx) /\ UNCHANGED spentBy
        BY <1>t, <1>3 DEF RejectRequest
    <2>2. \A o \in Outpoint : mapLockedInputs'[o] = t <=> mapLockedInputs[o] = t
        BY <1>t, <2>1 DEF LockInputs
    <2> QED BY <1>t, <1>o, <2>1, <2>2 DEF Holds, HoldsNothing
<1>4. ASSUME NEW v \in Votes, IgnoreVote(v) PROVE Goal
    BY <1>k, <1>4 DEF IgnoreVote
<1>5. ASSUME NEW v \in Votes, CountVote(v) PROVE Goal
    <2>1. mapTxLockReq' = mapTxLockReq /\ spentBy' = spentBy
        BY <1>5 DEF CountVote
    <2>2. CASE mapLockedInputs' = mapLockedInputs
        BY <1>k, <2>1, <2>2
    <2>3. CASE mapLockedInputs' # mapLockedInputs
        <3>1. mapLockedInputs' = LockInputs(v.txHash) /\ Conflicting(v.txHash, mapLockedInputs) = {}
            BY <1>5, <2>3 DEF CountVote
        <3>2. CASE t = v.txHash
            <4>1. \A o \in Ins[t] : mapLockedInputs'[o] = t
                BY <1>t, <2>1, <3>1, <3>2 DEF LockInputs, Conflicting
            <4> QED BY <1>o, <2>1, <4>1 DEF Holds
        <3>3. CASE t # v.txHash
            <4>1. \A o \in Outpoint : mapLockedInputs'[o] = t <=> mapLockedInputs[o] = t
                BY <1>t, <2>1, <3>1, <3>3 DEF LockInputs
            <4> QED BY <1>t, <1>o, <2>1, <4>1 DEF Holds, HoldsNothing
        <3> QED BY <3>2, <3>3
    <2> QED BY <2>2, <2>3
<1>6. ASSUME NEW u \in Tx, SendRequest(u) PROVE Goal
    BY <1>p, <1>6 DEF SendRequest
<1>7. ASSUME NEW u \in Tx, ReceiveTx(u) PROVE Goal
    BY <1>o, <1>s, <1>7 DEF ReceiveTx, lockVars, Holds, HoldsNothing
<1>8. ASSUME NEW u \in Tx, ConnectTx(u) \/ LoseTx(u) PROVE Goal
    BY <1>r, <1>8 DEF ConnectTx, LoseTx
<1>9. ASSUME NEW u \in Tx, TimePasses(u) PROVE Goal
    BY <1>k, <1>9 DEF TimePasses
<1>10. CASE Clean
    <2> DEFINE done == Expired \cap mapTxLockReq
    <2>1. /\ t \in mapTxLockReq \ done /\ UNCHANGED spentBy
          /\ mapLockedInputs' = [o \in Outpoint |-> IF \E u \in done : o \in Ins[u] THEN None ELSE mapLockedInputs[o]]
        BY <1>10 DEF Clean
    <2>2. \A u \in done : \A o \in Ins[u] : spentBy[o] = u
        BY <1>r DEF TogetherInv
    <2>3. ASSUME NEW o \in Ins[t] PROVE mapLockedInputs'[o] = mapLockedInputs[o]
        <3>1. spentBy[o] = t /\ o \in Outpoint
            BY <1>t, <1>o, <2>1
        <3>2. ~ \E u \in done : o \in Ins[u]
            BY <2>1, <2>2, <3>1
        <3> HIDE DEF done
        <3> QED BY <2>1, <3>1, <3>2
    <2> QED BY <1>o, <2>1, <2>3 DEF Holds, HoldsNothing
<1>11. CASE UNCHANGED vars
    BY <1>k, <1>11 DEF vars, lockVars
<1> QED BY <1>1, <1>2, <1>3, <1>4, <1>5, <1>6, <1>7, <1>8, <1>9, <1>10, <1>11 DEF Next

\* Until a block takes a transaction away from the node, the inputs of an accepted
\* request are locked together and released together.
THEOREM InputsLockedTogether == Spec => []LockedTogether
<1>1. Init => TogetherInv
    BY DEF Init, TogetherInv
<1>2. IInv /\ TogetherInv /\ [Next]_vars => TogetherInv'
    BY StepTogether
<1>3. TogetherInv => LockedTogether
    BY DEF TogetherInv, LockedTogether, Holds, HoldsNothing
<1> QED BY <1>1, <1>2, <1>3, Inductive, PTL DEF Spec
=============================================================================
