-------------------------- MODULE ChainStateProofs --------------------------
(***************************************************************************)
(* Proofs about ChainState, for every block tree and every set of          *)
(* transactions that the assumptions of ChainState allow.                  *)
(***************************************************************************)
EXTENDS ChainState, LeastNumber, TLAPS

-----------------------------------------------------------------------------
(* Facts about the tree. *)

\* A set of blocks that has Genesis and, with the parent of a block, the block,
\* has all blocks: the loops over pprev reach Genesis.
LEMMA TreeInduction ==
    ASSUME NEW S, Genesis \in S,
           \A b \in Block \ {Genesis} : Parent[b] \in S => b \in S
    PROVE  Block \subseteq S
<1> SUFFICES ASSUME NEW x \in Block, x \notin S PROVE FALSE
    OBVIOUS
<1> DEFINE H == { Height[b] : b \in Block \ S }
<1>1. H \in SUBSET Nat /\ H # {}
    BY BlockTreeAssumption DEF BlockTreeAssumption
<1>2. PICK m \in H : \A k \in H : m <= k
    BY <1>1, LeastNat
<1>3. PICK b \in Block \ S : m = Height[b]
    BY <1>2
<1>4. b # Genesis /\ Parent[b] \in Block \ S
    BY <1>3, BlockTreeAssumption DEF BlockTreeAssumption
<1>5. Height[Parent[b]] \in H /\ Height[b] = Height[Parent[b]] + 1
    BY <1>4, BlockTreeAssumption DEF BlockTreeAssumption
<1>6. Height[b] \in Nat /\ Height[Parent[b]] \in Nat
    BY <1>4, BlockTreeAssumption DEF BlockTreeAssumption
<1>7. m <= Height[Parent[b]]
    <2> HIDE DEF H
    <2> QED BY <1>2, <1>5
<1> QED BY <1>3, <1>5, <1>6, <1>7

\* A chain holds its tip and Genesis, and the chain of every block on it, which
\* is no heavier.
LEMMA ChainsNest ==
    ASSUME NEW b \in Block
    PROVE  /\ Genesis \in Ancestors[b] /\ b \in Ancestors[b]
           /\ \A a \in Ancestors[b] : Ancestors[a] \subseteq Ancestors[b] /\ ChainTrust[a] <= ChainTrust[b]
<1> DEFINE S == { c \in Block :
                    /\ Genesis \in Ancestors[c] /\ c \in Ancestors[c]
                    /\ \A a \in Ancestors[c] : Ancestors[a] \subseteq Ancestors[c] /\ ChainTrust[a] <= ChainTrust[c] }
<1>1. Genesis \in S
    BY BlockTreeAssumption DEF BlockTreeAssumption
<1>2. ASSUME NEW c \in Block \ {Genesis}, Parent[c] \in S PROVE c \in S
    <2>1. /\ Ancestors[c] = Ancestors[Parent[c]] \cup {c}
          /\ ChainTrust[c] > ChainTrust[Parent[c]]
          /\ Ancestors[c] \subseteq Block
          /\ Parent[c] \in Block
          /\ ChainTrust \in [Block -> Nat]
        BY BlockTreeAssumption DEF BlockTreeAssumption
    <2>2. ASSUME NEW a \in Ancestors[c] PROVE Ancestors[a] \subseteq Ancestors[c] /\ ChainTrust[a] <= ChainTrust[c]
        <3>1. CASE a = c
            BY <3>1, <2>1
        <3>2. CASE a \in Ancestors[Parent[c]]
            <4>1. Ancestors[a] \subseteq Ancestors[Parent[c]] /\ ChainTrust[a] <= ChainTrust[Parent[c]]
                BY <1>2, <3>2
            <4>2. ChainTrust[a] \in Nat /\ ChainTrust[c] \in Nat /\ ChainTrust[Parent[c]] \in Nat
                BY <2>1
            <4> QED BY <4>1, <4>2, <2>1
        <3> QED BY <3>1, <3>2, <2>1
    <2> QED BY <1>2, <2>1, <2>2
<1>3. Block \subseteq S
    <2> HIDE DEF S
    <2> QED BY <1>1, <1>2, TreeInduction
<1> QED BY <1>3

-----------------------------------------------------------------------------
(* The memory pool. *)

PoolType ==
    /\ mapTx \subseteq Tx
    /\ mapNextTx \in [Outpoint -> mapTx \cup {None}]

\* Adding a transaction whose inputs no pool transaction spends.
LEMMA AddKeepsIndex ==
    ASSUME PoolType, PoolIndexExact, NEW t \in Tx,
           \A o \in Ins[t] : mapNextTx[o] = None, AddToPool(t)
    PROVE  PoolType' /\ PoolIndexExact'
<1>1. Ins \in [Tx -> SUBSET Outpoint] /\ None \notin Tx
    BY TxAssumption, MiscAssumption DEF TxAssumption, MiscAssumption
<1>2. mapTx' = mapTx \cup {t} /\ mapNextTx' = [o \in Outpoint |-> IF o \in Ins[t] THEN t ELSE mapNextTx[o]]
    BY DEF AddToPool
<1>3. PoolType'
    BY <1>2 DEF PoolType
<1>4. ASSUME NEW o \in Outpoint, NEW u \in Tx PROVE mapNextTx'[o] = u <=> u \in mapTx' /\ o \in Ins[u]
    <2>1. mapNextTx[o] = u <=> u \in mapTx /\ o \in Ins[u]
        BY DEF PoolIndexExact
    <2>2. CASE o \in Ins[t]
        BY <1>1, <1>2, <2>1, <2>2
    <2>3. CASE o \notin Ins[t]
        BY <1>1, <1>2, <2>1, <2>3
    <2> QED BY <2>2, <2>3
<1> QED BY <1>3, <1>4 DEF PoolIndexExact

\* Removing any set of transactions, in the pool or not.
LEMMA RemoveKeepsIndex ==
    ASSUME PoolType, PoolIndexExact, NEW ts, RemoveFromPool(ts)
    PROVE  PoolType' /\ PoolIndexExact' /\ mapTx' = mapTx \ ts
<1>1. Ins \in [Tx -> SUBSET Outpoint] /\ None \notin Tx
    BY TxAssumption, MiscAssumption DEF TxAssumption, MiscAssumption
<1> DEFINE gone == ts \cap mapTx
<1>2. /\ mapTx' = mapTx \ gone
      /\ mapNextTx' = [o \in Outpoint |-> IF \E t \in gone : o \in Ins[t] THEN None ELSE mapNextTx[o]]
    BY DEF RemoveFromPool
<1>3. gone \subseteq mapTx /\ mapTx \subseteq Tx
    BY DEF PoolType
<1> HIDE DEF gone
<1>4. ASSUME NEW o \in Outpoint, NEW u \in Tx PROVE mapNextTx'[o] = u <=> u \in mapTx' /\ o \in Ins[u]
    <2>1. \A w \in Tx : mapNextTx[o] = w <=> w \in mapTx /\ o \in Ins[w]
        BY DEF PoolIndexExact
    <2>2. CASE \E t \in gone : o \in Ins[t]
        <3>1. PICK t \in gone : o \in Ins[t]
            BY <2>2
        <3>2. t \in Tx /\ mapNextTx[o] = t
            BY <1>3, <2>1, <3>1
        <3>3. mapNextTx'[o] = None
            BY <1>2, <2>2
        <3> QED BY <1>1, <1>2, <2>1, <3>1, <3>2, <3>3
    <2>3. CASE ~ \E t \in gone : o \in Ins[t]
        <3>1. mapNextTx'[o] = mapNextTx[o]
            BY <1>2, <2>3
        <3> QED BY <1>2, <2>1, <2>3, <3>1
    <2> QED BY <2>2, <2>3
<1>5. PoolIndexExact'
    BY <1>4 DEF PoolIndexExact
<1>6. PoolType'
    <2>1. mapTx' \subseteq Tx
        BY <1>2, <1>3
    <2>2. ASSUME NEW o \in Outpoint PROVE mapNextTx'[o] \in mapTx' \cup {None}
        <3>1. mapNextTx[o] \in mapTx \cup {None}
            BY DEF PoolType
        <3>2. mapNextTx'[o] = None \/ mapNextTx'[o] = mapNextTx[o]
            BY <1>2
        <3> QED BY <1>3, <1>4, <2>1, <3>1, <3>2
    <2> QED BY <1>2, <2>1, <2>2 DEF PoolType
<1>7. mapTx' = mapTx \ ts
    BY <1>2 DEF gone
<1> QED BY <1>5, <1>6, <1>7

-----------------------------------------------------------------------------
(* The database. *)

LEMMA TxSetType == ASSUME NEW b \in Block PROVE TxSet(b) \subseteq Tx
<1>1. BlockTxs[b] \in Seq(Tx)
    BY TxAssumption DEF TxAssumption
<1> QED BY <1>1 DEF TxSet

\* What ConnectBlock and DisconnectBlock leave alone, and their types.
LEMMA ConnectShape ==
    ASSUME NEW v \in Database, NEW b \in Block, Parent[b] \in Block, pnext \in [Block -> Block \cup {None}]
    PROVE  /\ ConnectBlock(v, b) \in Database
           /\ ConnectBlock(v, b).index = v.index
           /\ ConnectBlock(v, b).best = v.best
           /\ ConnectBlock(v, b).txs = v.txs \cup TxSet(b)
<1>2. TxSet(b) \subseteq Tx
    BY TxSetType
<1> DEFINE nx == [v.next EXCEPT ![b] = pnext[b], ![Parent[b]] = b]
           sp == [o \in Outpoint |-> IF \E t \in TxSet(b) : o \in Ins[t]
                      THEN CHOOSE t \in TxSet(b) : o \in Ins[t]
                      ELSE IF Producer[o] \in TxSet(b) THEN None ELSE v.spent[o]]
<1>3. nx \in [Block -> Block \cup {None}]
    BY DEF Database
<1>4. ASSUME NEW o \in Outpoint PROVE sp[o] \in Tx \cup {None}
    <2>1. CASE \E t \in TxSet(b) : o \in Ins[t]
        BY <1>2, <2>1
    <2>2. CASE ~ \E t \in TxSet(b) : o \in Ins[t]
        BY <2>2 DEF Database
    <2> QED BY <2>1, <2>2
<1>5. sp \in [Outpoint -> Tx \cup {None}]
    <2> HIDE DEF sp
    <2>1. sp = [o \in Outpoint |-> sp[o]]
        BY DEF sp
    <2> QED BY <1>4, <2>1
<1>6. ConnectBlock(v, b) = [v EXCEPT !.next = nx, !.txs = v.txs \cup TxSet(b), !.spent = sp]
    BY DEF ConnectBlock
<1> HIDE DEF nx, sp
<1> QED BY <1>2, <1>3, <1>5, <1>6 DEF Database

LEMMA DisconnectShape ==
    ASSUME NEW v \in Database, NEW b \in Block \ {Genesis}
    PROVE  /\ DisconnectBlock(v, b) \in Database
           /\ DisconnectBlock(v, b).index = v.index
           /\ DisconnectBlock(v, b).best = v.best
           /\ DisconnectBlock(v, b).txs = v.txs \ TxSet(b)
<1>1. Parent[b] \in Block
    BY BlockTreeAssumption DEF BlockTreeAssumption
<1> DEFINE nx == [v.next EXCEPT ![Parent[b]] = None]
           sp == [o \in Outpoint |-> IF Producer[o] \in TxSet(b) \/ \E t \in TxSet(b) : o \in Ins[t]
                                       THEN None ELSE v.spent[o]]
<1>2. nx \in [Block -> Block \cup {None}]
    BY <1>1 DEF Database
<1>3. sp \in [Outpoint -> Tx \cup {None}]
    BY DEF Database
<1>4. DisconnectBlock(v, b) = [v EXCEPT !.next = nx, !.txs = v.txs \ TxSet(b), !.spent = sp]
    BY DEF DisconnectBlock
<1> HIDE DEF nx, sp
<1> QED BY <1>2, <1>3, <1>4 DEF Database

-----------------------------------------------------------------------------
(* Type correctness, and the pool's index with it. *)

Typed == TypeOK /\ PoolIndexExact

\* Appending a block to the best chain, common to the direct extension and to a
\* postponed reconnect.
LEMMA AppendTyped ==
    ASSUME Typed, NEW b \in Block, Parent[b] \in Block, AppendToBestChain(b)
    PROVE  /\ view' \in Database /\ disk' = view' /\ pnext' \in [Block -> Block \cup {None}]
           /\ disk'.best = b /\ disk'.txs = view.txs \cup TxSet(b)
           /\ disk'.index = view.index
           /\ PoolType' /\ PoolIndexExact' /\ mapTx' = mapTx \ TxSet(b)
<1> USE DEF Typed
<1>1. /\ ConnectBlock(view, b) \in Database
      /\ ConnectBlock(view, b).txs = view.txs \cup TxSet(b)
      /\ ConnectBlock(view, b).index = view.index
    BY ConnectShape DEF TypeOK
<1>2. view' = [ConnectBlock(view, b) EXCEPT !.best = b] /\ disk' = view'
    BY DEF AppendToBestChain
<1>3. view' \in Database /\ view'.best = b /\ view'.txs = view.txs \cup TxSet(b) /\ view'.index = view.index
    <2> HIDE DEF Typed
    <2> DEFINE c == ConnectBlock(view, b)
    <2> HIDE DEF c
    <2>1. c \in Database /\ view' = [c EXCEPT !.best = b] /\ c.txs = view.txs \cup TxSet(b) /\ c.index = view.index
        BY <1>1, <1>2 DEF c
    <2> QED BY <2>1 DEF Database
<1>4. pnext' \in [Block -> Block \cup {None}]
    BY DEF AppendToBestChain, TypeOK
<1>5. PoolType' /\ PoolIndexExact' /\ mapTx' = mapTx \ TxSet(b)
    <2>1. RemoveFromPool(TxSet(b)) /\ PoolType /\ PoolIndexExact
        BY DEF AppendToBestChain, TypeOK, PoolType
    <2> QED BY <2>1, RemoveKeepsIndex
<1> QED BY <1>2, <1>3, <1>4, <1>5

LEMMA InitTyped == Init => Typed
<1> SUFFICES ASSUME Init PROVE Typed
    OBVIOUS
<1>1. Genesis \in Block /\ MaxRestarts \in Nat
    BY BlockTreeAssumption, MiscAssumption DEF BlockTreeAssumption, MiscAssumption
<1>2. EmptyChain \in Database
    BY <1>1 DEF EmptyChain, Database
<1>3. TypeOK
    <2>1. mapTx \subseteq Tx /\ vResurrect \in Seq(Tx) /\ vDelete \subseteq Tx
        BY DEF Init
    <2>2. mapNextTx \in [Outpoint -> mapTx \cup {None}]
        BY DEF Init
    <2>3. mapLockedInputs \in [Outpoint -> Tx \cup {None}] /\ pnext \in [Block -> Block \cup {None}]
        BY DEF Init
    <2>4. postponedFailed \in BOOLEAN /\ torn \in BOOLEAN
        BY Zenon DEF Init
    <2>5. disk \in Database /\ view \in Database /\ restarts \in 0..MaxRestarts
        BY <1>1, <1>2 DEF Init
    <2>6. /\ mapBlockIndex \subseteq Block /\ pindexBest \in Block
          /\ pindexNew \in Block /\ pivot \in Block /\ tip \in Block
          /\ pc \in {"idle", "setbest", "reorganize", "resurrect", "postponed"}
        BY <1>1 DEF Init
    <2> QED BY <2>1, <2>2, <2>3, <2>4, <2>5, <2>6 DEF TypeOK
<1>4. PoolIndexExact
    BY MiscAssumption DEF MiscAssumption, Init, PoolIndexExact
<1> QED BY <1>3, <1>4 DEF Typed

LEMMA StepTyped == Typed /\ [Next]_vars => Typed'
<1> SUFFICES ASSUME Typed, [Next]_vars PROVE Typed'
    OBVIOUS
<1> USE DEF Typed
<1>g. Genesis \in Block /\ \A b \in Block \ {Genesis} : Parent[b] \in Block
    BY BlockTreeAssumption DEF BlockTreeAssumption
<1>n. None \notin Tx /\ MaxRestarts \in Nat
    BY MiscAssumption DEF MiscAssumption
<1>p. TypeOK' <=> PoolType' /\ (/\ mapBlockIndex \subseteq Block /\ pindexBest \in Block
                                /\ pnext \in [Block -> Block \cup {None}]
                                /\ mapLockedInputs \in [Outpoint -> Tx \cup {None}]
                                /\ disk \in Database /\ view \in Database
                                /\ pc \in {"idle", "setbest", "reorganize", "resurrect", "postponed"}
                                /\ pindexNew \in Block /\ pivot \in Block /\ tip \in Block
                                /\ vResurrect \in Seq(Tx) /\ vDelete \subseteq Tx
                                /\ postponedFailed \in BOOLEAN /\ torn \in BOOLEAN /\ restarts \in 0..MaxRestarts)'
    BY DEF TypeOK, PoolType
<1>q. PoolType /\ PoolIndexExact
    BY DEF TypeOK, PoolType
<1>i. UNCHANGED poolVars => PoolType' /\ PoolIndexExact'
    BY <1>q DEF poolVars, PoolType, PoolIndexExact
<1>1. ASSUME NEW t \in Tx, AcceptToMemoryPool(t) PROVE Typed'
    <2>1. PoolType' /\ PoolIndexExact'
        BY <1>1, <1>q, AddKeepsIndex DEF AcceptToMemoryPool, Acceptable
    <2> QED BY <1>1, <1>p, <2>1 DEF AcceptToMemoryPool, TypeOK, memVars, jobVars, histVars
<1>2. ASSUME NEW o \in Outpoint, NEW t \in Tx, LockInput(o, t) PROVE Typed'
    BY <1>2, <1>i, <1>p DEF LockInput, TypeOK, memVars, jobVars, histVars, poolVars
<1>3. ASSUME NEW o \in Outpoint, UnlockInput(o) PROVE Typed'
    BY <1>3, <1>i, <1>p DEF UnlockInput, TypeOK, memVars, jobVars, histVars, poolVars
<1>4. ASSUME NEW b \in Block \ {Genesis}, AddToBlockIndex(b) PROVE Typed'
    <2>1. disk' \in Database /\ view' = disk'
        BY <1>4 DEF AddToBlockIndex, TypeOK, Database
    <2>2. pc' \in {"idle", "setbest"} /\ pindexNew' \in Block
        BY <1>4 DEF AddToBlockIndex, TypeOK
    <2> QED BY <1>4, <1>i, <1>p, <2>1, <2>2 DEF AddToBlockIndex, TypeOK, histVars
<1>5. ASSUME ExtendBestChain PROVE Typed'
    <2>1. pindexNew \in Block /\ Parent[pindexNew] \in Block /\ AppendToBestChain(pindexNew)
        BY <1>5 DEF ExtendBestChain, TypeOK
    <2>2. /\ view' \in Database /\ disk' = view' /\ pnext' \in [Block -> Block \cup {None}]
          /\ PoolType' /\ PoolIndexExact'
        BY <2>1, AppendTyped
    <2> QED BY <1>5, <1>p, <2>1, <2>2 DEF ExtendBestChain, TypeOK, jobVars, histVars
<1>a. ASSUME Abort PROVE Typed'
    BY <1>a, <1>i, <1>p DEF Abort, TypeOK, memVars, poolVars, histVars
<1>6. ASSUME ExtendFails PROVE Typed'
    BY <1>6, <1>a DEF ExtendFails
<1>7. ASSUME NEW p \in Block, StartReorganize(p) PROVE Typed'
    BY <1>7, <1>i, <1>p DEF StartReorganize, TypeOK, memVars, poolVars, histVars
<1>8. ASSUME ReorganizeDisconnect PROVE Typed'
    <2>1. tip \in Block \ {Genesis}
        BY <1>8, ChainsNest DEF ReorganizeDisconnect, TypeOK
    <2>2. view' \in Database
        BY <1>8, <2>1, DisconnectShape DEF ReorganizeDisconnect, TypeOK
    <2>3. vResurrect' \in Seq(Tx)
        <3>1. BlockTxs[tip] \in Seq(Tx) /\ <<>> \in Seq(Tx)
            BY <1>8, TxAssumption DEF TypeOK, TxAssumption
        <3>2. Resurrected(tip) \in Seq(Tx)
            BY <3>1 DEF Resurrected
        <3> QED BY <1>8, <3>2 DEF ReorganizeDisconnect, TypeOK
    <2> QED BY <1>8, <1>g, <1>i, <1>p, <2>1, <2>2, <2>3 DEF ReorganizeDisconnect, TypeOK, memVars, poolVars, histVars
<1>9. ASSUME NEW b \in Block, ReorganizeConnect(b) PROVE Typed'
    <2>1. view' \in Database
        BY <1>9, <1>g, ConnectShape DEF ReorganizeConnect, TypeOK
    <2>2. vDelete' \subseteq Tx
        BY <1>9, TxSetType DEF ReorganizeConnect, TypeOK
    <2> QED BY <1>9, <1>i, <1>p, <2>1, <2>2 DEF ReorganizeConnect, TypeOK, memVars, poolVars, histVars
<1>10. ASSUME ReorganizeFails PROVE Typed'
    BY <1>10, <1>a DEF ReorganizeFails
<1>11. ASSUME ReorganizeCommit PROVE Typed'
    <2>1. view' \in Database /\ disk' = view'
        BY <1>11 DEF ReorganizeCommit, TypeOK, Database
    <2>2. pnext' \in [Block -> Block \cup {None}]
        <3> DEFINE connected == Ancestors[pivot] \ Ancestors[pindexBest]
        <3>1. connected \subseteq Block
            BY BlockTreeAssumption DEF BlockTreeAssumption, TypeOK
        <3>2. \A b \in Block : { c \in connected : Parent[c] = b } # {}
                                 => (CHOOSE c \in connected : Parent[c] = b) \in Block
            BY <3>1
        <3> QED BY <1>11, <3>2 DEF ReorganizeCommit, TypeOK
    <2> QED BY <1>11, <1>i, <1>p, <2>1, <2>2 DEF ReorganizeCommit, TypeOK, poolVars, jobVars, histVars
<1>12. ASSUME ReorganizeResurrect PROVE Typed'
    <2>1. vResurrect' \in Seq(Tx) /\ Head(vResurrect) \in Tx
        BY <1>12 DEF ReorganizeResurrect, TypeOK
    <2>2. PoolType' /\ PoolIndexExact'
        BY <1>12, <1>i, <1>q, <2>1, AddKeepsIndex DEF ReorganizeResurrect, Acceptable
    <2> QED BY <1>12, <1>p, <2>1, <2>2 DEF ReorganizeResurrect, TypeOK, memVars, histVars
<1>13. ASSUME ReorganizeDelete PROVE Typed'
    <2>1. PoolType' /\ PoolIndexExact'
        BY <1>13, <1>q, RemoveKeepsIndex DEF ReorganizeDelete
    <2> QED BY <1>13, <1>p, <2>1 DEF ReorganizeDelete, TypeOK, memVars, histVars
<1>14. ASSUME NEW b \in Block, ConnectPostponed(b) PROVE Typed'
    <2>1. Parent[b] \in Block /\ AppendToBestChain(b)
        BY <1>14, <1>g DEF ConnectPostponed
    <2>2. /\ view' \in Database /\ disk' = view' /\ pnext' \in [Block -> Block \cup {None}]
          /\ PoolType' /\ PoolIndexExact'
        BY <2>1, AppendTyped
    <2> QED BY <1>14, <1>p, <2>1, <2>2 DEF ConnectPostponed, TypeOK, histVars
<1>15. ASSUME PostponedFails PROVE Typed'
    BY <1>15, <1>i, <1>p DEF PostponedFails, NewBestBlock, TypeOK, poolVars, jobVars
<1>16. ASSUME FinishSetBestChain PROVE Typed'
    BY <1>16, <1>i, <1>p DEF FinishSetBestChain, NewBestBlock, TypeOK, poolVars, jobVars, histVars
<1>17. ASSUME Restart PROVE Typed'
    <2>1. PoolType' /\ PoolIndexExact'
        BY <1>17, <1>n DEF Restart, PoolType, PoolIndexExact
    <2>2. /\ mapBlockIndex' \subseteq Block /\ pindexBest' \in Block /\ pnext' \in [Block -> Block \cup {None}]
          /\ view' \in Database /\ disk' \in Database
        BY <1>17 DEF Restart, TypeOK, Database
    <2>3. mapLockedInputs' \in [Outpoint -> Tx \cup {None}] /\ restarts' \in 0..MaxRestarts /\ vResurrect' \in Seq(Tx)
        BY <1>17, <1>n DEF Restart, TypeOK
    <2> QED BY <1>17, <1>g, <1>p, <2>1, <2>2, <2>3 DEF Restart, TypeOK
<1>18. ASSUME UNCHANGED vars PROVE Typed'
    BY <1>18, <1>i, <1>p DEF vars, TypeOK, memVars, poolVars, jobVars, histVars
<1> QED
    BY <1>1, <1>2, <1>3, <1>4, <1>5, <1>6, <1>7, <1>8, <1>9, <1>10, <1>11, <1>12, <1>13, <1>14, <1>15,
       <1>16, <1>17, <1>18 DEF Next, JobStep

LEMMA TypedAlways == Spec => []Typed
    BY InitTyped, StepTyped, PTL DEF Spec

\* Every variable of main.cpp and txmempool.cpp modelled here keeps its type, and
\* mapNextTx points at transactions of the pool.
THEOREM TypeCorrect == Spec => []TypeOK
    BY TypedAlways, PTL DEF Typed

\* mapNextTx stays the exact index of the pool through accepts, reorganisations
\* and restarts.
THEOREM PoolIsIndexed == Spec => []PoolIndexExact
    BY TypedAlways, PTL DEF Typed

-----------------------------------------------------------------------------
(* Where a job stands: what the batch holds beyond the disk, what the pool  *)
(* may still share with it, and how heavy each chain is.                    *)

JobInv ==
    /\ pc # "reorganize" => view = disk
    /\ pc = "reorganize" => view.best = disk.best /\ view.txs \subseteq disk.txs \cup vDelete
    /\ NoConfirmedInPool

TrustInv ==
    /\ pc \in {"idle", "setbest", "reorganize"} => ChainTrust[disk.best] <= ChainTrust[pindexBest]
    /\ pc = "setbest" => ChainTrust[pindexNew] > ChainTrust[pindexBest]
    /\ pc = "reorganize" => ChainTrust[pivot] > ChainTrust[pindexBest] /\ pivot \in Ancestors[pindexNew]
    /\ pc \in {"resurrect", "postponed"} => disk.best = tip /\ tip \in Ancestors[pindexNew]

\* Every step, with the commits' effect on the weight of the best chain.
LEMMA StepJob ==
    ASSUME Typed, Typed', JobInv, TrustInv, [Next]_vars
    PROVE  /\ JobInv' /\ TrustInv'
           /\ disk'.best # disk.best => ChainTrust[disk'.best] > ChainTrust[disk.best]
<1> DEFINE Grows == disk'.best # disk.best => ChainTrust[disk'.best] > ChainTrust[disk.best]
           Goal  == JobInv' /\ TrustInv' /\ Grows
<1>t. /\ TypeOK /\ TypeOK'
      /\ mapTx \subseteq Tx
      /\ disk.best \in Block /\ view.best \in Block /\ disk'.best \in Block
      /\ pindexBest \in Block /\ pindexNew \in Block /\ pivot \in Block /\ tip \in Block
    BY DEF Typed, TypeOK, Database
<1>c. /\ \A b \in Block : ChainTrust[b] \in Nat /\ Ancestors[b] \subseteq Block
      /\ \A b \in Block \ {Genesis} : Parent[b] \in Block /\ ChainTrust[b] > ChainTrust[Parent[b]]
    BY BlockTreeAssumption DEF BlockTreeAssumption
<1>n. \A b \in Block : b \in Ancestors[b] /\ \A a \in Ancestors[b] : ChainTrust[a] <= ChainTrust[b]
    BY ChainsNest
<1>q. PoolType /\ PoolIndexExact
    BY DEF Typed, TypeOK, PoolType
<1>1. ASSUME NEW t \in Tx, AcceptToMemoryPool(t) PROVE Goal
    BY <1>1 DEF AcceptToMemoryPool, Acceptable, AddToPool, JobInv, TrustInv, NoConfirmedInPool, memVars, jobVars
<1>2. ASSUME NEW o \in Outpoint, NEW t \in Tx, LockInput(o, t) PROVE Goal
    BY <1>2 DEF LockInput, JobInv, TrustInv, NoConfirmedInPool, memVars, poolVars, jobVars
<1>3. ASSUME NEW o \in Outpoint, UnlockInput(o) PROVE Goal
    BY <1>3 DEF UnlockInput, JobInv, TrustInv, NoConfirmedInPool, memVars, poolVars, jobVars
<1>4. ASSUME NEW b \in Block \ {Genesis}, AddToBlockIndex(b) PROVE Goal
    <2>1. disk'.best = disk.best /\ disk'.txs = disk.txs /\ view' = disk' /\ pc' \in {"idle", "setbest"}
        BY <1>4, <1>t DEF AddToBlockIndex, TypeOK, Database
    <2>2. JobInv'
        BY <1>4, <2>1 DEF AddToBlockIndex, JobInv, NoConfirmedInPool, poolVars
    <2>3. TrustInv'
        BY <1>4, <2>1, <1>t, <1>c DEF AddToBlockIndex, TrustInv
    <2> QED BY <2>1, <2>2, <2>3
<1>5. ASSUME ExtendBestChain PROVE Goal
    <2>1. pc = "setbest" /\ Parent[pindexNew] \in Block /\ AppendToBestChain(pindexNew)
          /\ pc' = "idle" /\ pindexBest' = pindexNew
        BY <1>5, <1>t DEF ExtendBestChain
    <2>2. /\ disk' = view' /\ disk'.best = pindexNew /\ disk'.txs = view.txs \cup TxSet(pindexNew)
          /\ mapTx' = mapTx \ TxSet(pindexNew)
        BY <1>t, <2>1, AppendTyped
    <2>3. JobInv'
        BY <2>1, <2>2 DEF JobInv, NoConfirmedInPool
    <2>4. Grows /\ TrustInv'
        BY <1>t, <1>c, <2>1, <2>2 DEF TrustInv
    <2> QED BY <2>3, <2>4
<1>a. ASSUME Abort, pc \in {"setbest", "reorganize"} PROVE Goal
    BY <1>a DEF Abort, JobInv, TrustInv, NoConfirmedInPool, memVars, poolVars
<1>6. ASSUME ExtendFails PROVE Goal
    BY <1>6, <1>a DEF ExtendFails
<1>7. ASSUME NEW p \in Block, StartReorganize(p) PROVE Goal
    BY <1>7 DEF StartReorganize, IsIntermediate, JobInv, TrustInv, NoConfirmedInPool, memVars, poolVars
<1>8. ASSUME ReorganizeDisconnect PROVE Goal
    <2>1. tip \in Block \ {Genesis} /\ view \in Database
        BY <1>8, <1>t, ChainsNest DEF ReorganizeDisconnect, TypeOK
    <2>2. view'.best = view.best /\ view'.txs \subseteq view.txs
        BY <1>8, <2>1, DisconnectShape DEF ReorganizeDisconnect
    <2> QED BY <1>8, <2>2 DEF ReorganizeDisconnect, JobInv, TrustInv, NoConfirmedInPool, memVars, poolVars
<1>9. ASSUME NEW b \in Block, ReorganizeConnect(b) PROVE Goal
    <2>1. view'.best = view.best /\ view'.txs = view.txs \cup TxSet(b)
        BY <1>9, <1>t, <1>c, ConnectShape DEF ReorganizeConnect, TypeOK
    <2> QED BY <1>9, <2>1 DEF ReorganizeConnect, JobInv, TrustInv, NoConfirmedInPool, memVars, poolVars
<1>10. ASSUME ReorganizeFails PROVE Goal
    BY <1>10, <1>a DEF ReorganizeFails
<1>11. ASSUME ReorganizeCommit PROVE Goal
    <2>1. /\ pc = "reorganize" /\ tip = pivot /\ pc' = "resurrect"
          /\ disk' = view' /\ disk'.best = pivot /\ disk'.txs = view.txs
          /\ UNCHANGED <<pindexBest, poolVars, jobVars>>
        BY <1>11, <1>t DEF ReorganizeCommit, TypeOK, Database
    <2>2. JobInv'
        BY <2>1 DEF JobInv, NoConfirmedInPool, poolVars, jobVars
    <2>3. Grows /\ TrustInv'
        BY <1>t, <1>c, <2>1 DEF TrustInv, jobVars
    <2> QED BY <2>2, <2>3
<1>12. ASSUME ReorganizeResurrect PROVE Goal
    BY <1>12 DEF ReorganizeResurrect, Acceptable, AddToPool, JobInv, TrustInv, NoConfirmedInPool, memVars, poolVars
<1>13. ASSUME ReorganizeDelete PROVE Goal
    <2>1. /\ pc = "resurrect" /\ pc' = "postponed" /\ UNCHANGED <<disk, view, tip, pindexNew, pindexBest>>
          /\ mapTx' \subseteq mapTx \ vDelete
        BY <1>13, <1>q, RemoveKeepsIndex DEF ReorganizeDelete, memVars
    <2>2. JobInv'
        BY <2>1 DEF JobInv, NoConfirmedInPool
    <2>3. Grows /\ TrustInv'
        BY <2>1 DEF TrustInv
    <2> QED BY <2>2, <2>3
<1>14. ASSUME NEW b \in Block, ConnectPostponed(b) PROVE Goal
    <2>1. /\ pc = "postponed" /\ pc' = pc /\ b \in Ancestors[pindexNew] \ {Genesis} /\ Parent[b] = tip
          /\ tip' = b /\ AppendToBestChain(b) /\ UNCHANGED <<pindexBest, pindexNew>>
        BY <1>14 DEF ConnectPostponed
    <2>2. disk' = view' /\ disk'.best = b /\ disk'.txs = view.txs \cup TxSet(b) /\ mapTx' = mapTx \ TxSet(b)
        BY <1>t, <2>1, AppendTyped
    <2>3. JobInv'
        BY <2>1, <2>2 DEF JobInv, NoConfirmedInPool
    <2>4. Grows /\ TrustInv'
        BY <1>t, <1>c, <2>1, <2>2 DEF TrustInv
    <2> QED BY <2>3, <2>4
<1>15. ASSUME PostponedFails PROVE Goal
    BY <1>15, <1>t, <1>n DEF PostponedFails, NewBestBlock, JobInv, TrustInv, NoConfirmedInPool, poolVars, jobVars
<1>16. ASSUME FinishSetBestChain PROVE Goal
    BY <1>16, <1>t, <1>c DEF FinishSetBestChain, NewBestBlock, JobInv, TrustInv, NoConfirmedInPool, poolVars, jobVars
<1>17. ASSUME Restart PROVE Goal
    BY <1>17, <1>t, <1>c DEF Restart, JobInv, TrustInv, NoConfirmedInPool
<1>18. ASSUME UNCHANGED vars PROVE Goal
    BY <1>18 DEF vars, JobInv, TrustInv, NoConfirmedInPool, memVars, poolVars, jobVars
<1> QED
    BY <1>1, <1>2, <1>3, <1>4, <1>5, <1>6, <1>7, <1>8, <1>9, <1>10, <1>11, <1>12, <1>13, <1>14, <1>15,
       <1>16, <1>17, <1>18 DEF Next, JobStep

LEMMA InitJob == Init => JobInv /\ TrustInv
<1>1. ChainTrust[Genesis] \in Nat
    BY BlockTreeAssumption DEF BlockTreeAssumption
<1> QED BY <1>1 DEF Init, EmptyChain, JobInv, TrustInv, NoConfirmedInPool

\* No transaction is both confirmed on disk and in the pool.
THEOREM ConfirmedLeavesPool == Spec => []NoConfirmedInPool
<1>1. Init => Typed /\ JobInv /\ TrustInv
    BY InitTyped, InitJob
<1>2. (Typed /\ JobInv /\ TrustInv) /\ [Next]_vars => (Typed /\ JobInv /\ TrustInv)'
    BY StepTyped, StepJob
<1>3. JobInv => NoConfirmedInPool
    BY DEF JobInv
<1> QED BY <1>1, <1>2, <1>3, PTL DEF Spec

\* No commit replaces the best chain on disk by a lighter one.
THEOREM BestChainOnDiskGrows == Spec => DiskTrustGrows
<1>1. Init => Typed /\ JobInv /\ TrustInv
    BY InitTyped, InitJob
<1>2. (Typed /\ JobInv /\ TrustInv) /\ [Next]_vars => (Typed /\ JobInv /\ TrustInv)'
    BY StepTyped, StepJob
<1>3. (Typed /\ JobInv /\ TrustInv) /\ [Next]_vars
        => [disk'.best # disk.best => ChainTrust[disk'.best] > ChainTrust[disk.best]]_disk
    BY StepTyped, StepJob
<1> QED BY <1>1, <1>2, <1>3, PTL DEF Spec, DiskTrustGrows

-----------------------------------------------------------------------------
(* The ledger: the transaction index is the replay of a chain on which no   *)
(* transaction appears twice and every input comes from the chain below.    *)

ChainTxs(b) == UNION { TxSet(a) : a \in Ancestors[b] }

WellFormedChain(b) ==
    /\ \A a, c \in Ancestors[b] : a # c => TxSet(a) \cap TxSet(c) = {}
    /\ \A a \in Ancestors[b] : \A t \in TxSet(a) : \A o \in Ins[t] : Producer[o] \in ChainTxs(a)

Replayed(v, b) == IsLedgerOf(v, b) /\ WellFormedChain(b)

\* A block whose inputs connect holds no transaction the chain below it holds.
\* The first one in the block that did would spend what it has already spent.
LEMMA ConnectedTxsAreFresh ==
    ASSUME NEW v \in Database, NEW b \in Block \ {Genesis},
           Replayed(v, Parent[b]), InputsConnect(v, b)
    PROVE  TxSet(b) \cap v.txs = {}
<1> DEFINE D == { i \in DOMAIN BlockTxs[b] : BlockTxs[b][i] \in v.txs }
<1>1. BlockTxs[b] \in Seq(Tx)
    BY TxAssumption DEF TxAssumption
<1>2. D \subseteq Nat
    BY <1>1
<1>3. SUFFICES ASSUME D # {} PROVE FALSE
    BY DEF TxSet
<1>4. PICK i \in D : \A k \in D : i <= k
    BY <1>2, <1>3, LeastNat
<1> DEFINE t == BlockTxs[b][i]
<1>5. t \in Tx /\ t \in TxSet(b) /\ t \in v.txs /\ i \in DOMAIN BlockTxs[b]
    BY <1>1, <1>4 DEF TxSet
<1>6. PICK a \in Ancestors[Parent[b]] : t \in TxSet(a)
    BY <1>5 DEF Replayed, IsLedgerOf
<1>7. a \in Block /\ a # b /\ a \in Ancestors[b]
    BY <1>6, BlockTreeAssumption DEF BlockTreeAssumption
<1>8. PICK o \in Ins[t] : TRUE
    BY <1>5, <1>6, <1>7, TxAssumption DEF TxAssumption
<1>9. o \in Outpoint /\ None \notin Tx
    BY <1>5, <1>8, TxAssumption, MiscAssumption DEF TxAssumption, MiscAssumption
<1>10. v.spent[o] = t /\ v.spent[o] # None /\ Producer[o] \in v.txs
    BY <1>5, <1>8, <1>9 DEF Replayed, IsLedgerOf
<1>11. PICK j \in 1..(i - 1) : BlockTxs[b][j] = Producer[o]
    BY <1>5, <1>8, <1>10 DEF InputsConnect
<1>12. j \in D /\ j \in Nat /\ i \in Nat /\ j < i
    BY <1>1, <1>2, <1>5, <1>10, <1>11
<1> HIDE DEF D
<1> QED BY <1>4, <1>12

\* Connecting a block whose inputs connect.
LEMMA ConnectReplays ==
    ASSUME NEW v \in Database, NEW b \in Block \ {Genesis}, pnext \in [Block -> Block \cup {None}],
           Replayed(v, Parent[b]), InputsConnect(v, b)
    PROVE  Replayed(ConnectBlock(v, b), b)
<1> DEFINE w == ConnectBlock(v, b)
           sp == [o \in Outpoint |-> IF \E t \in TxSet(b) : o \in Ins[t]
                      THEN CHOOSE t \in TxSet(b) : o \in Ins[t]
                      ELSE IF Producer[o] \in TxSet(b) THEN None ELSE v.spent[o]]
<1>t. /\ TxSet(b) \subseteq Tx /\ v.txs \subseteq Tx /\ None \notin Tx
      /\ BlockTxs[b] \in Seq(Tx)
      /\ \A t \in Tx : Ins[t] \subseteq Outpoint
      /\ Parent[b] \in Block /\ Ancestors[b] = Ancestors[Parent[b]] \cup {b} /\ b \notin Ancestors[Parent[b]]
    BY TxSetType, TxAssumption, MiscAssumption, BlockTreeAssumption
       DEF TxAssumption, MiscAssumption, BlockTreeAssumption, Database
<1>w. w.txs = v.txs \cup TxSet(b) /\ w.spent = sp
    <2>1. w.txs = v.txs \cup TxSet(b)
        BY <1>t, ConnectShape
    <2>2. w.spent = sp
        BY DEF ConnectBlock, Database
    <2> QED BY <2>1, <2>2
<1>v. /\ v.txs = ChainTxs(Parent[b])
      /\ \A o \in Outpoint : \A t \in Tx : v.spent[o] = t <=> t \in v.txs /\ o \in Ins[t]
      /\ \A o \in Outpoint : v.spent[o] # None => Producer[o] \in v.txs
    BY DEF Replayed, IsLedgerOf, ChainTxs
<1>f. TxSet(b) \cap v.txs = {}
    BY ConnectedTxsAreFresh
<1> HIDE DEF w, sp
\* what the inputs of the block's transactions look like
<1>1. ASSUME NEW t \in TxSet(b), NEW o \in Ins[t]
      PROVE  /\ Producer[o] \in v.txs \cup TxSet(b)
             /\ \A u \in v.txs : o \notin Ins[u]
    <2>1. PICK i \in DOMAIN BlockTxs[b] : BlockTxs[b][i] = t
        BY DEF TxSet
    <2>2. \/ \E j \in 1..(i - 1) : BlockTxs[b][j] = Producer[o]
          \/ Producer[o] \in v.txs /\ v.spent[o] = None
        BY <2>1 DEF InputsConnect
    <2>3. \A j \in 1..(i - 1) : BlockTxs[b][j] \in TxSet(b)
        BY <1>t, <2>1 DEF TxSet
    <2>4. o \in Outpoint
        BY <1>t
    <2>5. CASE \E j \in 1..(i - 1) : BlockTxs[b][j] = Producer[o]
        BY <1>t, <1>v, <1>f, <2>3, <2>4, <2>5
    <2>6. CASE Producer[o] \in v.txs /\ v.spent[o] = None
        BY <1>t, <1>v, <2>4, <2>6
    <2> QED BY <2>2, <2>5, <2>6
<1>2. ASSUME NEW t \in TxSet(b), NEW u \in TxSet(b), NEW o \in Ins[t], o \in Ins[u] PROVE t = u
    <2>1. PICK i \in DOMAIN BlockTxs[b] : BlockTxs[b][i] = t
        BY DEF TxSet
    <2>2. PICK k \in DOMAIN BlockTxs[b] : BlockTxs[b][k] = u
        BY DEF TxSet
    <2>3. i \in Nat /\ k \in Nat /\ i >= 1 /\ k >= 1
        BY <1>t
    <2>4. CASE i < k
        <3>1. i \in 1..(k - 1)
            BY <2>3, <2>4
        <3> QED BY <1>2, <2>1, <2>2, <3>1 DEF InputsConnect
    <2>5. CASE k < i
        <3>1. k \in 1..(i - 1)
            BY <2>3, <2>5
        <3> QED BY <1>2, <2>1, <2>2, <3>1 DEF InputsConnect
    <2> QED BY <2>1, <2>2, <2>3, <2>4, <2>5
<1>3. w.txs = ChainTxs(b)
    BY <1>t, <1>v, <1>w DEF ChainTxs
<1>4. ASSUME NEW o \in Outpoint
      PROVE  /\ \A t \in Tx : w.spent[o] = t <=> t \in w.txs /\ o \in Ins[t]
             /\ w.spent[o] # None => Producer[o] \in w.txs
    <2>1. CASE \E t \in TxSet(b) : o \in Ins[t]
        <3>1. PICK t \in TxSet(b) : o \in Ins[t] /\ w.spent[o] = t
            BY <1>w, <2>1 DEF sp
        <3>2. \A u \in w.txs : o \in Ins[u] => u = t
            BY <1>1, <1>2, <1>w, <3>1
        <3> QED BY <1>1, <1>t, <1>w, <3>1, <3>2
    <2>2. CASE ~ \E t \in TxSet(b) : o \in Ins[t]
        <3>1. CASE Producer[o] \in TxSet(b)
            <4>1. w.spent[o] = None
                BY <1>w, <2>2, <3>1 DEF sp
            <4>2. v.spent[o] = None
                BY <1>v, <1>f, <3>1
            <4>3. \A u \in v.txs : o \notin Ins[u]
                BY <1>t, <1>v, <4>2
            <4> QED BY <1>t, <1>w, <2>2, <4>1, <4>3
        <3>2. CASE Producer[o] \notin TxSet(b)
            <4>1. w.spent[o] = v.spent[o]
                BY <1>w, <2>2, <3>2 DEF sp
            <4> QED BY <1>v, <1>w, <2>2, <4>1
        <3> QED BY <3>1, <3>2
    <2> QED BY <2>1, <2>2
<1>5. IsLedgerOf(w, b)
    BY <1>3, <1>4 DEF IsLedgerOf, ChainTxs
<1>6. WellFormedChain(b)
    <2>1. ASSUME NEW a \in Ancestors[b], NEW c \in Ancestors[b], a # c PROVE TxSet(a) \cap TxSet(c) = {}
        <3>1. \A e \in Ancestors[Parent[b]] : TxSet(e) \subseteq v.txs
            BY <1>v DEF ChainTxs
        <3>2. CASE a \in Ancestors[Parent[b]] /\ c \in Ancestors[Parent[b]]
            BY <2>1, <3>2 DEF Replayed, WellFormedChain
        <3>3. CASE a = b \/ c = b
            BY <1>t, <1>f, <2>1, <3>1, <3>3
        <3> QED BY <1>t, <3>2, <3>3
    <2>2. ASSUME NEW a \in Ancestors[b], NEW t \in TxSet(a), NEW o \in Ins[t] PROVE Producer[o] \in ChainTxs(a)
        <3>1. CASE a = b
            BY <1>1, <1>3, <1>w, <3>1
        <3>2. CASE a \in Ancestors[Parent[b]]
            BY <3>2 DEF Replayed, WellFormedChain
        <3> QED BY <1>t, <3>1, <3>2
    <2> QED BY <2>1, <2>2 DEF WellFormedChain
<1> QED BY <1>5, <1>6 DEF Replayed, w

\* Disconnecting the tip of a chain: its inputs are there, and what is left is
\* the chain of its parent.
LEMMA DisconnectReplays ==
    ASSUME NEW v \in Database, NEW b \in Block \ {Genesis}, Replayed(v, b)
    PROVE  CanDisconnect(v, b) /\ Replayed(DisconnectBlock(v, b), Parent[b])
<1> DEFINE w == DisconnectBlock(v, b)
<1>t. /\ TxSet(b) \subseteq Tx /\ v.txs \subseteq Tx /\ None \notin Tx
      /\ \A t \in Tx : Ins[t] \subseteq Outpoint
      /\ Parent[b] \in Block /\ Ancestors[b] = Ancestors[Parent[b]] \cup {b} /\ b \notin Ancestors[Parent[b]]
    BY TxSetType, TxAssumption, MiscAssumption, BlockTreeAssumption
       DEF TxAssumption, MiscAssumption, BlockTreeAssumption, Database
<1>w. /\ w.txs = v.txs \ TxSet(b)
      /\ w.spent = [o \in Outpoint |-> IF Producer[o] \in TxSet(b) \/ \E t \in TxSet(b) : o \in Ins[t]
                                         THEN None ELSE v.spent[o]]
    BY DisconnectShape DEF DisconnectBlock, Database
<1>v. /\ v.txs = ChainTxs(b)
      /\ \A o \in Outpoint : \A t \in Tx : v.spent[o] = t <=> t \in v.txs /\ o \in Ins[t]
      /\ \A o \in Outpoint : v.spent[o] # None => Producer[o] \in v.txs
    BY DEF Replayed, IsLedgerOf, ChainTxs
<1>c. WellFormedChain(b)
    BY DEF Replayed
<1> HIDE DEF w
<1>1. CanDisconnect(v, b)
    BY <1>t, <1>v, <1>c DEF CanDisconnect, WellFormedChain, ChainTxs
<1>2. w.txs = ChainTxs(Parent[b]) /\ ChainTxs(Parent[b]) \cap TxSet(b) = {}
    BY <1>t, <1>v, <1>w, <1>c DEF ChainTxs, WellFormedChain
\* no transaction below spends an output of the block disconnected
<1>3. ASSUME NEW t \in ChainTxs(Parent[b]), NEW o \in Ins[t] PROVE Producer[o] \in ChainTxs(Parent[b])
    <2>1. PICK a \in Ancestors[Parent[b]] : t \in TxSet(a)
        BY DEF ChainTxs
    <2>2. Producer[o] \in ChainTxs(a)
        BY <1>t, <1>c, <2>1 DEF WellFormedChain
    <2>3. Ancestors[a] \subseteq Ancestors[Parent[b]]
        BY <1>t, <2>1, ChainsNest
    <2> QED BY <2>2, <2>3 DEF ChainTxs
<1>4. ASSUME NEW o \in Outpoint
      PROVE  /\ \A t \in Tx : w.spent[o] = t <=> t \in w.txs /\ o \in Ins[t]
             /\ w.spent[o] # None => Producer[o] \in w.txs
    <2>1. CASE Producer[o] \in TxSet(b)
        BY <1>t, <1>w, <1>2, <1>3, <2>1
    <2>2. CASE \E t \in TxSet(b) : o \in Ins[t]
        <3>1. PICK t \in TxSet(b) : o \in Ins[t]
            BY <2>2
        <3>2. v.spent[o] = t /\ t \in Tx
            BY <1>t, <1>v, <3>1 DEF ChainTxs
        <3> QED BY <1>t, <1>v, <1>w, <2>2, <3>1, <3>2
    <2>3. CASE Producer[o] \notin TxSet(b) /\ ~ \E t \in TxSet(b) : o \in Ins[t]
        BY <1>t, <1>v, <1>w, <2>3
    <2> QED BY <2>1, <2>2, <2>3
<1>5. IsLedgerOf(w, Parent[b])
    BY <1>2, <1>4 DEF IsLedgerOf, ChainTxs
<1>6. WellFormedChain(Parent[b])
    BY <1>t, <1>c DEF WellFormedChain
<1> QED BY <1>1, <1>5, <1>6 DEF Replayed, w

-----------------------------------------------------------------------------
(* The ledger invariant: disk and batch are replays of the chains they     *)
(* stand for, until a job goes on from a block that is not connected; the  *)
(* tip in memory is the one on disk unless a postponed reconnect failed.   *)

LedgerInv ==
    /\ pc = "setbest" => pindexNew # Genesis
    /\ pc \in {"idle", "setbest", "reorganize"} /\ ~ postponedFailed => disk.best = pindexBest
    /\ ~ torn =>
         /\ Replayed(disk, disk.best)
         /\ pc = "reorganize" /\ disk.best = pindexBest => Replayed(view, tip)

LEMMA AppendReplays ==
    ASSUME Typed, view = disk, NEW b \in Block \ {Genesis}, Parent[b] = disk.best,
           Replayed(disk, disk.best), InputsConnect(view, b), AppendToBestChain(b)
    PROVE  Replayed(disk', b)
<1> DEFINE c == ConnectBlock(view, b)
<1>1. view \in Database /\ pnext \in [Block -> Block \cup {None}] /\ Parent[b] \in Block
    BY BlockTreeAssumption DEF Typed, TypeOK, BlockTreeAssumption
<1>2. Replayed(c, b) /\ c \in Database
    BY <1>1, ConnectReplays, ConnectShape
<1>3. disk' = [c EXCEPT !.best = b]
    BY DEF AppendToBestChain
<1> HIDE DEF c
<1>4. disk'.txs = c.txs /\ disk'.spent = c.spent
    BY <1>2, <1>3 DEF Database
<1> QED BY <1>2, <1>4 DEF Replayed, IsLedgerOf

LEMMA InitLedger == Init => LedgerInv
<1>1. TxSet(Genesis) = {} /\ Ancestors[Genesis] = {Genesis} /\ None \notin Tx
    BY TxAssumption, BlockTreeAssumption, MiscAssumption
       DEF TxAssumption, BlockTreeAssumption, MiscAssumption, TxSet
<1>2. Replayed(EmptyChain, Genesis)
    BY <1>1 DEF EmptyChain, Replayed, IsLedgerOf, WellFormedChain
<1> QED BY <1>2 DEF Init, LedgerInv, EmptyChain

LEMMA StepLedger ==
    ASSUME Typed, JobInv, TrustInv, LedgerInv, [Next]_vars
    PROVE  LedgerInv'
<1>t. /\ TypeOK /\ disk \in Database /\ view \in Database
      /\ pindexBest \in Block /\ pindexNew \in Block /\ pivot \in Block /\ tip \in Block
      /\ disk.best \in Block
      /\ \A b \in Block \ {Genesis} : Parent[b] \in Block
      /\ pnext \in [Block -> Block \cup {None}]
    BY BlockTreeAssumption DEF Typed, TypeOK, Database, BlockTreeAssumption
<1>1. ASSUME NEW t \in Tx, AcceptToMemoryPool(t) PROVE LedgerInv'
    BY <1>1 DEF AcceptToMemoryPool, LedgerInv, memVars, jobVars, histVars
<1>2. ASSUME NEW o \in Outpoint, NEW t \in Tx, LockInput(o, t) PROVE LedgerInv'
    BY <1>2 DEF LockInput, LedgerInv, memVars, jobVars, histVars
<1>3. ASSUME NEW o \in Outpoint, UnlockInput(o) PROVE LedgerInv'
    BY <1>3 DEF UnlockInput, LedgerInv, memVars, jobVars, histVars
<1>4. ASSUME NEW b \in Block \ {Genesis}, AddToBlockIndex(b) PROVE LedgerInv'
    <2>1. disk'.best = disk.best /\ disk'.txs = disk.txs /\ disk'.spent = disk.spent
        BY <1>4, <1>t DEF AddToBlockIndex, Database
    <2>2. Replayed(disk, disk.best) => Replayed(disk', disk'.best)
        BY <2>1 DEF Replayed, IsLedgerOf
    <2> QED BY <1>4, <2>1, <2>2 DEF AddToBlockIndex, LedgerInv, histVars
<1>5. ASSUME ExtendBestChain PROVE LedgerInv'
    <2>1. /\ pc = "setbest" /\ Parent[pindexNew] = pindexBest /\ InputsConnect(view, pindexNew)
          /\ AppendToBestChain(pindexNew) /\ pindexBest' = pindexNew /\ pc' = "idle"
          /\ torn' = (torn \/ pindexBest # disk.best) /\ view = disk /\ pindexNew # Genesis
        BY <1>5 DEF ExtendBestChain, CanConnect, JobInv, LedgerInv
    <2>2. disk'.best = pindexNew
        BY <1>t, <2>1, AppendTyped
    <2>3. ~ torn' => Replayed(disk', pindexNew)
        BY <1>t, <2>1, AppendReplays DEF LedgerInv
    <2> QED BY <2>1, <2>2, <2>3 DEF LedgerInv
<1>a. ASSUME Abort, pc \in {"setbest", "reorganize"} PROVE LedgerInv'
    BY <1>a DEF Abort, LedgerInv, memVars, histVars
<1>6. ASSUME ExtendFails PROVE LedgerInv'
    BY <1>6, <1>a DEF ExtendFails
<1>7. ASSUME NEW p \in Block, StartReorganize(p) PROVE LedgerInv'
    BY <1>7 DEF StartReorganize, LedgerInv, JobInv, memVars, histVars
<1>8. ASSUME ReorganizeDisconnect PROVE LedgerInv'
    <2>1. tip \in Block \ {Genesis}
        BY <1>8, <1>t, ChainsNest DEF ReorganizeDisconnect
    <2>2. ~ torn /\ disk.best = pindexBest => Replayed(view', tip')
        BY <1>8, <1>t, <2>1, DisconnectReplays DEF ReorganizeDisconnect, LedgerInv
    <2> QED BY <1>8, <2>2 DEF ReorganizeDisconnect, LedgerInv, memVars, histVars
<1>9. ASSUME NEW b \in Block, ReorganizeConnect(b) PROVE LedgerInv'
    <2>1. ~ torn /\ disk.best = pindexBest => Replayed(view', tip')
        BY <1>9, <1>t, ConnectReplays DEF ReorganizeConnect, CanConnect, LedgerInv
    <2> QED BY <1>9, <2>1 DEF ReorganizeConnect, LedgerInv, memVars, histVars
<1>10. ASSUME ReorganizeFails PROVE LedgerInv'
    BY <1>10, <1>a DEF ReorganizeFails
<1>11. ASSUME ReorganizeCommit PROVE LedgerInv'
    <2>1. /\ pc = "reorganize" /\ tip = pivot /\ pc' = "resurrect" /\ torn' = (torn \/ pindexBest # disk.best)
          /\ disk'.best = tip /\ disk'.txs = view.txs /\ disk'.spent = view.spent
        BY <1>11, <1>t DEF ReorganizeCommit, Database
    <2>2. Replayed(view, tip) => Replayed(disk', disk'.best)
        BY <2>1 DEF Replayed, IsLedgerOf
    <2> QED BY <2>1, <2>2 DEF LedgerInv
<1>12. ASSUME ReorganizeResurrect PROVE LedgerInv'
    BY <1>12 DEF ReorganizeResurrect, LedgerInv, memVars, histVars
<1>13. ASSUME ReorganizeDelete PROVE LedgerInv'
    BY <1>13 DEF ReorganizeDelete, LedgerInv, memVars, histVars
<1>14. ASSUME NEW b \in Block, ConnectPostponed(b) PROVE LedgerInv'
    <2>1. /\ pc = "postponed" /\ pc' = pc /\ b # Genesis /\ Parent[b] = tip /\ disk.best = tip /\ view = disk
          /\ InputsConnect(view, b) /\ AppendToBestChain(b) /\ UNCHANGED <<postponedFailed, torn>>
        BY <1>14 DEF ConnectPostponed, CanConnect, histVars, JobInv, TrustInv
    <2>2. disk'.best = b
        BY <1>t, <2>1, AppendTyped
    <2>3. ~ torn => Replayed(disk', b)
        BY <1>t, <2>1, AppendReplays DEF LedgerInv
    <2> QED BY <2>1, <2>2, <2>3 DEF LedgerInv
<1>15. ASSUME PostponedFails PROVE LedgerInv'
    BY <1>15 DEF PostponedFails, NewBestBlock, LedgerInv
<1>16. ASSUME FinishSetBestChain PROVE LedgerInv'
    BY <1>16 DEF FinishSetBestChain, NewBestBlock, LedgerInv, TrustInv, histVars
<1>17. ASSUME Restart PROVE LedgerInv'
    BY <1>17 DEF Restart, LedgerInv
<1>18. ASSUME UNCHANGED vars PROVE LedgerInv'
    BY <1>18 DEF vars, LedgerInv, memVars, jobVars, histVars
<1> QED
    BY <1>1, <1>2, <1>3, <1>4, <1>5, <1>6, <1>7, <1>8, <1>9, <1>10, <1>11, <1>12, <1>13, <1>14, <1>15,
       <1>16, <1>17, <1>18 DEF Next, JobStep

IInv == Typed /\ JobInv /\ TrustInv /\ LedgerInv

LEMMA Inductive == Spec => []IInv
<1>1. Init => IInv
    BY InitTyped, InitJob, InitLedger DEF IInv
<1>2. IInv /\ [Next]_vars => IInv'
    BY StepTyped, StepJob, StepLedger DEF IInv
<1> QED BY <1>1, <1>2, PTL DEF Spec

\* The transaction index on disk is the replay of the best chain on disk, and
\* spends no output twice, until a job goes on from a block that is not connected.
THEOREM DiskIsReplay == Spec => []LedgerIsReplay
<1>1. IInv => LedgerIsReplay
    BY DEF IInv, LedgerInv, LedgerIsReplay, Replayed
<1> QED BY <1>1, Inductive, PTL

-----------------------------------------------------------------------------
(* Forward links.  A function has the links of b when it leads from every   *)
(* block of the chain of b but the last to the next, and nowhere else.      *)

LinksOf(f, b) ==
    \A x \in Block : \A c \in Block : f[x] = c <=> c \in Ancestors[b] \ {Genesis} /\ Parent[c] = x

Linkage == [Block -> Block \cup {None}]

\* Heights rise along a chain, so it has one block below each of its blocks,
\* and one above.
LEMMA HeightsRise ==
    ASSUME NEW b \in Block
    PROVE  \A a \in Ancestors[b] : Height[a] <= Height[b]
<1> DEFINE S == { c \in Block : \A a \in Ancestors[c] : Height[a] <= Height[c] }
<1>1. Genesis \in S
    BY BlockTreeAssumption DEF BlockTreeAssumption
<1>2. ASSUME NEW c \in Block \ {Genesis}, Parent[c] \in S PROVE c \in S
    <2>1. /\ Ancestors[c] = Ancestors[Parent[c]] \cup {c} /\ Ancestors[c] \subseteq Block
          /\ Parent[c] \in Block /\ Height[c] = Height[Parent[c]] + 1 /\ Height \in [Block -> Nat]
        BY BlockTreeAssumption DEF BlockTreeAssumption
    <2>2. ASSUME NEW a \in Ancestors[c] PROVE Height[a] <= Height[c]
        <3>1. Height[a] \in Nat /\ Height[c] \in Nat /\ Height[Parent[c]] \in Nat
            BY <2>1
        <3>2. a = c \/ Height[a] <= Height[Parent[c]]
            BY <1>2, <2>1
        <3> QED BY <2>1, <3>1, <3>2
    <2> QED BY <2>2
<1>3. Block \subseteq S
    <2> HIDE DEF S
    <2> QED BY <1>1, <1>2, TreeInduction
<1> QED BY <1>3

LEMMA OneChild ==
    ASSUME NEW b \in Block
    PROVE  \A a, c \in Ancestors[b] \ {Genesis} : Parent[a] = Parent[c] => a = c
<1> DEFINE P(x) == \A a, c \in Ancestors[x] \ {Genesis} : Parent[a] = Parent[c] => a = c
           S    == { x \in Block : P(x) }
<1>1. Genesis \in S
    BY BlockTreeAssumption DEF BlockTreeAssumption
<1>2. ASSUME NEW x \in Block \ {Genesis}, Parent[x] \in S PROVE x \in S
    <2>1. /\ Ancestors[x] = Ancestors[Parent[x]] \cup {x} /\ Ancestors[x] \subseteq Block
          /\ Parent[x] \in Block
        BY BlockTreeAssumption DEF BlockTreeAssumption
    <2>2. ASSUME NEW c \in Ancestors[Parent[x]] \ {Genesis}, Parent[c] = Parent[x] PROVE FALSE
        <3>1. Height[c] <= Height[Parent[x]]
            BY <2>1, HeightsRise
        <3>2. c \in Block \ {Genesis} /\ Parent[c] \in Block
            BY <2>1, BlockTreeAssumption DEF BlockTreeAssumption
        <3>3. Height[c] = Height[Parent[c]] + 1 /\ Height[c] \in Nat /\ Height[Parent[c]] \in Nat
            BY <3>2, BlockTreeAssumption DEF BlockTreeAssumption
        <3> QED BY <2>2, <3>1, <3>3
    <2>3. P(Parent[x])
        BY <1>2
    <2> QED BY <2>1, <2>2, <2>3
<1>3. Block \subseteq S
    <2> HIDE DEF S
    <2> QED BY <1>1, <1>2, TreeInduction
<1> QED BY <1>3

LEMMA ParentOnChain ==
    ASSUME NEW b \in Block, NEW c \in Ancestors[b] \ {Genesis}
    PROVE  Parent[c] \in Ancestors[b] /\ c \in Block
<1>1. c \in Block /\ Parent[c] \in Block /\ Ancestors[c] = Ancestors[Parent[c]] \cup {c}
    BY BlockTreeAssumption DEF BlockTreeAssumption
<1> QED BY <1>1, ChainsNest

LEMMA LinksUnique ==
    ASSUME NEW f \in Linkage, NEW g \in Linkage, NEW b \in Block, LinksOf(f, b), LinksOf(g, b)
    PROVE  f = g
<1>1. ASSUME NEW x \in Block PROVE f[x] = g[x]
    <2>1. f[x] \in Block \cup {None} /\ g[x] \in Block \cup {None}
        BY DEF Linkage
    <2>2. f[x] \in Block => g[x] = f[x]
        BY DEF LinksOf
    <2>3. g[x] \in Block => f[x] = g[x]
        BY DEF LinksOf
    <2> QED BY <2>1, <2>2, <2>3
<1> QED BY <1>1 DEF Linkage

\* Nothing leads on from the end of a chain, nor from a block that is not on it.
LEMMA NoLinkFrom ==
    ASSUME NEW f \in Linkage, NEW b \in Block, LinksOf(f, b), NEW x \in Block, x \notin Ancestors[b]
    PROVE  f[x] = None
<1>1. f[x] \in Block \cup {None}
    BY DEF Linkage
<1>2. f[x] \in Block => Parent[f[x]] = x /\ f[x] \in Ancestors[b] \ {Genesis}
    BY DEF LinksOf
<1> QED BY <1>1, <1>2, ParentOnChain

LEMMA LinkAppended ==
    ASSUME NEW f \in Linkage, NEW b \in Block \ {Genesis}, LinksOf(f, Parent[b])
    PROVE  LinksOf([f EXCEPT ![Parent[b]] = b], b)
<1> DEFINE g == [f EXCEPT ![Parent[b]] = b]
<1>1. /\ Parent[b] \in Block /\ Ancestors[b] = Ancestors[Parent[b]] \cup {b}
      /\ b \notin Ancestors[Parent[b]] /\ Ancestors[b] \subseteq Block
    BY BlockTreeAssumption DEF BlockTreeAssumption
<1>2. ASSUME NEW x \in Block, NEW c \in Block
      PROVE  g[x] = c <=> c \in Ancestors[b] \ {Genesis} /\ Parent[c] = x
    <2>1. CASE x = Parent[b]
        <3>1. g[x] = b
            BY <2>1, <1>1 DEF Linkage
        <3>2. c \in Ancestors[b] \ {Genesis} /\ Parent[c] = Parent[b] => c = b
            BY <1>1, OneChild
        <3> QED BY <1>1, <2>1, <3>1, <3>2
    <2>2. CASE x # Parent[b]
        <3>1. g[x] = f[x]
            BY <2>2 DEF Linkage
        <3>2. f[x] = c <=> c \in Ancestors[Parent[b]] \ {Genesis} /\ Parent[c] = x
            BY <1>1 DEF LinksOf
        <3> QED BY <1>1, <2>2, <3>1, <3>2
    <2> QED BY <2>1, <2>2
<1> QED BY <1>2 DEF LinksOf

LEMMA LinkRemoved ==
    ASSUME NEW f \in Linkage, NEW b \in Block \ {Genesis}, LinksOf(f, b)
    PROVE  LinksOf([f EXCEPT ![Parent[b]] = None], Parent[b])
<1> DEFINE g == [f EXCEPT ![Parent[b]] = None]
<1>1. /\ Parent[b] \in Block /\ Ancestors[b] = Ancestors[Parent[b]] \cup {b}
      /\ b \notin Ancestors[Parent[b]] /\ Ancestors[b] \subseteq Block /\ None \notin Block
    BY BlockTreeAssumption, MiscAssumption DEF BlockTreeAssumption, MiscAssumption
<1>2. ASSUME NEW x \in Block, NEW c \in Block
      PROVE  g[x] = c <=> c \in Ancestors[Parent[b]] \ {Genesis} /\ Parent[c] = x
    <2>1. CASE x = Parent[b]
        <3>1. g[x] = None
            BY <2>1, <1>1 DEF Linkage
        <3>2. c \in Ancestors[b] \ {Genesis} /\ Parent[c] = Parent[b] => c = b
            BY <1>1, OneChild
        <3> QED BY <1>1, <2>1, <3>1, <3>2
    <2>2. CASE x # Parent[b]
        <3>1. g[x] = f[x]
            BY <2>2 DEF Linkage
        <3>2. f[x] = c <=> c \in Ancestors[b] \ {Genesis} /\ Parent[c] = x
            BY <1>1 DEF LinksOf
        <3> QED BY <1>1, <2>2, <3>1, <3>2
    <2> QED BY <2>1, <2>2
<1> QED BY <1>2 DEF LinksOf

\* The links a reorganisation sets in memory, written from the set of blocks it
\* leaves and the set of blocks it connects.
LEMMA LinksSwitched ==
    ASSUME NEW f \in Linkage, NEW b \in Block, NEW p \in Block, LinksOf(f, b), NEW g,
           g = [x \in Block |->
                  IF { c \in Ancestors[p] \ Ancestors[b] : Parent[c] = x } # {}
                    THEN CHOOSE c \in Ancestors[p] \ Ancestors[b] : Parent[c] = x
                    ELSE IF { c \in Ancestors[b] \ Ancestors[p] : Parent[c] = x } # {}
                           THEN None ELSE f[x]]
    PROVE  LinksOf(g, p)
<1>1. /\ Ancestors[p] \subseteq Block /\ Ancestors[b] \subseteq Block /\ None \notin Block
      /\ Genesis \in Ancestors[p] \cap Ancestors[b]
    BY ChainsNest, BlockTreeAssumption, MiscAssumption DEF BlockTreeAssumption, MiscAssumption
<1>2. ASSUME NEW x \in Block, NEW c \in Block
      PROVE  g[x] = c <=> c \in Ancestors[p] \ {Genesis} /\ Parent[c] = x
    <2>1. CASE { d \in Ancestors[p] \ Ancestors[b] : Parent[d] = x } # {}
        <3>1. g[x] = CHOOSE d \in Ancestors[p] \ Ancestors[b] : Parent[d] = x
            BY <2>1
        <3>2. g[x] \in Ancestors[p] \ Ancestors[b] /\ Parent[g[x]] = x
            BY <2>1, <3>1
        <3>3. c \in Ancestors[p] \ {Genesis} /\ Parent[c] = x => c = g[x]
            BY <1>1, <3>2, OneChild
        <3> QED BY <1>1, <3>2, <3>3
    <2>2. CASE /\ { d \in Ancestors[p] \ Ancestors[b] : Parent[d] = x } = {}
               /\ { d \in Ancestors[b] \ Ancestors[p] : Parent[d] = x } # {}
        <3>1. g[x] = None
            BY <2>2
        <3>2. PICK d \in Ancestors[b] \ Ancestors[p] : Parent[d] = x
            BY <2>2
        <3>3. c \in Ancestors[p] \ {Genesis} /\ Parent[c] = x => c \in Ancestors[b] \ {Genesis}
            BY <2>2
        <3>4. c \in Ancestors[p] \ {Genesis} /\ Parent[c] = x => c = d
            BY <1>1, <3>2, <3>3, OneChild
        <3> QED BY <1>1, <3>1, <3>2, <3>4
    <2>3. CASE /\ { d \in Ancestors[p] \ Ancestors[b] : Parent[d] = x } = {}
               /\ { d \in Ancestors[b] \ Ancestors[p] : Parent[d] = x } = {}
        <3>1. g[x] = f[x]
            BY <2>3
        <3>2. Parent[c] = x => (c \in Ancestors[p] <=> c \in Ancestors[b])
            BY <2>3
        <3> QED BY <3>1, <3>2 DEF LinksOf
    <2> QED BY <2>1, <2>2, <2>3
<1> QED BY <1>2 DEF LinksOf

\* The forward links ConnectBlock and DisconnectBlock write.
LEMMA LinksOfSteps ==
    ASSUME NEW v \in Database, NEW b \in Block \ {Genesis}, pnext \in Linkage
    PROVE  /\ ConnectBlock(v, b).next = [[v.next EXCEPT ![b] = pnext[b]] EXCEPT ![Parent[b]] = b]
           /\ DisconnectBlock(v, b).next = [v.next EXCEPT ![Parent[b]] = None]
           /\ v.next \in Linkage
<1>1. /\ v.next \in [Block -> Block \cup {None}]
      /\ DOMAIN v = {"index", "next", "best", "txs", "spent"}
    BY DEF Database
<1>2. ConnectBlock(v, b).next = [[v.next EXCEPT ![b] = pnext[b]] EXCEPT ![Parent[b]] = b]
    BY <1>1 DEF ConnectBlock
<1>3. DisconnectBlock(v, b).next = [v.next EXCEPT ![Parent[b]] = None]
    BY <1>1 DEF DisconnectBlock
<1> QED BY <1>1, <1>2, <1>3 DEF Linkage

\* ConnectBlock extends the links on disk, when nothing leads on from b in memory.
LEMMA ConnectLinks ==
    ASSUME NEW v \in Database, NEW b \in Block \ {Genesis}, pnext \in Linkage, pnext[b] = None,
           LinksOf(v.next, Parent[b])
    PROVE  /\ ConnectBlock(v, b).next = [v.next EXCEPT ![Parent[b]] = b]
           /\ LinksOf(ConnectBlock(v, b).next, b)
<1>1. /\ Parent[b] \in Block /\ b \notin Ancestors[Parent[b]]
    BY BlockTreeAssumption DEF BlockTreeAssumption
<1>0. /\ v \in Database /\ b \in Block \ {Genesis} /\ pnext \in Linkage
    OBVIOUS
<1>s. /\ ConnectBlock(v, b).next = [[v.next EXCEPT ![b] = pnext[b]] EXCEPT ![Parent[b]] = b]
      /\ v.next \in Linkage
    BY ONLY <1>0, LinksOfSteps, Zenon
<1>2. v.next \in Linkage /\ v.next[b] = None
    BY <1>1, <1>s, NoLinkFrom
<1>3. [v.next EXCEPT ![b] = pnext[b]] = v.next
    BY <1>2 DEF Linkage
<1>4. ConnectBlock(v, b).next = [v.next EXCEPT ![Parent[b]] = b]
    BY <1>3, <1>s, Zenon
<1>5. LinksOf([v.next EXCEPT ![Parent[b]] = b], b)
    BY <1>2, LinkAppended
<1> QED BY <1>4, <1>5, Zenon

-----------------------------------------------------------------------------
(* Memory and disk: the same index, closed under hashPrevBlock, and the     *)
(* same links, those of the best chain on disk; the batch has the links of  *)
(* the tip, which is never below the fork.                                  *)

MemInv ==
    /\ mapBlockIndex = disk.index /\ view.index = disk.index
    /\ \A b \in mapBlockIndex : Ancestors[b] \subseteq mapBlockIndex
    /\ {pindexBest, pindexNew, disk.best} \subseteq mapBlockIndex
    /\ ~ torn =>
         /\ pnext = disk.next /\ LinksOf(pnext, disk.best)
         /\ pc = "reorganize" /\ disk.best = pindexBest =>
              LinksOf(view.next, tip) /\ Ancestors[pivot] \cap Ancestors[pindexBest] \subseteq Ancestors[tip]

\* Appending a block to the best chain, in memory and on disk.
LEMMA AppendLinks ==
    ASSUME Typed, view = disk, NEW b \in Block \ {Genesis}, Parent[b] = disk.best,
           pnext = disk.next, LinksOf(pnext, disk.best), AppendToBestChain(b)
    PROVE  pnext' = disk'.next /\ LinksOf(pnext', b)
<1>1. view \in Database /\ pnext \in Linkage /\ Parent[b] \in Block /\ b \notin Ancestors[Parent[b]]
    BY BlockTreeAssumption DEF Typed, TypeOK, Linkage, BlockTreeAssumption
<1>2. pnext[b] = None
    BY <1>1, NoLinkFrom
<1> DEFINE c == ConnectBlock(view, b)
<1>3. c \in Database /\ c.next = [pnext EXCEPT ![Parent[b]] = b] /\ LinksOf(c.next, b)
    BY <1>1, <1>2, ConnectLinks, ConnectShape DEF Linkage
<1>4. disk' = [c EXCEPT !.best = b] /\ pnext' = [pnext EXCEPT ![Parent[b]] = b]
    BY DEF AppendToBestChain
<1> HIDE DEF c
<1>5. disk'.next = c.next
    BY <1>3, <1>4 DEF Database
<1>6. Parent[b] = disk.best /\ b \in Block \ {Genesis}
    OBVIOUS
<1> QED BY <1>3, <1>4, <1>5

LEMMA InitMem == Init => MemInv
<1>1. /\ Genesis \in Block /\ Ancestors[Genesis] = {Genesis} /\ None \notin Block
    BY BlockTreeAssumption, MiscAssumption DEF BlockTreeAssumption, MiscAssumption
<1>2. LinksOf([b \in Block |-> None], Genesis)
    BY <1>1 DEF LinksOf
<1> QED BY <1>1, <1>2 DEF Init, MemInv, EmptyChain

LEMMA StepMem ==
    ASSUME Typed, JobInv, TrustInv, LedgerInv, MemInv, [Next]_vars
    PROVE  MemInv'
<1>t. /\ TypeOK /\ disk \in Database /\ view \in Database
      /\ pindexBest \in Block /\ pindexNew \in Block /\ pivot \in Block /\ tip \in Block
      /\ disk.best \in Block /\ mapBlockIndex \subseteq Block
      /\ pnext \in Linkage /\ disk.next \in Linkage /\ view.next \in Linkage
    BY DEF Typed, TypeOK, Database, Linkage
<1>c. /\ \A b \in Block : Ancestors[b] \subseteq Block /\ b \in Ancestors[b]
      /\ \A b \in Block \ {Genesis} : /\ Parent[b] \in Block
                                      /\ Ancestors[b] = Ancestors[Parent[b]] \cup {b}
                                      /\ b \notin Ancestors[Parent[b]]
    BY ChainsNest, BlockTreeAssumption DEF BlockTreeAssumption
<1>1. ASSUME NEW t \in Tx, AcceptToMemoryPool(t) PROVE MemInv'
    BY <1>1 DEF AcceptToMemoryPool, MemInv, memVars, jobVars, histVars
<1>2. ASSUME NEW o \in Outpoint, NEW t \in Tx, LockInput(o, t) PROVE MemInv'
    BY <1>2 DEF LockInput, MemInv, memVars, jobVars, histVars
<1>3. ASSUME NEW o \in Outpoint, UnlockInput(o) PROVE MemInv'
    BY <1>3 DEF UnlockInput, MemInv, memVars, jobVars, histVars
<1>4. ASSUME NEW b \in Block \ {Genesis}, AddToBlockIndex(b) PROVE MemInv'
    <2>1. /\ pc = "idle" /\ pc' # "reorganize" /\ b \notin mapBlockIndex /\ Parent[b] \in mapBlockIndex
          /\ mapBlockIndex' = mapBlockIndex \cup {b} /\ pindexNew' \in {pindexNew, b}
          /\ UNCHANGED <<pindexBest, pnext, torn>>
        BY <1>4 DEF AddToBlockIndex, histVars
    <2>2. /\ view' = disk' /\ disk'.index = disk.index \cup {b} /\ disk'.best = disk.best
          /\ disk'.next = [disk.next EXCEPT ![b] = None]
        BY <1>4, <1>t DEF AddToBlockIndex, Database
    <2>3. \A a \in mapBlockIndex' : Ancestors[a] \subseteq mapBlockIndex'
        BY <2>1, <1>c DEF MemInv
    <2>4. ASSUME ~ torn PROVE pnext' = disk'.next /\ LinksOf(pnext', disk'.best)
        <3>1. b \notin Ancestors[disk.best] /\ pnext = disk.next /\ LinksOf(pnext, disk.best)
            BY <2>1, <2>4 DEF MemInv
        <3>2. pnext[b] = None
            BY <1>t, <3>1, NoLinkFrom
        <3>3. disk'.next = disk.next
            BY <1>t, <2>2, <3>1, <3>2 DEF Linkage
        <3> QED BY <2>1, <2>2, <3>1, <3>3
    <2>5. mapBlockIndex' = disk'.index /\ view'.index = disk'.index
          /\ {pindexBest', pindexNew', disk'.best} \subseteq mapBlockIndex'
        BY <2>1, <2>2 DEF MemInv
    <2> QED BY <2>1, <2>3, <2>4, <2>5 DEF MemInv
<1>5. ASSUME ExtendBestChain PROVE MemInv'
    <2>1. /\ pc = "setbest" /\ Parent[pindexNew] = pindexBest /\ pc' = "idle" /\ view = disk
          /\ AppendToBestChain(pindexNew) /\ pindexBest' = pindexNew /\ pindexNew \in Block \ {Genesis}
          /\ torn' = (torn \/ pindexBest # disk.best) /\ UNCHANGED <<mapBlockIndex, pindexNew>>
        BY <1>5, <1>t DEF ExtendBestChain, jobVars, JobInv, LedgerInv
    <2>2. disk'.best = pindexNew /\ disk'.index = disk.index /\ view' = disk'
        BY <1>c, <2>1, AppendTyped
    <2>3. ~ torn' => pnext' = disk'.next /\ LinksOf(pnext', pindexNew)
        BY <1>t, <2>1, AppendLinks DEF MemInv
    <2> QED BY <2>1, <2>2, <2>3 DEF MemInv
<1>a. ASSUME Abort, pc \in {"setbest", "reorganize"} PROVE MemInv'
    BY <1>a DEF Abort, MemInv, memVars, histVars
<1>6. ASSUME ExtendFails PROVE MemInv'
    BY <1>6, <1>a DEF ExtendFails
<1>7. ASSUME NEW p \in Block, StartReorganize(p) PROVE MemInv'
    <2>1. /\ pc = "setbest" /\ pc' = "reorganize" /\ tip' = pindexBest /\ pivot' = p
          /\ UNCHANGED <<mapBlockIndex, pindexBest, pnext, disk, view, pindexNew, torn>>
        BY <1>7 DEF StartReorganize, memVars, histVars
    <2>2. ~ torn /\ disk.best = pindexBest => LinksOf(view.next, pindexBest)
        BY <2>1 DEF MemInv, JobInv
    <2> QED BY <2>1, <2>2 DEF MemInv
<1>8. ASSUME ReorganizeDisconnect PROVE MemInv'
    <2>1. /\ pc = "reorganize" /\ tip \in Block \ {Genesis} /\ tip \notin Ancestors[pivot]
          /\ view' = DisconnectBlock(view, tip) /\ tip' = Parent[tip]
          /\ UNCHANGED <<mapBlockIndex, pindexBest, pnext, disk, pc, pindexNew, pivot, torn>>
        BY <1>8, <1>t, ChainsNest DEF ReorganizeDisconnect, memVars, histVars
    <2>2. view'.next = [view.next EXCEPT ![Parent[tip]] = None] /\ view'.index = view.index
        BY <1>t, <2>1, DisconnectShape, LinksOfSteps
    <2>3. ~ torn /\ disk.best = pindexBest => LinksOf(view'.next, tip')
        BY <1>t, <2>1, <2>2, LinkRemoved DEF MemInv
    <2>4. ~ torn /\ disk.best = pindexBest => Ancestors[pivot] \cap Ancestors[pindexBest] \subseteq Ancestors[tip']
        BY <1>c, <2>1 DEF MemInv
    <2> QED BY <2>1, <2>2, <2>3, <2>4 DEF MemInv
<1>9. ASSUME NEW b \in Block, ReorganizeConnect(b) PROVE MemInv'
    <2>1. /\ pc = "reorganize" /\ b \in Ancestors[pivot] \ {Genesis} /\ Parent[b] = tip
          /\ view' = ConnectBlock(view, b) /\ tip' = b
          /\ UNCHANGED <<mapBlockIndex, pindexBest, pnext, disk, pc, pindexNew, pivot, torn>>
        BY <1>9 DEF ReorganizeConnect, memVars, histVars
    <2>2. view'.index = view.index
        BY <1>t, <1>c, <2>1, ConnectShape DEF Linkage
    <2>3. ASSUME ~ torn, disk.best = pindexBest PROVE LinksOf(view'.next, tip')
        <3>1. b \notin Ancestors[pindexBest] /\ LinksOf(pnext, pindexBest) /\ LinksOf(view.next, Parent[b])
            BY <1>c, <2>1, <2>3 DEF MemInv
        <3>2. pnext[b] = None
            BY <1>t, <3>1, NoLinkFrom
        <3> QED BY <1>t, <2>1, <3>1, <3>2, ConnectLinks
    <2>4. ~ torn /\ disk.best = pindexBest => Ancestors[pivot] \cap Ancestors[pindexBest] \subseteq Ancestors[tip']
        BY <1>c, <2>1 DEF MemInv
    <2> QED BY <2>1, <2>2, <2>3, <2>4 DEF MemInv
<1>10. ASSUME ReorganizeFails PROVE MemInv'
    BY <1>10, <1>a DEF ReorganizeFails
<1>11. ASSUME ReorganizeCommit PROVE MemInv'
    <2>1. /\ pc = "reorganize" /\ tip = pivot /\ pc' = "resurrect"
          /\ torn' = (torn \/ pindexBest # disk.best)
          /\ UNCHANGED <<mapBlockIndex, pindexBest, pindexNew, pivot>>
        BY <1>11 DEF ReorganizeCommit, jobVars
    <2>2. /\ view' = disk' /\ disk'.best = pivot /\ disk'.next = view.next /\ disk'.index = disk.index
        BY <1>11, <1>t DEF ReorganizeCommit, Database, MemInv
    <2>3. pnext' = [x \in Block |->
                  IF { c \in Ancestors[pivot] \ Ancestors[pindexBest] : Parent[c] = x } # {}
                    THEN CHOOSE c \in Ancestors[pivot] \ Ancestors[pindexBest] : Parent[c] = x
                    ELSE IF { c \in Ancestors[pindexBest] \ Ancestors[pivot] : Parent[c] = x } # {}
                           THEN None ELSE pnext[x]]
        BY <1>11, Zenon DEF ReorganizeCommit
    <2>4. ASSUME ~ torn' PROVE pnext' = disk'.next /\ LinksOf(pnext', disk'.best)
        <3>1. LinksOf(pnext, pindexBest) /\ LinksOf(view.next, pivot)
            BY <2>1, <2>4 DEF MemInv
        <3>2. LinksOf(pnext', pivot)
            BY <1>t, <2>3, <3>1, LinksSwitched
        <3>3. pnext' \in Linkage
            BY <1>11, StepTyped DEF Typed, TypeOK, Linkage
        <3>4. pnext' = view.next
            BY <1>t, <3>1, <3>2, <3>3, LinksUnique
        <3> QED BY <2>2, <3>2, <3>4
    <2>5. pivot \in mapBlockIndex
        BY <2>1 DEF MemInv, TrustInv
    <2> QED BY <2>1, <2>2, <2>4, <2>5 DEF MemInv
<1>12. ASSUME ReorganizeResurrect PROVE MemInv'
    BY <1>12 DEF ReorganizeResurrect, MemInv, memVars, histVars
<1>13. ASSUME ReorganizeDelete PROVE MemInv'
    BY <1>13 DEF ReorganizeDelete, MemInv, memVars, histVars
<1>14. ASSUME NEW b \in Block, ConnectPostponed(b) PROVE MemInv'
    <2>1. /\ pc = "postponed" /\ pc' = pc /\ b \in Ancestors[pindexNew] \ {Genesis} /\ Parent[b] = disk.best
          /\ view = disk /\ AppendToBestChain(b)
          /\ UNCHANGED <<mapBlockIndex, pindexBest, pindexNew, torn>>
        BY <1>14 DEF ConnectPostponed, histVars, JobInv, TrustInv
    <2>2. disk'.best = b /\ disk'.index = disk.index /\ view' = disk'
        BY <1>c, <2>1, AppendTyped
    <2>3. ~ torn => pnext' = disk'.next /\ LinksOf(pnext', b)
        BY <2>1, AppendLinks DEF MemInv
    <2> QED BY <2>1, <2>2, <2>3 DEF MemInv
<1>15. ASSUME PostponedFails PROVE MemInv'
    BY <1>15 DEF PostponedFails, NewBestBlock, MemInv, jobVars
<1>16. ASSUME FinishSetBestChain PROVE MemInv'
    BY <1>16 DEF FinishSetBestChain, NewBestBlock, MemInv, jobVars, histVars
<1>17. ASSUME Restart PROVE MemInv'
    <2>1. Genesis \in mapBlockIndex
        BY <1>t, ChainsNest DEF MemInv
    <2> QED BY <1>17, <2>1 DEF Restart, MemInv
<1>18. ASSUME UNCHANGED vars PROVE MemInv'
    BY <1>18 DEF vars, MemInv, memVars, jobVars, histVars
<1> QED
    BY <1>1, <1>2, <1>3, <1>4, <1>5, <1>6, <1>7, <1>8, <1>9, <1>10, <1>11, <1>12, <1>13, <1>14, <1>15,
       <1>16, <1>17, <1>18 DEF Next, JobStep

LEMMA MemInductive == Spec => [](IInv /\ MemInv)
<1>1. Init => IInv /\ MemInv
    BY InitTyped, InitJob, InitLedger, InitMem DEF IInv
<1>2. IInv /\ MemInv /\ [Next]_vars => (IInv /\ MemInv)'
    BY StepTyped, StepJob, StepLedger, StepMem DEF IInv
<1> QED BY <1>1, <1>2, PTL DEF Spec

\* Between two jobs a restart would read back the index that is in memory, the
\* forward links too until a job goes on from a block that is not connected, and
\* the tip unless a postponed reconnect has failed since the last start.
THEOREM RestartChangesNothing == Spec => []MemoryMatchesDisk
<1>1. IInv /\ MemInv => MemoryMatchesDisk
    BY DEF IInv, LedgerInv, MemInv, MemoryMatchesDisk
<1> QED BY <1>1, MemInductive, PTL

\* IsInMainChain holds of the blocks that are connected on disk and of no other,
\* whatever was reorganised before and whether or not a postponed block failed.
THEOREM LinksMarkBestChain == Spec => []MainChainLinked
<1>1. ASSUME MemInv, pc \in {"idle", "setbest"}, ~ torn, NEW b \in Block \ {Genesis}
      PROVE  pnext[Parent[b]] = b <=> b \in Ancestors[disk.best]
    <2>1. LinksOf(pnext, disk.best)
        BY <1>1 DEF MemInv
    <2>2. Parent[b] \in Block
        BY BlockTreeAssumption DEF BlockTreeAssumption
    <2> QED BY <2>1, <2>2 DEF LinksOf
<1>2. IInv /\ MemInv => MainChainLinked
    BY <1>1 DEF MainChainLinked
<1> QED BY <1>2, MemInductive, PTL

-----------------------------------------------------------------------------
(* The refinement.  A replay of a chain determines the index, so a step of  *)
(* BestChain is a change of the best chain on disk, and nothing else is.    *)

LEMMA ReplaysAreValid ==
    ASSUME NEW d \in Database, Replayed(d, d.best)
    PROVE  /\ d.txs = BC!ChainTxs(d.best)
           /\ BC!ValidChain(d.best)
           /\ d.spent = [o \in Outpoint |->
                           IF \E t \in BC!ChainTxs(d.best) : o \in Ins[t]
                             THEN CHOOSE t \in BC!ChainTxs(d.best) : o \in Ins[t] ELSE None]
<1>1. /\ d.best \in Block /\ d.txs \subseteq Tx /\ d.spent \in [Outpoint -> Tx \cup {None}]
    BY DEF Database
<1>2. d.txs = BC!ChainTxs(d.best)
    BY DEF Replayed, IsLedgerOf, BC!ChainTxs, TxSet
<1> DEFINE T == BC!ChainTxs(d.best)
<1> HIDE DEF T
<1>3. /\ T = d.txs /\ T \subseteq Tx
      /\ \A o \in Outpoint : \A t \in Tx : d.spent[o] = t <=> t \in T /\ o \in Ins[t]
      /\ \A o \in Outpoint : d.spent[o] # None => Producer[o] \in T
      /\ None \notin Tx
    BY <1>1, <1>2, MiscAssumption DEF T, Replayed, IsLedgerOf, MiscAssumption
<1>4. \A o \in Outpoint : \A t, u \in T : o \in Ins[t] => Producer[o] \in T /\ (o \in Ins[u] => t = u)
    BY <1>3
<1>5. ASSUME NEW o \in Outpoint
      PROVE  d.spent[o] = IF \E t \in T : o \in Ins[t] THEN CHOOSE t \in T : o \in Ins[t] ELSE None
    <2>1. CASE \E t \in T : o \in Ins[t]
        <3>1. (CHOOSE t \in T : o \in Ins[t]) \in T /\ o \in Ins[CHOOSE t \in T : o \in Ins[t]]
            BY <2>1
        <3> QED BY <1>3, <2>1, <3>1
    <2>2. CASE ~ \E t \in T : o \in Ins[t]
        BY <1>1, <1>3, <2>2
    <2> QED BY <2>1, <2>2
<1>6. d.spent = [o \in Outpoint |-> IF \E t \in T : o \in Ins[t] THEN CHOOSE t \in T : o \in Ins[t] ELSE None]
    BY <1>1, <1>5
<1> QED BY <1>2, <1>4, <1>6 DEF T, BC!ValidChain

\* What a step does to torn.
LEMMA TornStep ==
    ASSUME [Next]_vars
    PROVE  \/ torn' = torn
           \/ pc \in {"setbest", "reorganize"} /\ torn' = (torn \/ pindexBest # disk.best)
<1> DEFINE Goal == \/ torn' = torn
                   \/ pc \in {"setbest", "reorganize"} /\ torn' = (torn \/ pindexBest # disk.best)
<1>1. ASSUME NEW t \in Tx, AcceptToMemoryPool(t) PROVE Goal
    BY <1>1 DEF AcceptToMemoryPool, histVars
<1>2. ASSUME NEW o \in Outpoint, UnlockInput(o) \/ \E t \in Tx : LockInput(o, t) PROVE Goal
    BY <1>2 DEF UnlockInput, LockInput, histVars
<1>3. ASSUME NEW b \in Block, AddToBlockIndex(b) \/ ReorganizeConnect(b) \/ ConnectPostponed(b) PROVE Goal
    BY <1>3 DEF AddToBlockIndex, ReorganizeConnect, ConnectPostponed, histVars
<1>4. ASSUME ExtendBestChain \/ ReorganizeCommit PROVE Goal
    BY <1>4 DEF ExtendBestChain, ReorganizeCommit
<1>5. ASSUME ExtendFails \/ ReorganizeFails \/ ReorganizeDisconnect \/ \E p \in Block : StartReorganize(p) PROVE Goal
    BY <1>5 DEF ExtendFails, ReorganizeFails, Abort, ReorganizeDisconnect, StartReorganize, histVars
<1>6. ASSUME ReorganizeResurrect \/ ReorganizeDelete \/ PostponedFails \/ FinishSetBestChain PROVE Goal
    BY <1>6 DEF ReorganizeResurrect, ReorganizeDelete, PostponedFails, FinishSetBestChain, histVars
<1>7. ASSUME Restart \/ UNCHANGED vars PROVE Goal
    BY <1>7 DEF Restart, vars, histVars
<1> HIDE DEF Goal
<1>8. Goal
    BY <1>1, <1>2, <1>3, <1>4, <1>5, <1>6, <1>7 DEF Next, JobStep
<1> QED BY <1>8 DEF Goal

LEMMA TornForGood == [Next]_vars /\ torn => torn'
    BY TornStep

\* The tip in memory is the one on disk until a postponed reconnect fails.
LEMMA TornByFailure == IInv /\ [Next]_vars /\ ~ torn /\ torn' => postponedFailed
    BY TornStep DEF IInv, LedgerInv

LEMMA StepImplements ==
    ASSUME IInv, IInv', [Next]_vars
    PROVE  [BC!Next]_(BC!ledger)
<1>1. /\ disk \in Database /\ disk' \in Database /\ disk.best \in Block /\ disk'.best \in Block
      /\ torn \in BOOLEAN /\ torn' \in BOOLEAN
    BY DEF IInv, Typed, TypeOK, Database
<1>2. disk'.best # disk.best => ChainTrust[disk'.best] > ChainTrust[disk.best]
    BY StepJob DEF IInv
<1>3. torn => torn'
    BY TornForGood
<1>4. CASE torn'
    <2>1. ChainTrust[disk'.best] >= ChainTrust[disk.best]
        BY <1>1, <1>2, BlockTreeAssumption DEF BlockTreeAssumption
    <2>2. BC!Torn(disk'.best)
        BY <1>4, <2>1 DEF BC!Torn
    <2> QED BY <1>1, <2>2 DEF BC!Next
<1>5. CASE ~ torn' /\ disk'.best = disk.best
    <2>0. Replayed(disk, disk.best) /\ Replayed(disk', disk'.best)
        BY <1>3, <1>5 DEF IInv, LedgerInv
    <2>1. disk'.txs = BC!ChainTxs(disk.best) /\ disk.txs = BC!ChainTxs(disk.best)
        BY <1>1, <1>5, <2>0, ReplaysAreValid, Zenon
    <2>2. ASSUME NEW o \in Outpoint PROVE disk'.spent[o] = disk.spent[o]
        <3>1. /\ \A t \in Tx : disk'.spent[o] = t <=> t \in disk'.txs /\ o \in Ins[t]
              /\ \A t \in Tx : disk.spent[o] = t <=> t \in disk.txs /\ o \in Ins[t]
            BY <2>0 DEF Replayed, IsLedgerOf
        <3>2. disk.spent[o] \in Tx \cup {None} /\ disk'.spent[o] \in Tx \cup {None}
            BY <1>1 DEF Database
        <3> QED BY <2>1, <3>1, <3>2
    <2>3. disk'.spent = disk.spent
        BY <1>1, <2>2 DEF Database
    <2>4. torn' = torn
        BY <1>1, <1>3, <1>5
    <2> QED BY <1>5, <2>1, <2>3, <2>4 DEF BC!ledger
<1>6. CASE ~ torn' /\ disk'.best # disk.best
    <2>1. Replayed(disk', disk'.best)
        BY <1>6 DEF IInv, LedgerInv
    <2>2. BC!Switch(disk'.best)
        BY <1>1, <1>2, <1>3, <1>6, <2>1, ReplaysAreValid DEF BC!Switch
    <2> QED BY <1>1, <2>2 DEF BC!Next
<1> QED BY <1>4, <1>5, <1>6

\* The transaction database implements BestChain: it moves from one valid chain to
\* a heavier one, in one step, until a job goes on from a block that is not
\* connected; from then on it moves to heavier blocks only.
THEOREM DatabaseImplements == Spec => ImplementsBestChain
<1>1. Init => BC!Init
    BY DEF Init, EmptyChain, BC!Init
<1>2. IInv /\ IInv' /\ [Next]_vars => [BC!Next]_(BC!ledger)
    BY StepImplements
<1> QED BY <1>1, <1>2, Inductive, PTL DEF Spec, ImplementsBestChain, BC!Spec

\* The database is torn by nothing but a commit of a job that goes on after a
\* postponed reconnect has failed, with no start of the process between the two.
THEOREM OnlyFailureTears == Spec => [][~ torn /\ torn' => postponedFailed]_vars
<1>1. IInv /\ [Next]_vars => [~ torn /\ torn' => postponedFailed]_vars
    BY TornByFailure
<1> QED BY <1>1, Inductive, PTL DEF Spec
=============================================================================
