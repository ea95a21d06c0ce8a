----------------------------- MODULE ChainState -----------------------------
(***************************************************************************)
(* The block index, the best chain, the transaction database and the       *)
(* memory pool of one node: main.cpp, txmempool.cpp and txdb-leveldb.cpp.  *)
(*                                                                         *)
(* Everything here runs with cs_main held, from a block's acceptance to    *)
(* the end of SetBestChain, so one job is in progress at a time.  The job  *)
(* is still modelled step by step, because the process may stop between    *)
(* two commits of the database, and because mapLockedInputs (InstantX) and *)
(* the commits change what a later step of the same job sees.              *)
(*                                                                         *)
(* The tree of blocks that exist is a constant.  A block's height, its     *)
(* chain trust and the set of its ancestors are what AddToBlockIndex       *)
(* computes from the parent's; BlockTreeAssumption says so.                *)
(***************************************************************************)
EXTENDS Integers, Sequences

CONSTANTS
    Block,             \* the blocks that exist
    Genesis,           \* the block whose transactions are not indexed
    Parent,            \* [Block \ {Genesis} -> Block], hashPrevBlock
    Height,            \* [Block -> Nat], nHeight
    ChainTrust,        \* [Block -> Nat], nChainTrust
    Ancestors,         \* [Block -> SUBSET Block], a block and what is below it
    BlockTxs,          \* [Block -> Seq(Tx)], vtx
    Tx,                \* the transactions that exist
    Coinbase,          \* the coinbase transactions, which spend nothing
    Coinstake,         \* the coinstake transactions
    Outpoint,          \* the outputs that transactions spend
    Producer,          \* [Outpoint -> Tx], prevout.hash
    Ins,               \* [Tx -> SUBSET Outpoint], vin
    MisPaid,           \* blocks that do not pay the primenode voted for
    CoinbaseMaturity,  \* nCoinbaseMaturity
    TotalBlocksEstimate, \* Checkpoints::GetTotalBlocksEstimate, the last checkpoint
    LockableInput,     \* outpoints InstantX may lock
    BlockFiltering,    \* SPORK_3_INSTANTX_BLOCK_FILTERING
    MaxRestarts,       \* bound: how often the process stops and starts again
    None               \* the null hash, the null pointer, a null CDiskTxPos

\* What only a block may contain, and what must mature before it is spent.
Generated == Coinbase \cup Coinstake

TxSet(b) == { BlockTxs[b][i] : i \in DOMAIN BlockTxs[b] }

ASSUME BlockTreeAssumption ==
    /\ Genesis \in Block
    /\ Parent \in [Block \ {Genesis} -> Block]
    /\ Height \in [Block -> Nat]
    /\ ChainTrust \in [Block -> Nat]
    /\ Ancestors \in [Block -> SUBSET Block]
    /\ Ancestors[Genesis] = {Genesis}
    /\ \A b \in Block \ {Genesis} :
         /\ Height[b] = Height[Parent[b]] + 1
         /\ ChainTrust[b] > ChainTrust[Parent[b]]
         /\ Ancestors[b] = Ancestors[Parent[b]] \cup {b}
         /\ b \notin Ancestors[Parent[b]]

ASSUME TxAssumption ==
    /\ BlockTxs \in [Block -> Seq(Tx)]
    /\ BlockTxs[Genesis] = <<>>
    /\ Coinbase \subseteq Tx /\ Coinstake \subseteq Tx
    /\ Producer \in [Outpoint -> Tx]
    /\ Ins \in [Tx -> SUBSET Outpoint]
    \* CheckTransaction refuses a transaction without inputs
    /\ \A t \in Tx : Ins[t] = {} <=> t \in Coinbase
    \* AcceptBlock makes a coinbase start with its block's height
    /\ \A a, b \in Block : a # b /\ a \in Ancestors[b] => TxSet(a) \cap TxSet(b) \cap Coinbase = {}

ASSUME MiscAssumption ==
    /\ MisPaid \subseteq Block
    /\ CoinbaseMaturity \in Nat /\ TotalBlocksEstimate \in Nat
    /\ LockableInput \subseteq Outpoint
    /\ BlockFiltering \in BOOLEAN
    /\ MaxRestarts \in Nat
    /\ None \notin Block \cup Tx

VARIABLES
    mapBlockIndex,     \* blocks in the in-memory index
    pindexBest,        \* tip of the best chain in memory (hashBestChain, nBestChainTrust)
    pnext,             \* [Block -> Block or None], forward links in memory
    mapTx,             \* transactions in the memory pool
    mapNextTx,         \* [Outpoint -> Tx or None], the pool's spender of an outpoint
    mapLockedInputs,   \* [Outpoint -> Tx or None], InstantX input locks
    disk,              \* the database: index, next, best, txs, spent
    view,              \* the database as seen through the open batch, = disk without one
    pc,                \* where the job under cs_main stands
    pindexNew,         \* the block SetBestChain is asked for
    pivot,             \* pindexIntermediate, where Reorganize ends
    tip,               \* the block up to which the batch (the disk) is connected
    vResurrect,        \* disconnected transactions to offer to the pool again
    vDelete,           \* connected transactions to take out of the pool
    postponedFailed,   \* history: a postponed reconnect has failed since the start
    torn,              \* history: a commit went on from a tip that was not the disk's
    restarts           \* history: restarts so far

poolVars == <<mapTx, mapNextTx>>
memVars  == <<mapBlockIndex, pindexBest, pnext>>
jobVars  == <<pindexNew, pivot, tip, vResurrect, vDelete>>
histVars == <<postponedFailed, torn, restarts>>
vars     == <<memVars, poolVars, mapLockedInputs, disk, view, pc, jobVars, histVars>>

Database == [index : SUBSET Block, next : [Block -> Block \cup {None}], best : Block,
             txs : SUBSET Tx, spent : [Outpoint -> Tx \cup {None}]]

EmptyChain == [index |-> {Genesis}, next |-> [b \in Block |-> None], best |-> Genesis,
               txs |-> {}, spent |-> [o \in Outpoint |-> None]]

-----------------------------------------------------------------------------
(* Connecting and disconnecting one block, on a view v of the database. *)

\* IsConfirmedInNPrevBlocks: p is a coinbase less than CoinbaseMaturity below b.
Immature(p, b) ==
    /\ p \in Generated
    /\ \E a \in Ancestors[b] : p \in TxSet(a) /\ Height[b] - Height[a] < CoinbaseMaturity

\* FetchInputs and ConnectInputs over the block's transactions in order, the
\* changes of the earlier ones (mapQueuedChanges) seen by the later ones.
InputsConnect(v, b) ==
    \A i \in DOMAIN BlockTxs[b] : \A o \in Ins[BlockTxs[b][i]] :
        /\ \/ \E j \in 1..(i - 1) : BlockTxs[b][j] = Producer[o]
           \/ Producer[o] \in v.txs /\ v.spent[o] = None
        /\ \A j \in 1..(i - 1) : o \notin Ins[BlockTxs[b][j]]
        /\ ~ Immature(Producer[o], b)

\* The parts of CheckBlock whose verdict may differ from one call to the next:
\* the InstantX filter, and the payee, looked at for a child of pindexBest only.
CheckBlock(b) ==
    /\ BlockFiltering =>
         \A t \in TxSet(b) \ Coinbase : \A o \in Ins[t] : mapLockedInputs[o] \in {None, t}
    /\ Parent[b] = pindexBest => b \notin MisPaid

CanConnect(v, b) == CheckBlock(b) /\ InputsConnect(v, b)

\* ConnectBlock writes the entry of b with the forward link it has in memory,
\* then its parent's with a link to b, and the queued transaction index.
ConnectBlock(v, b) ==
    [v EXCEPT
       !.next  = [@ EXCEPT ![b] = pnext[b], ![Parent[b]] = b],
       !.txs   = @ \cup TxSet(b),
       !.spent = [o \in Outpoint |->
                    IF \E t \in TxSet(b) : o \in Ins[t]
                      THEN CHOOSE t \in TxSet(b) : o \in Ins[t]
                      ELSE IF Producer[o] \in TxSet(b) THEN None ELSE v.spent[o]]]

\* Wrong on purpose: the outputs the block spent stay spent.
DisconnectBlockKeepsSpent(v, b) ==
    [v EXCEPT !.next = [@ EXCEPT ![Parent[b]] = None], !.txs = @ \ TxSet(b)]

\* Wrong on purpose: the parent keeps its forward link on disk.
DisconnectBlockKeepsNext(v, b) ==
    [v EXCEPT
       !.txs   = @ \ TxSet(b),
       !.spent = [o \in Outpoint |->
                    IF Producer[o] \in TxSet(b) \/ \E t \in TxSet(b) : o \in Ins[t]
                      THEN None ELSE v.spent[o]]]

\* DisconnectInputs needs the index entry of every transaction spent.
CanDisconnect(v, b) == \A t \in TxSet(b) : \A o \in Ins[t] : Producer[o] \in v.txs

DisconnectBlock(v, b) ==
    [v EXCEPT
       !.next  = [@ EXCEPT ![Parent[b]] = None],
       !.txs   = @ \ TxSet(b),
       !.spent = [o \in Outpoint |->
                    IF Producer[o] \in TxSet(b) \/ \E t \in TxSet(b) : o \in Ins[t]
                      THEN None ELSE v.spent[o]]]

-----------------------------------------------------------------------------
(* The memory pool. *)

\* addUnchecked
AddToPool(t) ==
    /\ mapTx' = mapTx \cup {t}
    /\ mapNextTx' = [o \in Outpoint |-> IF o \in Ins[t] THEN t ELSE mapNextTx[o]]

\* Wrong on purpose: a removed transaction stays the spender of its inputs.
RemoveFromPoolNotNext(ts) ==
    /\ mapTx' = mapTx \ ts
    /\ UNCHANGED mapNextTx

\* CTxMemPool::remove of every member of ts, not recursive: each erases its own
\* inputs from mapNextTx whatever they map to.
RemoveFromPool(ts) ==
    LET gone == ts \cap mapTx
    IN  /\ mapTx' = mapTx \ gone
        /\ mapNextTx' = [o \in Outpoint |-> IF \E t \in gone : o \in Ins[t]
                                              THEN None ELSE mapNextTx[o]]

\* What remove(t, fRecursive = true) takes out: t and, along mapNextTx, every
\* pool transaction that spends an output of one taken out.
WithDescendants(t) ==
    LET closed(S) == \A o \in Outpoint : Producer[o] \in S /\ mapNextTx[o] # None => mapNextTx[o] \in S
    IN  { u \in mapTx : \A S \in SUBSET mapTx : t \in S /\ closed(S) => u \in S }

\* removeConflicts: what the pool spends an input of t with, if it is not t.
Conflicts(t) == { mapNextTx[o] : o \in Ins[t] } \ {t, None}

\* Wrong on purpose: the pool's own spenders are not looked at.
AcceptableTwice(t) ==
    /\ t \notin Generated /\ t \notin mapTx /\ t \notin disk.txs
    /\ \A o \in Ins[t] : Producer[o] \in disk.txs /\ disk.spent[o] = None

\* AcceptToMemoryPool, as far as it depends on the node's state.
Acceptable(t) ==
    /\ t \notin Generated
    /\ t \notin mapTx
    /\ \A o \in Ins[t] : mapLockedInputs[o] \in {None, t}
    /\ \A o \in Ins[t] : mapNextTx[o] = None
    /\ t \notin disk.txs
    /\ \A o \in Ins[t] : Producer[o] \in disk.txs /\ disk.spent[o] = None
    /\ \A o \in Ins[t] : ~ Immature(Producer[o], pindexBest)

-----------------------------------------------------------------------------
(* Operations. *)

Init ==
    /\ mapBlockIndex = {Genesis} /\ pindexBest = Genesis /\ pnext = [b \in Block |-> None]
    /\ mapTx = {} /\ mapNextTx = [o \in Outpoint |-> None]
    /\ mapLockedInputs = [o \in Outpoint |-> None]
    /\ disk = EmptyChain /\ view = EmptyChain
    /\ pc = "idle" /\ pindexNew = Genesis /\ pivot = Genesis /\ tip = Genesis
    /\ vResurrect = <<>> /\ vDelete = {}
    /\ postponedFailed = FALSE /\ torn = FALSE /\ restarts = 0

\* A loose transaction is relayed, or sent by the wallet.
AcceptToMemoryPool(t) ==
    /\ pc = "idle"
    /\ Acceptable(t)
    /\ AddToPool(t)
    /\ UNCHANGED <<memVars, mapLockedInputs, disk, view, pc, jobVars, histVars>>

\* InstantX locks an input for a transaction that spends it, or drops a lock.
\* Neither takes cs_main for as long as a block is being connected.
LockInput(o, t) ==
    /\ o \in LockableInput /\ o \in Ins[t] /\ mapLockedInputs[o] = None
    /\ mapLockedInputs' = [mapLockedInputs EXCEPT ![o] = t]
    /\ UNCHANGED <<memVars, poolVars, disk, view, pc, jobVars, histVars>>

UnlockInput(o) ==
    /\ mapLockedInputs[o] # None
    /\ mapLockedInputs' = [mapLockedInputs EXCEPT ![o] = None]
    /\ UNCHANGED <<memVars, poolVars, disk, view, pc, jobVars, histVars>>

\* AcceptBlock and AddToBlockIndex up to the commit of the index entry; a heavier
\* block is then handed to SetBestChain.  ProcessBlock's CheckBlock is no guard: of
\* a block that waited as an orphan its verdict is of an earlier state.
AddToBlockIndex(b) ==
    /\ pc = "idle"
    /\ b \notin mapBlockIndex /\ Parent[b] \in mapBlockIndex
    /\ mapBlockIndex' = mapBlockIndex \cup {b}
    /\ disk' = [disk EXCEPT !.index = @ \cup {b}, !.next = [@ EXCEPT ![b] = None]]
    /\ view' = disk'
    /\ IF ChainTrust[b] > ChainTrust[pindexBest]
         THEN pc' = "setbest" /\ pindexNew' = b
         ELSE UNCHANGED <<pc, pindexNew>>
    /\ UNCHANGED <<pindexBest, pnext, poolVars, mapLockedInputs, pivot, tip, vResurrect,
                   vDelete, histVars>>

\* SetBestChainInner after its checks: commit, link, take the block's
\* transactions (not their conflicts) out of the pool.
AppendToBestChain(b) ==
    /\ view' = [ConnectBlock(view, b) EXCEPT !.best = b]
    /\ disk' = view'
    /\ pnext' = [pnext EXCEPT ![Parent[b]] = b]
    /\ RemoveFromPool(TxSet(b))

\* SetBestChain, hashPrevBlock == hashBestChain.
ExtendBestChain ==
    /\ pc = "setbest" /\ Parent[pindexNew] = pindexBest
    /\ CanConnect(view, pindexNew)
    /\ AppendToBestChain(pindexNew)
    /\ pindexBest' = pindexNew
    /\ pc' = "idle"
    /\ torn' = (torn \/ pindexBest # disk.best)
    /\ UNCHANGED <<mapBlockIndex, mapLockedInputs, jobVars, postponedFailed, restarts>>

\* TxnAbort: the batch is dropped and memory stays as it was.
Abort ==
    /\ view' = disk
    /\ pc' = "idle"
    /\ vResurrect' = <<>> /\ vDelete' = {}
    /\ UNCHANGED <<memVars, poolVars, mapLockedInputs, disk, pindexNew, pivot, tip, histVars>>

ExtendFails ==
    /\ pc = "setbest" /\ Parent[pindexNew] = pindexBest
    /\ ~ CanConnect(view, pindexNew)
    /\ Abort

\* Wrong on purpose: only the fork is reorganised to, all else is postponed.
IsFirstOfBranch(p) ==
    /\ p \in Ancestors[pindexNew] \ Ancestors[pindexBest]
    /\ Parent[p] \in Ancestors[pindexBest]

\* The first block of the new branch that is heavier than the best chain; what
\* is above it is connected later, each block in a commit of its own.
IsIntermediate(p) ==
    /\ p \in Ancestors[pindexNew] \ {Genesis}
    /\ ChainTrust[p] > ChainTrust[pindexBest]
    /\ ChainTrust[Parent[p]] <= ChainTrust[pindexBest]

StartReorganize(p) ==
    /\ pc = "setbest" /\ Parent[pindexNew] # pindexBest
    /\ IsIntermediate(p)
    /\ pivot' = p /\ tip' = pindexBest
    /\ vResurrect' = <<>> /\ vDelete' = {}
    /\ pc' = "reorganize"
    /\ UNCHANGED <<memVars, poolVars, mapLockedInputs, disk, view, pindexNew, histVars>>

\* Queued are the transactions of blocks above the last checkpoint.
Resurrected(b) == IF Height[b] > TotalBlocksEstimate THEN BlockTxs[b] ELSE <<>>

ReorganizeDisconnect ==
    /\ pc = "reorganize" /\ tip \notin Ancestors[pivot]
    /\ CanDisconnect(view, tip)
    /\ view' = DisconnectBlock(view, tip)
    /\ vResurrect' = Resurrected(tip) \o vResurrect
    /\ tip' = Parent[tip]
    /\ UNCHANGED <<memVars, poolVars, mapLockedInputs, disk, pc, pindexNew, pivot, vDelete, histVars>>

\* Wrong on purpose: the loop over vConnect does not advance.
ReorganizeConnectAgain(b) ==
    /\ pc = "reorganize" /\ tip \in Ancestors[pivot]
    /\ b \in Ancestors[pivot] \ {Genesis} /\ Parent[b] = tip
    /\ CanConnect(view, b)
    /\ view' = ConnectBlock(view, b)
    /\ UNCHANGED <<memVars, poolVars, mapLockedInputs, disk, pc, jobVars, histVars>>

ReorganizeConnect(b) ==
    /\ pc = "reorganize" /\ tip \in Ancestors[pivot]
    /\ b \in Ancestors[pivot] \ {Genesis} /\ Parent[b] = tip
    /\ CanConnect(view, b)
    /\ view' = ConnectBlock(view, b)
    /\ vDelete' = vDelete \cup TxSet(b)
    /\ tip' = b
    /\ UNCHANGED <<memVars, poolVars, mapLockedInputs, disk, pc, pindexNew, pivot, vResurrect, histVars>>

ReorganizeFails ==
    /\ pc = "reorganize"
    /\ \/ tip \notin Ancestors[pivot] /\ ~ CanDisconnect(view, tip)
       \/ /\ tip \in Ancestors[pivot]
          /\ \E b \in Ancestors[pivot] \ {Genesis} : Parent[b] = tip /\ ~ CanConnect(view, b)
    /\ Abort

\* Wrong on purpose: the blocks left keep their forward links in memory.
ReorganizeCommitKeepsLinks ==
    /\ pc = "reorganize" /\ tip = pivot
    /\ view' = [view EXCEPT !.best = pivot]
    /\ disk' = view'
    /\ pnext' = [b \in Block |->
                   IF \E c \in Ancestors[pivot] \ Ancestors[pindexBest] : Parent[c] = b
                     THEN CHOOSE c \in Ancestors[pivot] \ Ancestors[pindexBest] : Parent[c] = b
                     ELSE pnext[b]]
    /\ pc' = "resurrect"
    /\ torn' = (torn \/ pindexBest # disk.best)
    /\ UNCHANGED <<mapBlockIndex, pindexBest, poolVars, mapLockedInputs, jobVars, postponedFailed, restarts>>

\* WriteHashBestChain, TxnCommit, then the forward links in memory.
ReorganizeCommit ==
    LET disconnected == Ancestors[pindexBest] \ Ancestors[pivot]
        connected    == Ancestors[pivot] \ Ancestors[pindexBest]
        child(S, b)  == { c \in S : Parent[c] = b }
    IN  /\ pc = "reorganize" /\ tip = pivot
        /\ view' = [view EXCEPT !.best = pivot]
        /\ disk' = view'
        /\ pnext' = [b \in Block |->
                       IF child(connected, b) # {} THEN CHOOSE c \in connected : Parent[c] = b
                       ELSE IF child(disconnected, b) # {} THEN None ELSE pnext[b]]
        /\ pc' = "resurrect"
        /\ torn' = (torn \/ pindexBest # disk.best)
        /\ UNCHANGED <<mapBlockIndex, pindexBest, poolVars, mapLockedInputs, jobVars, postponedFailed, restarts>>

\* AcceptToMemoryPool of one disconnected transaction; its verdict is ignored.
\* (The code does not queue coinbases; here they are queued and refused.)
ReorganizeResurrect ==
    /\ pc = "resurrect" /\ vResurrect # <<>>
    /\ vResurrect' = Tail(vResurrect)
    /\ IF Acceptable(Head(vResurrect)) THEN AddToPool(Head(vResurrect)) ELSE UNCHANGED poolVars
    /\ UNCHANGED <<memVars, mapLockedInputs, disk, view, pc, pindexNew, pivot, tip, vDelete, histVars>>

\* Wrong on purpose: the connected transactions stay in the pool.
ReorganizeDeleteNothing ==
    /\ pc = "resurrect" /\ vResurrect = <<>>
    /\ vDelete' = {}
    /\ pc' = "postponed"
    /\ UNCHANGED <<memVars, poolVars, mapLockedInputs, disk, view, pindexNew, pivot, tip, vResurrect, histVars>>

\* remove and removeConflicts for what was connected: Reorganize is done.
ReorganizeDelete ==
    /\ pc = "resurrect" /\ vResurrect = <<>>
    /\ RemoveFromPool(vDelete \cup UNION { WithDescendants(c) : c \in UNION { Conflicts(t) : t \in vDelete } })
    /\ vDelete' = {}
    /\ pc' = "postponed"
    /\ UNCHANGED <<memVars, mapLockedInputs, disk, view, pindexNew, pivot, tip, vResurrect, histVars>>

\* The end of SetBestChain: pindexBest and hashBestChain become pindexNew.
NewBestBlock ==
    /\ pindexBest' = pindexNew
    /\ pc' = "idle"

ConnectPostponed(b) ==
    /\ pc = "postponed" /\ tip # pindexNew
    /\ b \in Ancestors[pindexNew] \ {Genesis} /\ Parent[b] = tip
    /\ CanConnect(view, b)
    /\ AppendToBestChain(b)
    /\ tip' = b
    /\ UNCHANGED <<mapBlockIndex, pindexBest, mapLockedInputs, pc, pindexNew, pivot, vResurrect,
                   vDelete, histVars>>

\* A postponed block does not connect: TxnAbort, break out of the loop, and the
\* end of SetBestChain all the same.
PostponedFails ==
    /\ pc = "postponed" /\ tip # pindexNew
    /\ \E b \in Ancestors[pindexNew] \ {Genesis} : Parent[b] = tip /\ ~ CanConnect(view, b)
    /\ view' = disk
    /\ NewBestBlock
    /\ postponedFailed' = TRUE
    /\ UNCHANGED <<mapBlockIndex, pnext, poolVars, mapLockedInputs, disk, jobVars, torn, restarts>>

FinishSetBestChain ==
    /\ pc = "postponed" /\ tip = pindexNew
    /\ NewBestBlock
    /\ UNCHANGED <<mapBlockIndex, pnext, poolVars, mapLockedInputs, disk, view, jobVars, histVars>>

\* The process stops anywhere, an open batch is lost, and LoadBlockIndex reads
\* the block index, the forward links and the best chain back.
Restart ==
    /\ restarts < MaxRestarts
    /\ restarts' = restarts + 1
    /\ view' = disk
    /\ mapBlockIndex' = disk.index /\ pnext' = disk.next /\ pindexBest' = disk.best
    /\ mapTx' = {} /\ mapNextTx' = [o \in Outpoint |-> None]
    /\ mapLockedInputs' = [o \in Outpoint |-> None]
    /\ pc' = "idle" /\ pindexNew' = Genesis /\ pivot' = Genesis /\ tip' = Genesis
    /\ vResurrect' = <<>> /\ vDelete' = {}
    /\ postponedFailed' = FALSE
    /\ UNCHANGED <<disk, torn>>

\* The steps the thread that holds cs_main takes by itself.
JobStep ==
    \/ ExtendBestChain \/ ExtendFails
    \/ \E p \in Block : StartReorganize(p)
    \/ ReorganizeDisconnect \/ (\E b \in Block : ReorganizeConnect(b)) \/ ReorganizeFails
    \/ ReorganizeCommit \/ ReorganizeResurrect \/ ReorganizeDelete
    \/ (\E b \in Block : ConnectPostponed(b)) \/ PostponedFails \/ FinishSetBestChain

Next ==
    \/ \E t \in Tx : AcceptToMemoryPool(t)
    \/ \E o \in Outpoint : UnlockInput(o) \/ \E t \in Tx : LockInput(o, t)
    \/ \E b \in Block \ {Genesis} : AddToBlockIndex(b)
    \/ JobStep
    \/ Restart

Spec == Init /\ [][Next]_vars

\* The thread runs to the end of what it does with cs_main held.
FairSpec == Spec /\ WF_vars(JobStep)
-----------------------------------------------------------------------------
(* Properties. *)

\* Every variable has its type; mapNextTx, which holds pointers into mapTx
\* (CInPoint), points at transactions that are in the pool.
TypeOK ==
    /\ mapBlockIndex \subseteq Block /\ pindexBest \in Block
    /\ pnext \in [Block -> Block \cup {None}]
    /\ mapTx \subseteq Tx
    /\ mapNextTx \in [Outpoint -> mapTx \cup {None}]
    /\ mapLockedInputs \in [Outpoint -> Tx \cup {None}]
    /\ disk \in Database /\ view \in Database
    /\ pc \in {"idle", "setbest", "reorganize", "resurrect", "postponed"}
    /\ pindexNew \in Block /\ pivot \in Block /\ tip \in Block
    /\ vResurrect \in Seq(Tx) /\ vDelete \subseteq Tx
    /\ postponedFailed \in BOOLEAN /\ torn \in BOOLEAN /\ restarts \in 0..MaxRestarts

\* The pool's two maps agree: addUnchecked, remove, removeConflicts and the
\* resurrection of a reorganisation keep mapNextTx the exact index of the inputs
\* of mapTx, so that no two pool transactions ever spend the same output.
PoolIndexExact ==
    \A o \in Outpoint : \A t \in Tx : mapNextTx[o] = t <=> t \in mapTx /\ o \in Ins[t]

\* No transaction is in the pool and in the best chain on disk, across direct
\* extensions, reorganisations that put transactions back and postponed
\* reconnects; while Reorganize works, only what it is about to delete is.
NoConfirmedInPool ==
    mapTx \cap disk.txs \subseteq (IF pc = "resurrect" THEN vDelete ELSE {})

\* The chain a block stands for: what a replay of it from the genesis block puts
\* in the transaction index.
IsLedgerOf(d, b) ==
    /\ d.txs = UNION { TxSet(a) : a \in Ancestors[b] }
    /\ \A o \in Outpoint : \A t \in Tx : d.spent[o] = t <=> t \in d.txs /\ o \in Ins[t]
    /\ \A o \in Outpoint : d.spent[o] # None => Producer[o] \in d.txs

\* Whatever was disconnected, connected, aborted or lost in a crash, the
\* transaction index on disk is the replay of the chain hashBestChain names, and
\* no output of it is spent twice.  A postponed reconnect that fails leaves it so;
\* what ends it is a later job that goes on from the tip in memory, as if that
\* block were connected, and commits.
LedgerIsReplay == ~ torn => IsLedgerOf(disk, disk.best)

\* Between two jobs memory and disk say the same, so that LoadBlockIndex would
\* restore what is in memory: the index always, the forward links even when a
\* postponed reconnect has failed, the tip until one does, and again from the next
\* start on.
MemoryMatchesDisk ==
    pc \in {"idle", "setbest"} =>
        /\ mapBlockIndex = disk.index
        /\ ~ torn => pnext = disk.next
        /\ ~ postponedFailed => pindexBest = disk.best

\* IsInMainChain, which looks at pnext, holds of the blocks that are connected on
\* disk and of no other: Reorganize unlinks every block of the branch it leaves.
\* After a failed postponed reconnect it is false of pindexBest itself.
MainChainLinked ==
    pc \in {"idle", "setbest"} /\ ~ torn =>
        \A b \in Block \ {Genesis} : pnext[Parent[b]] = b <=> b \in Ancestors[disk.best]

\* A commit of the best chain never makes it lighter, not even one of several
\* commits of a job: a crash between two of them leaves a chain at least as
\* heavy as the one before the job.
DiskTrustGrows == [][disk'.best # disk.best => ChainTrust[disk'.best] > ChainTrust[disk.best]]_disk

\* The database as the steps of SetBestChain write it implements BestChain: each
\* commit is one switch to a heavier chain that is connected as a whole, and
\* nothing else changes what is connected, until it is torn.
BC == INSTANCE BestChain WITH best <- disk.best, txs <- disk.txs, spent <- disk.spent
ImplementsBestChain == BC!Spec

\* SetBestChain ends, whatever locks come and go while it runs.
JobEnds == pc # "idle" ~> pc = "idle"

\* "errors now are not fatal, we still did a reorganisation to a new chain in a
\* valid way" (main.cpp, SetBestChain): the tip in memory is then a chain that is
\* connected on disk.  It is not: see PostponedFails.
BestChainIsConnected == pc = "idle" => pindexBest = disk.best

\* "CTxMemPool stores valid-according-to-the-current-best-chain transactions"
\* (txmempool.h): what a pool transaction spends is in the chain or the pool, and
\* not spent in the chain.  A block that extends the best chain takes out its own
\* transactions and not their conflicts, and a reorganisation leaves in the pool
\* those that spent what it undid.
PoolIsValid ==
    pc = "idle" => \A t \in mapTx : \A o \in Ins[t] :
        Producer[o] \in disk.txs \cup mapTx /\ disk.spent[o] = None
=============================================================================
