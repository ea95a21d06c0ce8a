# Parlay in TLA+

Parlay is a proof-of-stake coin in C++ (`src/src`), a descendant of Bitcoin,
Peercoin, Novacoin and Dash. This directory holds a verification project for it:
TLA+ modules that model its core, TLC configurations that check them on small
instances, and proofs, checked by TLAPS, that hold for instances of every size.

Paths below are relative to `src/src` unless they say otherwise.

1. [The system](#1-the-system)
2. [What is modelled](#2-what-is-modelled)
3. [The runs](#3-the-runs)
4. [The proofs](#4-the-proofs)
5. [Known deviations of the code](#5-known-deviations-of-the-code)
6. [The plan](#6-the-plan)

## 1. The system

### Threads and locks

One process runs these threads: the socket thread and the message handler
(`net.cpp`), two threads that open connections, the stake miner (`miner.cpp`), the
timer of Darksend, primenodes and InstantX (`ThreadCheckDarkSendPool`, one turn a
second), the import of blocks, the flush of the wallet file, secure messaging, RPC
workers, and the graphical interface. `cs_main` guards the chain and most of the
messages, `cs_wallet` the wallet, `cs_vNodes` the list of peers, `mempool.cs` the
pool. The maps of InstantX and of the payments have no lock of their own.

### Components

| Component | State | Operations | Hard behaviour | Correct when |
| --- | --- | --- | --- | --- |
| Chain state (`main.cpp`, `txdb-leveldb.*`) | mapBlockIndex, pindexBest, pnext; LevelDB: block index, tx index with spent positions, hashBestChain | AddToBlockIndex, SetBestChain, Reorganize, Connect- and DisconnectBlock, LoadBlockIndex | batches read through, a reorganisation in several commits, a crash between them, verdicts that change under way | the database is the replay of the chain it names; memory agrees with it; trust grows |
| Memory pool (`txmempool.*`) | mapTx, mapNextTx | AcceptToMemoryPool, addUnchecked, remove, removeConflicts | changed in the middle of a reorganisation | the two maps index each other; nothing confirmed or conflicting stays |
| Block download, orphan blocks (`main.cpp`) | mapOrphanBlocks, mapOrphanBlocksByPrev, setStakeSeenOrphan, setStakeSeen | ProcessBlock, PruneOrphanBlocks, WantedByOrphan | blocks in any order, random pruning, a queue that grows while it is worked off | maps agree and are bounded; no orphan waits for a known parent |
| InstantX (`instantx.*`) | mapTxLockReq, mapTxLockReqRejected, mapTxLockVote, mapTxLocks, mapLockedInputs | txlreq, txlvote, DoConsensusVote, ProcessConsensusVote, CleanTransactionLocksList | votes before requests, conflicts, timeouts, reorganisations | locks rest on enough votes and go away |
| Key pool (`wallet.*`, `walletdb.cpp`) | setKeyPool, pool records, CReserveKey objects | reserve, keep, return, top up, renew, reload | reservations across other threads' work, a restart while reserved | each key has one owner and none is lost |
| Orphan transactions (`main.cpp`) | mapOrphanTransactions and its index by parent | AddOrphanTx, EraseOrphanTx, LimitOrphanTxSize, the tx message | recursive acceptance, random eviction | index exact, bounded; no request lost |
| Messages and inventory (`main.cpp`, `net.h`) | mapAskFor, mapAlreadyAskedFor, setInventoryKnown, pindexLastGetBlocksBegin | inv, getdata, getblocks, version, Misbehaving | lost answers, retries, a peer that leaves | what is wanted is asked for again |
| Connections (`net.cpp`) | vNodes, reference counts, semOutbound, setBanned, pnodeSync | ConnectNode, CloseSocketDisconnect, deletion | pointers held across a lock | no node is deleted while in use |
| Address manager (`addrman.*`) | mapInfo, vvNew, vvTried, vRandom | Add, Good, Attempt, Select | eviction between tables | tables, counts and vRandom agree; nothing is forgotten but for room |
| Stake kernel (`kernel.*`) | stake modifiers in the index | ComputeNextStakeModifier, CheckStakeKernelHash | selection intervals | the same modifier on every node |
| Miner (`miner.*`) | none of its own | CreateNewBlock, CheckStake | a tip that moves meanwhile | blocks it makes are valid |
| Wallet transactions (`wallet.*`) | mapWallet, vfSpent, mapTxSpends, locked coins | AddToWallet, SyncTransaction, CommitTransaction, CreateCoinStake | reorganisations, refused transactions | coins spent exactly when spent |
| Key store and encryption (`crypter.*`, `keystore.*`) | mapKeys, mapCryptedKeys, vMasterKey | EncryptWallet, Lock, Unlock | crash points | no key lost, none left in clear |
| Wallet database (`db.*`, `walletdb.*`) | mapFileUseCount, transactions | open, Flush, Rewrite, Backup | flush against use | never closed in use |
| Primenode list (`primenode*.cpp`) | vPrimenodes, mapCacheBlockHashes | dsee, dseep, dseg, Check, ranks | stale pings, reorganisations | live nodes stay, dead ones go |
| Primenode payments | vWinning, mapSeenPrimenodeVotes | AddWinningPrimenode, ProcessBlock | order of votes | nodes expect one payee |
| Active primenode | status of the local one | ManageStatus, Dseep, Register | retries | announced exactly once |
| Darksend (`darksend*`) | state, entries, session, queue | dsa, dsi, dss, dsc, Check, CheckTimeout | late signatures, timeouts, fees | sessions end, coins come free, no coin is free while it is mixed |
| Sporks (`spork.*`) | mapSporks, mapSporksActive | spork, getsporks | order, restarts | the newest value wins |
| Alerts (`alert.*`) | mapAlerts | ProcessAlert | cancellation, expiry | cancelled alerts are gone |
| Secure messaging (`smessage.*`) | buckets, sets of peers | bucket exchange, storage | time limits of peers | messages arrive once |
| Locks (`sync.*`) | lock orders seen | push_lock | several locks | the order is one |

Without state of their own, or outside: checkpoints (a table), scripts and
signatures, stealth addresses, address parsing, start-up and options, RPC and the
graphical interface (they call the components above), and the vendored LevelDB,
secp256k1, lz4 and json. `PROJECT.json` lists all of them, with the reason.

### How they meet

* A block comes in by a message, an import or the miner: ProcessBlock, AcceptBlock,
  AddToBlockIndex, SetBestChain, with `cs_main` held. SetBestChain changes the
  database, then the memory pool, and tells the wallet as it goes.
* CheckBlock asks `mapLockedInputs` of InstantX for every input, and the payments for
  the payee. Both may change between the acceptance of a block and a later
  reorganisation that reads it again.
* InstantX offers the transaction of a request to the memory pool, and ranks
  primenodes by the hash of an earlier block.
* A primenode's Darksend pool asks the memory pool for its transaction and announces it
  as a `dstx`, which other nodes take without a fee. Participants lock coins in the
  wallet while they wait.
* The tx message and the wallet offer transactions to the memory pool, which looks for
  their parents in the transaction index of the chain state.
* The wallet takes keys from the pool for change, for mined blocks and for Darksend;
  a key is taken before the transaction is committed, and kept or returned after.

## 2. What is modelled

Every action stands for a whole handler, or for the part of it between two points
where another thread or the end of the process can come in. `PROJECT.json` maps
each definition to the lines it models. A definition whose comment says "wrong on
purpose" is a faulty variant that some property has to notice.

### ChainState, BestChain

`ChainState` is one node's chain. Constants give the tree of blocks, with what
AddToBlockIndex computes for each (height, trust, ancestors), the transactions, and
the blocks that do not pay the right primenode. `disk` is LevelDB after the last
commit, `view` the same through the open batch (ScanBatch). A job under `cs_main` is
a sequence of steps:

| Step | Code |
| --- | --- |
| `AddToBlockIndex` | the index entry, its own commit, and the choice in AddToBlockIndex |
| `ExtendBestChain`, `ExtendFails` | SetBestChain, SetBestChainInner for a child of the tip |
| `StartReorganize` | the search for pindexIntermediate |
| `ReorganizeDisconnect`, `ReorganizeConnect`, `ReorganizeFails` | the loops of Reorganize, inside one batch |
| `ReorganizeCommit` | TxnCommit and the pnext links |
| `ReorganizeResurrect`, `ReorganizeDelete` | the memory pool after it |
| `ConnectPostponed`, `PostponedFails` | the postponed blocks, one batch each |
| `FinishSetBestChain` | pindexBest and the rest of "New best block" |
| `AcceptToMemoryPool` | loose transactions, between jobs |
| `LockInput`, `UnlockInput` | InstantX, at any time |
| `Restart` | the process ends anywhere; LoadBlockIndex |

Two variables are history. `postponedFailed`: a postponed block has failed since the
last start, so that pindexBest may name a block that is not connected. `torn`: a later
job has committed on top of such a tip, and the index on disk mixes two chains.

`BestChain` is what the component promises: a ledger (tip, indexed transactions,
spent outputs) that moves in one step from one connected chain to a heavier one
(`Switch`). Once it is torn it promises weight only (`Torn`).
`ImplementsBestChain` says that `disk` does that, whatever the batches look like.

`AddToBlockIndex` has no test of the block: ProcessBlock's CheckBlock is made when a block
arrives, and a block that waited as an orphan is indexed on that old verdict. ConnectBlock
calls CheckBlock again, and the model does so there. Only transactions of blocks above the
last checkpoint (`TotalBlocksEstimate`) are queued to come back.

Abstracted: script, signature, amount, time and proof-of-stake checks are the
constant validity of a block; the address index; a disk that is full.

### OrphanBlocks

ProcessBlock around AcceptBlock. A block comes (`ConnectBlock` or `KeepOrphan`), by a
message or an import; the random prune in PruneOrphanBlocks is a choice among the
leaves of the orphan trees; `WorkOffOrphan` and `NextInQueue` are the loop over
vWorkQueue, one orphan per step, because the process may end there. `Rejected` are
blocks AcceptBlock refuses before it indexes them, `Unconnectable` those for which
SetBestChain may fail afterwards. `wanted` is the block last asked for with AskFor. An
orphan is kept only if it comes from a peer, and no peer's block is taken while a file is
read (`main.cpp:3997`), so the tests that ProcessBlock skips then are made of every orphan.

### InstantX

One node's maps. A request is two steps (`ReceiveRequest`, then `AcceptRequest` or
`RejectRequest`), as it waits for `cs_main` in its middle; a vote is one. `spentBy`
stands for the memory pool and the chain, as far as they keep a request from being
accepted: `ReceiveTx`, `ConnectTx` and `LoseTx` change it. A request may be refused for
other reasons too (fees, scripts, unknown inputs), hence in any state. `TimePasses` is the hour
of a lock, `Clean` CleanTransactionLocksList. `aborted` is the end of the process in
the assertion of a read-only CTxDB (see section 5): after it nothing is claimed.
Left out: relaying and mapUnknownVotes, sporks, signatures, how ranks come about
(`Quorum` is a constant, for each height).

### KeyPool

`setKeyPool` in memory, `pool` in wallet.dat, `reserved` the CReserveKey objects, keys
numbered as they are made. `Reserve` tops up first when the wallet is unlocked, then
takes the oldest index, and finds no record only if something went wrong before; the
destructor then puts the index back. `EncryptWallet` contains NewKeyPool, which
starts at index 1 again. `Restart` reads the records back. Nothing keeps a key from being
written at an index that a CReserveKey has. Two histories follow what that does:
`rewritten`, the indices last written so, and `stranded`, the keys of such writes. The
properties hold of every other index and key, before, during and after such a write.
Left out: AddReserveKey (no caller), an end of the process inside an operation.

### AddrMan

Add_, Good_ with MakeTried, and GetAddr_, each one step, over mapInfo, mapAddr, vRandom,
vvNew and vvTried, with nNew, nTried and nRefCount. Where the hash puts an address is a
constant of its source; random choices, ages and what IsTerrible says are choices.
`Restart` writes peers.dat and reads it: entries get new numbers and the new buckets are
filled again as far as there is room. Left out: what only chooses (Select_, Attempt_,
Connected_), as any choice is allowed here.

### DarksendSession

One primenode and its participants, each with the CDarksendPool of its node and a
connection that keeps order, takes its time, and may break with all that is under way.

| Step | Code |
| --- | --- |
| `MnReceive` | the handlers of dsa, dsi and dss at the primenode, with Check, CheckFinalTransaction and what they relay |
| `CheckForCompleteQueue`, `MnTimeout`, `MnExpireEntry` | its timer |
| `StartMixing` | the timer of a participant calls DoAutomaticDenominating |
| `ClientReceive` | its handlers of dssu, dsq, dsf and dsc |
| `ClientTimeout`, `ClientExpireEntry` | its timer |
| `Disconnect`, `Tick` | connections and time |

A handler or a call of the timer is one step, though the pool has no lock of its own
and the two run in different threads: what they do to each other's data has no
defined outcome. A participant that is idle asks again whether or not the answer to its last
question is under way, as in the code; the history `overlapped` remembers who did.
`SignatureValid` is left out, since any signature passes it (section
5). Left out as well: the queue of announced pools, collateral and fees, denominations
(whether they please is a choice at each test), several coins in one entry.

### TxRelay

How a node gets loose transactions. A peer announces a hash, more than once if it likes
(`ReceiveInv` with AskFor), the request is sent when it is due (`SendGetData`), the answer
comes (`ReceiveTx`, for tx and dstx, which may also come unasked) or not (`NoAnswer`), and
the loop over vWorkQueue tries the orphans (`WorkOff`, `EraseQueued`). `Confirm`,
`Unconfirm`, `SendRaw` and `Conflict` are what the other parts do to the memory pool and
the index of transactions. AcceptToMemoryPool has three
verdicts; what a verdict rests on besides parents and copies is a choice. Left out:
what the node announces and answers itself, blocks, bans.

## 3. The runs

| Run | Module, cfg | Shows |
| --- | --- | --- |
| `chain_core` | MCChainState, ChainState_core | TypeOK, PoolIndexExact, NoConfirmedInPool, LedgerIsReplay, MemoryMatchesDisk, MainChainLinked, DiskTrustGrows, ImplementsBestChain, JobEnds, while InstantX changes verdicts in the middle of a job |
| `chain_best_connected` | MCChainState, ChainState_best_connected | refutes that pindexBest is connected |
| `chain_pool_valid` | MCChainState, ChainState_pool_valid | refutes that the pool is valid on the current chain |
| `orphan_core` | MCOrphanBlocks, OrphanBlocks_core | the seven properties of the orphan maps, QueueDrains among them; SetBestChain may fail for one block |
| `ix_core` | MCInstantX, InstantX_core | what locks rest on, and that they go away |
| `ix_votes_first` | MCInstantX, InstantX_votes_first | refutes CompleteLockHolds |
| `keypool_core` | MCKeyPool, KeyPool_core | where keys are, across renewals and restarts |
| `addrman_core` | MCAddrMan, AddrMan_core | that Check_ would find nothing, that buckets keep their size, and that hosts go only for room |
| `darksend_core` | MCDarksendSession, DarksendSession_core | that signatures fit, that mixed coins are locked unless the owner's questions overlapped, and that every coin comes free |
| `darksend_coins_locked` | MCDarksendSession, DarksendSession_coins_locked | refutes MixedCoinsAreLocked |
| `relay_core` | MCTxRelay, TxRelay_core | the index of orphans, the places of requests, and that they are settled |
| `relay_orphans_follow` | MCTxRelay, TxRelay_orphans_follow | refutes OrphansFollow |

The five runs that refute something end in a counterexample that TLC prints; each
has an entry under "findings" that quotes the comment it refutes.

### Bounds, and why they are enough

* `ChainState`: nine blocks. Three branches leave one block, so that a
  reorganisation disconnects and connects more than one block, with postponed blocks
  after the first commit, and a second one can go back. Two transactions of different
  branches spend one output; a third depends on one of them, so that it has to leave
  the pool or the chain with it; a fourth is in no block. One branch ends in a block that
  spends what its chain does not have, with one more block above it, so that a job goes
  on from a tip that never connected; one block is mispaid, maturity is one block, and
  InstantX may lock one output; the last checkpoint is the block under the branches. Two
  restarts, at any step. `chain_pool_valid` reaches one of the two ways in which a
  transaction that is not valid stays in the pool; for the other, a block that extends the
  tip and spends what a pool transaction spends, these blocks mature too late (section 5).
* `OrphanBlocks`: eight blocks besides genesis, on branches of up to three; three of them
  carry one stake, one is refused, and one may be indexed without being connected, with a
  block above each of the last two; the limit is two orphans (three can be kept), so that
  pruning starts at a root, walks down to a leaf, and has a choice of leaves.
* `InstantX`: two transactions share an input and each has one of its own; two
  primenodes, two heights with different quorums, two signatures required, which is
  the least number at which one vote is not enough. One reorganisation.
* `KeyPool`: two CReserveKey objects, so that returns come out of order; a target of
  one (pools of two keys) so that a pool is drained at once; seven keys, enough for
  an encryption and top-ups on both sides of it; one restart.
* `AddrMan`: five services on four hosts, two peers that tell of them, two new buckets
  and one tried bucket with one place each, so that every addition may evict and every
  move to tried pushes one back; five entries made at most.
* `DarksendSession`: a pool for two and two participants. Each timeout is one tick, and a
  participant waits one more; ticks and steps interleave freely, so a tick may pass between
  any two steps. In `darksend_core` one of the two may ask twice, so that an answer or a
  refusal can meet what came of the other question, and the primenode opens one session:
  a second one makes the search for a coin that stays locked too long. What one session
  leaves to the next (a late signature, an entry, a place) is what `SignaturesAlwaysFit` and
  `SessionStays` prove for any number of them. In `darksend_coins_locked` there are two
  sessions and up to three questions. It takes `PromptSpec`, in which nobody gives up or
  disconnects while an answer is under way, to find a behaviour without late answers.
* `TxRelay`: a transaction that is only mined, its child, which may come as tx or dstx, and
  a grandchild, with room for one orphan. One peer answers, announces the child once and the
  grandchild twice, and may send the dstx unasked; the other announces the grandchild and may
  not answer. mapAlreadyAskedFor keeps three entries, so that it forgets; a queue has two
  places.

Beyond these sizes the theorems of section 4 take over, where there is one.

`CHECK_DEADLOCK FALSE`: the blocks, keys, entries and restarts of an instance are finite, so a
behaviour may stop when all of them are used up; in InstantX a process that died in
an assertion stops as well. None of these ends is a deadlock of the code.

### Fairness

* `ChainState`: weak fairness of `JobStep`. The thread inside SetBestChain holds
  `cs_main` and runs to the end; nothing it does waits for another thread. Locks come
  and go without fairness. `JobEnds`: every job comes back to idle.
* `OrphanBlocks`: weak fairness of the loop over vWorkQueue, for the same reason.
  `QueueDrains`: the loop ends.
* `InstantX`: weak fairness of the clock (the hour of each lock passes) and of
  `Clean`, which ThreadCheckDarkSendPool calls once a minute when the chain is synced;
  the handlers that make locks do nothing before that. `LocksGoAway`: no lock stays in
  mapTxLocks for ever, unless the process died.
* `DarksendSession`: weak fairness of "the clock goes on, or a timer does what is due";
  ThreadCheckDarkSendPool calls the timers every second, much oftener than anything is
  due. None of messages. `CoinsComeFree`: no coin is locked for ever from some point on.
  The safety properties assume nothing about how long a message takes.
* `TxRelay`: the loop ends and the clock goes on (weak fairness); the message handler
  comes back to each peer and gets `cs_main` again and again (strong, as other work comes
  in between); a peer in `Answering` that has questions to answer answers one of them.
  Nothing that comes unasked is fair. `RequestsAreSettled`: a request queued for such a peer
  is answered, or the transaction is had, or the peer has gone.
* `AddrMan` and `KeyPool` have no liveness property: nobody must report an address, and a
  user may hold a reservation as long as he likes.

## 4. The proofs

Proofs stand in modules of their own, `ChainStateProofs`, `OrphanBlocksProofs`,
`InstantXProofs`, `KeyPoolProofs`, `AddrManProofs`, `DarksendProofs` and `TxRelayProofs`,
each on an inductive invariant named `IInv`. They assume the named assumptions on the
constants, nothing else. `LeastNumber` proves that a non-empty set of naturals has a least
element; it stands in for induction. Each of the seven has `TypeCorrect`, that TypeOK
always holds.

| Module | Theorem | States, for every value of the constants |
| --- | --- | --- |
| ChainStateProofs | `PoolIsIndexed` | PoolIndexExact |
| | `ConfirmedLeavesPool` | NoConfirmedInPool |
| | `BestChainOnDiskGrows` | DiskTrustGrows |
| | `DiskIsReplay` | LedgerIsReplay |
| | `RestartChangesNothing` | MemoryMatchesDisk |
| | `LinksMarkBestChain` | MainChainLinked |
| | `DatabaseImplements` | ImplementsBestChain |
| | `OnlyFailureTears` | `torn` begins only after a failed postponed reconnection, with no restart since |
| OrphanBlocksProofs | `OrphansIndexed` | OrphanMapsAgree |
| | `StakesOfOrphansLive` | StakeSeenOrphanLive |
| | `OrphansAreBounded` | OrphansBounded |
| | `NoOrphanLeftBehind` | OrphanWaitsForParent |
| | `AskedForIsMissing` | WantedIsMissing |
| InstantXProofs | `VotesAreDistinct` | VotesCountOnce |
| | `AcceptedLocksExpire` | AcceptedLockExpires |
| | `AcceptedLocksHaveVotes` | AcceptedLockByVotes |
| | `InputsLockedTogether` | LockedTogether |
| KeyPoolProofs | `PoolHasRecords` | PoolReadable |
| | `KeysUsedOnce` | KeyUsedOnce |
| | `NoKeyIsLost` | NoKeyLost |
| | `NeverReusedUnencrypted` | UnencryptedNeverReuses, if `-keypool` is at least 1 |
| AddrManProofs | `ChecksHold` | TablesAgree |
| | `BucketsStayBounded` | BucketsBounded |
| | `HostsForgottenForRoom` | ForgottenForRoom |
| DarksendProofs | `SessionStays` | SessionNotReplaced |
| | `SignaturesAlwaysFit` | SignaturesFit |
| | `MixedCoinsStayLocked` | LockedUnlessOverlapped |
| TxRelayProofs | `IndexOfOrphans` | OrphanIndexExact |
| | `QueuePositions` | OneUnlessUnasked |
| | `OrphansNotAccepted` | LoopAcceptsNothing, the reason why OrphansFollow fails |

The arguments:

* **Chain, the disk.** `IInv` is `Typed /\ JobInv /\ TrustInv /\ LedgerInv`.
  LedgerIsReplay speaks of the disk only, but a step that commits writes what the batch
  holds. So the invariant carries the same statement about `view` and `tip`, the block to
  which the batch is connected (`LedgerInv`), what the batch may hold beyond the disk at
  each place of the job (`JobInv`), and how trust orders the old tip, the pivot and the
  new tip (`TrustInv`). The replay alone is not inductive: a disconnected block must take
  away just what it added, so no transaction may be on a chain twice. The code has no test
  for that when it connects a block; it follows, in `ConnectedTxsAreFresh`, from the
  inputs: the first repeated transaction of a block would spend what it spent before.
* **Chain, the memory.** `MemInv` says that the block index is closed under parents and
  that the forward links in memory are `LinksOf` the best chain. During a reorganisation
  the batch has the links of `tip` instead, and `tip` is never below the fork. A function
  with the links of a block is unique, so what is in memory after a commit is what a
  restart would read.
* **Chain, the refinement.** A replay determines the index of transactions. So a step that
  changes the disk and leaves the best block alone changes nothing the abstract machine
  sees, and any other is its Switch. A postponed block that fails changes nothing on
  disk, so it needs no step there; a commit from the tip it leaves is `Torn`
  (`TornStep`, `TornForGood`). `TornByFailure` reads off `LedgerInv` that the tip in
  memory is the disk's unless a postponed block has failed since the last start: the
  machine cannot take `Torn` on any other path.
* **Orphans.** `IInv` is `Typed /\ MapsInv /\ BoundInv`: both maps hold the same blocks and
  stakes belong to orphans between calls, and one orphan goes for each that comes when
  the limit is passed. Pruning finds a leaf, and WantedByOrphan a missing ancestor,
  because heights fall along hashPrevBlock (`LeastNumber`). That no orphan is left
  behind needs an invariant of the queue (`WaitInv`): the parent of an orphan, if it is
  indexed and SetBestChain cannot have failed for it, is still in vWorkQueue.
* **InstantX.** `IInv` is `LocksOK /\ MapsTyped /\ RequestInv /\ AcceptedLockExpires`: what a
  stored lock looks like, that no request is both accepted and refused, that the request
  in the handler is neither yet, and that an input is locked for a transaction that has
  it. Without these, a clean-up could release the inputs of another request.
  LockedTogether adds `TogetherInv`: as long as no block has been taken back, the inputs of
  an accepted request are spent by it, so two accepted requests have none in common, and
  a request that is neither accepted nor refused has locked nothing.
* **Key pool.** Each operation first adds keys and then takes, keeps or returns one. So the
  invariant is a predicate `Sound` of a set of indices, records and reservations that each
  part preserves on its own, and `Bounded` keeps everything below the next key. Sound holds
  without condition: it says where each index and key is except those in `rewritten` and
  `stranded`. So one has to show that a write over a reservation puts into these sets all
  that it touches, and that keeping or returning an index of `rewritten` later spoils no
  other one. `NeverReusedUnencrypted` adds `Ahead`: in a wallet that was never locked some
  key of the pool lies behind every reserved one. A top-up leaves one key more than the
  target, so that there are two when one is taken.
* **Addresses.** Each operation is a chain of parts (Create, ShrinkNew, MakeTried, Delete) on
  a record of the tables, and between parts an entry may be in no bucket. So `Sound(t,
  loose)` says that the tables agree but for the entries in `loose`, and each part has a
  lemma on what it does to that; `IInv` is Sound with nothing loose, and the sizes.
* **Darksend.** One lemma for each operator on the primenode's side and on a
  participant's, as a step is a chain of them. SessionNotReplaced needs that a session
  with an id has users. A refused entry costs a place, but only AddEntry's refusals do,
  and they come only when the session is full, which with MaxPoolTransactions above one
  leaves a user; whatever else lowers the count clears the id with it. SignaturesFit needs
  `FitInv`, which relates the primenode's entries to every message under way. Nothing in a
  dss says for which session it is, and SignatureValid lets any signature pass. But the
  output of an entry is new each time its owner makes one, and a connection keeps the
  order, so the entries of one coin come in the order they were made (`Before`). A
  transaction that was ever sent out in a dsf is that of the session that lasts, or has no
  entry in common with the pool, which has none older than its entries either (`Past`). A
  signature comes after its entry, so where it arrives the pool has nothing of its coin
  that is newer (`After`): it has that entry, and the transaction is the session's own, or
  AddScriptSig finds no entry for it. LockedUnlessOverlapped needs `KnowInv`: what a
  participant that is not in `overlapped` knows of the session, or will know from what is
  under way. A coin is unlocked when its owner leaves the pool: for an answer that
  refuses, a status of an error, a dsc, or a timeout. So whoever has signed (`Signs`) must
  have its entry still, no question or answer under way, and nothing else that would take
  it out of the late states (`Holds`). This is inductive only with the rest. Whoever never
  overlapped has one question or one answer at most between it and the primenode
  (`Single`, `Asked`), so the answer it takes is to its last question, and one who was
  refused has no entry in the pool. Of the others nothing is known, and each lemma shows
  that what they do leaves the rest alone. A message under way says no more than is true
  (`MsgOk`): when it names the session that lasts, a late state is one the primenode has
  reached, and a dsf has the transaction. The status FINALIZE_TRANSACTION goes out before
  the dsf on each connection, so a participant knows of the transaction when it signs
  (`ReadyOk`, `Ready`, `Awaits`). It learns of it no earlier than the primenode, so its
  clock is not ahead (`LateOk`), and AddLagTime is more than nothing: the primenode gives
  up first, and with that the session is over. That lag is the "few extra seconds" of
  CheckTimeout; with a lag of nothing TLC finds a coin unlocked before its transaction is
  out. For a participant that overlapped it is `Single` that fails, and
  `darksend_coins_locked` has the behaviour.
* **Relay.** `IInv` is `TypeOK /\ OrphanIndexExact /\ QueueInv /\ PositionInv`. What the
  loop over vWorkQueue works off was accepted in this call, hence is not in the
  transaction index (`QueueInv`). As the orphan index is exact, each orphan the loop tries
  has such a transaction for a parent, and AcceptToMemoryPool, which asks the index only,
  refuses it. OneUnlessUnasked is inductive with setAskFor in it: AskFor queues a hash
  only if setAskFor does not have it, which tells nothing unless every place that exists
  is in setAskFor. Besides an answer, which removes the place with the hash, only a
  transaction that was not asked for takes a hash out of setAskFor.

Only model-checked: the liveness properties (JobEnds, QueueDrains, LocksGoAway,
RequestsAreSettled, CoinsComeFree), as the prover has no fairness and no ENABLED. Every
safety property of a run that holds is proved. SessionNotReplaced is proved only. Nothing
here depends on a recursive operator or on induction over data, which the prover could not
follow: heights and ancestors are constants with their defining equations assumed.

## 5. Known deviations of the code

With a run and a finding:

1. A postponed block that fails leaves pindexBest on a block that is not connected
   (`main.cpp:2254`, `chain_best_connected`). The disk is still the replay of the
   chain it names, and a restart goes back to that. The harm is done when a block comes
   first: its job goes on from the tip that is not connected and commits (`torn`).
   LedgerIsReplay, MainChainLinked and the Switch of BestChain hold until then.
2. A reorganisation ignores the verdict on the transactions it offers to the pool again, and
   leaves those in the pool that spend an output of one that does not return (`main.cpp:2155`,
   `chain_pool_valid`). There is a second way, which the blocks of that run do not reach: a
   block that extends the chain takes its own transactions out of the pool and never calls
   removeConflicts, so what conflicts with them stays (`main.cpp:2189`).
3. Votes that come before the request lock nothing (`instantx.cpp:248`,
   `ix_votes_first`).
4. A Darksend participant asks again before the answer to its last question has come, and
   the late refusal unlocks a coin that is being mixed (`darksend.cpp:2300`,
   `darksend_coins_locked`). It takes no timeout: in the run's counterexample a status
   relayed by the primenode makes the participant idle. An answer later than the 40 seconds
   a participant waits does the same.
5. Orphan transactions do not follow their parent into the pool (`main.cpp:795`,
   `relay_orphans_follow`): parents are looked for in txdb only, so the loop over vWorkQueue
   accepts none, which `OrphansNotAccepted` proves. When the parent is confirmed nothing looks
   at the orphans, and AlreadyHave counts them as known, so they are not asked for until
   they are evicted.

Seen while modelling, without a run of their own. The models have the first four, and the
properties make an exception for just what they do:

* When SetBestChain fails for a block that is indexed, ProcessBlock returns before it looks
  for orphans, and those below the block wait for ever, or until they are pruned
  (`main.cpp:2835`), though the holding area is for the time "until we get it" (2794):
  hence `\ Unconnectable` in OrphanWaitsForParent.
* A key is written at an index that a CReserveKey has, by NewKeyPool or by a top-up after
  the last key of the pool was taken (`wallet.cpp:4015`, `4047`). Returning the index makes
  the new key available to two, against "so it won't be used again" (3657). Keeping it erases
  the record of the new key, and the next reservation throws "read failed" (4082); without
  `\ rewritten` in PoolReadable TLC finds that in five states: top up, reserve, encrypt, keep.
* A transaction that comes unasked takes its hash out of setAskFor (`main.cpp:3938`) and
  leaves its place in mapAskFor, so that the next inv gives it a second one, against the
  comment in AskFor (`net.h:558`): hence `unasked` in OneUnlessUnasked.
* A refused InstantX request locks its free inputs without a vote (`instantx.cpp:103`), and
  CheckBlock refuses blocks on such a lock, though it means to do so only "when it's based on
  complete consensus" (`main.cpp:2473`): hence AcceptedLockByVotes is about accepted requests.
* A vote that completes the lock of a refused request calls DisconnectBlock with a
  pindex that is not set and writes through a CTxDB opened for reading, which asserts
  (`instantx.cpp:390`, `txdb-leveldb.h:131`). The model stops there (`aborted`).
* A complete lock in conflict with a refused request's input is cancelled with it
  (`instantx.cpp:413`); the inputs of a refused request are never released, since
  CleanTransactionLocksList looks at mapTxLockReq only (`instantx.cpp:450`).
* LockedTogether is about accepted requests, until a block takes a transaction back
  (`reorgs = 0`): then two accepted requests may share an input, and each holds a part. A
  refused request may lose one input and keep the others at any time: the clean-up of an
  accepted request erases its inputs whoever holds them (`instantx.cpp:453`).
* Two orphan blocks may carry one stake; erasing one forgets both (`main.cpp:1346`).
* AskFor lets one more request in than MAPASKFOR_MAX_SZ (`net.h:556`), and
  SETASKFOR_MAX_SZ (`net.h:53`) is used nowhere. A hash whose answer comes late, after
  AlreadyHave, or whose dstx is refused, stays in setAskFor, so that peer is not asked
  for it again. Announcements of one hash as MSG_TX and as MSG_DSTX share setAskFor: the
  second is dropped.
* SelectTried swaps the chosen entry of the shuffled bucket to another place and then
  returns the place it came from (`addrman.cpp:131`): the entry that is evicted need not be
  the one tried least recently. The model allows any.
* Darksend. A mix that fails is announced with
  session 0, since SetNull comes first (`darksend.cpp:597`), so the participants ignore it.
  dsi carries no session id: a participant of an old session can take a place in a new
  one. SignatureValid never finds the input, so any signature passes. CheckTimeout's "few
  extra seconds" do not apply to the entries of a participant, which expire without them.
  IsExpired says "120 seconds" (`darksend.h:147`) of a limit of 30.
  RelayCompletedTransaction sends a string where the handler reads a number.

## 6. The plan

Done: `BestChain`, `ChainState`, `OrphanBlocks`, `InstantX`, `KeyPool`, `AddrMan`,
`DarksendSession`, `TxRelay`, their runs and the theorems above. What is left, in this
order:

1. `WalletTxs`: vfSpent and mapTxSpends over AddToWallet, CommitTransaction, confirmed
   and conflicting transactions, reorganisations and refused commits. Abstract
   specification: a coin is spent when a live transaction of the wallet spends it.
   Theorem: the two indices of spends agree.
2. `PrimenodePayments` with the primenode list and sporks: winners by height, in any
   order of votes and over reorganisations. Abstract specification: one winner per
   height, the one with the highest score.
3. `LockVoting`: several nodes with InstantX and its quorums, as a composition:
   two requests with a common input are never both complete at two nodes, as long as
   votes are one per primenode.
4. `NodeRefs` (reference counts of peers) and `WalletFile` (use counts against the flush
   thread).

Proofs next: with the new modules, their type invariants and the theorems named above.

The number of runs is kept small: a component has one run for what holds, and there are five
for statements of the code that do not hold. A new module joins a run of its
component, or replaces one whose question is settled by a proof.
