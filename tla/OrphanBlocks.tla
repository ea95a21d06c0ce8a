---------------------------- MODULE OrphanBlocks ----------------------------
(***************************************************************************)
(* ProcessBlock of main.cpp: blocks arrive in any order, those whose       *)
(* parent is not known wait in mapOrphanBlocks, and the arrival of a       *)
(* parent works off the orphans that hang below it.                        *)
(*                                                                         *)
(* All of it runs with cs_main held.  What follows AcceptBlock is modelled *)
(* one orphan at a time, because the process may stop in between.  A block *)
(* ProcessBlock refuses changes nothing, so a refusal is no step here.     *)
(***************************************************************************)
EXTENDS Naturals, Sequences, FiniteSets

CONSTANTS
    Block,            \* the blocks that exist
    Genesis,
    Parent,           \* [Block \ {Genesis} -> Block], hashPrevBlock
    Height,           \* [Block -> Nat]
    Ancestors,        \* [Block -> SUBSET Block], a block and what is below it
    Stake,            \* [Block -> stake or None], GetProofOfStake
    Rejected,         \* blocks AcceptBlock refuses before it indexes them
    Unconnectable,    \* blocks that SetBestChain may fail to connect
    MaxOrphanBlocks,  \* -maxorphanblocks
    MaxRestarts,      \* bound: how often the process stops and starts again
    None              \* a proof-of-work block's stake; nothing asked for

ASSUME OrphanTreeAssumption ==
    /\ Genesis \in Block
    /\ Parent \in [Block \ {Genesis} -> Block]
    /\ Height \in [Block -> Nat]
    /\ Ancestors \in [Block -> SUBSET Block]
    /\ Ancestors[Genesis] = {Genesis}
    /\ \A b \in Block \ {Genesis} :
         /\ Height[b] = Height[Parent[b]] + 1
         /\ Ancestors[b] = Ancestors[Parent[b]] \cup {b}
    /\ Stake[Genesis] = None

ASSUME OrphanMiscAssumption ==
    /\ Rejected \subseteq Block \ {Genesis}
    /\ Unconnectable \subseteq Block
    /\ MaxOrphanBlocks \in Nat
    /\ MaxRestarts \in Nat
    /\ None \notin Block

VARIABLES
    mapBlockIndex,          \* the indexed blocks, on disk as well
    setStakeSeen,           \* stakes of the indexed blocks
    mapOrphanBlocks,        \* blocks that wait for their parent, by hash
    mapOrphanBlocksByPrev,  \* the same blocks, by the hash of their parent
    setStakeSeenOrphan,     \* stakes of the waiting blocks
    wanted,                 \* the block last asked for with AskFor
    vWorkQueue,             \* accepted blocks whose orphans are worked off
    restarts                \* history: restarts so far

orphanVars == <<mapOrphanBlocks, mapOrphanBlocksByPrev, setStakeSeenOrphan>>
indexVars  == <<mapBlockIndex, setStakeSeen>>
vars       == <<indexVars, orphanVars, wanted, vWorkQueue, restarts>>

Idle == vWorkQueue = <<>>

StakesOf(S) == { Stake[b] : b \in S } \ {None}

\* The blocks of a map by parent that hang below b.
ChildrenIn(S, b) == { c \in S : c # Genesis /\ Parent[c] = b }

-----------------------------------------------------------------------------
Init ==
    /\ mapBlockIndex = {Genesis} /\ setStakeSeen = {}
    /\ mapOrphanBlocks = {} /\ mapOrphanBlocksByPrev = {} /\ setStakeSeenOrphan = {}
    /\ wanted = None /\ vWorkQueue = <<>> /\ restarts = 0

\* "Duplicate stake allowed only when there is orphan child block": the test made
\* on setStakeSeen of every block and on setStakeSeenOrphan of an orphan.
StakeAllowed(b, seen) ==
    Stake[b] # None /\ Stake[b] \in seen => ChildrenIn(mapOrphanBlocksByPrev, b) # {}

\* What AcceptBlock may answer.  It may answer no of a block it has indexed.
Verdicts(b) == IF b \in Rejected \cup mapBlockIndex THEN {FALSE}
               ELSE IF b \in Unconnectable THEN BOOLEAN ELSE {TRUE}

\* AcceptBlock and AddToBlockIndex, for the state kept here.
AcceptBlock(b) ==
    IF b \in Rejected \cup mapBlockIndex THEN UNCHANGED indexVars
    ELSE /\ mapBlockIndex' = mapBlockIndex \cup {b}
         /\ setStakeSeen' = setStakeSeen \cup StakesOf({b})

\* Wrong on purpose: one more orphan than the limit before one is dropped.
PrunableLate ==
    IF Cardinality(mapOrphanBlocksByPrev) <= MaxOrphanBlocks + 1 THEN {{}}
    ELSE { {p} : p \in { q \in mapOrphanBlocksByPrev : ChildrenIn(mapOrphanBlocksByPrev, q) = {} } }

\* PruneOrphanBlocks drops nothing up to the limit; beyond it, it follows a random
\* block to one that no orphan hangs below.
Prunable ==
    IF Cardinality(mapOrphanBlocksByPrev) <= MaxOrphanBlocks THEN {{}}
    ELSE { {p} : p \in { q \in mapOrphanBlocksByPrev : ChildrenIn(mapOrphanBlocksByPrev, q) = {} } }

\* Wrong on purpose: the first block of the chain of orphans, which is here
\* (GetOrphanRoot), in place of the one that is missing below it.
WantedByOrphanRoot(b, orphans) ==
    CHOOSE w \in Ancestors[b] \cap orphans : Parent[w] \notin orphans

\* WantedByOrphan: the first block below b that is no orphan.
WantedByOrphan(b, orphans) ==
    CHOOSE w \in Ancestors[b] \ orphans : \A v \in Ancestors[b] \ orphans : Height[v] <= Height[w]

\* Wrong on purpose: the stake of the orphan dropped is not forgotten.
AddOrphanKeepsStake(b, gone) ==
    /\ mapOrphanBlocks' = (mapOrphanBlocks \ gone) \cup {b}
    /\ mapOrphanBlocksByPrev' = (mapOrphanBlocksByPrev \ gone) \cup {b}
    /\ setStakeSeenOrphan' = setStakeSeenOrphan \cup StakesOf({b})

\* Wrong on purpose: the orphan dropped stays in the map by parent.
AddOrphanDangling(b, gone) ==
    /\ mapOrphanBlocks' = (mapOrphanBlocks \ gone) \cup {b}
    /\ mapOrphanBlocksByPrev' = mapOrphanBlocksByPrev \cup {b}
    /\ setStakeSeenOrphan' = (setStakeSeenOrphan \ StakesOf(gone)) \cup StakesOf({b})

\* Wrong on purpose: a proof-of-work orphan is noted as a stake as well.
AddOrphanAnyStake(b, gone) ==
    /\ mapOrphanBlocks' = (mapOrphanBlocks \ gone) \cup {b}
    /\ mapOrphanBlocksByPrev' = (mapOrphanBlocksByPrev \ gone) \cup {b}
    /\ setStakeSeenOrphan' = (setStakeSeenOrphan \ StakesOf(gone)) \cup {Stake[b]}

AddOrphan(b, gone) ==
    /\ mapOrphanBlocks' = (mapOrphanBlocks \ gone) \cup {b}
    /\ mapOrphanBlocksByPrev' = (mapOrphanBlocksByPrev \ gone) \cup {b}
    /\ setStakeSeenOrphan' = (setStakeSeenOrphan \ StakesOf(gone)) \cup StakesOf({b})

\* ProcessBlock of a block whose parent is unknown, from a peer: it is kept, and
\* the peer is asked for what is missing (not during the initial download).  A peer's
\* block is not taken while a file is read (ProcessMessage), so both tests are made.
KeepOrphan(b) ==
    /\ Idle
    /\ b \notin mapBlockIndex \cup mapOrphanBlocks
    /\ StakeAllowed(b, setStakeSeen)
    /\ Parent[b] \notin mapBlockIndex
    /\ StakeAllowed(b, setStakeSeenOrphan)
    /\ \E gone \in Prunable : AddOrphan(b, gone)
    /\ wanted' \in {wanted, WantedByOrphan(b, mapOrphanBlocks')}
    /\ UNCHANGED <<indexVars, vWorkQueue, restarts>>

\* ProcessBlock of a block whose parent is indexed.  The test of setStakeSeen is
\* skipped for the blocks of a file (fReindex, fImporting).
ConnectBlock(b, importing) ==
    /\ Idle
    /\ b \notin mapBlockIndex \cup mapOrphanBlocks
    /\ importing \/ StakeAllowed(b, setStakeSeen)
    /\ Parent[b] \in mapBlockIndex
    /\ AcceptBlock(b)
    /\ \E accepted \in Verdicts(b) : vWorkQueue' = IF accepted THEN <<b>> ELSE <<>>
    /\ UNCHANGED <<orphanVars, wanted, restarts>>

\* Wrong on purpose: an accepted orphan's own orphans are not worked off.
WorkOffOrphanNotBelow(c) ==
    /\ ~ Idle
    /\ c \in ChildrenIn(mapOrphanBlocksByPrev, Head(vWorkQueue)) \cap mapOrphanBlocks
    /\ AcceptBlock(c)
    /\ mapOrphanBlocks' = mapOrphanBlocks \ {c}
    /\ setStakeSeenOrphan' = setStakeSeenOrphan \ StakesOf({c})
    /\ UNCHANGED <<mapOrphanBlocksByPrev, wanted, vWorkQueue, restarts>>

\* Wrong on purpose: the orphan stays, and is worked off again.
WorkOffOrphanAgain(c) ==
    /\ ~ Idle
    /\ c \in ChildrenIn(mapOrphanBlocksByPrev, Head(vWorkQueue)) \cap mapOrphanBlocks
    /\ AcceptBlock(c)
    /\ \E accepted \in Verdicts(c) :
         vWorkQueue' = IF accepted THEN Append(vWorkQueue, c) ELSE vWorkQueue
    /\ UNCHANGED <<mapOrphanBlocks, setStakeSeenOrphan, mapOrphanBlocksByPrev, wanted, restarts>>

\* One turn of the inner loop over the orphans below the block at the head of the
\* queue; the orphan is gone whatever AcceptBlock says.
WorkOffOrphan(c) ==
    /\ ~ Idle
    /\ c \in ChildrenIn(mapOrphanBlocksByPrev, Head(vWorkQueue)) \cap mapOrphanBlocks
    /\ AcceptBlock(c)
    /\ \E accepted \in Verdicts(c) :
         vWorkQueue' = IF accepted THEN Append(vWorkQueue, c) ELSE vWorkQueue
    /\ mapOrphanBlocks' = mapOrphanBlocks \ {c}
    /\ setStakeSeenOrphan' = setStakeSeenOrphan \ StakesOf({c})
    /\ UNCHANGED <<mapOrphanBlocksByPrev, wanted, restarts>>

\* The end of the inner loop: mapOrphanBlocksByPrev.erase(hashPrev).
NextInQueue ==
    /\ ~ Idle
    /\ ChildrenIn(mapOrphanBlocksByPrev, Head(vWorkQueue)) \cap mapOrphanBlocks = {}
    /\ mapOrphanBlocksByPrev' = mapOrphanBlocksByPrev \ ChildrenIn(mapOrphanBlocksByPrev, Head(vWorkQueue))
    /\ vWorkQueue' = Tail(vWorkQueue)
    /\ UNCHANGED <<indexVars, mapOrphanBlocks, setStakeSeenOrphan, wanted, restarts>>

\* The index and its stakes are read back from disk, orphans are in memory only.
Restart ==
    /\ restarts < MaxRestarts
    /\ restarts' = restarts + 1
    /\ mapOrphanBlocks' = {} /\ mapOrphanBlocksByPrev' = {} /\ setStakeSeenOrphan' = {}
    /\ wanted' = None /\ vWorkQueue' = <<>>
    /\ setStakeSeen' = StakesOf(mapBlockIndex)
    /\ UNCHANGED mapBlockIndex

QueueStep == NextInQueue \/ \E c \in Block : WorkOffOrphan(c)

Next ==
    \/ \E b \in Block \ {Genesis} : KeepOrphan(b)
    \/ \E b \in Block \ {Genesis} : \E importing \in BOOLEAN : ConnectBlock(b, importing)
    \/ QueueStep
    \/ Restart

Spec == Init /\ [][Next]_vars

\* The loop over vWorkQueue runs to its end with cs_main held.
FairSpec == Spec /\ WF_vars(QueueStep)

-----------------------------------------------------------------------------
(* Properties. *)

\* Every variable has its type.
TypeOK ==
    /\ mapBlockIndex \subseteq Block /\ mapOrphanBlocks \subseteq Block
    /\ mapOrphanBlocksByPrev \subseteq Block
    /\ setStakeSeen \subseteq StakesOf(Block) /\ setStakeSeenOrphan \subseteq StakesOf(Block)
    /\ wanted \in Block \cup {None}
    /\ vWorkQueue \in Seq(Block)
    /\ restarts \in 0..MaxRestarts

\* The two maps point at the same orphans: no pointer of mapOrphanBlocksByPrev
\* outlives its block, but for those the work queue is about to erase.
OrphanMapsAgree ==
    /\ mapOrphanBlocks \subseteq mapOrphanBlocksByPrev
    /\ mapOrphanBlocksByPrev \ mapOrphanBlocks \subseteq
         (IF Idle THEN {} ELSE ChildrenIn(Block, Head(vWorkQueue)))

\* PruneOrphanBlocks, which runs before the insertion, keeps the maps bounded
\* however the orphans depend on each other.
OrphansBounded == Cardinality(mapOrphanBlocks) <= MaxOrphanBlocks + 1

\* A stake is not held against later orphans when no orphan has it any more,
\* whichever way the orphan left: pruned, accepted or refused.
StakeSeenOrphanLive == setStakeSeenOrphan \subseteq StakesOf(mapOrphanBlocks)

\* "shunt it off to holding area until we get it" (main.cpp, ProcessBlock): no
\* block waits for a parent that is indexed, whatever the order of arrival.  The
\* exception are parents that were indexed and not connected: ProcessBlock returns
\* before it looks for the orphans of a block that AcceptBlock says no to.
OrphanWaitsForParent ==
    Idle => \A o \in mapOrphanBlocks : Parent[o] \notin mapBlockIndex \ Unconnectable

\* The block asked for on behalf of an orphan is one the node does not have, so
\* that its arrival lets the chain of orphans in; with the same exception.
WantedIsMissing ==
    [][wanted' \notin {wanted, None} =>
           wanted' \notin (mapBlockIndex \ Unconnectable) \cup mapOrphanBlocks']_vars

\* ProcessBlock's loop over the orphans of an accepted block ends.
QueueDrains == ~ Idle ~> Idle
=============================================================================
