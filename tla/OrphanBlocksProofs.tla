------------------------- MODULE OrphanBlocksProofs -------------------------
(***************************************************************************)
(* What holds of OrphanBlocks for every tree of blocks, every stake and    *)
(* every limit.                                                            *)
(***************************************************************************)
EXTENDS OrphanBlocks, LeastNumber, FiniteSetTheorems, TLAPS

\* The types the proofs need: genesis is always indexed and is never an orphan.
Typed ==
    /\ mapBlockIndex \subseteq Block /\ Genesis \in mapBlockIndex
    /\ mapOrphanBlocks \subseteq Block \ {Genesis}
    /\ mapOrphanBlocksByPrev \subseteq Block \ {Genesis}
    /\ setStakeSeen \subseteq StakesOf(Block) /\ setStakeSeenOrphan \subseteq StakesOf(Block)
    /\ wanted \in Block \cup {None}
    /\ vWorkQueue \in Seq(Block)
    /\ restarts \in 0..MaxRestarts

MapsInv == OrphanMapsAgree /\ StakeSeenOrphanLive

\* An orphan whose parent is indexed is about to be worked off, unless SetBestChain
\* may have failed for the parent.
WaitInv ==
    \A o \in mapOrphanBlocks :
        Parent[o] \in mapBlockIndex \ Unconnectable => \E i \in DOMAIN vWorkQueue : vWorkQueue[i] = Parent[o]

BoundInv ==
    /\ IsFiniteSet(mapOrphanBlocksByPrev)
    /\ Cardinality(mapOrphanBlocksByPrev) <= MaxOrphanBlocks + 1

-----------------------------------------------------------------------------
\* The two answers of PruneOrphanBlocks: nothing up to the limit, one orphan beyond.
LEMMA PrunableIs ==
    ASSUME NEW gone \in Prunable
    PROVE  \/ gone = {} /\ Cardinality(mapOrphanBlocksByPrev) <= MaxOrphanBlocks
           \/ \E p \in mapOrphanBlocksByPrev : gone = {p}
  BY DEF Prunable

-----------------------------------------------------------------------------
(* The chain below a block. *)

\* A chain has its tip and Genesis, its blocks are no higher than the tip, and
\* each but the tip is the parent of another.
LEMMA AncestorChain ==
    ASSUME NEW b \in Block
    PROVE  /\ Ancestors[b] \subseteq Block /\ Genesis \in Ancestors[b] /\ b \in Ancestors[b]
           /\ \A v \in Ancestors[b] : Height[v] <= Height[b]
           /\ \A v \in Ancestors[b] \ {b} : \E u \in Ancestors[b] \ {Genesis} : Parent[u] = v
<1> DEFINE Good(c) == /\ Genesis \in Ancestors[c] /\ c \in Ancestors[c]
                      /\ \A v \in Ancestors[c] : Height[v] <= Height[c]
                      /\ \A v \in Ancestors[c] \ {c} : \E u \in Ancestors[c] \ {Genesis} : Parent[u] = v
<1> DEFINE H == { Height[c] : c \in { d \in Block : ~ Good(d) } }
<1>1. Good(Genesis)
    BY OrphanTreeAssumption DEF OrphanTreeAssumption
<1>2. ASSUME NEW c \in Block \ {Genesis}, Good(Parent[c]) PROVE Good(c)
    <2>1. /\ Ancestors[c] = Ancestors[Parent[c]] \cup {c}
          /\ Height[c] = Height[Parent[c]] + 1
          /\ Parent[c] \in Block /\ Ancestors[Parent[c]] \subseteq Block
          /\ Height \in [Block -> Nat]
        BY OrphanTreeAssumption DEF OrphanTreeAssumption
    <2>2. ASSUME NEW v \in Ancestors[c] PROVE Height[v] <= Height[c]
        <3>1. v = c \/ (v \in Block /\ Height[v] <= Height[Parent[c]])
            BY <1>2, <2>1
        <3>2. Height[c] \in Nat /\ Height[Parent[c]] \in Nat /\ (v \in Block => Height[v] \in Nat)
            BY <2>1
        <3> QED BY <2>1, <3>1, <3>2
    <2>3. ASSUME NEW v \in Ancestors[c] \ {c} PROVE \E u \in Ancestors[c] \ {Genesis} : Parent[u] = v
        <3>1. CASE v = Parent[c]
            BY <2>1, <3>1
        <3>2. CASE v # Parent[c]
            BY <1>2, <2>1, <3>2
        <3> QED BY <3>1, <3>2
    <2> QED BY <1>2, <2>1, <2>2, <2>3
<1> HIDE DEF Good
<1>3. H \in SUBSET Nat
    BY OrphanTreeAssumption DEF OrphanTreeAssumption
<1>4. ASSUME H # {} PROVE FALSE
    <2>1. PICK m \in H : \A k \in H : m <= k
        <3> HIDE DEF H
        <3> QED BY <1>3, <1>4, LeastNat
    <2>2. PICK c \in Block : ~ Good(c) /\ m = Height[c]
        BY <2>1
    <2>3. c # Genesis
        BY <1>1, <2>2
    <2>4. Parent[c] \in Block /\ ~ Good(Parent[c])
        BY <1>2, <2>2, <2>3, OrphanTreeAssumption DEF OrphanTreeAssumption
    <2>5. Height[Parent[c]] \in H
        BY <2>4
    <2>6. m <= Height[Parent[c]]
        <3> HIDE DEF H
        <3> QED BY <2>1, <2>5
    <2>7. Height[c] = Height[Parent[c]] + 1 /\ Height[Parent[c]] \in Nat
        BY <2>3, <2>4, OrphanTreeAssumption DEF OrphanTreeAssumption
    <2> QED BY <2>2, <2>6, <2>7
<1>5. Good(b)
    BY <1>4
<1>6. Ancestors[b] \subseteq Block
    BY OrphanTreeAssumption DEF OrphanTreeAssumption
<1> QED BY <1>5, <1>6 DEF Good

\* What WantedByOrphan returns for an orphan b: a block that is no orphan, and the
\* parent of one.
LEMMA WantedIs ==
    ASSUME NEW b \in Block, NEW S, b \in S, Genesis \notin S
    PROVE  LET w == WantedByOrphan(b, S)
           IN  w \in Block \ S /\ \E u \in S : u # Genesis /\ Parent[u] = w
<1> DEFINE Free == Ancestors[b] \ S
           D == { Height[b] - Height[v] : v \in Free }
           w == WantedByOrphan(b, S)
<1>1. Height \in [Block -> Nat]
    BY OrphanTreeAssumption DEF OrphanTreeAssumption
<1>2. Free \subseteq Block /\ Genesis \in Free /\ \A v \in Free : Height[v] <= Height[b]
    BY AncestorChain
<1>3. D \in SUBSET Nat /\ D # {}
    BY <1>1, <1>2
<1>4. PICK m \in D : \A k \in D : m <= k
    <2> HIDE DEF D
    <2> QED BY <1>3, LeastNat
<1>5. PICK top \in Free : m = Height[b] - Height[top]
    BY <1>4
<1>6. \A v \in Free : Height[v] <= Height[top]
    <2> SUFFICES ASSUME NEW v \in Free PROVE Height[v] <= Height[top]
        OBVIOUS
    <2>1. Height[b] - Height[v] \in D
        OBVIOUS
    <2>2. Height[b] - Height[top] <= Height[b] - Height[v]
        <3> HIDE DEF D
        <3> QED BY <1>4, <1>5, <2>1
    <2>3. Height[b] \in Nat /\ Height[top] \in Nat /\ Height[v] \in Nat
        BY <1>1, <1>2
    <2> HIDE DEF D
    <2> QED BY <2>2, <2>3
<1>7. w \in Free /\ \A v \in Free : Height[v] <= Height[w]
    BY <1>6 DEF WantedByOrphan
<1> HIDE DEF w
<1>8. PICK u \in Ancestors[b] \ {Genesis} : Parent[u] = w
    BY <1>7, AncestorChain
<1>9. u \in Block /\ Height[u] = Height[w] + 1 /\ Height[w] \in Nat
    BY <1>1, <1>2, <1>7, <1>8, AncestorChain, OrphanTreeAssumption DEF OrphanTreeAssumption
<1>10. u \in S
    BY <1>7, <1>8, <1>9
<1>11. w \in Block \ S
    BY <1>2, <1>7
<1> QED BY <1>8, <1>10, <1>11 DEF w

-----------------------------------------------------------------------------
(* Types. *)

LEMMA StakesOfMonotone ==
    ASSUME NEW S, NEW T, S \subseteq T PROVE StakesOf(S) \subseteq StakesOf(T)
  BY DEF StakesOf

LEMMA AcceptTyped ==
    ASSUME NEW b \in Block, Typed, AcceptBlock(b)
    PROVE  /\ mapBlockIndex \subseteq mapBlockIndex' /\ mapBlockIndex' \subseteq mapBlockIndex \cup {b}
           /\ setStakeSeen' \subseteq StakesOf(Block)
<1>1. StakesOf({b}) \subseteq StakesOf(Block)
    BY DEF StakesOf
<1> QED BY <1>1 DEF AcceptBlock, Typed, indexVars

LEMMA InitTyped == Init => Typed
  BY OrphanTreeAssumption, OrphanMiscAssumption
     DEF Init, Typed, StakesOf, OrphanTreeAssumption, OrphanMiscAssumption

LEMMA StepTyped == Typed /\ [Next]_vars => Typed'
<1> SUFFICES ASSUME Typed, [Next]_vars PROVE Typed'
    OBVIOUS
<1> USE DEF Typed
<1>1. ASSUME NEW b \in Block \ {Genesis}, KeepOrphan(b) PROVE Typed'
    <2>1. PICK gone \in Prunable : AddOrphan(b, gone)
        BY <1>1 DEF KeepOrphan
    <2>2. /\ mapOrphanBlocks' \subseteq Block \ {Genesis} /\ b \in mapOrphanBlocks'
          /\ mapOrphanBlocksByPrev' \subseteq Block \ {Genesis}
        BY <2>1 DEF AddOrphan
    <2>3. setStakeSeenOrphan' \subseteq StakesOf(Block)
        BY <2>1 DEF AddOrphan, StakesOf
    <2>4. WantedByOrphan(b, mapOrphanBlocks') \in Block
        BY <2>2, WantedIs
    <2> QED BY <1>1, <2>2, <2>3, <2>4 DEF KeepOrphan, indexVars
<1>2. ASSUME NEW b \in Block \ {Genesis}, NEW importing \in BOOLEAN, ConnectBlock(b, importing) PROVE Typed'
    <2>1. AcceptBlock(b)
        BY <1>2 DEF ConnectBlock
    <2>2. vWorkQueue' \in Seq(Block)
        BY <1>2 DEF ConnectBlock
    <2>3. UNCHANGED <<mapOrphanBlocks, mapOrphanBlocksByPrev, setStakeSeenOrphan, wanted, restarts>>
        BY <1>2 DEF ConnectBlock, orphanVars
    <2> QED BY <2>1, <2>2, <2>3, AcceptTyped
<1>3. ASSUME NEW c \in Block, WorkOffOrphan(c) PROVE Typed'
    <2>1. AcceptBlock(c)
        BY <1>3 DEF WorkOffOrphan
    <2>2. vWorkQueue' \in Seq(Block)
        BY <1>3 DEF WorkOffOrphan
    <2>3. /\ mapOrphanBlocks' \subseteq mapOrphanBlocks /\ setStakeSeenOrphan' \subseteq setStakeSeenOrphan
          /\ UNCHANGED <<mapOrphanBlocksByPrev, wanted, restarts>>
        BY <1>3 DEF WorkOffOrphan
    <2> QED BY <2>1, <2>2, <2>3, AcceptTyped
<1>4. CASE NextInQueue
    <2>1. vWorkQueue' \in Seq(Block)
        BY <1>4 DEF NextInQueue, Idle
    <2> QED BY <1>4, <2>1 DEF NextInQueue, indexVars
<1>5. CASE Restart
    <2>1. StakesOf(mapBlockIndex) \subseteq StakesOf(Block)
        BY StakesOfMonotone
    <2> QED BY <1>5, <2>1, OrphanMiscAssumption DEF Restart, OrphanMiscAssumption
<1>6. CASE UNCHANGED vars
    BY <1>6 DEF vars, indexVars, orphanVars
<1> QED BY <1>1, <1>2, <1>3, <1>4, <1>5, <1>6 DEF Next, QueueStep

-----------------------------------------------------------------------------
(* The two maps and the stakes of the orphans. *)

LEMMA StepMaps == Typed /\ MapsInv /\ [Next]_vars => MapsInv'
<1> SUFFICES ASSUME Typed, MapsInv, [Next]_vars PROVE MapsInv'
    OBVIOUS
<1> USE DEF MapsInv, OrphanMapsAgree, StakeSeenOrphanLive
<1>1. ASSUME NEW b \in Block \ {Genesis}, KeepOrphan(b) PROVE MapsInv'
    <2>1. PICK gone \in Prunable : AddOrphan(b, gone)
        BY <1>1 DEF KeepOrphan
    <2>2. Idle /\ Idle'
        BY <1>1 DEF KeepOrphan, Idle
    <2>3. StakeSeenOrphanLive'
        BY <2>1 DEF AddOrphan, StakesOf
    <2> QED BY <2>1, <2>2, <2>3 DEF AddOrphan
<1>2. ASSUME NEW b \in Block \ {Genesis}, NEW importing \in BOOLEAN, ConnectBlock(b, importing) PROVE MapsInv'
    BY <1>2 DEF ConnectBlock, orphanVars
<1>3. ASSUME NEW c \in Block, WorkOffOrphan(c) PROVE MapsInv'
    <2>1. /\ vWorkQueue # <<>> /\ c \in ChildrenIn(mapOrphanBlocksByPrev, Head(vWorkQueue))
          /\ mapOrphanBlocks' = mapOrphanBlocks \ {c} /\ mapOrphanBlocksByPrev' = mapOrphanBlocksByPrev
          /\ setStakeSeenOrphan' = setStakeSeenOrphan \ StakesOf({c})
        BY <1>3 DEF WorkOffOrphan, Idle
    <2>2. vWorkQueue' = vWorkQueue \/ vWorkQueue' = Append(vWorkQueue, c)
        BY <1>3 DEF WorkOffOrphan
    <2>3. vWorkQueue' # <<>> /\ Head(vWorkQueue') = Head(vWorkQueue)
        BY <2>1, <2>2 DEF Typed
    <2>4. c \in ChildrenIn(Block, Head(vWorkQueue))
        BY <2>1 DEF ChildrenIn, Typed
    <2>5. StakeSeenOrphanLive'
        BY <2>1 DEF StakesOf
    <2>6. mapOrphanBlocksByPrev \ mapOrphanBlocks \subseteq ChildrenIn(Block, Head(vWorkQueue))
        BY <2>1 DEF Idle
    <2>7. OrphanMapsAgree'
        BY <2>1, <2>3, <2>4, <2>6 DEF Idle
    <2> QED BY <2>5, <2>7
<1>4. CASE NextInQueue
    <2>1. mapOrphanBlocksByPrev \ mapOrphanBlocks \subseteq ChildrenIn(Block, Head(vWorkQueue))
        BY <1>4 DEF NextInQueue
    <2>2. mapOrphanBlocksByPrev' = mapOrphanBlocks'
        BY <1>4, <2>1 DEF NextInQueue, ChildrenIn
    <2> QED BY <1>4, <2>2 DEF NextInQueue
<1>5. CASE Restart
    BY <1>5 DEF Restart, Idle, StakesOf
<1>6. CASE UNCHANGED vars
    BY <1>6 DEF vars, orphanVars, Idle
<1> QED BY <1>1, <1>2, <1>3, <1>4, <1>5, <1>6 DEF Next, QueueStep

-----------------------------------------------------------------------------
(* The limit. *)

LEMMA StepBound == Typed /\ MapsInv /\ BoundInv /\ [Next]_vars => BoundInv'
<1> SUFFICES ASSUME Typed, MapsInv, BoundInv, [Next]_vars PROVE BoundInv'
    OBVIOUS
<1>0. MaxOrphanBlocks \in Nat /\ Cardinality(mapOrphanBlocksByPrev) \in Nat
    BY OrphanMiscAssumption, FS_CardinalityType DEF OrphanMiscAssumption, BoundInv
<1>1. ASSUME NEW b \in Block \ {Genesis}, KeepOrphan(b) PROVE BoundInv'
    <2>1. PICK gone \in Prunable : AddOrphan(b, gone)
        BY <1>1 DEF KeepOrphan
    <2> DEFINE kept == mapOrphanBlocksByPrev \ gone
    <2>2. IsFiniteSet(kept) /\ Cardinality(kept) \in Nat /\ Cardinality(kept) <= MaxOrphanBlocks
        <3>1. CASE gone = {} /\ Cardinality(mapOrphanBlocksByPrev) <= MaxOrphanBlocks
            <4>1. kept = mapOrphanBlocksByPrev
                BY <3>1
            <4> HIDE DEF kept
            <4> QED BY <1>0, <3>1, <4>1 DEF BoundInv
        <3>2. CASE \E p \in mapOrphanBlocksByPrev : gone = {p}
            <4>1. PICK p \in mapOrphanBlocksByPrev : gone = {p}
                BY <3>2
            <4>2. kept = mapOrphanBlocksByPrev \ {p}
                BY <4>1
            <4>3. IsFiniteSet(kept) /\ Cardinality(kept) = Cardinality(mapOrphanBlocksByPrev) - 1
                BY <4>2, FS_RemoveElement DEF BoundInv
            <4>4. Cardinality(kept) \in Nat
                BY <4>3, FS_CardinalityType
            <4> HIDE DEF kept
            <4> QED BY <1>0, <4>3, <4>4 DEF BoundInv
        <3> QED BY <3>1, <3>2, PrunableIs
    <2>3. mapOrphanBlocksByPrev' = kept \cup {b}
        BY <2>1 DEF AddOrphan
    <2> HIDE DEF kept
    <2>4. IsFiniteSet(kept \cup {b}) /\ (Cardinality(kept \cup {b}) = Cardinality(kept) \/ Cardinality(kept \cup {b}) = Cardinality(kept) + 1)
        BY <2>2, FS_AddElement
    <2> QED BY <1>0, <2>2, <2>3, <2>4 DEF BoundInv
<1>2. ASSUME mapOrphanBlocksByPrev' \subseteq mapOrphanBlocksByPrev PROVE BoundInv'
    <2>1. /\ IsFiniteSet(mapOrphanBlocksByPrev')
          /\ Cardinality(mapOrphanBlocksByPrev') <= Cardinality(mapOrphanBlocksByPrev)
          /\ Cardinality(mapOrphanBlocksByPrev') \in Nat
        BY <1>2, FS_Subset, FS_CardinalityType DEF BoundInv
    <2> QED BY <1>0, <2>1 DEF BoundInv
<1>3. ASSUME NEW b \in Block \ {Genesis}, NEW importing \in BOOLEAN, ConnectBlock(b, importing) PROVE BoundInv'
    BY <1>2, <1>3 DEF ConnectBlock, orphanVars
<1>4. ASSUME NEW c \in Block, WorkOffOrphan(c) PROVE BoundInv'
    BY <1>2, <1>4 DEF WorkOffOrphan
<1>5. CASE NextInQueue \/ Restart \/ UNCHANGED vars
    BY <1>2, <1>5 DEF NextInQueue, Restart, vars, orphanVars
<1> QED BY <1>1, <1>3, <1>4, <1>5 DEF Next, QueueStep

-----------------------------------------------------------------------------
(* No orphan is left behind. *)

\* What AcceptBlock indexes, it accepts, if SetBestChain connects it.
LEMMA IndexedIsAccepted ==
    ASSUME NEW b \in Block, AcceptBlock(b), NEW accepted \in Verdicts(b)
    PROVE  \/ mapBlockIndex' = mapBlockIndex
           \/ mapBlockIndex' = mapBlockIndex \cup {b} /\ (accepted = TRUE \/ b \in Unconnectable)
  BY DEF AcceptBlock, Verdicts, indexVars

LEMMA StepWait == Typed /\ MapsInv /\ WaitInv /\ [Next]_vars => WaitInv'
<1> SUFFICES ASSUME Typed, MapsInv, WaitInv, [Next]_vars PROVE WaitInv'
    OBVIOUS
<1> USE DEF WaitInv
<1>1. ASSUME NEW b \in Block \ {Genesis}, KeepOrphan(b) PROVE WaitInv'
    <2>1. mapOrphanBlocks' \subseteq mapOrphanBlocks \cup {b} /\ Parent[b] \notin mapBlockIndex
        BY <1>1 DEF KeepOrphan, AddOrphan
    <2> QED BY <1>1, <2>1 DEF KeepOrphan, indexVars
<1>2. ASSUME NEW b \in Block \ {Genesis}, NEW importing \in BOOLEAN, ConnectBlock(b, importing) PROVE WaitInv'
    <2>1. /\ vWorkQueue = <<>> /\ mapOrphanBlocks' = mapOrphanBlocks /\ AcceptBlock(b)
        BY <1>2 DEF ConnectBlock, Idle, orphanVars
    <2>2. PICK accepted \in Verdicts(b) : vWorkQueue' = IF accepted THEN <<b>> ELSE <<>>
        BY <1>2 DEF ConnectBlock
    <2>3. \A o \in mapOrphanBlocks : Parent[o] \notin mapBlockIndex \ Unconnectable
        BY <2>1
    <2>4. CASE mapBlockIndex' \ Unconnectable = mapBlockIndex \ Unconnectable
        BY <2>1, <2>3, <2>4
    <2>5. CASE accepted = TRUE /\ mapBlockIndex' = mapBlockIndex \cup {b}
        <3>1. vWorkQueue' = <<b>> /\ 1 \in DOMAIN vWorkQueue' /\ vWorkQueue'[1] = b
            BY <2>2, <2>5
        <3> QED BY <2>1, <2>3, <2>5, <3>1
    <2> QED BY <2>1, <2>2, <2>4, <2>5, IndexedIsAccepted
<1>3. ASSUME NEW c \in Block, WorkOffOrphan(c) PROVE WaitInv'
    <2>1. AcceptBlock(c) /\ mapOrphanBlocks' \subseteq mapOrphanBlocks
        BY <1>3 DEF WorkOffOrphan
    <2>2. PICK accepted \in Verdicts(c) : vWorkQueue' = IF accepted THEN Append(vWorkQueue, c) ELSE vWorkQueue
        BY <1>3 DEF WorkOffOrphan
    <2>3. \A i \in DOMAIN vWorkQueue : i \in DOMAIN vWorkQueue' /\ vWorkQueue'[i] = vWorkQueue[i]
        BY <2>2 DEF Typed
    <2>4. CASE mapBlockIndex' \ Unconnectable = mapBlockIndex \ Unconnectable
        BY <2>1, <2>3, <2>4
    <2>5. CASE accepted = TRUE /\ mapBlockIndex' = mapBlockIndex \cup {c}
        <3>1. \E i \in DOMAIN vWorkQueue' : vWorkQueue'[i] = c
            <4>1. vWorkQueue' = Append(vWorkQueue, c) /\ vWorkQueue \in Seq(Block)
                BY <2>2, <2>5 DEF Typed
            <4> QED BY <4>1
        <3> QED BY <2>1, <2>3, <2>5, <3>1
    <2> QED BY <2>1, <2>2, <2>4, <2>5, IndexedIsAccepted
<1>4. CASE NextInQueue
    <2>1. /\ vWorkQueue # <<>> /\ vWorkQueue \in Seq(Block) /\ vWorkQueue' = Tail(vWorkQueue)
          /\ mapOrphanBlocks' = mapOrphanBlocks /\ mapBlockIndex' = mapBlockIndex
        BY <1>4 DEF NextInQueue, Idle, Typed, indexVars
    <2>2. SUFFICES ASSUME NEW o \in mapOrphanBlocks, Parent[o] \in mapBlockIndex \ Unconnectable
                   PROVE \E i \in DOMAIN vWorkQueue' : vWorkQueue'[i] = Parent[o]
        BY <2>1
    <2>3. PICK i \in DOMAIN vWorkQueue : vWorkQueue[i] = Parent[o]
        BY <2>2
    <2>4. Parent[o] # Head(vWorkQueue)
        <3>1. o \in mapOrphanBlocksByPrev /\ o # Genesis
            BY DEF MapsInv, OrphanMapsAgree, Typed
        <3>2. o \notin ChildrenIn(mapOrphanBlocksByPrev, Head(vWorkQueue))
            BY <1>4 DEF NextInQueue
        <3> QED BY <3>1, <3>2 DEF ChildrenIn
    <2>5. i \in 1..Len(vWorkQueue) /\ i # 1
        BY <2>1, <2>3, <2>4
    <2>6. i - 1 \in DOMAIN Tail(vWorkQueue) /\ Tail(vWorkQueue)[i - 1] = vWorkQueue[i]
        BY <2>1, <2>5
    <2> QED BY <2>1, <2>3, <2>6
<1>5. CASE Restart
    BY <1>5 DEF Restart
<1>6. CASE UNCHANGED vars
    BY <1>6 DEF vars, indexVars, orphanVars
<1> QED BY <1>1, <1>2, <1>3, <1>4, <1>5, <1>6 DEF Next, QueueStep

-----------------------------------------------------------------------------
(* The theorems. *)

IInv == Typed /\ MapsInv /\ BoundInv

LEMMA InitIInv == Init => IInv /\ WaitInv
<1> SUFFICES ASSUME Init PROVE IInv /\ WaitInv
    OBVIOUS
<1>1. MapsInv /\ WaitInv
    BY DEF Init, MapsInv, OrphanMapsAgree, StakeSeenOrphanLive, WaitInv
<1>2. BoundInv
    BY FS_EmptySet, OrphanMiscAssumption DEF Init, BoundInv, OrphanMiscAssumption
<1> QED BY <1>1, <1>2, InitTyped DEF IInv

LEMMA Inductive == Spec => []IInv
<1>1. IInv /\ [Next]_vars => IInv'
    BY StepTyped, StepMaps, StepBound DEF IInv
<1> QED BY <1>1, InitIInv, PTL DEF Spec

LEMMA IInvGives == IInv => TypeOK /\ OrphanMapsAgree /\ StakeSeenOrphanLive /\ OrphansBounded
<1> SUFFICES ASSUME IInv PROVE TypeOK /\ OrphanMapsAgree /\ StakeSeenOrphanLive /\ OrphansBounded
    OBVIOUS
<1>1. TypeOK
    BY DEF IInv, Typed, TypeOK
<1>2. OrphanMapsAgree /\ StakeSeenOrphanLive
    BY DEF IInv, MapsInv
<1>3. OrphansBounded
    <2>1. /\ Cardinality(mapOrphanBlocks) <= Cardinality(mapOrphanBlocksByPrev)
          /\ Cardinality(mapOrphanBlocks) \in Nat /\ Cardinality(mapOrphanBlocksByPrev) \in Nat
        BY <1>2, FS_Subset, FS_CardinalityType DEF IInv, BoundInv, OrphanMapsAgree
    <2>2. MaxOrphanBlocks \in Nat
        BY OrphanMiscAssumption DEF OrphanMiscAssumption
    <2> QED BY <2>1, <2>2 DEF IInv, BoundInv, OrphansBounded
<1> QED BY <1>1, <1>2, <1>3

\* Every variable of ProcessBlock and its maps of orphans keeps its type.
THEOREM TypeCorrect == Spec => []TypeOK
  BY Inductive, IInvGives, PTL

\* The two maps of orphans hold the same blocks whenever ProcessBlock is not in its
\* loop: no pointer to a deleted orphan.
THEOREM OrphansIndexed == Spec => []OrphanMapsAgree
  BY Inductive, IInvGives, PTL

\* setStakeSeenOrphan holds no stake that no orphan has, so that a stake is not
\* refused for ever after its orphan was pruned, accepted or refused.
THEOREM StakesOfOrphansLive == Spec => []StakeSeenOrphanLive
  BY Inductive, IInvGives, PTL

\* PruneOrphanBlocks drops one orphan at most and so keeps -maxorphanblocks + 1,
\* for every limit and every way the orphans hang together.
THEOREM OrphansAreBounded == Spec => []OrphansBounded
  BY Inductive, IInvGives, PTL

LEMMA WaitGives == IInv /\ WaitInv => OrphanWaitsForParent
  BY DEF WaitInv, OrphanWaitsForParent, Idle

LEMMA WaitInductive == Spec => []WaitInv
<1>1. IInv /\ WaitInv /\ [Next]_vars => WaitInv'
    BY StepWait DEF IInv
<1> QED BY <1>1, InitIInv, Inductive, PTL DEF Spec

\* ProcessBlock leaves no orphan whose parent is indexed, whatever the order in which
\* blocks arrive and whichever of them AcceptBlock refuses, but for parents that were
\* indexed without being connected.
THEOREM NoOrphanLeftBehind == Spec => []OrphanWaitsForParent
  BY WaitInductive, Inductive, WaitGives, PTL

\* The block ProcessBlock asks for with AskFor is no orphan, and not indexed but for
\* the same exception.
THEOREM AskedForIsMissing == Spec => WantedIsMissing
<1>1. ASSUME IInv, WaitInv, [Next]_vars
      PROVE [wanted' \notin {wanted, None} =>
                 wanted' \notin (mapBlockIndex \ Unconnectable) \cup mapOrphanBlocks']_vars
    <2>1. ASSUME NEW b \in Block \ {Genesis}, KeepOrphan(b), wanted' # wanted
          PROVE wanted' \notin (mapBlockIndex \ Unconnectable) \cup mapOrphanBlocks'
        <3>1. \A o \in mapOrphanBlocks : Parent[o] \notin mapBlockIndex \ Unconnectable
            BY <1>1, <2>1, WaitGives DEF OrphanWaitsForParent, KeepOrphan
        <3>2. b \in mapOrphanBlocks' /\ mapOrphanBlocks' \subseteq mapOrphanBlocks \cup {b}
            BY <2>1 DEF KeepOrphan, AddOrphan
        <3>3. Genesis \notin mapOrphanBlocks'
            BY <1>1, <3>2 DEF IInv, Typed
        <3>4. wanted' = WantedByOrphan(b, mapOrphanBlocks')
            BY <2>1 DEF KeepOrphan
        <3>5. wanted' \notin mapOrphanBlocks' /\ \E u \in mapOrphanBlocks' : Parent[u] = wanted'
            BY <3>2, <3>3, <3>4, WantedIs
        <3>6. Parent[b] \notin mapBlockIndex
            BY <2>1 DEF KeepOrphan
        <3> QED BY <3>1, <3>2, <3>5, <3>6
    <2>2. ASSUME NEW b \in Block \ {Genesis}, NEW importing \in BOOLEAN, ConnectBlock(b, importing)
          PROVE wanted' = wanted
        BY <2>2 DEF ConnectBlock
    <2>3. QueueStep => wanted' = wanted
        BY DEF QueueStep, NextInQueue, WorkOffOrphan
    <2>4. Restart => wanted' = None
        BY DEF Restart
    <2>5. (UNCHANGED vars) => wanted' = wanted
        BY DEF vars
    <2> QED BY <1>1, <2>1, <2>2, <2>3, <2>4, <2>5 DEF Next
<1> QED BY <1>1, WaitInductive, Inductive, PTL DEF Spec, WantedIsMissing

=============================================================================
