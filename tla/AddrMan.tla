------------------------------- MODULE AddrMan -------------------------------
(***************************************************************************)
(* The address manager (addrman.cpp): the peers a node knows of, in "new"  *)
(* buckets by where they were heard of and in "tried" buckets once they    *)
(* were reached, and the indexes beside them.                              *)
(*                                                                         *)
(* Every operation holds CAddrMan::cs, and is one step.  Bucket numbers,   *)
(* which the code takes from hashes with a secret key, are constants.      *)
(* Times and attempts are left out: they decide only which entry is        *)
(* dropped or evicted, and any entry may be the one.  So Attempt_,         *)
(* Connected_ and Select_, which change nothing else, have no action.      *)
(***************************************************************************)
EXTENDS Integers, Sequences, FiniteSets

CONSTANTS
    Addr,            \* routable services, with a port
    Ip,              \* [Addr -> their CNetAddr], which leaves the port out
    Source,          \* peers that send addresses
    NewBuckets, TriedBuckets,
    GetNewBucket,    \* [Addr -> [Source -> NewBuckets]]
    GetTriedBucket,  \* [Addr -> TriedBuckets]
    NewBucketSize, TriedBucketSize,
    NewBucketsPerAddress,
    GetAddrMaxPct,
    MaxIds           \* bound: entries made since the start

ASSUME AddrManAssumption ==
    /\ Ip \in [Addr -> { Ip[a] : a \in Addr }]
    /\ IsFiniteSet(NewBuckets) /\ IsFiniteSet(TriedBuckets)
    /\ GetNewBucket \in [Addr -> [Source -> NewBuckets]]
    /\ GetTriedBucket \in [Addr -> TriedBuckets]
    /\ {NewBucketSize, TriedBucketSize, NewBucketsPerAddress} \subseteq Nat \ {0}
    /\ GetAddrMaxPct \in 0..100
    /\ MaxIds \in Nat

VARIABLES
    nIdCount,
    mapInfo,   \* [some ids -> CAddrInfo]
    mapAddr,   \* [some CNetAddr -> id]
    vRandom,   \* all ids, in random order
    nTried, nNew,
    vvTried,   \* [TriedBuckets -> set of ids]; the code's vector, whose order is random
    vvNew      \* [NewBuckets -> set of ids]

vars == <<nIdCount, mapInfo, mapAddr, vRandom, nTried, nNew, vvTried, vvNew>>

\* CAddrInfo; nRandomPos counts from one here.
CAddrInfo == [addr : Addr, source : Source, nRefCount : Nat, fInTried : BOOLEAN, nRandomPos : Nat]

Init ==
    /\ nIdCount = 0
    /\ mapInfo = [i \in {} |-> {}] /\ mapAddr = [h \in {} |-> 0] /\ vRandom = <<>>
    /\ nTried = 0 /\ nNew = 0
    /\ vvTried = [k \in TriedBuckets |-> {}] /\ vvNew = [b \in NewBuckets |-> {}]

\* The tables as one value: an operation is a chain of operators from tables to
\* tables, and Become makes the last of them the next state.
Tables == [nIdCount |-> nIdCount, mapInfo |-> mapInfo, mapAddr |-> mapAddr, vRandom |-> vRandom,
           nTried |-> nTried, nNew |-> nNew, vvTried |-> vvTried, vvNew |-> vvNew]

Become(t) ==
    /\ nIdCount' = t.nIdCount /\ mapInfo' = t.mapInfo /\ mapAddr' = t.mapAddr /\ vRandom' = t.vRandom
    /\ nTried' = t.nTried /\ nNew' = t.nNew /\ vvTried' = t.vvTried /\ vvNew' = t.vvNew

-----------------------------------------------------------------------------
(* The parts of the operations. *)

\* Create: a new entry, still in no bucket; Add_ counts it in nNew.
Create(t, a, src) ==
    LET id == t.nIdCount
        info == [addr |-> a, source |-> src, nRefCount |-> 0, fInTried |-> FALSE,
                 nRandomPos |-> Len(t.vRandom) + 1]
    IN  [t EXCEPT !.nIdCount = id + 1,
                  !.mapInfo = [i \in DOMAIN t.mapInfo \cup {id} |-> IF i = id THEN info ELSE t.mapInfo[i]],
                  !.mapAddr = [h \in DOMAIN t.mapAddr \cup {Ip[a]} |-> IF h = Ip[a] THEN id ELSE t.mapAddr[h]],
                  !.vRandom = Append(t.vRandom, id),
                  !.nNew = t.nNew + 1]

\* SwapRandom: the entries at two places of vRandom change places.
SwapRandom(t, i, j) ==
    [t EXCEPT !.vRandom = [t.vRandom EXCEPT ![i] = t.vRandom[j], ![j] = t.vRandom[i]],
              !.mapInfo = [t.mapInfo EXCEPT ![t.vRandom[i]].nRandomPos = j,
                                            ![t.vRandom[j]].nRandomPos = i]]

\* What ShrinkNew does to an entry that no bucket refers to any more.
Forget(t, id) ==
    LET s == SwapRandom(t, t.mapInfo[id].nRandomPos, Len(t.vRandom))
    IN  [s EXCEPT !.vRandom = SubSeq(s.vRandom, 1, Len(s.vRandom) - 1),
                  !.mapAddr = [h \in DOMAIN t.mapAddr \ {Ip[t.mapInfo[id].addr]} |-> t.mapAddr[h]],
                  !.mapInfo = [i \in DOMAIN t.mapInfo \ {id} |-> s.mapInfo[i]],
                  !.nNew = t.nNew - 1]

\* Wrong on purpose: the entry goes, whatever other buckets have it.
ShrinkNewForgets(t, b, id) == Forget([t EXCEPT !.vvNew[b] = @ \ {id}], id)

\* ShrinkNew takes the entry id, terrible or the oldest of four, from bucket b.
ShrinkNew(t, b, id) ==
    LET s == [t EXCEPT !.vvNew[b] = @ \ {id}, !.mapInfo[id].nRefCount = @ - 1]
    IN  IF s.mapInfo[id].nRefCount = 0 THEN Forget(s, id) ELSE s

\* The entry id goes into bucket b.
Insert(t, b, id) ==
    [t EXCEPT !.vvNew[b] = @ \cup {id}, !.mapInfo[id].nRefCount = @ + 1]

\* The end of Add_ for an entry that is not in bucket b.  The code counts the
\* reference first, which ShrinkNew does not see.
IntoBucket(t, b, id) ==
    IF Cardinality(t.vvNew[b]) # NewBucketSize THEN {Insert(t, b, id)}
    ELSE { Insert(ShrinkNew(t, b, old), b, id) : old \in t.vvNew[b] }

\* The first part of MakeTried: out of all new buckets.  nNew and nTried are counted
\* when an entry comes to the other side, which is the same in the end.
LeaveNew(t, id) ==
    [t EXCEPT !.vvNew = [b \in NewBuckets |-> t.vvNew[b] \ {id}],
              !.mapInfo[id].nRefCount = @ - Cardinality({ b \in NewBuckets : id \in t.vvNew[b] })]

EnterTried(t, id) ==
    [t EXCEPT !.vvTried[GetTriedBucket[t.mapInfo[id].addr]] = @ \cup {id},
              !.mapInfo[id].fInTried = TRUE,
              !.nTried = @ + 1, !.nNew = @ - 1]

\* Wrong on purpose: the bucket the entry belongs to, whether or not there is room.
NewHome(t, old, nOrigin) == GetNewBucket[t.mapInfo[old].addr][t.mapInfo[old].source]

\* Where an evicted entry goes: the bucket it belongs to, if there is room.
EvictTo(t, old, nOrigin) ==
    LET b == GetNewBucket[t.mapInfo[old].addr][t.mapInfo[old].source]
    IN  IF Cardinality(t.vvNew[b]) < NewBucketSize THEN b ELSE nOrigin

\* Wrong on purpose: the evicted entry's count is not set.
EvictUncounted(t, old, nOrigin) ==
    [t EXCEPT !.vvTried[GetTriedBucket[t.mapInfo[old].addr]] = @ \ {old},
              !.mapInfo[old].fInTried = FALSE,
              !.vvNew[EvictTo(t, old, nOrigin)] = @ \cup {old},
              !.nTried = @ - 1, !.nNew = @ + 1]

\* A tried entry goes back to a new bucket.
Evict(t, old, nOrigin) ==
    [t EXCEPT !.vvTried[GetTriedBucket[t.mapInfo[old].addr]] = @ \ {old},
              !.mapInfo[old].fInTried = FALSE, !.mapInfo[old].nRefCount = 1,
              !.vvNew[EvictTo(t, old, nOrigin)] = @ \cup {old},
              !.nTried = @ - 1, !.nNew = @ + 1]

\* MakeTried, with any entry of a full bucket as SelectTried's.
MakeTried(t, id, nOrigin) ==
    LET s == LeaveNew(t, id)
        vTried == s.vvTried[GetTriedBucket[s.mapInfo[id].addr]]
    IN  IF Cardinality(vTried) < TriedBucketSize THEN {EnterTried(s, id)}
        ELSE { EnterTried(Evict(s, old, nOrigin), id) : old \in vTried }

-----------------------------------------------------------------------------
(* The operations. *)

\* Add_ of an address heard of for the first time.
AddNew(a, src) ==
    /\ Ip[a] \notin DOMAIN mapAddr /\ nIdCount < MaxIds
    /\ \E t \in IntoBucket(Create(Tables, a, src), GetNewBucket[a][src], nIdCount) : Become(t)

\* Add_ of an address whose host is known, with news and with luck: one more bucket.
AddAgain(a, src) ==
    /\ Ip[a] \in DOMAIN mapAddr
    /\ LET id == mapAddr[Ip[a]]
           b == GetNewBucket[mapInfo[id].addr][src]
       IN  /\ ~ mapInfo[id].fInTried
           /\ mapInfo[id].nRefCount # NewBucketsPerAddress
           /\ id \notin vvNew[b]
           /\ \E t \in IntoBucket(Tables, b, id) : Become(t)

\* Good_: the host was reached, at the very port of the entry.  The search for a
\* bucket starts at a random one.
Good(a) ==
    /\ Ip[a] \in DOMAIN mapAddr
    /\ LET id == mapAddr[Ip[a]]
       IN  /\ mapInfo[id].addr = a
           /\ ~ mapInfo[id].fInTried
           /\ \E nOrigin \in { b \in NewBuckets : id \in vvNew[b] } :
                \E t \in MakeTried(Tables, id, nOrigin) : Become(t)

\* One turn of GetAddr_'s loop; cs is held from turn to turn, and a turn may swap
\* an entry with itself.  The limit of 2500 entries is left out.
GetAddr ==
    \E n \in 1..((GetAddrMaxPct * Len(vRandom)) \div 100) : \E m \in n..Len(vRandom) :
        Become(SwapRandom(Tables, n, m))

\* The ids in the order in which addr.dat has them: new ones, then tried ones.
FileOrder ==
    { f \in [0..(nNew + nTried - 1) -> DOMAIN mapInfo] :
        /\ \A i \in DOMAIN f : mapInfo[f[i]].fInTried <=> i >= nNew
        /\ \A i, j \in DOMAIN f : i < j /\ (i < nNew <=> j < nNew) => f[i] < f[j]
        /\ { f[i] : i \in DOMAIN f } = DOMAIN mapInfo }

\* addr.dat is written and read back, with other ids and with what is not in the
\* file made up again.  A start after a crash reads an older file; as that is the
\* image of an earlier state, it leads to no other tables.  The limits that the
\* code tests while it reads cannot be met (TablesAgree, BucketsBounded).
Restart ==
    \E f \in FileOrder :
        /\ nIdCount' = nNew + nTried
        /\ mapInfo' = [i \in DOMAIN f |->
               [mapInfo[f[i]] EXCEPT !.nRefCount = Cardinality({ b \in NewBuckets : f[i] \in vvNew[b] }),
                                     !.nRandomPos = i + 1]]
        /\ mapAddr' = [h \in { Ip[mapInfo[f[i]].addr] : i \in DOMAIN f } |->
               CHOOSE i \in DOMAIN f : Ip[mapInfo[f[i]].addr] = h]
        /\ vRandom' = [i \in 1..(nNew + nTried) |-> i - 1]
        /\ vvTried' = [k \in TriedBuckets |->
               { i \in DOMAIN f : mapInfo[f[i]].fInTried /\ GetTriedBucket[mapInfo[f[i]].addr] = k }]
        /\ vvNew' = [b \in NewBuckets |-> { i \in DOMAIN f : f[i] \in vvNew[b] }]
        /\ UNCHANGED <<nTried, nNew>>

Next ==
    \/ \E a \in Addr, src \in Source : AddNew(a, src) \/ AddAgain(a, src)
    \/ \E a \in Addr : Good(a)
    \/ GetAddr
    \/ Restart

Spec == Init /\ [][Next]_vars

-----------------------------------------------------------------------------
(* Properties. *)

\* Every variable has its type.
TypeOK ==
    /\ nIdCount \in Nat /\ DOMAIN mapInfo \subseteq 0..(nIdCount - 1)
    /\ \A i \in DOMAIN mapInfo : mapInfo[i] \in CAddrInfo
    /\ DOMAIN mapAddr \subseteq { Ip[a] : a \in Addr }
    /\ \A h \in DOMAIN mapAddr : mapAddr[h] \in DOMAIN mapInfo
    /\ vRandom \in Seq(DOMAIN mapInfo)
    /\ nTried \in Nat /\ nNew \in Nat
    /\ vvTried \in [TriedBuckets -> SUBSET DOMAIN mapInfo]
    /\ vvNew \in [NewBuckets -> SUBSET DOMAIN mapInfo]

\* Each entry has its place in vRandom, and is the only one of its host.
IndexesAgree(t) ==
    /\ \A i \in DOMAIN t.mapInfo :
         /\ t.mapInfo[i].nRandomPos \in DOMAIN t.vRandom /\ t.vRandom[t.mapInfo[i].nRandomPos] = i
         /\ Ip[t.mapInfo[i].addr] \in DOMAIN t.mapAddr /\ t.mapAddr[Ip[t.mapInfo[i].addr]] = i
    /\ \A p \in DOMAIN t.vRandom : t.mapInfo[t.vRandom[p]].nRandomPos = p
    /\ \A h \in DOMAIN t.mapAddr : Ip[t.mapInfo[t.mapAddr[h]].addr] = h

\* Each entry is in its tried bucket or in as many new buckets as it counts, at
\* least one unless it is among loose.
EntriesPlaced(t, loose) ==
    \A i \in DOMAIN t.mapInfo :
        LET info == t.mapInfo[i]
        IN  /\ info.nRefCount = Cardinality({ b \in NewBuckets : i \in t.vvNew[b] })
            /\ info.nRefCount <= NewBucketsPerAddress
            /\ \A k \in TriedBuckets : i \in t.vvTried[k] <=> info.fInTried /\ k = GetTriedBucket[info.addr]
            /\ IF info.fInTried THEN info.nRefCount = 0 ELSE info.nRefCount = 0 => i \in loose

CountsAgree(t) ==
    /\ t.nNew = Cardinality({ i \in DOMAIN t.mapInfo : ~ t.mapInfo[i].fInTried })
    /\ t.nTried = Cardinality({ i \in DOMAIN t.mapInfo : t.mapInfo[i].fInTried })
    /\ Len(t.vRandom) = t.nNew + t.nTried

\* What Check_ tests (addrman.cpp, DEBUG_ADDRMAN): after any sequence of additions,
\* moves, evictions and restarts the tables, the indexes and the counts agree.
TablesAgree ==
    IndexesAgree(Tables) /\ EntriesPlaced(Tables, {}) /\ CountsAgree(Tables)

\* "Only keep a limited number of addresses around" (addrman.h): no bucket has more
\* than its size; for an evicted entry "there is certainly place" (MakeTried).
BucketsBounded ==
    /\ \A b \in NewBuckets : Cardinality(vvNew[b]) <= NewBucketSize
    /\ \A k \in TriedBuckets : Cardinality(vvTried[k]) <= TriedBucketSize

\* A host is forgotten only to make room in a full bucket, the last it was in.  So
\* one that was reached is never forgotten at once, and none is by a restart.
ForgottenForRoom ==
    [][\A h \in DOMAIN mapAddr \ DOMAIN mapAddr' :
         \E b \in NewBuckets :
            /\ { c \in NewBuckets : mapAddr[h] \in vvNew[c] } = {b}
            /\ Cardinality(vvNew[b]) = NewBucketSize]_vars
=============================================================================
