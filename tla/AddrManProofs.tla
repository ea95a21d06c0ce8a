---------------------------- MODULE AddrManProofs ----------------------------
(***************************************************************************)
(* What holds of AddrMan for every number of addresses, buckets and        *)
(* places, and for every assignment of addresses to buckets.               *)
(*                                                                         *)
(* Every operation is a chain of parts that lead from tables to tables.    *)
(* So the invariant is a predicate of tables, in which an entry on its way *)
(* may be in no bucket, shown to survive each part on its own.             *)
(***************************************************************************)
EXTENDS AddrMan, FiniteSetTheorems, SequenceTheorems, TLAPS

Fields == {"nIdCount", "mapInfo", "mapAddr", "vRandom", "nTried", "nNew", "vvTried", "vvNew"}

Typed(t) ==
    /\ DOMAIN t = Fields
    /\ t.nIdCount \in Nat /\ DOMAIN t.mapInfo \subseteq 0..(t.nIdCount - 1)
    /\ t.mapInfo \in [DOMAIN t.mapInfo -> CAddrInfo]
    /\ t.mapAddr \in [DOMAIN t.mapAddr -> DOMAIN t.mapInfo]
    /\ DOMAIN t.mapAddr \subseteq { Ip[a] : a \in Addr }
    /\ t.vRandom \in Seq(DOMAIN t.mapInfo)
    /\ t.nTried \in Nat /\ t.nNew \in Nat
    /\ t.vvTried \in [TriedBuckets -> SUBSET DOMAIN t.mapInfo]
    /\ t.vvNew \in [NewBuckets -> SUBSET DOMAIN t.mapInfo]

\* The tables agree, except that the entries of loose may be in no bucket.
Sound(t, loose) == Typed(t) /\ IndexesAgree(t) /\ EntriesPlaced(t, loose) /\ CountsAgree(t)

Bounded(t) ==
    /\ \A b \in NewBuckets : Cardinality(t.vvNew[b]) <= NewBucketSize
    /\ \A k \in TriedBuckets : Cardinality(t.vvTried[k]) <= TriedBucketSize

IInv == Sound(Tables, {}) /\ Bounded(Tables)

\* Two tables with the same fields in the list.
SameIndexes(t, u) == u.mapAddr = t.mapAddr /\ u.vRandom = t.vRandom /\ u.nIdCount = t.nIdCount
SameTried(t, u)   == u.vvTried = t.vvTried /\ u.nTried = t.nTried

-----------------------------------------------------------------------------
(* What of an entry the indexes and the counts depend on. *)

SameEntries(t, u) ==
    /\ u.mapInfo \in [DOMAIN t.mapInfo -> CAddrInfo]
    /\ \A i \in DOMAIN t.mapInfo :
         u.mapInfo[i].addr = t.mapInfo[i].addr /\ u.mapInfo[i].nRandomPos = t.mapInfo[i].nRandomPos

LEMMA IndexesKept ==
    ASSUME NEW t, NEW u, Typed(t), IndexesAgree(t), SameIndexes(t, u), SameEntries(t, u)
    PROVE  IndexesAgree(u)
<1>1. DOMAIN u.mapInfo = DOMAIN t.mapInfo
    BY DEF SameEntries
<1>2. \A p \in DOMAIN t.vRandom : t.vRandom[p] \in DOMAIN t.mapInfo
    BY DEF Typed
<1>3. \A h \in DOMAIN t.mapAddr : t.mapAddr[h] \in DOMAIN t.mapInfo
    BY DEF Typed
<1>4. /\ u.mapAddr = t.mapAddr /\ u.vRandom = t.vRandom
      /\ \A i \in DOMAIN t.mapInfo :
           u.mapInfo[i].addr = t.mapInfo[i].addr /\ u.mapInfo[i].nRandomPos = t.mapInfo[i].nRandomPos
    BY DEF SameIndexes, SameEntries
<1>5. \A p \in DOMAIN u.vRandom : u.mapInfo[u.vRandom[p]].nRandomPos = p
    BY <1>2, <1>4 DEF IndexesAgree
<1>6. \A h \in DOMAIN u.mapAddr : Ip[u.mapInfo[u.mapAddr[h]].addr] = h
    BY <1>3, <1>4 DEF IndexesAgree
<1>7. \A i \in DOMAIN u.mapInfo :
        /\ u.mapInfo[i].nRandomPos \in DOMAIN u.vRandom /\ u.vRandom[u.mapInfo[i].nRandomPos] = i
        /\ Ip[u.mapInfo[i].addr] \in DOMAIN u.mapAddr /\ u.mapAddr[Ip[u.mapInfo[i].addr]] = i
    BY <1>1, <1>4 DEF IndexesAgree
<1> QED BY <1>5, <1>6, <1>7 DEF IndexesAgree

LEMMA IdsFinite ==
    ASSUME NEW t, Typed(t), NEW S \in SUBSET DOMAIN t.mapInfo
    PROVE  IsFiniteSet(S) /\ Cardinality(S) \in Nat
<1>1. t.nIdCount - 1 \in Int /\ DOMAIN t.mapInfo \subseteq 0..(t.nIdCount - 1)
    BY DEF Typed
<1>2. IsFiniteSet(0..(t.nIdCount - 1))
    BY <1>1, FS_Interval
<1>3. IsFiniteSet(S)
    BY <1>1, <1>2, FS_Subset
<1> QED BY <1>3, FS_CardinalityType

\* The buckets an id is in.
BucketsOf(t, i) == { b \in NewBuckets : i \in t.vvNew[b] }

LEMMA BucketsFinite ==
    ASSUME NEW t, NEW i
    PROVE  IsFiniteSet(BucketsOf(t, i)) /\ Cardinality(BucketsOf(t, i)) \in Nat
<1>1. IsFiniteSet(BucketsOf(t, i))
    BY AddrManAssumption, FS_Subset DEF AddrManAssumption, BucketsOf
<1> QED BY <1>1, FS_CardinalityType

Untried(t) == { i \in DOMAIN t.mapInfo : ~ t.mapInfo[i].fInTried }
Tried(t)   == { i \in DOMAIN t.mapInfo : t.mapInfo[i].fInTried }

LEMMA CountsKept ==
    ASSUME NEW t, NEW u, Typed(t), CountsAgree(t), u.vRandom = t.vRandom, SameTried(t, u), u.nNew = t.nNew,
           DOMAIN u.mapInfo = DOMAIN t.mapInfo,
           \A i \in DOMAIN t.mapInfo : u.mapInfo[i].fInTried = t.mapInfo[i].fInTried
    PROVE  CountsAgree(u)
<1>1. Untried(u) = Untried(t) /\ Tried(u) = Tried(t)
    BY DEF Untried, Tried
<1> QED BY <1>1 DEF CountsAgree, SameTried, Untried, Tried

-----------------------------------------------------------------------------
(* Into a bucket and out of it. *)

LEMMA InsertSound ==
    ASSUME NEW t, NEW id \in DOMAIN t.mapInfo, NEW b \in NewBuckets, Sound(t, {id}),
           id \notin t.vvNew[b], ~ t.mapInfo[id].fInTried, t.mapInfo[id].nRefCount # NewBucketsPerAddress
    PROVE  /\ Sound(Insert(t, b, id), {})
           /\ SameTried(t, Insert(t, b, id)) /\ SameIndexes(t, Insert(t, b, id))
           /\ Insert(t, b, id).vvNew[b] = t.vvNew[b] \cup {id}
           /\ \A c \in NewBuckets \ {b} : Insert(t, b, id).vvNew[c] = t.vvNew[c]
<1> DEFINE u == Insert(t, b, id)
<1>0. Typed(t) /\ IndexesAgree(t) /\ EntriesPlaced(t, {id}) /\ CountsAgree(t)
    BY DEF Sound
<1>1. /\ DOMAIN u = Fields /\ SameIndexes(t, u) /\ SameTried(t, u) /\ u.nNew = t.nNew
      /\ u.mapInfo = [t.mapInfo EXCEPT ![id].nRefCount = @ + 1]
      /\ u.vvNew = [t.vvNew EXCEPT ![b] = @ \cup {id}]
    <2>1. DOMAIN t = Fields
        BY <1>0 DEF Typed
    <2> QED BY <2>1 DEF Insert, Fields, SameIndexes, SameTried
<1> HIDE DEF u
<1>2. /\ t.mapInfo \in [DOMAIN t.mapInfo -> CAddrInfo]
      /\ t.vvNew \in [NewBuckets -> SUBSET DOMAIN t.mapInfo]
      /\ t.vvTried \in [TriedBuckets -> SUBSET DOMAIN t.mapInfo]
    BY <1>0 DEF Typed
<1>3. /\ u.mapInfo \in [DOMAIN t.mapInfo -> CAddrInfo]
      /\ u.mapInfo[id] = [t.mapInfo[id] EXCEPT !.nRefCount = t.mapInfo[id].nRefCount + 1]
      /\ \A i \in DOMAIN t.mapInfo \ {id} : u.mapInfo[i] = t.mapInfo[i]
      /\ t.mapInfo[id].nRefCount \in Nat
    BY <1>1, <1>2 DEF CAddrInfo
<1>4. SameEntries(t, u)
    BY <1>2, <1>3 DEF SameEntries, CAddrInfo
<1>5. u.vvNew \in [NewBuckets -> SUBSET DOMAIN t.mapInfo]
    BY <1>1, <1>2
<1>6. Typed(u)
    BY <1>0, <1>1, <1>3, <1>5 DEF Typed, SameIndexes, SameTried
<1>7. IndexesAgree(u)
    BY <1>0, <1>1, <1>4, IndexesKept
<1>8. CountsAgree(u)
    <2>1. DOMAIN u.mapInfo = DOMAIN t.mapInfo /\ u.vRandom = t.vRandom
        BY <1>1, <1>3 DEF SameIndexes
    <2>2. \A i \in DOMAIN t.mapInfo : u.mapInfo[i].fInTried = t.mapInfo[i].fInTried
        BY <1>2, <1>3 DEF CAddrInfo
    <2> QED BY <1>0, <1>1, <2>1, <2>2, CountsKept
<1>9. EntriesPlaced(u, {})
    <2>1. BucketsOf(u, id) = BucketsOf(t, id) \cup {b} /\ b \notin BucketsOf(t, id)
        BY <1>1, <1>2 DEF BucketsOf
    <2>2. Cardinality(BucketsOf(u, id)) = Cardinality(BucketsOf(t, id)) + 1
        BY <2>1, BucketsFinite, FS_AddElement
    <2>3. \A i \in DOMAIN t.mapInfo \ {id} : BucketsOf(u, i) = BucketsOf(t, i)
        BY <1>1, <1>2 DEF BucketsOf
    <2>4. SUFFICES ASSUME NEW i \in DOMAIN t.mapInfo
          PROVE /\ u.mapInfo[i].nRefCount = Cardinality(BucketsOf(u, i))
                /\ u.mapInfo[i].nRefCount <= NewBucketsPerAddress
                /\ \A k \in TriedBuckets :
                     i \in u.vvTried[k] <=> u.mapInfo[i].fInTried /\ k = GetTriedBucket[u.mapInfo[i].addr]
                /\ IF u.mapInfo[i].fInTried THEN u.mapInfo[i].nRefCount = 0 ELSE u.mapInfo[i].nRefCount # 0
        BY <1>3 DEF EntriesPlaced, BucketsOf
    <2>5. /\ t.mapInfo[i].nRefCount = Cardinality(BucketsOf(t, i))
          /\ t.mapInfo[i].nRefCount <= NewBucketsPerAddress
          /\ \A k \in TriedBuckets :
               i \in t.vvTried[k] <=> t.mapInfo[i].fInTried /\ k = GetTriedBucket[t.mapInfo[i].addr]
          /\ IF t.mapInfo[i].fInTried THEN t.mapInfo[i].nRefCount = 0
             ELSE t.mapInfo[i].nRefCount = 0 => i = id
        BY <1>0 DEF EntriesPlaced, BucketsOf
    <2>6. CASE i = id
        <3>1. /\ u.mapInfo[i].nRefCount = t.mapInfo[i].nRefCount + 1
              /\ u.mapInfo[i].fInTried = t.mapInfo[i].fInTried /\ u.mapInfo[i].addr = t.mapInfo[i].addr
            BY <1>2, <1>3, <2>6 DEF CAddrInfo
        <3>2. NewBucketsPerAddress \in Nat
            BY AddrManAssumption DEF AddrManAssumption
        <3> QED BY <1>1, <1>3, <2>2, <2>5, <2>6, <3>1, <3>2 DEF SameTried
    <2>7. CASE i # id
        BY <1>1, <1>3, <2>3, <2>5, <2>7 DEF SameTried
    <2> QED BY <2>6, <2>7
<1>10. u.vvNew[b] = t.vvNew[b] \cup {id} /\ \A c \in NewBuckets \ {b} : u.vvNew[c] = t.vvNew[c]
    BY <1>1, <1>2
<1> QED BY <1>1, <1>6, <1>7, <1>8, <1>9, <1>10 DEF Sound, u

\* An entry leaves a bucket, and may then be in none.
Unref(t, b, id) == [t EXCEPT !.vvNew[b] = @ \ {id}, !.mapInfo[id].nRefCount = @ - 1]

\* u is t but for bucket b, which has lost the entry id.
Unreferred(t, u, b, id, L) ==
    /\ Sound(u, L \cup {id}) /\ id \in DOMAIN t.mapInfo /\ SameTried(t, u) /\ SameIndexes(t, u)
    /\ DOMAIN u.mapInfo = DOMAIN t.mapInfo /\ u.vvNew = [t.vvNew EXCEPT ![b] = @ \ {id}]
    /\ ~ u.mapInfo[id].fInTried /\ u.mapInfo[id].addr = t.mapInfo[id].addr
    /\ \A i \in DOMAIN t.mapInfo \ {id} : u.mapInfo[i] = t.mapInfo[i]

LEMMA UnrefSound ==
    ASSUME NEW t, NEW id, NEW b \in NewBuckets, NEW L, Sound(t, L), id \in t.vvNew[b]
    PROVE  Unreferred(t, Unref(t, b, id), b, id, L)
<1> DEFINE u == Unref(t, b, id)
<1>0. Typed(t) /\ IndexesAgree(t) /\ EntriesPlaced(t, L) /\ CountsAgree(t)
    BY DEF Sound
<1>1. id \in DOMAIN t.mapInfo
    BY <1>0 DEF Typed
<1>2. /\ DOMAIN u = Fields /\ SameIndexes(t, u) /\ SameTried(t, u) /\ u.nNew = t.nNew
      /\ u.mapInfo = [t.mapInfo EXCEPT ![id].nRefCount = @ - 1]
      /\ u.vvNew = [t.vvNew EXCEPT ![b] = @ \ {id}]
    BY <1>0 DEF Typed, Unref, Fields, SameIndexes, SameTried
<1> HIDE DEF u
<1>3. /\ t.mapInfo \in [DOMAIN t.mapInfo -> CAddrInfo]
      /\ t.vvNew \in [NewBuckets -> SUBSET DOMAIN t.mapInfo]
      /\ t.vvTried \in [TriedBuckets -> SUBSET DOMAIN t.mapInfo]
    BY <1>0 DEF Typed
<1>4. b \in BucketsOf(t, id) /\ BucketsOf(u, id) = BucketsOf(t, id) \ {b}
    BY <1>2, <1>3 DEF BucketsOf
<1>5. Cardinality(BucketsOf(u, id)) = Cardinality(BucketsOf(t, id)) - 1
    BY <1>4, BucketsFinite, FS_RemoveElement
<1>6. \A i \in DOMAIN t.mapInfo : t.mapInfo[i].nRefCount = Cardinality(BucketsOf(t, i))
    BY <1>0 DEF EntriesPlaced, BucketsOf
<1>7. t.mapInfo[id].nRefCount - 1 = Cardinality(BucketsOf(u, id)) /\ t.mapInfo[id].nRefCount - 1 \in Nat
    BY <1>1, <1>5, <1>6, BucketsFinite
<1>8. /\ u.mapInfo \in [DOMAIN t.mapInfo -> CAddrInfo]
      /\ u.mapInfo[id] = [t.mapInfo[id] EXCEPT !.nRefCount = t.mapInfo[id].nRefCount - 1]
      /\ \A i \in DOMAIN t.mapInfo \ {id} : u.mapInfo[i] = t.mapInfo[i]
    BY <1>1, <1>2, <1>3, <1>7 DEF CAddrInfo
<1>9. /\ u.mapInfo[id].nRefCount = t.mapInfo[id].nRefCount - 1
      /\ u.mapInfo[id].fInTried = t.mapInfo[id].fInTried /\ u.mapInfo[id].addr = t.mapInfo[id].addr
    BY <1>1, <1>3, <1>8 DEF CAddrInfo
<1>10. SameEntries(t, u)
    BY <1>3, <1>8 DEF SameEntries, CAddrInfo
<1>11. u.vvNew \in [NewBuckets -> SUBSET DOMAIN t.mapInfo]
    BY <1>2, <1>3
<1>12. Typed(u)
    BY <1>0, <1>2, <1>8, <1>11 DEF Typed, SameIndexes, SameTried
<1>13. IndexesAgree(u)
    BY <1>0, <1>2, <1>10, IndexesKept
<1>14. CountsAgree(u)
    <2>1. DOMAIN u.mapInfo = DOMAIN t.mapInfo /\ u.vRandom = t.vRandom
        BY <1>2, <1>8 DEF SameIndexes
    <2>2. \A i \in DOMAIN t.mapInfo : u.mapInfo[i].fInTried = t.mapInfo[i].fInTried
        BY <1>8, <1>9
    <2> QED BY <1>0, <1>2, <2>1, <2>2, CountsKept
<1>15. t.mapInfo[id].nRefCount # 0 /\ ~ t.mapInfo[id].fInTried
    <2>1. t.mapInfo[id].nRefCount \in Nat /\ t.mapInfo[id].nRefCount # 0
        BY <1>1, <1>3, <1>7 DEF CAddrInfo
    <2> QED BY <1>0, <1>1, <2>1 DEF EntriesPlaced
<1>16. EntriesPlaced(u, L \cup {id})
    <2>1. \A i \in DOMAIN t.mapInfo \ {id} : BucketsOf(u, i) = BucketsOf(t, i)
        BY <1>2, <1>3 DEF BucketsOf
    <2>2. SUFFICES ASSUME NEW i \in DOMAIN t.mapInfo
          PROVE /\ u.mapInfo[i].nRefCount = Cardinality(BucketsOf(u, i))
                /\ u.mapInfo[i].nRefCount <= NewBucketsPerAddress
                /\ \A k \in TriedBuckets :
                     i \in u.vvTried[k] <=> u.mapInfo[i].fInTried /\ k = GetTriedBucket[u.mapInfo[i].addr]
                /\ IF u.mapInfo[i].fInTried THEN u.mapInfo[i].nRefCount = 0
                   ELSE u.mapInfo[i].nRefCount = 0 => i \in L \cup {id}
        BY <1>8 DEF EntriesPlaced, BucketsOf
    <2>3. /\ t.mapInfo[i].nRefCount <= NewBucketsPerAddress
          /\ \A k \in TriedBuckets :
               i \in t.vvTried[k] <=> t.mapInfo[i].fInTried /\ k = GetTriedBucket[t.mapInfo[i].addr]
          /\ IF t.mapInfo[i].fInTried THEN t.mapInfo[i].nRefCount = 0
             ELSE t.mapInfo[i].nRefCount = 0 => i \in L
        BY <1>0 DEF EntriesPlaced
    <2>4. CASE i = id
        <3>1. NewBucketsPerAddress \in Nat /\ t.mapInfo[id].nRefCount \in Nat
            BY <1>1, <1>3, AddrManAssumption DEF AddrManAssumption, CAddrInfo
        <3> QED BY <1>2, <1>7, <1>9, <1>15, <2>3, <2>4, <3>1 DEF SameTried
    <2>5. CASE i # id
        BY <1>2, <1>6, <1>8, <2>1, <2>3, <2>5 DEF SameTried
    <2> QED BY <2>4, <2>5
<1>17. Unreferred(t, u, b, id, L)
    BY <1>1, <1>2, <1>8, <1>9, <1>12, <1>13, <1>14, <1>15, <1>16 DEF Sound, Unreferred
<1> QED BY ONLY <1>17 DEF u

-----------------------------------------------------------------------------
(* Moves within vRandom, and out of it. *)

\* Entries that differ in their places only.
OnlyMoved(t, u) ==
    /\ u.mapInfo \in [DOMAIN t.mapInfo -> CAddrInfo]
    /\ \A i \in DOMAIN t.mapInfo :
         /\ u.mapInfo[i].addr = t.mapInfo[i].addr /\ u.mapInfo[i].source = t.mapInfo[i].source
         /\ u.mapInfo[i].nRefCount = t.mapInfo[i].nRefCount
         /\ u.mapInfo[i].fInTried = t.mapInfo[i].fInTried

MoveTwo(m, x, q, y, p) == [m EXCEPT ![x].nRandomPos = q, ![y].nRandomPos = p]

TwoMoved(D, m, x, q, y, p, w) ==
    m \in [D -> CAddrInfo] /\ x \in D /\ y \in D /\ p \in Nat /\ q \in Nat /\ w = MoveTwo(m, x, q, y, p)

LEMMA MovedTwo ==
    ASSUME NEW D, NEW m, NEW x, NEW q, NEW y, NEW p, NEW w, TwoMoved(D, m, x, q, y, p, w)
    PROVE  /\ w \in [D -> CAddrInfo]
           /\ \A i \in D :
                /\ w[i].addr = m[i].addr /\ w[i].source = m[i].source
                /\ w[i].nRefCount = m[i].nRefCount /\ w[i].fInTried = m[i].fInTried
                /\ w[i].nRandomPos = IF i = y THEN p ELSE IF i = x THEN q ELSE m[i].nRandomPos
<1> SUFFICES ASSUME m \in [D -> CAddrInfo], x \in D, y \in D, p \in Nat, q \in Nat, w = MoveTwo(m, x, q, y, p)
             PROVE  /\ w \in [D -> CAddrInfo]
                    /\ \A i \in D :
                         /\ w[i].addr = m[i].addr /\ w[i].source = m[i].source
                         /\ w[i].nRefCount = m[i].nRefCount /\ w[i].fInTried = m[i].fInTried
                         /\ w[i].nRandomPos = IF i = y THEN p ELSE IF i = x THEN q ELSE m[i].nRandomPos
    BY DEF TwoMoved
<1> DEFINE v == [m EXCEPT ![x].nRandomPos = q]
<1>1. /\ v[x] = [m[x] EXCEPT !.nRandomPos = q] /\ \A i \in D \ {x} : v[i] = m[i]
      /\ DOMAIN v = D
    OBVIOUS
<1>2. /\ w[y] = [v[y] EXCEPT !.nRandomPos = p] /\ \A i \in D \ {y} : w[i] = v[i]
      /\ w = [i \in D |-> w[i]]
    BY DEF MoveTwo
<1> HIDE DEF v
<1>3. \A i \in D : m[i] \in CAddrInfo
    OBVIOUS
<1>4. \A i \in D :
        /\ v[i] \in CAddrInfo /\ v[i].addr = m[i].addr /\ v[i].source = m[i].source
        /\ v[i].nRefCount = m[i].nRefCount /\ v[i].fInTried = m[i].fInTried
        /\ v[i].nRandomPos = IF i = x THEN q ELSE m[i].nRandomPos
    BY <1>1, <1>3 DEF CAddrInfo
<1>5. \A i \in D :
        /\ w[i] \in CAddrInfo /\ w[i].addr = v[i].addr /\ w[i].source = v[i].source
        /\ w[i].nRefCount = v[i].nRefCount /\ w[i].fInTried = v[i].fInTried
        /\ w[i].nRandomPos = IF i = y THEN p ELSE v[i].nRandomPos
    BY <1>2, <1>4 DEF CAddrInfo
<1>6. w \in [D -> CAddrInfo]
    BY <1>2, <1>5
<1> QED BY <1>4, <1>5, <1>6

LEMMA Places ==
    ASSUME NEW t, Typed(t), IndexesAgree(t)
    PROVE  /\ t.vRandom \in Seq(DOMAIN t.mapInfo) /\ Len(t.vRandom) \in Nat
           /\ DOMAIN t.vRandom = 1..Len(t.vRandom)
           /\ \A r \in 1..Len(t.vRandom) :
                t.vRandom[r] \in DOMAIN t.mapInfo /\ t.mapInfo[t.vRandom[r]].nRandomPos = r
           /\ \A i \in DOMAIN t.mapInfo :
                t.mapInfo[i].nRandomPos \in 1..Len(t.vRandom) /\ t.vRandom[t.mapInfo[i].nRandomPos] = i
<1>1. t.vRandom \in Seq(DOMAIN t.mapInfo)
    BY DEF Typed
<1>2. Len(t.vRandom) \in Nat /\ DOMAIN t.vRandom = 1..Len(t.vRandom)
    BY <1>1, LenProperties
<1>3. \A r \in 1..Len(t.vRandom) : t.vRandom[r] \in DOMAIN t.mapInfo
    BY <1>1, ElementOfSeq
<1> QED BY <1>1, <1>2, <1>3 DEF IndexesAgree

LEMMA SwapSound ==
    ASSUME NEW t, NEW L, Sound(t, L), NEW p \in DOMAIN t.vRandom, NEW q \in DOMAIN t.vRandom
    PROVE  /\ Sound(SwapRandom(t, p, q), L) /\ OnlyMoved(t, SwapRandom(t, p, q))
           /\ SameTried(t, SwapRandom(t, p, q)) /\ SwapRandom(t, p, q).vvNew = t.vvNew
           /\ SwapRandom(t, p, q).mapAddr = t.mapAddr /\ SwapRandom(t, p, q).nNew = t.nNew
           /\ SwapRandom(t, p, q).nIdCount = t.nIdCount
           /\ Len(SwapRandom(t, p, q).vRandom) = Len(t.vRandom)
           /\ SwapRandom(t, p, q).vRandom[q] = t.vRandom[p]
<1> DEFINE u == SwapRandom(t, p, q)
<1>0. Typed(t) /\ IndexesAgree(t) /\ EntriesPlaced(t, L) /\ CountsAgree(t)
    BY DEF Sound
<1>1. /\ DOMAIN u = Fields /\ SameTried(t, u) /\ u.nNew = t.nNew /\ u.vvNew = t.vvNew
      /\ u.nIdCount = t.nIdCount /\ u.mapAddr = t.mapAddr
      /\ u.vRandom = [t.vRandom EXCEPT ![p] = t.vRandom[q], ![q] = t.vRandom[p]]
      /\ u.mapInfo = [t.mapInfo EXCEPT ![t.vRandom[p]].nRandomPos = q, ![t.vRandom[q]].nRandomPos = p]
    <2>1. DOMAIN t = Fields
        BY <1>0 DEF Typed
    <2> QED BY ONLY <2>1 DEF u, SwapRandom, Fields, SameTried
<1> HIDE DEF u
<1>2. /\ t.mapInfo \in [DOMAIN t.mapInfo -> CAddrInfo] /\ t.vRandom \in Seq(DOMAIN t.mapInfo)
      /\ t.vRandom[p] \in DOMAIN t.mapInfo /\ t.vRandom[q] \in DOMAIN t.mapInfo
      /\ p \in Nat /\ q \in Nat /\ p \in 1..Len(t.vRandom) /\ q \in 1..Len(t.vRandom)
    BY <1>0, Places DEF Typed
<1>3. /\ DOMAIN t.vRandom = 1..Len(t.vRandom)
      /\ \A r \in DOMAIN t.vRandom : t.vRandom[r] \in DOMAIN t.mapInfo /\ t.mapInfo[t.vRandom[r]].nRandomPos = r
      /\ \A i \in DOMAIN t.mapInfo :
           t.mapInfo[i].nRandomPos \in DOMAIN t.vRandom /\ t.vRandom[t.mapInfo[i].nRandomPos] = i
    BY <1>0, Places
<1>4. /\ u.vRandom \in Seq(DOMAIN t.mapInfo) /\ Len(u.vRandom) = Len(t.vRandom)
      /\ DOMAIN u.vRandom = DOMAIN t.vRandom
      /\ \A r \in DOMAIN t.vRandom :
           u.vRandom[r] = IF r = q THEN t.vRandom[p] ELSE IF r = p THEN t.vRandom[q] ELSE t.vRandom[r]
    <2> DEFINE v == [t.vRandom EXCEPT ![p] = t.vRandom[q]]
    <2>1. /\ v \in Seq(DOMAIN t.mapInfo) /\ Len(v) = Len(t.vRandom)
          /\ \A r \in 1..Len(t.vRandom) : v[r] = IF r = p THEN t.vRandom[q] ELSE t.vRandom[r]
        BY <1>2, ExceptSeq
    <2>2. u.vRandom = [v EXCEPT ![q] = t.vRandom[p]]
        BY <1>1
    <2> HIDE DEF v
    <2>3. /\ u.vRandom \in Seq(DOMAIN t.mapInfo) /\ Len(u.vRandom) = Len(v)
          /\ \A r \in 1..Len(v) : u.vRandom[r] = IF r = q THEN t.vRandom[p] ELSE v[r]
        BY <1>2, <2>1, <2>2, ExceptSeq
    <2>4. DOMAIN u.vRandom = 1..Len(u.vRandom)
        BY <2>3, LenProperties
    <2> QED BY <1>3, <2>1, <2>3, <2>4
<1>5. /\ u.mapInfo \in [DOMAIN t.mapInfo -> CAddrInfo]
      /\ \A i \in DOMAIN t.mapInfo :
           /\ u.mapInfo[i].addr = t.mapInfo[i].addr /\ u.mapInfo[i].source = t.mapInfo[i].source
           /\ u.mapInfo[i].nRefCount = t.mapInfo[i].nRefCount
           /\ u.mapInfo[i].fInTried = t.mapInfo[i].fInTried
           /\ u.mapInfo[i].nRandomPos = IF i = t.vRandom[q] THEN p ELSE IF i = t.vRandom[p] THEN q
                                        ELSE t.mapInfo[i].nRandomPos
    <2>1. u.mapInfo = MoveTwo(t.mapInfo, t.vRandom[p], q, t.vRandom[q], p)
        BY <1>1 DEF MoveTwo
    <2> DEFINE D == DOMAIN t.mapInfo
               m == t.mapInfo
               x == t.vRandom[p]
               y == t.vRandom[q]
               w == u.mapInfo
    <2>2. TwoMoved(D, m, x, q, y, p, w)
        BY <1>2, <2>1 DEF TwoMoved
    <2>3. /\ w \in [D -> CAddrInfo]
          /\ \A i \in D :
               /\ w[i].addr = m[i].addr /\ w[i].source = m[i].source
               /\ w[i].nRefCount = m[i].nRefCount /\ w[i].fInTried = m[i].fInTried
               /\ w[i].nRandomPos = IF i = y THEN p ELSE IF i = x THEN q ELSE m[i].nRandomPos
        <3> HIDE DEF D, m, x, y, w
        <3> QED BY ONLY <2>2, MovedTwo
    <2> QED BY <2>3
<1>6. OnlyMoved(t, u)
    BY <1>5 DEF OnlyMoved
<1>7. \A i \in DOMAIN t.mapInfo :
        u.mapInfo[i].nRandomPos = IF i = t.vRandom[q] THEN p ELSE IF i = t.vRandom[p] THEN q
                                  ELSE t.mapInfo[i].nRandomPos
    BY <1>5
<1>8. Typed(u)
    BY <1>0, <1>1, <1>4, <1>5 DEF Typed, SameTried
<1>9. IndexesAgree(u)
    <2>1. \A h \in DOMAIN u.mapAddr : Ip[u.mapInfo[u.mapAddr[h]].addr] = h
        <3>1. \A h \in DOMAIN t.mapAddr : t.mapAddr[h] \in DOMAIN t.mapInfo /\ Ip[t.mapInfo[t.mapAddr[h]].addr] = h
            BY <1>0 DEF Typed, IndexesAgree
        <3>2. ASSUME NEW h \in DOMAIN u.mapAddr PROVE Ip[u.mapInfo[u.mapAddr[h]].addr] = h
            <4>1. t.mapAddr[h] \in DOMAIN t.mapInfo /\ Ip[t.mapInfo[t.mapAddr[h]].addr] = h /\ u.mapAddr[h] = t.mapAddr[h]
                BY <1>1, <3>1, <3>2
            <4>2. u.mapInfo[t.mapAddr[h]].addr = t.mapInfo[t.mapAddr[h]].addr
                BY <1>5, <4>1
            <4> QED BY ONLY <4>1, <4>2
        <3> QED BY <3>2
    <2>2. \A r \in DOMAIN u.vRandom : u.mapInfo[u.vRandom[r]].nRandomPos = r
        <3> SUFFICES ASSUME NEW r \in DOMAIN t.vRandom PROVE u.mapInfo[u.vRandom[r]].nRandomPos = r
            BY <1>4
        <3>1. CASE r = q
            BY <1>2, <1>3, <1>4, <1>7, <3>1
        <3>2. CASE r # q /\ r = p
            BY <1>2, <1>3, <1>4, <1>7, <3>2
        <3>3. CASE r # q /\ r # p
            BY <1>2, <1>3, <1>4, <1>7, <3>3
        <3> QED BY <3>1, <3>2, <3>3
    <2>3. \A i \in DOMAIN u.mapInfo :
            u.mapInfo[i].nRandomPos \in DOMAIN u.vRandom /\ u.vRandom[u.mapInfo[i].nRandomPos] = i
        <3> SUFFICES ASSUME NEW i \in DOMAIN t.mapInfo
              PROVE u.mapInfo[i].nRandomPos \in DOMAIN u.vRandom /\ u.vRandom[u.mapInfo[i].nRandomPos] = i
            BY <1>5
        <3>1. CASE i = t.vRandom[q]
            BY <1>3, <1>4, <1>7, <3>1
        <3>2. CASE i # t.vRandom[q] /\ i = t.vRandom[p]
            BY <1>3, <1>4, <1>7, <3>2
        <3>3. CASE i # t.vRandom[q] /\ i # t.vRandom[p]
            BY <1>3, <1>4, <1>7, <3>3
        <3> QED BY <3>1, <3>2, <3>3
    <2>4. \A i \in DOMAIN u.mapInfo :
            Ip[u.mapInfo[i].addr] \in DOMAIN u.mapAddr /\ u.mapAddr[Ip[u.mapInfo[i].addr]] = i
        <3>1. ASSUME NEW i \in DOMAIN t.mapInfo
              PROVE Ip[u.mapInfo[i].addr] \in DOMAIN u.mapAddr /\ u.mapAddr[Ip[u.mapInfo[i].addr]] = i
            <4>1. Ip[t.mapInfo[i].addr] \in DOMAIN t.mapAddr /\ t.mapAddr[Ip[t.mapInfo[i].addr]] = i
                BY <1>0 DEF IndexesAgree
            <4>2. u.mapInfo[i].addr = t.mapInfo[i].addr
                BY <1>5
            <4> QED BY ONLY <1>1, <4>1, <4>2
        <3> QED BY <1>5, <3>1
    <2> QED BY <2>1, <2>2, <2>3, <2>4 DEF IndexesAgree
<1>10. CountsAgree(u)
    <2>1. Untried(u) = Untried(t) /\ Tried(u) = Tried(t)
        BY <1>6 DEF Untried, Tried, OnlyMoved
    <2> QED BY <1>0, <1>1, <1>4, <2>1 DEF CountsAgree, SameTried, Untried, Tried
<1>11. EntriesPlaced(u, L)
    <2>1. DOMAIN u.mapInfo = DOMAIN t.mapInfo /\ u.vvTried = t.vvTried /\ u.vvNew = t.vvNew
        BY <1>1, <1>5 DEF SameTried
    <2> SUFFICES ASSUME NEW i \in DOMAIN t.mapInfo
          PROVE /\ u.mapInfo[i].nRefCount = Cardinality({ b \in NewBuckets : i \in u.vvNew[b] })
                /\ u.mapInfo[i].nRefCount <= NewBucketsPerAddress
                /\ \A k \in TriedBuckets :
                     i \in u.vvTried[k] <=> u.mapInfo[i].fInTried /\ k = GetTriedBucket[u.mapInfo[i].addr]
                /\ IF u.mapInfo[i].fInTried THEN u.mapInfo[i].nRefCount = 0
                   ELSE u.mapInfo[i].nRefCount = 0 => i \in L
        BY <2>1 DEF EntriesPlaced
    <2>2. /\ t.mapInfo[i].nRefCount = Cardinality({ b \in NewBuckets : i \in t.vvNew[b] })
          /\ t.mapInfo[i].nRefCount <= NewBucketsPerAddress
          /\ \A k \in TriedBuckets :
               i \in t.vvTried[k] <=> t.mapInfo[i].fInTried /\ k = GetTriedBucket[t.mapInfo[i].addr]
          /\ IF t.mapInfo[i].fInTried THEN t.mapInfo[i].nRefCount = 0
             ELSE t.mapInfo[i].nRefCount = 0 => i \in L
        BY <1>0 DEF EntriesPlaced
    <2> QED BY <1>5, <2>1, <2>2
<1>12. u.vRandom[q] = t.vRandom[p]
    BY <1>4
<1> QED BY <1>1, <1>4, <1>6, <1>8, <1>9, <1>10, <1>11, <1>12 DEF Sound, u

LEMMA ForgetSound ==
    ASSUME NEW t, NEW L, NEW id \in DOMAIN t.mapInfo, Sound(t, L \cup {id}),
           t.mapInfo[id].nRefCount = 0, ~ t.mapInfo[id].fInTried
    PROVE  /\ Sound(Forget(t, id), L) /\ SameTried(t, Forget(t, id)) /\ Forget(t, id).vvNew = t.vvNew
           /\ DOMAIN Forget(t, id).mapInfo = DOMAIN t.mapInfo \ {id}
           /\ Forget(t, id).nIdCount = t.nIdCount
           /\ DOMAIN Forget(t, id).mapAddr = DOMAIN t.mapAddr \ {Ip[t.mapInfo[id].addr]}
           /\ \A i \in DOMAIN t.mapInfo \ {id} :
                /\ Forget(t, id).mapInfo[i].fInTried = t.mapInfo[i].fInTried
                /\ Forget(t, id).mapInfo[i].nRefCount = t.mapInfo[i].nRefCount
<1> DEFINE n == Len(t.vRandom)
           s == SwapRandom(t, t.mapInfo[id].nRandomPos, n)
           u == Forget(t, id)
<1>0. Typed(t) /\ IndexesAgree(t) /\ EntriesPlaced(t, L \cup {id}) /\ CountsAgree(t)
    BY DEF Sound
<1>1. /\ t.vRandom \in Seq(DOMAIN t.mapInfo) /\ n \in Nat /\ DOMAIN t.vRandom = 1..n
      /\ t.mapInfo[id].nRandomPos \in DOMAIN t.vRandom /\ t.vRandom[t.mapInfo[id].nRandomPos] = id
    BY <1>0, Places
<1>2. n \in DOMAIN t.vRandom
    BY <1>1
<1>3. /\ Sound(s, L \cup {id}) /\ OnlyMoved(t, s) /\ SameTried(t, s) /\ s.vvNew = t.vvNew
      /\ s.mapAddr = t.mapAddr /\ s.nNew = t.nNew /\ s.nIdCount = t.nIdCount /\ Len(s.vRandom) = n
      /\ s.vRandom[n] = id
    BY <1>1, <1>2, SwapSound
<1>4. /\ DOMAIN u = Fields /\ u.vRandom = SubSeq(s.vRandom, 1, n - 1) /\ SameTried(t, u) /\ u.vvNew = t.vvNew
      /\ u.mapAddr = [h \in DOMAIN t.mapAddr \ {Ip[t.mapInfo[id].addr]} |-> t.mapAddr[h]]
      /\ u.mapInfo = [i \in DOMAIN t.mapInfo \ {id} |-> s.mapInfo[i]]
      /\ u.nNew = t.nNew - 1 /\ u.nIdCount = t.nIdCount
    <2>1. DOMAIN s = Fields
        BY <1>3 DEF Sound, Typed
    <2> HIDE DEF s
    <2>2. u = [s EXCEPT !.vRandom = SubSeq(s.vRandom, 1, Len(s.vRandom) - 1),
                  !.mapAddr = [h \in DOMAIN t.mapAddr \ {Ip[t.mapInfo[id].addr]} |-> t.mapAddr[h]],
                  !.mapInfo = [i \in DOMAIN t.mapInfo \ {id} |-> s.mapInfo[i]],
                  !.nNew = t.nNew - 1]
        BY DEF Forget, s
    <2> QED BY <1>3, <2>1, <2>2 DEF Fields, SameTried
<1> HIDE DEF s, u
<1>5. Typed(s) /\ IndexesAgree(s) /\ EntriesPlaced(s, L \cup {id}) /\ CountsAgree(s)
    BY <1>3 DEF Sound
<1>6. DOMAIN s.mapInfo = DOMAIN t.mapInfo /\ s.mapInfo \in [DOMAIN t.mapInfo -> CAddrInfo]
    BY <1>3 DEF OnlyMoved
<1>7. /\ s.vRandom \in Seq(DOMAIN t.mapInfo) /\ DOMAIN s.vRandom = 1..n
      /\ \A r \in 1..n : s.vRandom[r] \in DOMAIN t.mapInfo /\ s.mapInfo[s.vRandom[r]].nRandomPos = r
      /\ \A i \in DOMAIN t.mapInfo : s.mapInfo[i].nRandomPos \in 1..n /\ s.vRandom[s.mapInfo[i].nRandomPos] = i
    BY <1>3, <1>5, <1>6, Places
<1>8. \A r \in 1..(n - 1) : s.vRandom[r] \in DOMAIN t.mapInfo \ {id}
    <2> SUFFICES ASSUME NEW r \in 1..(n - 1) PROVE s.vRandom[r] \in DOMAIN t.mapInfo /\ s.vRandom[r] # id
        OBVIOUS
    <2>1. r \in 1..n /\ n \in 1..n /\ r # n
        BY <1>1, <1>2
    <2> QED BY <1>3, <1>7, <2>1
<1>9. /\ Len(u.vRandom) = n - 1 /\ DOMAIN u.vRandom = 1..(n - 1) /\ n - 1 \in Nat
      /\ u.vRandom \in Seq(DOMAIN t.mapInfo \ {id})
      /\ \A r \in 1..(n - 1) : u.vRandom[r] = s.vRandom[r]
    <2>1. n - 1 \in Nat /\ 1 \in Int /\ n - 1 \in Int
        BY <1>1, <1>2
    <2>2. /\ u.vRandom \in Seq(DOMAIN t.mapInfo \ {id})
          /\ Len(u.vRandom) = IF 1 <= n - 1 THEN (n - 1) - 1 + 1 ELSE 0
          /\ \A r \in 1..((n - 1) - 1 + 1) : u.vRandom[r] = s.vRandom[1 + r - 1]
        BY <1>4, <1>8, <2>1, SubSeqProperties
    <2>3. Len(u.vRandom) = n - 1 /\ (n - 1) - 1 + 1 = n - 1 /\ \A r \in 1..(n - 1) : 1 + r - 1 = r
        BY <2>1, <2>2
    <2>4. DOMAIN u.vRandom = 1..Len(u.vRandom)
        BY <2>2, LenProperties
    <2> QED BY <2>1, <2>2, <2>3, <2>4
<1>10. u.vRandom \in Seq(DOMAIN u.mapInfo) /\ DOMAIN u.mapInfo = DOMAIN t.mapInfo \ {id}
    BY <1>4, <1>9
<1>11. id \notin UNION { t.vvNew[b] : b \in NewBuckets } /\ id \notin UNION { t.vvTried[k] : k \in TriedBuckets }
    <2>1. Cardinality(BucketsOf(t, id)) = 0
        BY <1>0 DEF EntriesPlaced, BucketsOf
    <2>2. BucketsOf(t, id) = {}
        BY <2>1, BucketsFinite, FS_EmptySet
    <2>3. \A k \in TriedBuckets : id \notin t.vvTried[k]
        BY <1>0 DEF EntriesPlaced
    <2> QED BY <2>2, <2>3 DEF BucketsOf
<1>12. Untried(s) = Untried(t) /\ Tried(s) = Tried(t) /\ id \in Untried(s)
    BY <1>3, <1>6 DEF OnlyMoved, Untried, Tried
<1>13. Untried(u) = Untried(s) \ {id} /\ Tried(u) = Tried(s)
    BY <1>4, <1>6, <1>12 DEF Untried, Tried
<1>14. CountsAgree(u)
    <2>1. Cardinality(Untried(u)) = Cardinality(Untried(s)) - 1
        <3>1. Untried(s) \in SUBSET DOMAIN s.mapInfo
            BY DEF Untried
        <3>2. IsFiniteSet(Untried(s))
            BY <1>5, <3>1, IdsFinite
        <3> QED BY <1>12, <1>13, <3>2, FS_RemoveElement
    <2>2. n = s.nNew + s.nTried /\ s.nNew = Cardinality(Untried(s)) /\ s.nTried = Cardinality(Tried(s))
        BY <1>3, <1>5 DEF CountsAgree, Untried, Tried
    <2>3. s.nNew \in Nat /\ s.nTried \in Nat
        BY <1>5 DEF Typed
    <2>4. u.nNew = Cardinality(Untried(u)) /\ u.nTried = Cardinality(Tried(u)) /\ Len(u.vRandom) = u.nNew + u.nTried
        BY <1>3, <1>4, <1>9, <1>13, <2>1, <2>2, <2>3 DEF SameTried
    <2> QED BY <2>4 DEF CountsAgree, Untried, Tried
<1>15. Typed(u)
    <2>1. u.nNew \in Nat
        <3>1. Cardinality(Untried(u)) \in Nat
            <4>1. Untried(u) \in SUBSET DOMAIN s.mapInfo
                BY <1>13 DEF Untried
            <4> QED BY <1>5, <4>1, IdsFinite
        <3> QED BY <1>14, <3>1 DEF CountsAgree, Untried
    <2>2. u.mapInfo \in [DOMAIN u.mapInfo -> CAddrInfo] /\ DOMAIN u.mapInfo \subseteq 0..(u.nIdCount - 1)
        BY <1>0, <1>4, <1>6, <1>10 DEF Typed
    <2>3. u.mapAddr \in [DOMAIN u.mapAddr -> DOMAIN u.mapInfo]
        <3> SUFFICES ASSUME NEW h \in DOMAIN t.mapAddr \ {Ip[t.mapInfo[id].addr]}
              PROVE t.mapAddr[h] \in DOMAIN t.mapInfo \ {id}
            BY <1>4, <1>10
        <3>1. t.mapAddr[h] \in DOMAIN t.mapInfo /\ Ip[t.mapInfo[t.mapAddr[h]].addr] = h
            BY <1>0 DEF Typed, IndexesAgree
        <3> QED BY <3>1
    <2>4. /\ u.vvTried \in [TriedBuckets -> SUBSET DOMAIN u.mapInfo]
          /\ u.vvNew \in [NewBuckets -> SUBSET DOMAIN u.mapInfo]
        BY <1>0, <1>4, <1>10, <1>11 DEF Typed, SameTried
    <2>5. DOMAIN u.mapAddr \subseteq { Ip[a] : a \in Addr } /\ u.nIdCount \in Nat /\ u.nTried \in Nat
        BY <1>0, <1>4 DEF Typed, SameTried
    <2> QED BY <1>4, <1>10, <2>1, <2>2, <2>3, <2>4, <2>5 DEF Typed
<1>16. \A i \in DOMAIN t.mapInfo \ {id} :
         /\ u.mapInfo[i] = s.mapInfo[i] /\ u.mapInfo[i].addr = t.mapInfo[i].addr
         /\ u.mapInfo[i].nRefCount = t.mapInfo[i].nRefCount /\ u.mapInfo[i].fInTried = t.mapInfo[i].fInTried
    BY <1>3, <1>4 DEF OnlyMoved
<1>17. IndexesAgree(u)
    <2>1. \A h \in DOMAIN u.mapAddr : Ip[u.mapInfo[u.mapAddr[h]].addr] = h
        <3> SUFFICES ASSUME NEW h \in DOMAIN u.mapAddr PROVE Ip[u.mapInfo[u.mapAddr[h]].addr] = h
            OBVIOUS
        <3>1. h \in DOMAIN t.mapAddr /\ u.mapAddr[h] = t.mapAddr[h] /\ u.mapAddr[h] \in DOMAIN t.mapInfo \ {id}
            BY <1>4, <1>10, <1>15 DEF Typed
        <3> QED BY <1>0, <1>16, <3>1 DEF IndexesAgree
    <2>2. \A r \in DOMAIN u.vRandom : u.mapInfo[u.vRandom[r]].nRandomPos = r
        <3> SUFFICES ASSUME NEW r \in 1..(n - 1) PROVE u.mapInfo[u.vRandom[r]].nRandomPos = r
            BY <1>9
        <3>1. r \in 1..n /\ u.vRandom[r] = s.vRandom[r] /\ u.vRandom[r] \in DOMAIN t.mapInfo \ {id}
            BY <1>1, <1>8, <1>9
        <3> QED BY <1>7, <1>16, <3>1
    <2>3. \A i \in DOMAIN u.mapInfo :
            u.mapInfo[i].nRandomPos \in DOMAIN u.vRandom /\ u.vRandom[u.mapInfo[i].nRandomPos] = i
        <3> SUFFICES ASSUME NEW i \in DOMAIN t.mapInfo \ {id}
              PROVE u.mapInfo[i].nRandomPos \in DOMAIN u.vRandom /\ u.vRandom[u.mapInfo[i].nRandomPos] = i
            BY <1>10
        <3>1. s.mapInfo[i].nRandomPos \in 1..n /\ s.vRandom[s.mapInfo[i].nRandomPos] = i
            BY <1>7
        <3>2. s.mapInfo[i].nRandomPos # n
            BY <1>3, <3>1
        <3>3. s.mapInfo[i].nRandomPos \in 1..(n - 1)
            BY <1>1, <3>1, <3>2
        <3>4. u.mapInfo[i].nRandomPos = s.mapInfo[i].nRandomPos
            BY <1>16
        <3> QED BY <1>9, <3>1, <3>3, <3>4
    <2>4. \A i \in DOMAIN u.mapInfo :
            Ip[u.mapInfo[i].addr] \in DOMAIN u.mapAddr /\ u.mapAddr[Ip[u.mapInfo[i].addr]] = i
        <3> SUFFICES ASSUME NEW i \in DOMAIN t.mapInfo \ {id}
              PROVE Ip[u.mapInfo[i].addr] \in DOMAIN u.mapAddr /\ u.mapAddr[Ip[u.mapInfo[i].addr]] = i
            BY <1>10
        <3>1. /\ Ip[t.mapInfo[i].addr] \in DOMAIN t.mapAddr /\ t.mapAddr[Ip[t.mapInfo[i].addr]] = i
              /\ t.mapAddr[Ip[t.mapInfo[id].addr]] = id /\ i # id
            BY <1>0 DEF IndexesAgree
        <3>2. Ip[t.mapInfo[i].addr] \in DOMAIN t.mapAddr \ {Ip[t.mapInfo[id].addr]}
            BY <3>1
        <3>3. u.mapInfo[i].addr = t.mapInfo[i].addr
            BY <1>16
        <3> DEFINE h == Ip[t.mapInfo[i].addr]
        <3>4. h \in DOMAIN u.mapAddr /\ u.mapAddr[h] = t.mapAddr[h]
            <4> HIDE DEF h
            <4> QED BY ONLY <1>4, <3>2 DEF h
        <3>5. Ip[u.mapInfo[i].addr] = h /\ t.mapAddr[h] = i
            BY <3>1, <3>3
        <3> HIDE DEF h
        <3> QED BY ONLY <3>4, <3>5
    <2> QED BY <2>1, <2>2, <2>3, <2>4 DEF IndexesAgree
<1>18. EntriesPlaced(u, L)
    <2> SUFFICES ASSUME NEW i \in DOMAIN t.mapInfo \ {id}
          PROVE /\ u.mapInfo[i].nRefCount = Cardinality({ b \in NewBuckets : i \in u.vvNew[b] })
                /\ u.mapInfo[i].nRefCount <= NewBucketsPerAddress
                /\ \A k \in TriedBuckets :
                     i \in u.vvTried[k] <=> u.mapInfo[i].fInTried /\ k = GetTriedBucket[u.mapInfo[i].addr]
                /\ IF u.mapInfo[i].fInTried THEN u.mapInfo[i].nRefCount = 0
                   ELSE u.mapInfo[i].nRefCount = 0 => i \in L
        BY <1>10 DEF EntriesPlaced
    <2>1. /\ u.vvTried = t.vvTried /\ u.vvNew = t.vvNew
          /\ u.mapInfo[i].addr = t.mapInfo[i].addr /\ u.mapInfo[i].nRefCount = t.mapInfo[i].nRefCount
          /\ u.mapInfo[i].fInTried = t.mapInfo[i].fInTried /\ i # id
        BY <1>4, <1>16 DEF SameTried
    <2>2. /\ t.mapInfo[i].nRefCount = Cardinality({ b \in NewBuckets : i \in t.vvNew[b] })
          /\ t.mapInfo[i].nRefCount <= NewBucketsPerAddress
          /\ \A k \in TriedBuckets :
               i \in t.vvTried[k] <=> t.mapInfo[i].fInTried /\ k = GetTriedBucket[t.mapInfo[i].addr]
          /\ IF t.mapInfo[i].fInTried THEN t.mapInfo[i].nRefCount = 0
             ELSE t.mapInfo[i].nRefCount = 0 => i \in L \cup {id}
        BY <1>0 DEF EntriesPlaced
    <2> QED BY <2>1, <2>2
<1> QED BY <1>4, <1>10, <1>14, <1>15, <1>16, <1>17, <1>18 DEF Sound, u
-----------------------------------------------------------------------------
(* A new entry. *)

\* u is t with one more entry, which no bucket holds yet.
Created(t, u) ==
    /\ Sound(u, {t.nIdCount}) /\ SameTried(t, u) /\ u.vvNew = t.vvNew
    /\ DOMAIN u.mapInfo = DOMAIN t.mapInfo \cup {t.nIdCount} /\ t.nIdCount \notin DOMAIN t.mapInfo
    /\ u.mapInfo[t.nIdCount].nRefCount = 0 /\ ~ u.mapInfo[t.nIdCount].fInTried
    /\ DOMAIN t.mapAddr \subseteq DOMAIN u.mapAddr
    /\ \A h \in DOMAIN t.mapAddr : u.mapAddr[h] = t.mapAddr[h]

LEMMA CreateSound ==
    ASSUME NEW t, NEW a \in Addr, NEW src \in Source, Sound(t, {}), Ip[a] \notin DOMAIN t.mapAddr
    PROVE  Created(t, Create(t, a, src))
<1> DEFINE u == Create(t, a, src)
           id == t.nIdCount
           n == Len(t.vRandom)
           info == [addr |-> a, source |-> src, nRefCount |-> 0, fInTried |-> FALSE, nRandomPos |-> n + 1]
<1>0. Typed(t) /\ IndexesAgree(t) /\ EntriesPlaced(t, {}) /\ CountsAgree(t)
    BY DEF Sound
<1>1. /\ DOMAIN u = Fields /\ SameTried(t, u) /\ u.nNew = t.nNew + 1 /\ u.vvNew = t.vvNew
      /\ u.nIdCount = id + 1
      /\ u.mapInfo = [i \in DOMAIN t.mapInfo \cup {id} |-> IF i = id THEN info ELSE t.mapInfo[i]]
      /\ u.mapAddr = [h \in DOMAIN t.mapAddr \cup {Ip[a]} |-> IF h = Ip[a] THEN id ELSE t.mapAddr[h]]
      /\ u.vRandom = Append(t.vRandom, id)
    <2>1. DOMAIN t = Fields
        BY <1>0 DEF Typed
    <2> QED BY <2>1 DEF Create, Fields, SameTried
<1> HIDE DEF u
<1>2. id \in Nat /\ id \notin DOMAIN t.mapInfo /\ DOMAIN t.mapInfo \subseteq 0..(id - 1)
    BY <1>0 DEF Typed
<1>3. /\ t.vRandom \in Seq(DOMAIN t.mapInfo) /\ n \in Nat /\ DOMAIN t.vRandom = 1..n
      /\ \A r \in 1..n : t.vRandom[r] \in DOMAIN t.mapInfo /\ t.mapInfo[t.vRandom[r]].nRandomPos = r
      /\ \A i \in DOMAIN t.mapInfo : t.mapInfo[i].nRandomPos \in 1..n /\ t.vRandom[t.mapInfo[i].nRandomPos] = i
    BY <1>0, Places
<1>4. info \in CAddrInfo
    BY <1>3 DEF CAddrInfo
<1>5. /\ info.addr = a /\ info.nRefCount = 0 /\ ~ info.fInTried /\ info.nRandomPos = n + 1
    OBVIOUS
<1> HIDE DEF info
<1>6. DOMAIN u.mapInfo = DOMAIN t.mapInfo \cup {id} /\ u.mapInfo[id] = info
      /\ \A i \in DOMAIN t.mapInfo : u.mapInfo[i] = t.mapInfo[i]
    BY <1>1, <1>2
<1>7. DOMAIN u.mapAddr = DOMAIN t.mapAddr \cup {Ip[a]} /\ u.mapAddr[Ip[a]] = id
      /\ \A h \in DOMAIN t.mapAddr : u.mapAddr[h] = t.mapAddr[h]
    BY <1>1
<1>8. /\ u.vRandom \in Seq(DOMAIN u.mapInfo) /\ Len(u.vRandom) = n + 1 /\ DOMAIN u.vRandom = 1..(n + 1)
      /\ u.vRandom[n + 1] = id /\ \A r \in 1..n : u.vRandom[r] = t.vRandom[r]
    <2>1. t.vRandom \in Seq(DOMAIN u.mapInfo) /\ id \in DOMAIN u.mapInfo
        BY <1>3, <1>6
    <2>2. /\ u.vRandom \in Seq(DOMAIN u.mapInfo) /\ Len(u.vRandom) = n + 1
          /\ \A r \in 1..n : u.vRandom[r] = t.vRandom[r] /\ u.vRandom[n + 1] = id
        BY <1>1, <1>3, <2>1, AppendProperties
    <2>3. u.vRandom[n + 1] = id
        BY <1>1, <1>3, <2>1, AppendProperties
    <2>4. DOMAIN u.vRandom = 1..(n + 1)
        BY <2>2, LenProperties
    <2> QED BY <2>2, <2>3, <2>4
<1>9. u.vvNew \in [NewBuckets -> SUBSET DOMAIN t.mapInfo] /\ u.vvTried \in [TriedBuckets -> SUBSET DOMAIN t.mapInfo]
    BY <1>0, <1>1 DEF Typed, SameTried
<1>10. Typed(u)
    <2>1. u.mapInfo \in [DOMAIN u.mapInfo -> CAddrInfo]
        BY <1>0, <1>1, <1>4, <1>6 DEF Typed
    <2>2. u.mapAddr \in [DOMAIN u.mapAddr -> DOMAIN u.mapInfo]
        <3>1. u.mapAddr = [h \in DOMAIN u.mapAddr |-> u.mapAddr[h]]
            BY <1>1
        <3>2. \A h \in DOMAIN t.mapAddr : t.mapAddr[h] \in DOMAIN t.mapInfo
            BY <1>0 DEF Typed
        <3>3. \A h \in DOMAIN u.mapAddr : u.mapAddr[h] \in DOMAIN u.mapInfo
            BY <1>6, <1>7, <3>2
        <3> QED BY <3>1, <3>3
    <2>3. DOMAIN u.mapInfo \subseteq 0..(u.nIdCount - 1) /\ u.nIdCount \in Nat
        BY <1>1, <1>2, <1>6
    <2>4. DOMAIN u.mapAddr \subseteq { Ip[x] : x \in Addr }
        BY <1>0, <1>7 DEF Typed
    <2>5. u.nTried \in Nat /\ u.nNew \in Nat
        BY <1>0, <1>1 DEF Typed, SameTried
    <2>6. u.vvNew \in [NewBuckets -> SUBSET DOMAIN u.mapInfo] /\ u.vvTried \in [TriedBuckets -> SUBSET DOMAIN u.mapInfo]
        BY <1>6, <1>9
    <2> QED BY <1>1, <1>8, <2>1, <2>2, <2>3, <2>4, <2>5, <2>6 DEF Typed
<1>11. IndexesAgree(u)
    <2>1. \A h \in DOMAIN u.mapAddr : Ip[u.mapInfo[u.mapAddr[h]].addr] = h
        <3>1. \A h \in DOMAIN t.mapAddr : t.mapAddr[h] \in DOMAIN t.mapInfo /\ Ip[t.mapInfo[t.mapAddr[h]].addr] = h
            BY <1>0 DEF Typed, IndexesAgree
        <3> QED BY <1>5, <1>6, <1>7, <3>1
    <2>2. \A r \in DOMAIN u.vRandom : u.mapInfo[u.vRandom[r]].nRandomPos = r
        <3>1. u.mapInfo[u.vRandom[n + 1]].nRandomPos = n + 1
            BY <1>5, <1>6, <1>8
        <3>2. ASSUME NEW r \in 1..n PROVE u.mapInfo[u.vRandom[r]].nRandomPos = r
            <4>1. u.vRandom[r] = t.vRandom[r] /\ t.vRandom[r] \in DOMAIN t.mapInfo
                BY <1>3, <1>8
            <4> QED BY <1>3, <1>6, <4>1
        <3>3. \A r \in 1..(n + 1) : r = n + 1 \/ r \in 1..n
            BY <1>3
        <3> QED BY ONLY <1>8, <3>1, <3>2, <3>3
    <2>3. \A i \in DOMAIN u.mapInfo :
            u.mapInfo[i].nRandomPos \in DOMAIN u.vRandom /\ u.vRandom[u.mapInfo[i].nRandomPos] = i
        <3>1. u.mapInfo[id].nRandomPos = n + 1 /\ n + 1 \in 1..(n + 1) /\ u.vRandom[n + 1] = id
            BY <1>3, <1>5, <1>6, <1>8
        <3>2. ASSUME NEW i \in DOMAIN t.mapInfo
              PROVE u.mapInfo[i].nRandomPos \in 1..(n + 1) /\ u.vRandom[u.mapInfo[i].nRandomPos] = i
            <4>1. u.mapInfo[i].nRandomPos \in 1..n /\ t.vRandom[u.mapInfo[i].nRandomPos] = i
                BY <1>3, <1>6
            <4>2. u.mapInfo[i].nRandomPos \in 1..(n + 1)
                BY <1>3, <4>1
            <4> QED BY <1>8, <4>1, <4>2
        <3> QED BY <1>6, <1>8, <3>1, <3>2
    <2>4. \A i \in DOMAIN u.mapInfo :
            Ip[u.mapInfo[i].addr] \in DOMAIN u.mapAddr /\ u.mapAddr[Ip[u.mapInfo[i].addr]] = i
        BY <1>0, <1>5, <1>6, <1>7 DEF IndexesAgree
    <2> QED BY <2>1, <2>2, <2>3, <2>4 DEF IndexesAgree
<1>12. CountsAgree(u)
    <2>1. Untried(u) = Untried(t) \cup {id} /\ Tried(u) = Tried(t) /\ id \notin Untried(t)
        BY <1>2, <1>5, <1>6 DEF Untried, Tried
    <2>2. Cardinality(Untried(u)) = Cardinality(Untried(t)) + 1
        <3>1. Untried(t) \in SUBSET DOMAIN t.mapInfo
            BY DEF Untried
        <3>2. IsFiniteSet(Untried(t))
            BY <1>0, <3>1, IdsFinite
        <3> QED BY <2>1, <3>2, FS_AddElement
    <2>3. n = t.nNew + t.nTried /\ t.nNew = Cardinality(Untried(t)) /\ t.nTried = Cardinality(Tried(t))
        BY <1>0 DEF CountsAgree, Untried, Tried
    <2>4. t.nNew \in Nat /\ t.nTried \in Nat
        BY <1>0 DEF Typed
    <2>5. u.nNew = Cardinality(Untried(u)) /\ u.nTried = Cardinality(Tried(u)) /\ Len(u.vRandom) = u.nNew + u.nTried
        BY <1>1, <1>8, <2>1, <2>2, <2>3, <2>4 DEF SameTried
    <2> QED BY <2>5 DEF CountsAgree, Untried, Tried
<1>13. EntriesPlaced(u, {id})
    <2> SUFFICES ASSUME NEW i \in DOMAIN u.mapInfo
          PROVE /\ u.mapInfo[i].nRefCount = Cardinality(BucketsOf(u, i))
                /\ u.mapInfo[i].nRefCount <= NewBucketsPerAddress
                /\ \A k \in TriedBuckets :
                     i \in u.vvTried[k] <=> u.mapInfo[i].fInTried /\ k = GetTriedBucket[u.mapInfo[i].addr]
                /\ IF u.mapInfo[i].fInTried THEN u.mapInfo[i].nRefCount = 0
                   ELSE u.mapInfo[i].nRefCount = 0 => i \in {id}
        BY DEF EntriesPlaced, BucketsOf
    <2>1. CASE i = id
        <3>1. BucketsOf(u, id) = {} /\ \A k \in TriedBuckets : id \notin u.vvTried[k]
            BY <1>2, <1>9 DEF BucketsOf
        <3>2. Cardinality(BucketsOf(u, id)) = 0
            BY <3>1, FS_EmptySet
        <3>3. NewBucketsPerAddress \in Nat
            BY AddrManAssumption DEF AddrManAssumption
        <3> QED BY <1>5, <1>6, <2>1, <3>1, <3>2, <3>3
    <2>2. CASE i # id
        <3>1. u.mapInfo[i] = t.mapInfo[i] /\ i \in DOMAIN t.mapInfo /\ BucketsOf(u, i) = BucketsOf(t, i)
            BY <1>1, <1>6, <2>2 DEF BucketsOf
        <3>2. /\ t.mapInfo[i].nRefCount = Cardinality(BucketsOf(t, i))
              /\ t.mapInfo[i].nRefCount <= NewBucketsPerAddress
              /\ \A k \in TriedBuckets :
                   i \in t.vvTried[k] <=> t.mapInfo[i].fInTried /\ k = GetTriedBucket[t.mapInfo[i].addr]
              /\ IF t.mapInfo[i].fInTried THEN t.mapInfo[i].nRefCount = 0 ELSE t.mapInfo[i].nRefCount # 0
            BY <1>0, <3>1 DEF EntriesPlaced, BucketsOf
        <3>3. u.vvTried = t.vvTried
            BY <1>1 DEF SameTried
        <3> QED BY <3>1, <3>2, <3>3
    <2> QED BY <2>1, <2>2
<1>14. Created(t, u)
    BY <1>1, <1>2, <1>5, <1>6, <1>7, <1>10, <1>11, <1>12, <1>13 DEF Sound, Created
<1> QED BY ONLY <1>14 DEF u

-----------------------------------------------------------------------------
(* The end of Add_. *)

LEMMA ShrinkSound ==
    ASSUME NEW t, NEW L, NEW b \in NewBuckets, NEW id \in t.vvNew[b], Sound(t, L)
    PROVE  /\ Sound(ShrinkNew(t, b, id), L) /\ SameTried(t, ShrinkNew(t, b, id))
           /\ ShrinkNew(t, b, id).vvNew = [t.vvNew EXCEPT ![b] = @ \ {id}]
           /\ id \in DOMAIN t.mapInfo
           /\ \A i \in DOMAIN t.mapInfo \ {id} :
                /\ i \in DOMAIN ShrinkNew(t, b, id).mapInfo
                /\ ShrinkNew(t, b, id).mapInfo[i].fInTried = t.mapInfo[i].fInTried
                /\ ShrinkNew(t, b, id).mapInfo[i].nRefCount = t.mapInfo[i].nRefCount
           /\ \/ DOMAIN ShrinkNew(t, b, id).mapAddr = DOMAIN t.mapAddr
              \/ /\ DOMAIN ShrinkNew(t, b, id).mapAddr = DOMAIN t.mapAddr \ {Ip[t.mapInfo[id].addr]}
                 /\ BucketsOf(t, id) = {b}
<1> DEFINE s == Unref(t, b, id)
           u == ShrinkNew(t, b, id)
<1>1. /\ Sound(s, L \cup {id}) /\ id \in DOMAIN t.mapInfo /\ SameTried(t, s) /\ SameIndexes(t, s)
      /\ DOMAIN s.mapInfo = DOMAIN t.mapInfo /\ s.vvNew = [t.vvNew EXCEPT ![b] = @ \ {id}]
      /\ ~ s.mapInfo[id].fInTried /\ s.mapInfo[id].addr = t.mapInfo[id].addr
      /\ \A i \in DOMAIN t.mapInfo \ {id} : s.mapInfo[i] = t.mapInfo[i]
    <2>1. b \in NewBuckets /\ Sound(t, L) /\ id \in t.vvNew[b]
        OBVIOUS
    <2> HIDE DEF s
    <2>2. s = Unref(t, b, id)
        BY DEF s
    <2>3. Unreferred(t, s, b, id, L)
        BY ONLY <2>1, <2>2, UnrefSound
    <2> QED BY ONLY <2>3 DEF Unreferred
<1>2. u = IF s.mapInfo[id].nRefCount = 0 THEN Forget(s, id) ELSE s
    BY DEF ShrinkNew, Unref
<1> HIDE DEF s, u
<1>3. CASE s.mapInfo[id].nRefCount = 0
    <2>1. u = Forget(s, id)
        BY <1>2, <1>3
    <2>2. id \in DOMAIN s.mapInfo
        BY <1>1
    <2>3. /\ Sound(u, L) /\ SameTried(s, u) /\ u.vvNew = s.vvNew /\ DOMAIN u.mapInfo = DOMAIN s.mapInfo \ {id}
          /\ DOMAIN u.mapAddr = DOMAIN s.mapAddr \ {Ip[s.mapInfo[id].addr]}
          /\ \A i \in DOMAIN s.mapInfo \ {id} :
               u.mapInfo[i].fInTried = s.mapInfo[i].fInTried /\ u.mapInfo[i].nRefCount = s.mapInfo[i].nRefCount
        BY <1>1, <1>3, <2>1, <2>2, ForgetSound
    <2>4. BucketsOf(s, id) = {} /\ b \in BucketsOf(t, id) /\ BucketsOf(s, id) = BucketsOf(t, id) \ {b}
        <3>1. s.mapInfo[id].nRefCount = Cardinality(BucketsOf(s, id))
            BY <1>1, <2>2 DEF Sound, EntriesPlaced, BucketsOf
        <3>2. BucketsOf(s, id) = {}
            BY <1>3, <3>1, BucketsFinite, FS_EmptySet
        <3>3. t.vvNew \in [NewBuckets -> SUBSET DOMAIN t.mapInfo]
            BY DEF Sound, Typed
        <3> QED BY <1>1, <3>2, <3>3 DEF BucketsOf
    <2> QED BY <1>1, <2>3, <2>4 DEF SameTried, SameIndexes, u
<1>4. CASE s.mapInfo[id].nRefCount # 0
    <2>1. u = s /\ Sound(s, L)
        <3>1. EntriesPlaced(s, L)
            BY <1>1, <1>4 DEF Sound, EntriesPlaced
        <3> QED BY <1>1, <1>2, <1>4, <3>1 DEF Sound
    <2> QED BY <1>1, <2>1 DEF SameTried, SameIndexes, u
<1> QED BY <1>3, <1>4

-----------------------------------------------------------------------------
(* The parts of MakeTried. *)

LEMMA LeaveNewSound ==
    ASSUME NEW t, NEW L, NEW id \in DOMAIN t.mapInfo, Sound(t, L), ~ t.mapInfo[id].fInTried
    PROVE  /\ Sound(LeaveNew(t, id), L \cup {id})
           /\ SameIndexes(t, LeaveNew(t, id)) /\ SameTried(t, LeaveNew(t, id))
           /\ LeaveNew(t, id).vvNew = [b \in NewBuckets |-> t.vvNew[b] \ {id}]
           /\ DOMAIN LeaveNew(t, id).mapInfo = DOMAIN t.mapInfo
           /\ LeaveNew(t, id).mapInfo[id].nRefCount = 0 /\ ~ LeaveNew(t, id).mapInfo[id].fInTried
           /\ LeaveNew(t, id).mapInfo[id].addr = t.mapInfo[id].addr
           /\ \A i \in DOMAIN t.mapInfo \ {id} : LeaveNew(t, id).mapInfo[i] = t.mapInfo[i]
<1> DEFINE u == LeaveNew(t, id)
<1>0. Typed(t) /\ IndexesAgree(t) /\ EntriesPlaced(t, L) /\ CountsAgree(t)
    BY DEF Sound
<1>1. /\ DOMAIN u = Fields /\ SameIndexes(t, u) /\ SameTried(t, u) /\ u.nNew = t.nNew
      /\ u.mapInfo = [t.mapInfo EXCEPT ![id].nRefCount = @ - Cardinality(BucketsOf(t, id))]
      /\ u.vvNew = [b \in NewBuckets |-> t.vvNew[b] \ {id}]
    <2>1. DOMAIN t = Fields
        BY <1>0 DEF Typed
    <2> QED BY <2>1 DEF LeaveNew, Fields, SameIndexes, SameTried, BucketsOf
<1> HIDE DEF u
<1>2. /\ t.mapInfo \in [DOMAIN t.mapInfo -> CAddrInfo]
      /\ t.vvNew \in [NewBuckets -> SUBSET DOMAIN t.mapInfo]
      /\ t.vvTried \in [TriedBuckets -> SUBSET DOMAIN t.mapInfo]
    BY <1>0 DEF Typed
<1>3. t.mapInfo[id].nRefCount = Cardinality(BucketsOf(t, id)) /\ Cardinality(BucketsOf(t, id)) \in Nat
    BY ONLY <1>0, id \in DOMAIN t.mapInfo, BucketsFinite DEF EntriesPlaced, BucketsOf
<1>4. t.mapInfo[id].nRefCount - Cardinality(BucketsOf(t, id)) = 0
    BY <1>3
<1>5. /\ u.mapInfo \in [DOMAIN t.mapInfo -> CAddrInfo]
      /\ u.mapInfo[id] = [t.mapInfo[id] EXCEPT !.nRefCount = 0]
      /\ \A i \in DOMAIN t.mapInfo \ {id} : u.mapInfo[i] = t.mapInfo[i]
    <2> DEFINE e == [t.mapInfo[id] EXCEPT !.nRefCount = 0]
    <2>1. u.mapInfo = [t.mapInfo EXCEPT ![id] = e]
        BY ONLY <1>1, <1>4
    <2>2. e \in CAddrInfo
        BY <1>2 DEF CAddrInfo
    <2> HIDE DEF e
    <2>3. u.mapInfo \in [DOMAIN t.mapInfo -> CAddrInfo] /\ u.mapInfo[id] = e
          /\ \A i \in DOMAIN t.mapInfo \ {id} : u.mapInfo[i] = t.mapInfo[i]
        BY ONLY <1>2, <2>1, <2>2, id \in DOMAIN t.mapInfo
    <2> QED BY ONLY <2>3 DEF e
<1>6. /\ u.mapInfo[id].nRefCount = 0 /\ u.mapInfo[id].fInTried = t.mapInfo[id].fInTried
      /\ u.mapInfo[id].addr = t.mapInfo[id].addr
    BY <1>2, <1>5 DEF CAddrInfo
<1>7. SameEntries(t, u)
    BY <1>2, <1>5 DEF SameEntries, CAddrInfo
<1>8. Typed(u)
    <2>1. u.vvNew \in [NewBuckets -> SUBSET DOMAIN t.mapInfo]
        BY <1>1, <1>2
    <2> QED BY <1>0, <1>1, <1>5, <2>1 DEF Typed, SameIndexes, SameTried
<1>9. IndexesAgree(u)
    BY <1>0, <1>1, <1>7, IndexesKept
<1>10. CountsAgree(u)
    <2>1. DOMAIN u.mapInfo = DOMAIN t.mapInfo /\ u.vRandom = t.vRandom
        BY <1>1, <1>5 DEF SameIndexes
    <2>2. \A i \in DOMAIN t.mapInfo : u.mapInfo[i].fInTried = t.mapInfo[i].fInTried
        BY <1>5, <1>6
    <2> QED BY <1>0, <1>1, <2>1, <2>2, CountsKept
<1>11. EntriesPlaced(u, L \cup {id})
    <2> SUFFICES ASSUME NEW i \in DOMAIN t.mapInfo
          PROVE /\ u.mapInfo[i].nRefCount = Cardinality(BucketsOf(u, i))
                /\ u.mapInfo[i].nRefCount <= NewBucketsPerAddress
                /\ \A k \in TriedBuckets :
                     i \in u.vvTried[k] <=> u.mapInfo[i].fInTried /\ k = GetTriedBucket[u.mapInfo[i].addr]
                /\ IF u.mapInfo[i].fInTried THEN u.mapInfo[i].nRefCount = 0
                   ELSE u.mapInfo[i].nRefCount = 0 => i \in L \cup {id}
        BY <1>5 DEF EntriesPlaced, BucketsOf
    <2>1. /\ t.mapInfo[i].nRefCount = Cardinality(BucketsOf(t, i))
          /\ t.mapInfo[i].nRefCount <= NewBucketsPerAddress
          /\ \A k \in TriedBuckets :
               i \in t.vvTried[k] <=> t.mapInfo[i].fInTried /\ k = GetTriedBucket[t.mapInfo[i].addr]
          /\ IF t.mapInfo[i].fInTried THEN t.mapInfo[i].nRefCount = 0
             ELSE t.mapInfo[i].nRefCount = 0 => i \in L
        BY <1>0 DEF EntriesPlaced, BucketsOf
    <2>2. u.vvTried = t.vvTried
        BY <1>1 DEF SameTried
    <2>3. CASE i = id
        <3>1. BucketsOf(u, i) = {}
            BY <1>1, <2>3 DEF BucketsOf
        <3>2. Cardinality(BucketsOf(u, i)) = 0
            BY <3>1, FS_EmptySet
        <3>3. NewBucketsPerAddress \in Nat
            BY AddrManAssumption DEF AddrManAssumption
        <3>4. u.mapInfo[i].nRefCount = 0 /\ 0 <= NewBucketsPerAddress
            BY <1>6, <2>3, <3>3
        <3> QED BY <1>6, <2>1, <2>2, <2>3, <3>2, <3>4
    <2>4. CASE i # id
        <3>1. BucketsOf(u, i) = BucketsOf(t, i)
            BY <1>1, <2>4 DEF BucketsOf
        <3>2. u.mapInfo[i] = t.mapInfo[i]
            BY <1>5, <2>4
        <3> QED BY <2>1, <2>2, <3>1, <3>2
    <2> QED BY <2>3, <2>4
<1> QED BY <1>1, <1>5, <1>6, <1>8, <1>9, <1>10, <1>11 DEF Sound, u

\* u is t with the entry id in its tried bucket.
Entered(t, u, id, L) ==
    /\ Sound(u, L) /\ u.mapAddr = t.mapAddr /\ u.vvNew = t.vvNew
    /\ \A k \in TriedBuckets : u.vvTried[k] =
         IF k = GetTriedBucket[t.mapInfo[id].addr] THEN t.vvTried[k] \cup {id} ELSE t.vvTried[k]

LEMMA EnterTriedSound ==
    ASSUME NEW t, NEW L, NEW id \in DOMAIN t.mapInfo, Sound(t, L \cup {id}),
           ~ t.mapInfo[id].fInTried, t.mapInfo[id].nRefCount = 0
    PROVE  Entered(t, EnterTried(t, id), id, L)
<1> DEFINE u == EnterTried(t, id)
           k0 == GetTriedBucket[t.mapInfo[id].addr]
<1>0. Typed(t) /\ IndexesAgree(t) /\ EntriesPlaced(t, L \cup {id}) /\ CountsAgree(t)
    BY DEF Sound
<1>1. /\ DOMAIN u = Fields /\ SameIndexes(t, u) /\ u.vvNew = t.vvNew
      /\ u.mapInfo = [t.mapInfo EXCEPT ![id].fInTried = TRUE]
      /\ u.nTried = t.nTried + 1 /\ u.nNew = t.nNew - 1
      /\ u.vvTried = [t.vvTried EXCEPT ![k0] = @ \cup {id}]
    <2>1. DOMAIN t = Fields
        BY <1>0 DEF Typed
    <2> QED BY <2>1 DEF EnterTried, Fields, SameIndexes
<1> HIDE DEF u
<1>2. /\ t.mapInfo \in [DOMAIN t.mapInfo -> CAddrInfo]
      /\ t.vvNew \in [NewBuckets -> SUBSET DOMAIN t.mapInfo]
      /\ t.vvTried \in [TriedBuckets -> SUBSET DOMAIN t.mapInfo]
    BY <1>0 DEF Typed
<1>3. /\ u.mapInfo \in [DOMAIN t.mapInfo -> CAddrInfo]
      /\ u.mapInfo[id] = [t.mapInfo[id] EXCEPT !.fInTried = TRUE]
      /\ \A i \in DOMAIN t.mapInfo \ {id} : u.mapInfo[i] = t.mapInfo[i]
    <2>1. /\ u.mapInfo[id] = [t.mapInfo[id] EXCEPT !.fInTried = TRUE]
          /\ \A i \in DOMAIN t.mapInfo \ {id} : u.mapInfo[i] = t.mapInfo[i]
          /\ u.mapInfo = [i \in DOMAIN t.mapInfo |-> u.mapInfo[i]]
        BY <1>1
    <2>2. \A i \in DOMAIN t.mapInfo : t.mapInfo[i] \in CAddrInfo
        BY <1>2
    <2>3. u.mapInfo[id] \in CAddrInfo
        BY <2>1, <2>2 DEF CAddrInfo
    <2>4. \A i \in DOMAIN t.mapInfo : u.mapInfo[i] \in CAddrInfo
        BY <2>1, <2>2, <2>3
    <2> QED BY <2>1, <2>4
<1>4. /\ u.mapInfo[id].nRefCount = 0 /\ u.mapInfo[id].fInTried /\ u.mapInfo[id].addr = t.mapInfo[id].addr
    BY <1>2, <1>3 DEF CAddrInfo
<1>5. SameEntries(t, u)
    BY <1>2, <1>3 DEF SameEntries, CAddrInfo
<1>6. k0 \in TriedBuckets
    BY <1>2, AddrManAssumption DEF AddrManAssumption, CAddrInfo
<1> HIDE DEF k0
<1>7. /\ u.vvTried \in [TriedBuckets -> SUBSET DOMAIN t.mapInfo]
      /\ \A k \in TriedBuckets : u.vvTried[k] = IF k = k0 THEN t.vvTried[k] \cup {id} ELSE t.vvTried[k]
    <2>1. \A k \in TriedBuckets \ {k0} : u.vvTried[k] = t.vvTried[k]
        BY <1>1, <1>2
    <2>2. u.vvTried[k0] = t.vvTried[k0] \cup {id}
        BY <1>1, <1>2, <1>6
    <2>3. u.vvTried = [k \in TriedBuckets |-> u.vvTried[k]]
        BY <1>1, <1>2
    <2>4. \A k \in TriedBuckets : t.vvTried[k] \in SUBSET DOMAIN t.mapInfo
        BY <1>2
    <2>5. \A k \in TriedBuckets : u.vvTried[k] \in SUBSET DOMAIN t.mapInfo
        BY <1>6, <2>1, <2>2, <2>4
    <2> QED BY <2>1, <2>2, <2>3, <2>5
<1>8. /\ Untried(u) = Untried(t) \ {id} /\ Tried(u) = Tried(t) \cup {id}
      /\ id \in Untried(t) /\ id \notin Tried(t)
    BY <1>3, <1>4 DEF Untried, Tried
<1>9. /\ Cardinality(Untried(u)) = Cardinality(Untried(t)) - 1 /\ Cardinality(Untried(u)) \in Nat
      /\ Cardinality(Tried(u)) = Cardinality(Tried(t)) + 1
    <2>1. Untried(t) \in SUBSET DOMAIN t.mapInfo /\ Tried(t) \in SUBSET DOMAIN t.mapInfo
          /\ Untried(u) \in SUBSET DOMAIN t.mapInfo
        BY <1>8 DEF Untried, Tried
    <2>2. IsFiniteSet(Untried(t)) /\ IsFiniteSet(Tried(t))
        BY <1>0, <2>1, IdsFinite
    <2>3. Cardinality(Untried(u)) \in Nat
        BY <1>0, <2>1, IdsFinite
    <2>4. Cardinality(Untried(t) \ {id}) = Cardinality(Untried(t)) - 1
        BY <1>8, <2>2, FS_RemoveElement
    <2>5. Cardinality(Tried(t) \cup {id}) = Cardinality(Tried(t)) + 1
        BY <1>8, <2>2, FS_AddElement
    <2> QED BY <1>8, <2>3, <2>4, <2>5
<1>10. CountsAgree(u) /\ u.nNew \in Nat /\ u.nTried \in Nat
    <2>1. /\ t.nNew = Cardinality(Untried(t)) /\ t.nTried = Cardinality(Tried(t))
          /\ Len(t.vRandom) = t.nNew + t.nTried /\ t.nNew \in Nat /\ t.nTried \in Nat
        BY <1>0 DEF CountsAgree, Untried, Tried, Typed
    <2>2. u.vRandom = t.vRandom
        BY <1>1 DEF SameIndexes
    <2>3. u.nNew = Cardinality(Untried(u)) /\ u.nTried = Cardinality(Tried(u)) /\ Len(u.vRandom) = u.nNew + u.nTried
        BY <1>1, <1>9, <2>1, <2>2
    <2>4. CountsAgree(u)
        BY ONLY <2>3 DEF CountsAgree, Untried, Tried
    <2>5. u.nNew \in Nat /\ u.nTried \in Nat
        BY <1>1, <1>9, <2>1, <2>3
    <2> QED BY <2>4, <2>5
<1>11. Typed(u)
    BY <1>0, <1>1, <1>3, <1>7, <1>10 DEF Typed, SameIndexes
<1>12. IndexesAgree(u)
    BY <1>0, <1>1, <1>5, IndexesKept
<1>13. EntriesPlaced(u, L)
    <2> SUFFICES ASSUME NEW i \in DOMAIN t.mapInfo
          PROVE /\ u.mapInfo[i].nRefCount = Cardinality(BucketsOf(u, i))
                /\ u.mapInfo[i].nRefCount <= NewBucketsPerAddress
                /\ \A k \in TriedBuckets :
                     i \in u.vvTried[k] <=> u.mapInfo[i].fInTried /\ k = GetTriedBucket[u.mapInfo[i].addr]
                /\ IF u.mapInfo[i].fInTried THEN u.mapInfo[i].nRefCount = 0
                   ELSE u.mapInfo[i].nRefCount = 0 => i \in L
        BY <1>3 DEF EntriesPlaced, BucketsOf
    <2>1. /\ t.mapInfo[i].nRefCount = Cardinality(BucketsOf(t, i))
          /\ t.mapInfo[i].nRefCount <= NewBucketsPerAddress
          /\ \A k \in TriedBuckets :
               i \in t.vvTried[k] <=> t.mapInfo[i].fInTried /\ k = GetTriedBucket[t.mapInfo[i].addr]
          /\ IF t.mapInfo[i].fInTried THEN t.mapInfo[i].nRefCount = 0
             ELSE t.mapInfo[i].nRefCount = 0 => i \in L \cup {id}
        BY <1>0 DEF EntriesPlaced, BucketsOf
    <2>2. BucketsOf(u, i) = BucketsOf(t, i)
        BY <1>1 DEF BucketsOf
    <2>3. CASE i = id
        <3>1. u.mapInfo[i].nRefCount = t.mapInfo[i].nRefCount
            BY <1>4, <2>3
        <3>2. \A k \in TriedBuckets : i \in u.vvTried[k] <=> k = k0
            BY <1>7, <2>1, <2>3
        <3>3. GetTriedBucket[u.mapInfo[i].addr] = k0
            BY <1>4, <2>3 DEF k0
        <3> QED BY <1>4, <2>1, <2>2, <2>3, <3>1, <3>2, <3>3
    <2>4. CASE i # id
        <3>1. u.mapInfo[i] = t.mapInfo[i]
            BY <1>3, <2>4
        <3>2. \A k \in TriedBuckets : i \in u.vvTried[k] <=> i \in t.vvTried[k]
            BY <1>7, <2>4
        <3> QED BY <2>1, <2>2, <2>4, <3>1, <3>2
    <2> QED BY <2>3, <2>4
<1>14. Entered(t, u, id, L)
    BY <1>1, <1>7, <1>11, <1>12, <1>10, <1>13 DEF Sound, Entered, k0, SameIndexes
<1> QED BY ONLY <1>14 DEF u

LEMMA EvictSound ==
    ASSUME NEW t, NEW L, NEW old \in DOMAIN t.mapInfo, NEW nOrigin \in NewBuckets, Sound(t, L), t.mapInfo[old].fInTried
    PROVE  /\ Sound(Evict(t, old, nOrigin), L) /\ Evict(t, old, nOrigin).mapAddr = t.mapAddr
           /\ DOMAIN Evict(t, old, nOrigin).mapInfo = DOMAIN t.mapInfo
           /\ EvictTo(t, old, nOrigin) \in NewBuckets
           /\ \A i \in DOMAIN t.mapInfo \ {old} : Evict(t, old, nOrigin).mapInfo[i] = t.mapInfo[i]
           /\ \A k \in TriedBuckets : Evict(t, old, nOrigin).vvTried[k] =
                IF k = GetTriedBucket[t.mapInfo[old].addr] THEN t.vvTried[k] \ {old} ELSE t.vvTried[k]
           /\ \A b \in NewBuckets : Evict(t, old, nOrigin).vvNew[b] =
                IF b = EvictTo(t, old, nOrigin) THEN t.vvNew[b] \cup {old} ELSE t.vvNew[b]
<1> DEFINE u == Evict(t, old, nOrigin)
           k0 == GetTriedBucket[t.mapInfo[old].addr]
           b0 == EvictTo(t, old, nOrigin)
<1>0. Typed(t) /\ IndexesAgree(t) /\ EntriesPlaced(t, L) /\ CountsAgree(t)
    BY DEF Sound
<1>1. /\ DOMAIN u = Fields /\ SameIndexes(t, u)
      /\ u.mapInfo = [t.mapInfo EXCEPT ![old].fInTried = FALSE, ![old].nRefCount = 1]
      /\ u.nTried = t.nTried - 1 /\ u.nNew = t.nNew + 1
      /\ u.vvTried = [t.vvTried EXCEPT ![k0] = @ \ {old}]
      /\ u.vvNew = [t.vvNew EXCEPT ![b0] = @ \cup {old}]
    <2>1. DOMAIN t = Fields
        BY <1>0 DEF Typed
    <2> QED BY <2>1 DEF Evict, Fields, SameIndexes
<1> HIDE DEF u
<1>2. /\ t.mapInfo \in [DOMAIN t.mapInfo -> CAddrInfo]
      /\ t.vvNew \in [NewBuckets -> SUBSET DOMAIN t.mapInfo]
      /\ t.vvTried \in [TriedBuckets -> SUBSET DOMAIN t.mapInfo]
    BY <1>0 DEF Typed
<1>3. /\ u.mapInfo \in [DOMAIN t.mapInfo -> CAddrInfo]
      /\ u.mapInfo[old] = [t.mapInfo[old] EXCEPT !.fInTried = FALSE, !.nRefCount = 1]
      /\ \A i \in DOMAIN t.mapInfo \ {old} : u.mapInfo[i] = t.mapInfo[i]
    <2>1. /\ u.mapInfo[old] = [t.mapInfo[old] EXCEPT !.fInTried = FALSE, !.nRefCount = 1]
          /\ \A i \in DOMAIN t.mapInfo \ {old} : u.mapInfo[i] = t.mapInfo[i]
          /\ u.mapInfo = [i \in DOMAIN t.mapInfo |-> u.mapInfo[i]]
        BY <1>1
    <2>2. \A i \in DOMAIN t.mapInfo : t.mapInfo[i] \in CAddrInfo
        BY <1>2
    <2>3. u.mapInfo[old] \in CAddrInfo
        <3> DEFINE v == [t.mapInfo[old] EXCEPT !.fInTried = FALSE]
        <3>1. v \in CAddrInfo
            BY <2>2 DEF CAddrInfo
        <3>2. u.mapInfo[old] = [v EXCEPT !.nRefCount = 1]
            BY <2>1
        <3> HIDE DEF v
        <3> QED BY <3>1, <3>2 DEF CAddrInfo
    <2>4. \A i \in DOMAIN t.mapInfo : u.mapInfo[i] \in CAddrInfo
        BY <2>1, <2>2, <2>3
    <2> QED BY <2>1, <2>4
<1>4. /\ u.mapInfo[old].nRefCount = 1 /\ ~ u.mapInfo[old].fInTried /\ u.mapInfo[old].addr = t.mapInfo[old].addr
    BY <1>2, <1>3 DEF CAddrInfo
<1>5. SameEntries(t, u)
    <2>1. /\ u.mapInfo[old].addr = t.mapInfo[old].addr
          /\ u.mapInfo[old].nRandomPos = t.mapInfo[old].nRandomPos
        BY <1>2, <1>3 DEF CAddrInfo
    <2> QED BY <1>3, <2>1 DEF SameEntries
<1>6. k0 \in TriedBuckets /\ b0 \in NewBuckets
    <2>1. t.mapInfo[old].addr \in Addr /\ t.mapInfo[old].source \in Source
        BY <1>2 DEF CAddrInfo
    <2> QED BY <2>1, AddrManAssumption DEF AddrManAssumption, EvictTo
<1> HIDE DEF k0, b0
<1>7. /\ u.vvTried \in [TriedBuckets -> SUBSET DOMAIN t.mapInfo]
      /\ \A k \in TriedBuckets : u.vvTried[k] = IF k = k0 THEN t.vvTried[k] \ {old} ELSE t.vvTried[k]
    <2>1. \A k \in TriedBuckets \ {k0} : u.vvTried[k] = t.vvTried[k]
        BY <1>1, <1>2
    <2>2. u.vvTried[k0] = t.vvTried[k0] \ {old}
        BY <1>1, <1>2, <1>6
    <2>3. u.vvTried = [k \in TriedBuckets |-> u.vvTried[k]]
        BY <1>1, <1>2
    <2>4. \A k \in TriedBuckets : t.vvTried[k] \in SUBSET DOMAIN t.mapInfo
        BY <1>2
    <2>5. \A k \in TriedBuckets : u.vvTried[k] \in SUBSET DOMAIN t.mapInfo
        BY <1>6, <2>1, <2>2, <2>4
    <2> QED BY <2>1, <2>2, <2>3, <2>5
<1>8. /\ u.vvNew \in [NewBuckets -> SUBSET DOMAIN t.mapInfo]
      /\ \A b \in NewBuckets : u.vvNew[b] = IF b = b0 THEN t.vvNew[b] \cup {old} ELSE t.vvNew[b]
    <2>1. \A b \in NewBuckets \ {b0} : u.vvNew[b] = t.vvNew[b]
        BY <1>1, <1>2
    <2>2. u.vvNew[b0] = t.vvNew[b0] \cup {old}
        BY <1>1, <1>2, <1>6
    <2>3. u.vvNew = [b \in NewBuckets |-> u.vvNew[b]]
        BY <1>1, <1>2
    <2>4. \A b \in NewBuckets : t.vvNew[b] \in SUBSET DOMAIN t.mapInfo
        BY <1>2
    <2>5. \A b \in NewBuckets : u.vvNew[b] \in SUBSET DOMAIN t.mapInfo
        BY <1>6, <2>1, <2>2, <2>4
    <2> QED BY <2>1, <2>2, <2>3, <2>5
<1>9. /\ Untried(u) = Untried(t) \cup {old} /\ Tried(u) = Tried(t) \ {old}
      /\ old \notin Untried(t) /\ old \in Tried(t)
    BY <1>3, <1>4 DEF Untried, Tried
<1>10. /\ Cardinality(Untried(u)) = Cardinality(Untried(t)) + 1
       /\ Cardinality(Tried(u)) = Cardinality(Tried(t)) - 1 /\ Cardinality(Tried(u)) \in Nat
    <2>1. Untried(t) \in SUBSET DOMAIN t.mapInfo /\ Tried(t) \in SUBSET DOMAIN t.mapInfo
          /\ Tried(u) \in SUBSET DOMAIN t.mapInfo
        BY <1>9 DEF Untried, Tried
    <2>2. IsFiniteSet(Untried(t)) /\ IsFiniteSet(Tried(t))
        BY <1>0, <2>1, IdsFinite
    <2>3. Cardinality(Tried(u)) \in Nat
        BY <1>0, <2>1, IdsFinite
    <2>4. Cardinality(Tried(t) \ {old}) = Cardinality(Tried(t)) - 1
        BY <1>9, <2>2, FS_RemoveElement
    <2>5. Cardinality(Untried(t) \cup {old}) = Cardinality(Untried(t)) + 1
        BY <1>9, <2>2, FS_AddElement
    <2> QED BY <1>9, <2>3, <2>4, <2>5
<1>11. CountsAgree(u) /\ u.nNew \in Nat /\ u.nTried \in Nat
    <2>1. /\ t.nNew = Cardinality(Untried(t)) /\ t.nTried = Cardinality(Tried(t))
          /\ Len(t.vRandom) = t.nNew + t.nTried /\ t.nNew \in Nat /\ t.nTried \in Nat
        BY <1>0 DEF CountsAgree, Untried, Tried, Typed
    <2>2. u.vRandom = t.vRandom
        BY <1>1 DEF SameIndexes
    <2>3. u.nNew = Cardinality(Untried(u)) /\ u.nTried = Cardinality(Tried(u)) /\ Len(u.vRandom) = u.nNew + u.nTried
        BY <1>1, <1>10, <2>1, <2>2
    <2>4. CountsAgree(u)
        BY ONLY <2>3 DEF CountsAgree, Untried, Tried
    <2>5. u.nNew \in Nat /\ u.nTried \in Nat
        BY <1>1, <1>10, <2>1, <2>3
    <2> QED BY <2>4, <2>5
<1>12. Typed(u)
    BY <1>0, <1>1, <1>3, <1>7, <1>8, <1>11 DEF Typed, SameIndexes
<1>13. IndexesAgree(u)
    BY <1>0, <1>1, <1>5, IndexesKept
<1>14. EntriesPlaced(u, L)
    <2> SUFFICES ASSUME NEW i \in DOMAIN t.mapInfo
          PROVE /\ u.mapInfo[i].nRefCount = Cardinality(BucketsOf(u, i))
                /\ u.mapInfo[i].nRefCount <= NewBucketsPerAddress
                /\ \A k \in TriedBuckets :
                     i \in u.vvTried[k] <=> u.mapInfo[i].fInTried /\ k = GetTriedBucket[u.mapInfo[i].addr]
                /\ IF u.mapInfo[i].fInTried THEN u.mapInfo[i].nRefCount = 0
                   ELSE u.mapInfo[i].nRefCount = 0 => i \in L
        BY <1>3 DEF EntriesPlaced, BucketsOf
    <2>1. /\ t.mapInfo[i].nRefCount = Cardinality(BucketsOf(t, i))
          /\ t.mapInfo[i].nRefCount <= NewBucketsPerAddress
          /\ \A k \in TriedBuckets :
               i \in t.vvTried[k] <=> t.mapInfo[i].fInTried /\ k = GetTriedBucket[t.mapInfo[i].addr]
          /\ IF t.mapInfo[i].fInTried THEN t.mapInfo[i].nRefCount = 0
             ELSE t.mapInfo[i].nRefCount = 0 => i \in L
        BY <1>0 DEF EntriesPlaced, BucketsOf
    <2>2. CASE i = old
        <3>1. BucketsOf(t, i) = {}
            <4>1. Cardinality(BucketsOf(t, i)) = 0
                BY <2>1, <2>2
            <4> QED BY <4>1, BucketsFinite, FS_EmptySet
        <3>2. BucketsOf(u, i) = {b0}
            BY <1>6, <1>8, <2>2, <3>1 DEF BucketsOf
        <3>3. Cardinality(BucketsOf(u, i)) = 1
            BY <3>2, FS_Singleton
        <3>4. 1 <= NewBucketsPerAddress
            BY AddrManAssumption DEF AddrManAssumption
        <3>5. \A k \in TriedBuckets : i \notin u.vvTried[k]
            BY <1>7, <2>1, <2>2 DEF k0
        <3> QED BY <1>4, <2>2, <3>3, <3>4, <3>5
    <2>3. CASE i # old
        <3>1. u.mapInfo[i] = t.mapInfo[i]
            BY <1>3, <2>3
        <3>2. \A k \in TriedBuckets : i \in u.vvTried[k] <=> i \in t.vvTried[k]
            BY <1>7, <2>3
        <3>3. BucketsOf(u, i) = BucketsOf(t, i)
            BY <1>8, <2>3 DEF BucketsOf
        <3> QED BY <2>1, <2>3, <3>1, <3>2, <3>3
    <2> QED BY <2>2, <2>3
<1> QED BY <1>1, <1>3, <1>6, <1>7, <1>8, <1>11, <1>12, <1>13, <1>14 DEF Sound, u, k0, b0, SameIndexes

-----------------------------------------------------------------------------
(* Sizes of buckets. *)

LEMMA BucketSizes ==
    ASSUME NEW t, NEW L, Sound(t, L)
    PROVE  /\ \A b \in NewBuckets : IsFiniteSet(t.vvNew[b]) /\ Cardinality(t.vvNew[b]) \in Nat
           /\ \A k \in TriedBuckets : IsFiniteSet(t.vvTried[k]) /\ Cardinality(t.vvTried[k]) \in Nat
<1>1. Typed(t)
    BY DEF Sound
<1>2. \A b \in NewBuckets : t.vvNew[b] \in SUBSET DOMAIN t.mapInfo
    BY <1>1 DEF Typed
<1>3. \A k \in TriedBuckets : t.vvTried[k] \in SUBSET DOMAIN t.mapInfo
    BY <1>1 DEF Typed
<1> QED BY <1>1, <1>2, <1>3, IdsFinite

\* Add_ puts an entry into a bucket that it is not in, and forgets one at most.
LEMMA IntoBucketSound ==
    ASSUME NEW t, NEW b \in NewBuckets, NEW id \in DOMAIN t.mapInfo, Sound(t, {id}), Bounded(t),
           id \notin t.vvNew[b], ~ t.mapInfo[id].fInTried, t.mapInfo[id].nRefCount # NewBucketsPerAddress,
           NEW u \in IntoBucket(t, b, id)
    PROVE  /\ Sound(u, {}) /\ Bounded(u)
           /\ \A h \in DOMAIN t.mapAddr \ DOMAIN u.mapAddr :
                BucketsOf(t, t.mapAddr[h]) = {b} /\ Cardinality(t.vvNew[b]) = NewBucketSize
<1>1. /\ NewBucketSize \in Nat /\ IsFiniteSet(t.vvNew[b]) /\ Cardinality(t.vvNew[b]) \in Nat
      /\ Cardinality(t.vvNew[b]) <= NewBucketSize
    BY BucketSizes, AddrManAssumption DEF AddrManAssumption, Bounded
<1>2. t.vvNew \in [NewBuckets -> SUBSET DOMAIN t.mapInfo]
    BY DEF Sound, Typed
<1>3. CASE Cardinality(t.vvNew[b]) # NewBucketSize
    <2>1. u = Insert(t, b, id)
        BY <1>3 DEF IntoBucket
    <2>2. Sound(u, {})
        BY <2>1, InsertSound
    <2>3. SameTried(t, u) /\ u.mapAddr = t.mapAddr
        BY <2>1, InsertSound DEF SameIndexes
    <2>4. u.vvNew[b] = t.vvNew[b] \cup {id} /\ \A c \in NewBuckets \ {b} : u.vvNew[c] = t.vvNew[c]
        BY <2>1, InsertSound
    <2>5. Cardinality(u.vvNew[b]) = Cardinality(t.vvNew[b]) + 1
        BY <1>1, <2>4, FS_AddElement
    <2>6. Cardinality(u.vvNew[b]) <= NewBucketSize
        BY <1>1, <1>3, <2>5
    <2>7. Bounded(u)
        BY <2>3, <2>4, <2>6 DEF Bounded, SameTried
    <2> QED BY <2>2, <2>3, <2>7
<1>4. CASE Cardinality(t.vvNew[b]) = NewBucketSize
    <2>1. PICK old \in t.vvNew[b] : u = Insert(ShrinkNew(t, b, old), b, id)
        BY <1>4 DEF IntoBucket
    <2> DEFINE s == ShrinkNew(t, b, old)
    <2>2. /\ Sound(s, {id}) /\ SameTried(t, s) /\ s.vvNew = [t.vvNew EXCEPT ![b] = @ \ {old}]
          /\ old \in DOMAIN t.mapInfo
          /\ \A i \in DOMAIN t.mapInfo \ {old} :
               /\ i \in DOMAIN s.mapInfo /\ s.mapInfo[i].fInTried = t.mapInfo[i].fInTried
               /\ s.mapInfo[i].nRefCount = t.mapInfo[i].nRefCount
          /\ \/ DOMAIN s.mapAddr = DOMAIN t.mapAddr
             \/ DOMAIN s.mapAddr = DOMAIN t.mapAddr \ {Ip[t.mapInfo[old].addr]} /\ BucketsOf(t, old) = {b}
        BY ShrinkSound
    <2>3. u = Insert(s, b, id)
        BY <2>1
    <2> HIDE DEF s
    <2>4. id # old
        OBVIOUS
    <2>5. /\ id \in DOMAIN s.mapInfo /\ id \notin s.vvNew[b] /\ ~ s.mapInfo[id].fInTried
          /\ s.mapInfo[id].nRefCount # NewBucketsPerAddress
        BY <1>2, <2>2, <2>4
    <2>6. Sound(u, {})
        BY <2>2, <2>3, <2>5, InsertSound
    <2>7. /\ SameTried(s, u) /\ u.mapAddr = s.mapAddr
          /\ u.vvNew[b] = s.vvNew[b] \cup {id} /\ \A c \in NewBuckets \ {b} : u.vvNew[c] = s.vvNew[c]
        <3>1. /\ SameTried(s, u) /\ SameIndexes(s, u)
              /\ u.vvNew[b] = s.vvNew[b] \cup {id} /\ \A c \in NewBuckets \ {b} : u.vvNew[c] = s.vvNew[c]
            <4>1. DOMAIN s = Fields /\ s.vvNew \in [NewBuckets -> SUBSET DOMAIN s.mapInfo]
                BY <2>2 DEF Sound, Typed
            <4> QED BY <2>3, <4>1 DEF Insert, Fields, SameTried, SameIndexes
        <3> QED BY <3>1 DEF SameIndexes
    <2>8. /\ u.vvNew[b] = (t.vvNew[b] \ {old}) \cup {id}
          /\ \A c \in NewBuckets \ {b} : u.vvNew[c] = t.vvNew[c]
        BY <1>2, <2>2, <2>7
    <2>9. IsFiniteSet(t.vvNew[b] \ {old}) /\ Cardinality(t.vvNew[b] \ {old}) = Cardinality(t.vvNew[b]) - 1
        BY <1>1, FS_RemoveElement
    <2>10. Cardinality(u.vvNew[b]) = Cardinality(t.vvNew[b] \ {old}) + 1
        BY <2>8, <2>9, FS_AddElement
    <2>11. Cardinality(u.vvNew[b]) <= NewBucketSize
        BY <1>1, <2>9, <2>10
    <2>12. Bounded(u)
        BY <2>2, <2>7, <2>8, <2>11 DEF Bounded, SameTried
    <2>13. ASSUME NEW h \in DOMAIN t.mapAddr \ DOMAIN u.mapAddr PROVE BucketsOf(t, t.mapAddr[h]) = {b}
        <3>1. h = Ip[t.mapInfo[old].addr] /\ BucketsOf(t, old) = {b}
            BY <2>2, <2>7, <2>13
        <3>2. t.mapAddr[Ip[t.mapInfo[old].addr]] = old
            BY <2>2 DEF Sound, IndexesAgree
        <3> QED BY <3>1, <3>2
    <2> QED BY <1>4, <2>6, <2>12, <2>13
<1> QED BY <1>3, <1>4

\* MakeTried keeps every host, and finds place for the entry that it evicts.
LEMMA MakeTriedSound ==
    ASSUME NEW t, NEW id \in DOMAIN t.mapInfo, NEW nOrigin \in NewBuckets, Sound(t, {}), Bounded(t),
           id \in t.vvNew[nOrigin], ~ t.mapInfo[id].fInTried, NEW u \in MakeTried(t, id, nOrigin)
    PROVE  Sound(u, {}) /\ Bounded(u) /\ u.mapAddr = t.mapAddr
<1> DEFINE s == LeaveNew(t, id)
           k0 == GetTriedBucket[s.mapInfo[id].addr]
<1>1. /\ Sound(s, {} \cup {id}) /\ SameIndexes(t, s) /\ SameTried(t, s)
      /\ s.vvNew = [b \in NewBuckets |-> t.vvNew[b] \ {id}]
      /\ DOMAIN s.mapInfo = DOMAIN t.mapInfo
      /\ s.mapInfo[id].nRefCount = 0 /\ ~ s.mapInfo[id].fInTried
    BY LeaveNewSound
<1>2. /\ Cardinality(s.vvTried[k0]) < TriedBucketSize => u = EnterTried(s, id)
      /\ Cardinality(s.vvTried[k0]) >= TriedBucketSize =>
           \E old \in s.vvTried[k0] : u = EnterTried(Evict(s, old, nOrigin), id)
    <2>1. Cardinality(s.vvTried[k0]) \in Nat /\ TriedBucketSize \in Nat
        <3>1. k0 \in TriedBuckets
            BY <1>1, AddrManAssumption DEF AddrManAssumption, Sound, Typed, CAddrInfo
        <3> QED BY <1>1, <3>1, BucketSizes, AddrManAssumption DEF AddrManAssumption
    <2> DEFINE full == ~ (Cardinality(s.vvTried[k0]) < TriedBucketSize)
               W == { EnterTried(Evict(s, old, nOrigin), id) : old \in s.vvTried[k0] }
    <2>2. u \in IF Cardinality(s.vvTried[k0]) < TriedBucketSize THEN {EnterTried(s, id)} ELSE W
        BY Zenon DEF MakeTried
    <2>3. full => \E old \in s.vvTried[k0] : u = EnterTried(Evict(s, old, nOrigin), id)
        <3>1. full => u \in W
            BY ONLY <2>2, Zenon DEF full
        <3> QED BY ONLY <3>1
    <2>4. ~ full => u = EnterTried(s, id)
        BY ONLY <2>2, Zenon DEF full
    <2> DEFINE c == Cardinality(s.vvTried[k0])
    <2>5. full <=> ~ (c < TriedBucketSize)
        BY DEF full
    <2> HIDE DEF full, c
    <2>6. c \in Nat /\ TriedBucketSize \in Nat
        BY <2>1 DEF c
    <2>7. (c < TriedBucketSize => ~ full) /\ (c >= TriedBucketSize => full)
        BY ONLY <2>5, <2>6
    <2> QED BY ONLY <2>3, <2>4, <2>7, Zenon DEF c
<1> HIDE DEF s
<1>3. Typed(s) /\ EntriesPlaced(s, {id}) /\ Sound(s, {id})
    BY <1>1 DEF Sound
<1>4. k0 \in TriedBuckets
    BY <1>1, <1>3, AddrManAssumption DEF AddrManAssumption, Typed, CAddrInfo
<1>5. NewBucketSize \in Nat \ {0} /\ TriedBucketSize \in Nat \ {0}
    BY AddrManAssumption DEF AddrManAssumption
<1>6. /\ \A b \in NewBuckets : Cardinality(s.vvNew[b]) <= NewBucketSize
      /\ Cardinality(s.vvNew[nOrigin]) < NewBucketSize
    <2>1. ASSUME NEW b \in NewBuckets PROVE Cardinality(s.vvNew[b]) <= Cardinality(t.vvNew[b])
        <3>1. s.vvNew[b] \subseteq t.vvNew[b]
            BY <1>1
        <3> QED BY <3>1, BucketSizes, FS_Subset
    <2>2. Cardinality(s.vvNew[nOrigin]) = Cardinality(t.vvNew[nOrigin]) - 1
        <3>1. s.vvNew[nOrigin] = t.vvNew[nOrigin] \ {id}
            BY <1>1
        <3>2. IsFiniteSet(t.vvNew[nOrigin])
            BY BucketSizes
        <3>3. Cardinality(t.vvNew[nOrigin] \ {id}) = Cardinality(t.vvNew[nOrigin]) - 1
            BY <3>2, FS_RemoveElement
        <3> QED BY <3>1, <3>3
    <2>3. \A b \in NewBuckets : /\ Cardinality(t.vvNew[b]) \in Nat /\ Cardinality(s.vvNew[b]) \in Nat
                                /\ Cardinality(t.vvNew[b]) <= NewBucketSize
        BY <1>3, BucketSizes DEF Bounded
    <2> QED BY <1>5, <2>1, <2>2, <2>3
<1>7. \A k \in TriedBuckets : Cardinality(s.vvTried[k]) <= TriedBucketSize /\ Cardinality(s.vvTried[k]) \in Nat
    BY <1>1, <1>3, BucketSizes DEF Bounded, SameTried
<1>8. CASE Cardinality(s.vvTried[k0]) < TriedBucketSize
    <2>1. u = EnterTried(s, id)
        BY <1>2, <1>8
    <2>2. /\ Sound(u, {}) /\ u.mapAddr = s.mapAddr /\ u.vvNew = s.vvNew
          /\ \A k \in TriedBuckets : u.vvTried[k] = IF k = k0 THEN s.vvTried[k] \cup {id} ELSE s.vvTried[k]
        <3>1. /\ id \in DOMAIN s.mapInfo /\ Sound(s, {} \cup {id})
              /\ ~ s.mapInfo[id].fInTried /\ s.mapInfo[id].nRefCount = 0
            BY <1>1
        <3>2. Entered(s, u, id, {})
            BY ONLY <2>1, <3>1, EnterTriedSound
        <3> QED BY ONLY <3>2 DEF Entered, k0
    <2>3. u.vvTried[k0] = s.vvTried[k0] \cup {id} /\ \A k \in TriedBuckets \ {k0} : u.vvTried[k] = s.vvTried[k]
        BY <1>4, <2>2
    <2>4. Cardinality(u.vvTried[k0]) = Cardinality(s.vvTried[k0]) + 1
        <3>1. id \notin s.vvTried[k0] /\ IsFiniteSet(s.vvTried[k0])
            BY <1>1, <1>3, <1>4, BucketSizes DEF EntriesPlaced
        <3> QED BY <2>3, <3>1, FS_AddElement
    <2>5. Cardinality(u.vvTried[k0]) <= TriedBucketSize
        BY <1>4, <1>5, <1>7, <1>8, <2>4
    <2>6. Bounded(u)
        BY <1>6, <1>7, <2>2, <2>3, <2>5 DEF Bounded
    <2> QED BY <1>1, <2>2, <2>6 DEF SameIndexes
<1>9. CASE Cardinality(s.vvTried[k0]) >= TriedBucketSize
    <2>1. PICK old \in s.vvTried[k0] : u = EnterTried(Evict(s, old, nOrigin), id)
        BY <1>2, <1>9
    <2> DEFINE v == Evict(s, old, nOrigin)
               b0 == EvictTo(s, old, nOrigin)
    <2>2. old \in DOMAIN s.mapInfo /\ s.mapInfo[old].fInTried /\ GetTriedBucket[s.mapInfo[old].addr] = k0
          /\ s.mapInfo[old].nRefCount = 0 /\ old # id
        <3>1. old \in DOMAIN s.mapInfo
            BY <1>3, <1>4 DEF Typed
        <3> QED BY <1>1, <1>3, <1>4, <3>1 DEF EntriesPlaced
    <2>3. /\ Sound(v, {} \cup {id}) /\ v.mapAddr = s.mapAddr /\ DOMAIN v.mapInfo = DOMAIN s.mapInfo
          /\ b0 \in NewBuckets /\ v.mapInfo[id] = s.mapInfo[id]
          /\ \A k \in TriedBuckets : v.vvTried[k] = IF k = k0 THEN s.vvTried[k] \ {old} ELSE s.vvTried[k]
          /\ \A b \in NewBuckets : v.vvNew[b] = IF b = b0 THEN s.vvNew[b] \cup {old} ELSE s.vvNew[b]
        <3>0. Sound(s, {id}) /\ nOrigin \in NewBuckets /\ old \in DOMAIN s.mapInfo /\ s.mapInfo[old].fInTried
            BY <1>3, <2>2
        <3>1. /\ Sound(v, {id}) /\ v.mapAddr = s.mapAddr /\ DOMAIN v.mapInfo = DOMAIN s.mapInfo
              /\ b0 \in NewBuckets /\ \A i \in DOMAIN s.mapInfo \ {old} : v.mapInfo[i] = s.mapInfo[i]
            BY ONLY <3>0, EvictSound
        <3>2. \A k \in TriedBuckets : v.vvTried[k] =
                IF k = GetTriedBucket[s.mapInfo[old].addr] THEN s.vvTried[k] \ {old} ELSE s.vvTried[k]
            BY <1>3 DEF Evict, Typed, Fields
        <3>3. \A b \in NewBuckets : v.vvNew[b] = IF b = b0 THEN s.vvNew[b] \cup {old} ELSE s.vvNew[b]
            BY <1>3 DEF Evict, Typed, Fields
        <3> HIDE DEF v, b0
        <3>4. id \in DOMAIN s.mapInfo \ {old} /\ {} \cup {id} = {id}
            BY <1>1, <2>2
        <3> QED BY <2>2, <3>1, <3>2, <3>3, <3>4
    <2>4. u = EnterTried(v, id)
        BY <2>1
    <2>5. Cardinality(s.vvNew[b0]) < NewBucketSize
        BY <1>6 DEF EvictTo
    <2> HIDE DEF v, b0
    <2>6. /\ Sound(u, {}) /\ u.mapAddr = v.mapAddr /\ u.vvNew = v.vvNew
          /\ \A k \in TriedBuckets : u.vvTried[k] = IF k = k0 THEN v.vvTried[k] \cup {id} ELSE v.vvTried[k]
        <3>1. id \in DOMAIN v.mapInfo /\ ~ v.mapInfo[id].fInTried /\ v.mapInfo[id].nRefCount = 0
              /\ GetTriedBucket[v.mapInfo[id].addr] = k0
            BY <1>1, <2>3
        <3>2. Sound(v, {} \cup {id})
            BY <2>3
        <3>3. Entered(v, u, id, {})
            BY ONLY <2>4, <3>1, <3>2, EnterTriedSound
        <3> QED BY ONLY <3>1, <3>3 DEF Entered
    <2>7. /\ u.vvTried[k0] = (s.vvTried[k0] \ {old}) \cup {id}
          /\ \A k \in TriedBuckets \ {k0} : u.vvTried[k] = s.vvTried[k]
        BY <1>4, <2>3, <2>6
    <2>8. /\ u.vvNew[b0] = s.vvNew[b0] \cup {old}
          /\ \A b \in NewBuckets \ {b0} : u.vvNew[b] = s.vvNew[b]
        BY <2>3, <2>6
    <2>9. Cardinality(u.vvTried[k0]) <= TriedBucketSize
        <3>1. id \notin s.vvTried[k0] /\ IsFiniteSet(s.vvTried[k0])
            BY <1>1, <1>3, <1>4, BucketSizes DEF EntriesPlaced
        <3> DEFINE S == s.vvTried[k0]
                   A == S \ {old}
        <3>2. IsFiniteSet(A) /\ Cardinality(A) = Cardinality(S) - 1
            BY <3>1, FS_RemoveElement
        <3>6. id \notin A /\ u.vvTried[k0] = A \cup {id}
            BY <2>7, <3>1
        <3> HIDE DEF A
        <3>3. Cardinality(u.vvTried[k0]) = Cardinality(A) + 1
            BY <3>2, <3>6, FS_AddElement
        <3>4. Cardinality(s.vvTried[k0]) \in Nat /\ Cardinality(s.vvTried[k0]) <= TriedBucketSize
            BY <1>4, <1>7
        <3>5. Cardinality(u.vvTried[k0]) = Cardinality(s.vvTried[k0])
            <4> DEFINE x == Cardinality(u.vvTried[k0])
                       y == Cardinality(A)
                       z == Cardinality(S)
            <4>1. y = z - 1 /\ x = y + 1 /\ z \in Nat
                BY <3>2, <3>3, <3>4
            <4> HIDE DEF x, y, z
            <4>2. x = z
                BY ONLY <4>1
            <4> QED BY ONLY <4>2 DEF x, z
        <3> QED BY <3>4, <3>5
    <2>10. Cardinality(u.vvNew[b0]) <= NewBucketSize
        <3>1. IsFiniteSet(s.vvNew[b0]) /\ Cardinality(s.vvNew[b0]) \in Nat
            BY <1>3, <2>3, BucketSizes
        <3>2. old \notin s.vvNew[b0]
            <4>1. Cardinality(BucketsOf(s, old)) = 0
                BY <1>3, <2>2 DEF EntriesPlaced, BucketsOf
            <4>2. BucketsOf(s, old) = {}
                BY <4>1, BucketsFinite, FS_EmptySet
            <4> QED BY <2>3, <4>2 DEF BucketsOf
        <3>3. Cardinality(s.vvNew[b0] \cup {old}) = Cardinality(s.vvNew[b0]) + 1
            BY <3>1, <3>2, FS_AddElement
        <3> QED BY <1>5, <2>5, <2>8, <3>1, <3>3
    <2>11. Bounded(u)
        BY <1>6, <1>7, <2>7, <2>8, <2>9, <2>10 DEF Bounded
    <2> QED BY <1>1, <2>3, <2>6, <2>11 DEF SameIndexes
<1> QED BY <1>4, <1>5, <1>7, <1>8, <1>9

-----------------------------------------------------------------------------
(* The state as tables, and the next one. *)

LEMMA TablesOf ==
    /\ DOMAIN Tables = Fields
    /\ Tables.nIdCount = nIdCount /\ Tables.mapInfo = mapInfo /\ Tables.mapAddr = mapAddr
    /\ Tables.vRandom = vRandom /\ Tables.nTried = nTried /\ Tables.nNew = nNew
    /\ Tables.vvTried = vvTried /\ Tables.vvNew = vvNew
BY DEF Tables, Fields

LEMMA TablesNext ==
    /\ DOMAIN Tables' = Fields
    /\ Tables'.nIdCount = nIdCount' /\ Tables'.mapInfo = mapInfo' /\ Tables'.mapAddr = mapAddr'
    /\ Tables'.vRandom = vRandom' /\ Tables'.nTried = nTried' /\ Tables'.nNew = nNew'
    /\ Tables'.vvTried = vvTried' /\ Tables'.vvNew = vvNew'
BY DEF Tables, Fields

\* What tables are is what their fields are.
LEMMA SoundSame ==
    ASSUME NEW t, NEW u, DOMAIN u = Fields,
           u.nIdCount = t.nIdCount, u.mapInfo = t.mapInfo, u.mapAddr = t.mapAddr, u.vRandom = t.vRandom,
           u.nTried = t.nTried, u.nNew = t.nNew, u.vvTried = t.vvTried, u.vvNew = t.vvNew,
           Sound(t, {}), Bounded(t)
    PROVE  Sound(u, {}) /\ Bounded(u)
<1>1. Typed(u)
    BY DEF Sound, Typed
<1>2. IndexesAgree(u)
    <2>1. IndexesAgree(t)
        BY DEF Sound
    <2>2. u.mapInfo = t.mapInfo /\ u.mapAddr = t.mapAddr /\ u.vRandom = t.vRandom
        OBVIOUS
    <2> QED BY ONLY <2>1, <2>2, Zenon DEF IndexesAgree
<1>3. EntriesPlaced(u, {})
    BY DEF Sound, EntriesPlaced
<1>4. CountsAgree(u)
    BY DEF Sound, CountsAgree
<1>5. Bounded(u)
    BY DEF Bounded
<1> QED BY <1>1, <1>2, <1>3, <1>4, <1>5 DEF Sound

LEMMA BecomeKeeps ==
    ASSUME NEW t, Sound(t, {}), Bounded(t), Become(t)
    PROVE  IInv' /\ mapAddr' = t.mapAddr
<1>1. Sound(Tables', {}) /\ Bounded(Tables')
    BY TablesNext, SoundSame DEF Become
<1> QED BY <1>1 DEF IInv, Become

\* What ForgottenForRoom asks of a step.
ForRoom ==
    \A h \in DOMAIN mapAddr \ DOMAIN mapAddr' :
        \E b \in NewBuckets :
            /\ { c \in NewBuckets : mapAddr[h] \in vvNew[c] } = {b}
            /\ Cardinality(vvNew[b]) = NewBucketSize

LEMMA InitSound == Init => IInv
<1> SUFFICES ASSUME Init PROVE IInv
    OBVIOUS
<1>1. Typed(Tables)
    <2>1. DOMAIN mapInfo = {} /\ DOMAIN mapAddr = {} /\ vRandom = <<>>
        BY DEF Init
    <2>2. mapInfo \in [DOMAIN mapInfo -> CAddrInfo] /\ mapAddr \in [DOMAIN mapAddr -> DOMAIN mapInfo]
        BY <2>1 DEF Init
    <2>3. vRandom \in Seq(DOMAIN mapInfo)
        BY <2>1
    <2>4. vvTried \in [TriedBuckets -> SUBSET DOMAIN mapInfo] /\ vvNew \in [NewBuckets -> SUBSET DOMAIN mapInfo]
        BY <2>1 DEF Init
    <2>5. nIdCount \in Nat /\ nTried \in Nat /\ nNew \in Nat
        BY DEF Init
    <2> QED BY <2>1, <2>2, <2>3, <2>4, <2>5, TablesOf DEF Typed
<1>2. IndexesAgree(Tables)
    BY TablesOf DEF IndexesAgree, Init
<1>3. EntriesPlaced(Tables, {})
    BY TablesOf DEF EntriesPlaced, Init
<1>4. CountsAgree(Tables)
    <2>1. { i \in DOMAIN mapInfo : ~ mapInfo[i].fInTried } = {} /\ { i \in DOMAIN mapInfo : mapInfo[i].fInTried } = {}
        BY DEF Init
    <2>2. Cardinality({}) = 0
        BY FS_EmptySet
    <2>3. Len(vRandom) = 0 /\ nNew = 0 /\ nTried = 0
        BY DEF Init
    <2>4. /\ Cardinality({ i \in DOMAIN Tables.mapInfo : ~ Tables.mapInfo[i].fInTried }) = 0
          /\ Cardinality({ i \in DOMAIN Tables.mapInfo : Tables.mapInfo[i].fInTried }) = 0
        BY <2>1, <2>2, TablesOf
    <2> QED BY <2>3, <2>4, TablesOf DEF CountsAgree
<1>5. Bounded(Tables)
    <2>1. Cardinality({}) = 0
        BY FS_EmptySet
    <2>2. NewBucketSize \in Nat /\ TriedBucketSize \in Nat
        BY AddrManAssumption DEF AddrManAssumption
    <2> QED BY <2>1, <2>2, TablesOf DEF Bounded, Init
<1> QED BY <1>1, <1>2, <1>3, <1>4, <1>5 DEF IInv, Sound

-----------------------------------------------------------------------------
(* The operations. *)

LEMMA AddNewSafe ==
    ASSUME IInv, NEW a \in Addr, NEW src \in Source, AddNew(a, src)
    PROVE  IInv' /\ ForRoom
<1> DEFINE s == Create(Tables, a, src)
           b == GetNewBucket[a][src]
<1>1. Sound(Tables, {}) /\ Bounded(Tables) /\ Ip[a] \notin DOMAIN Tables.mapAddr
    BY TablesOf DEF IInv, AddNew
<1>2. b \in NewBuckets
    BY AddrManAssumption DEF AddrManAssumption
<1>3. /\ Sound(s, {nIdCount}) /\ SameTried(Tables, s) /\ s.vvNew = vvNew
      /\ DOMAIN s.mapInfo = DOMAIN mapInfo \cup {nIdCount} /\ nIdCount \notin DOMAIN mapInfo
      /\ s.mapInfo[nIdCount].nRefCount = 0 /\ ~ s.mapInfo[nIdCount].fInTried
      /\ DOMAIN mapAddr \subseteq DOMAIN s.mapAddr /\ \A h \in DOMAIN mapAddr : s.mapAddr[h] = mapAddr[h]
    <2> DEFINE t == Tables
    <2>0. Sound(t, {}) /\ Ip[a] \notin DOMAIN t.mapAddr /\ a \in Addr /\ src \in Source /\ s = Create(t, a, src)
        BY <1>1
    <2> HIDE DEF t, s
    <2>1. Created(t, s)
        BY ONLY <2>0, CreateSound
    <2> USE DEF t
    <2> QED BY <2>1, TablesOf DEF Created
<1>4. PICK u \in IntoBucket(s, b, nIdCount) : Become(u)
    BY DEF AddNew
<1> HIDE DEF s, b
<1>5. Bounded(s)
    BY <1>1, <1>3, TablesOf DEF Bounded, SameTried
<1>6. nIdCount \notin s.vvNew[b]
    <2>1. vvNew[b] \subseteq DOMAIN mapInfo
        BY <1>1, <1>2, TablesOf DEF Sound, Typed
    <2> QED BY <1>3, <2>1
<1>7. 0 # NewBucketsPerAddress
    BY AddrManAssumption DEF AddrManAssumption
<1>8. /\ Sound(u, {}) /\ Bounded(u)
      /\ \A h \in DOMAIN s.mapAddr \ DOMAIN u.mapAddr :
           BucketsOf(s, s.mapAddr[h]) = {b} /\ Cardinality(s.vvNew[b]) = NewBucketSize
    <2>1. nIdCount \in DOMAIN s.mapInfo /\ s.mapInfo[nIdCount].nRefCount # NewBucketsPerAddress
        BY <1>3, <1>7
    <2> QED BY <1>2, <1>3, <1>5, <1>6, <2>1, <1>4, IntoBucketSound
<1>9. ForRoom
    <2> SUFFICES ASSUME NEW h \in DOMAIN mapAddr \ DOMAIN mapAddr'
          PROVE { c \in NewBuckets : mapAddr[h] \in vvNew[c] } = {b} /\ Cardinality(vvNew[b]) = NewBucketSize
        BY <1>2 DEF ForRoom
    <2>1. h \in DOMAIN s.mapAddr \ DOMAIN u.mapAddr /\ s.mapAddr[h] = mapAddr[h]
        BY <1>3, <1>4 DEF Become
    <2> QED BY <1>3, <1>8, <2>1 DEF BucketsOf
<1> QED BY <1>4, <1>8, <1>9, BecomeKeeps

LEMMA AddAgainSafe ==
    ASSUME IInv, NEW a \in Addr, NEW src \in Source, AddAgain(a, src)
    PROVE  IInv' /\ ForRoom
<1> DEFINE id == mapAddr[Ip[a]]
           b == GetNewBucket[mapInfo[id].addr][src]
<1>1. Sound(Tables, {}) /\ Bounded(Tables)
    BY DEF IInv
<1>2. id \in DOMAIN mapInfo /\ mapInfo[id].addr \in Addr
    BY <1>1, TablesOf DEF AddAgain, Sound, Typed, CAddrInfo
<1>3. b \in NewBuckets
    BY <1>2, AddrManAssumption DEF AddrManAssumption
<1>4. /\ ~ mapInfo[id].fInTried /\ mapInfo[id].nRefCount # NewBucketsPerAddress /\ id \notin vvNew[b]
    BY DEF AddAgain
<1>5. PICK u \in IntoBucket(Tables, b, id) : Become(u)
    BY DEF AddAgain
<1> HIDE DEF id, b
<1>6. Sound(Tables, {id})
    <2>1. EntriesPlaced(Tables, {id})
        BY <1>1 DEF Sound, EntriesPlaced
    <2> QED BY <1>1, <2>1 DEF Sound
<1>7. /\ Sound(u, {}) /\ Bounded(u)
      /\ \A h \in DOMAIN mapAddr \ DOMAIN u.mapAddr :
           BucketsOf(Tables, mapAddr[h]) = {b} /\ Cardinality(vvNew[b]) = NewBucketSize
    BY <1>1, <1>2, <1>3, <1>4, <1>5, <1>6, TablesOf, IntoBucketSound
<1>8. ForRoom
    <2> SUFFICES ASSUME NEW h \in DOMAIN mapAddr \ DOMAIN mapAddr'
          PROVE { c \in NewBuckets : mapAddr[h] \in vvNew[c] } = {b} /\ Cardinality(vvNew[b]) = NewBucketSize
        BY <1>3 DEF ForRoom
    <2> QED BY <1>5, <1>7, TablesOf DEF BucketsOf, Become
<1> QED BY <1>5, <1>7, <1>8, BecomeKeeps

LEMMA GoodSafe ==
    ASSUME IInv, NEW a \in Addr, Good(a)
    PROVE  IInv' /\ ForRoom
<1> DEFINE id == mapAddr[Ip[a]]
<1>1. Sound(Tables, {}) /\ Bounded(Tables)
    BY DEF IInv
<1>2. id \in DOMAIN mapInfo /\ ~ mapInfo[id].fInTried
    BY <1>1, TablesOf DEF Good, Sound, Typed
<1>3. PICK nOrigin \in NewBuckets : id \in vvNew[nOrigin] /\ \E t \in MakeTried(Tables, id, nOrigin) : Become(t)
    BY DEF Good
<1>4. PICK u \in MakeTried(Tables, id, nOrigin) : Become(u)
    BY <1>3
<1> HIDE DEF id
<1>5. Sound(u, {}) /\ Bounded(u) /\ u.mapAddr = mapAddr
    BY <1>1, <1>2, <1>3, <1>4, TablesOf, MakeTriedSound
<1>6. ForRoom
    BY <1>4, <1>5 DEF ForRoom, Become
<1> QED BY <1>4, <1>5, <1>6, BecomeKeeps

LEMMA GetAddrSafe ==
    ASSUME IInv, GetAddr
    PROVE  IInv' /\ ForRoom
<1>1. Sound(Tables, {}) /\ Bounded(Tables) /\ Typed(Tables) /\ IndexesAgree(Tables)
    BY DEF IInv, Sound
<1>2. PICK n \in 1..((GetAddrMaxPct * Len(vRandom)) \div 100) :
          \E m \in n..Len(vRandom) : Become(SwapRandom(Tables, n, m))
    BY DEF GetAddr
<1>3. PICK m \in n..Len(vRandom) : Become(SwapRandom(Tables, n, m))
    BY <1>2
<1>4. Len(vRandom) \in Nat /\ DOMAIN vRandom = 1..Len(vRandom)
    BY <1>1, TablesOf, Places
<1>5. n \in DOMAIN vRandom /\ m \in DOMAIN vRandom
    BY <1>4
<1> DEFINE u == SwapRandom(Tables, n, m)
<1>6. Sound(u, {}) /\ SameTried(Tables, u) /\ u.vvNew = vvNew /\ u.mapAddr = mapAddr
    BY <1>1, <1>5, TablesOf, SwapSound
<1> HIDE DEF u
<1>7. Bounded(u)
    BY <1>1, <1>6, TablesOf DEF Bounded, SameTried
<1>8. Become(u)
    BY <1>3 DEF u
<1>9. ForRoom
    BY <1>6, <1>8 DEF ForRoom, Become
<1> QED BY <1>6, <1>7, <1>8, <1>9, BecomeKeeps

\* The ids are numbered anew; everything else of an entry stays.
LEMMA RestartSafe ==
    ASSUME IInv, Restart
    PROVE  IInv' /\ ForRoom
<1> DEFINE N == nNew + nTried
           D == DOMAIN mapInfo
           Id(f, h) == CHOOSE i \in DOMAIN f : Ip[mapInfo[f[i]].addr] = h
<1>1. Sound(Tables, {}) /\ Bounded(Tables) /\ Typed(Tables) /\ IndexesAgree(Tables)
      /\ EntriesPlaced(Tables, {}) /\ CountsAgree(Tables)
    BY DEF IInv, Sound
<1>2. /\ nNew \in Nat /\ nTried \in Nat /\ N \in Nat /\ mapInfo \in [D -> CAddrInfo]
      /\ vvTried \in [TriedBuckets -> SUBSET D] /\ vvNew \in [NewBuckets -> SUBSET D]
      /\ mapAddr \in [DOMAIN mapAddr -> D]
      /\ DOMAIN mapAddr \subseteq { Ip[a] : a \in Addr }
    BY <1>1, TablesOf DEF Typed
<1>3. /\ \A i \in D : Ip[mapInfo[i].addr] \in DOMAIN mapAddr /\ mapAddr[Ip[mapInfo[i].addr]] = i
      /\ \A h \in DOMAIN mapAddr : Ip[mapInfo[mapAddr[h]].addr] = h
    BY <1>1, TablesOf DEF IndexesAgree
<1>4. PICK f \in FileOrder :
        /\ nIdCount' = N
        /\ mapInfo' = [i \in DOMAIN f |->
               [mapInfo[f[i]] EXCEPT !.nRefCount = Cardinality({ b \in NewBuckets : f[i] \in vvNew[b] }),
                                     !.nRandomPos = i + 1]]
        /\ mapAddr' = [h \in { Ip[mapInfo[f[i]].addr] : i \in DOMAIN f } |-> Id(f, h)]
        /\ vRandom' = [i \in 1..N |-> i - 1]
        /\ vvTried' = [k \in TriedBuckets |->
               { i \in DOMAIN f : mapInfo[f[i]].fInTried /\ GetTriedBucket[mapInfo[f[i]].addr] = k }]
        /\ vvNew' = [b \in NewBuckets |-> { i \in DOMAIN f : f[i] \in vvNew[b] }]
        /\ nTried' = nTried /\ nNew' = nNew
    BY DEF Restart
<1>5. /\ f \in [0..(N - 1) -> D] /\ DOMAIN f = 0..(N - 1)
      /\ \A i \in DOMAIN f : mapInfo[f[i]].fInTried <=> i >= nNew
      /\ \A i, j \in DOMAIN f : i < j /\ (i < nNew <=> j < nNew) => f[i] < f[j]
      /\ { f[i] : i \in DOMAIN f } = D
    <2>1. f \in [0..(N - 1) -> D]
        <3>1. f \in [0..(nNew + (nTried - 1)) -> D]
            BY Zenon DEF FileOrder
        <3>2. nNew + (nTried - 1) = N - 1
            BY <1>2
        <3> QED BY <3>1, <3>2
    <2>2. { f[i] : i \in DOMAIN f } = D
        BY DEF FileOrder
    <2>3. /\ \A i \in DOMAIN f : mapInfo[f[i]].fInTried <=> i >= nNew
          /\ \A i, j \in DOMAIN f : i < j /\ (i < nNew <=> j < nNew) => f[i] < f[j]
        BY DEF FileOrder
    <2> QED BY <2>1, <2>2, <2>3
<1> HIDE DEF D, Id
<1>6. D \subseteq Int
    BY <1>1, TablesOf DEF Typed, D
<1>7. \A i, j \in DOMAIN f : f[i] = f[j] => i = j
    <2> SUFFICES ASSUME NEW i \in DOMAIN f, NEW j \in DOMAIN f, f[i] = f[j], i < j PROVE FALSE
        BY <1>5
    <2>1. i < nNew <=> j < nNew
        <3>1. (i >= nNew) <=> (j >= nNew)
            BY <1>5
        <3>2. i \in Int /\ j \in Int /\ nNew \in Int
            BY <1>2, <1>5
        <3> QED BY <3>1, <3>2
    <2>2. f[i] < f[j] /\ f[i] \in Int /\ f[j] \in Int
        BY <1>5, <1>6, <2>1
    <2> QED BY <2>2
<1>8. \A i \in DOMAIN f :
        /\ f[i] \in D /\ mapInfo'[i].addr = mapInfo[f[i]].addr /\ mapInfo'[i].fInTried = mapInfo[f[i]].fInTried
        /\ mapInfo'[i].nRefCount = Cardinality({ b \in NewBuckets : f[i] \in vvNew[b] })
        /\ mapInfo'[i].nRandomPos = i + 1
        /\ mapInfo'[i] \in CAddrInfo
    <2> SUFFICES ASSUME NEW i \in DOMAIN f
          PROVE /\ f[i] \in D /\ mapInfo'[i].addr = mapInfo[f[i]].addr
                /\ mapInfo'[i].fInTried = mapInfo[f[i]].fInTried
                /\ mapInfo'[i].nRefCount = Cardinality({ b \in NewBuckets : f[i] \in vvNew[b] })
                /\ mapInfo'[i].nRandomPos = i + 1 /\ mapInfo'[i] \in CAddrInfo
        OBVIOUS
    <2> DEFINE c == Cardinality({ b \in NewBuckets : f[i] \in vvNew[b] })
               m == mapInfo[f[i]]
               w == [m EXCEPT !.nRefCount = c, !.nRandomPos = i + 1]
    <2>1. mapInfo'[i] = w
        BY <1>4
    <2>2. f[i] \in D /\ m \in CAddrInfo /\ i + 1 \in Nat
        BY <1>2, <1>5
    <2>3. c \in Nat
        BY BucketsFinite, TablesOf DEF BucketsOf
    <2> HIDE DEF c, m
    <2> DEFINE v == [m EXCEPT !.nRefCount = c]
    <2>4. v \in CAddrInfo /\ v.addr = m.addr /\ v.fInTried = m.fInTried /\ v.nRefCount = c
        BY <2>2, <2>3 DEF CAddrInfo
    <2>5. w = [v EXCEPT !.nRandomPos = i + 1]
        OBVIOUS
    <2> HIDE DEF v, w
    <2>6. w \in CAddrInfo /\ w.addr = v.addr /\ w.fInTried = v.fInTried /\ w.nRefCount = v.nRefCount /\ w.nRandomPos = i + 1
        BY <2>2, <2>4, <2>5 DEF CAddrInfo
    <2> QED BY <2>1, <2>2, <2>4, <2>6 DEF c, m
<1>9. DOMAIN mapInfo' = 0..(N - 1)
    BY <1>4, <1>5
<1>10. \A i \in DOMAIN f : Ip[mapInfo[f[i]].addr] \in DOMAIN mapAddr' /\ mapAddr'[Ip[mapInfo[f[i]].addr]] = i
    <2> SUFFICES ASSUME NEW i \in DOMAIN f
          PROVE Ip[mapInfo[f[i]].addr] \in DOMAIN mapAddr' /\ mapAddr'[Ip[mapInfo[f[i]].addr]] = i
        OBVIOUS
    <2> DEFINE h == Ip[mapInfo[f[i]].addr]
               j == Id(f, h)
    <2>1. h \in DOMAIN mapAddr' /\ mapAddr'[h] = j
        BY <1>4
    <2>2. j \in DOMAIN f /\ Ip[mapInfo[f[j]].addr] = h
        BY DEF Id
    <2> HIDE DEF j
    <2>3. f[i] = f[j]
        <3>1. f[i] \in D /\ f[j] \in D
            BY <1>8, <2>2
        <3>2. mapAddr[Ip[mapInfo[f[i]].addr]] = f[i] /\ mapAddr[Ip[mapInfo[f[j]].addr]] = f[j]
            BY <1>3, <3>1 DEF D
        <3> QED BY <2>2, <3>2
    <2>4. i = j
        BY <1>7, <2>2, <2>3
    <2> QED BY <2>1, <2>4
<1>11. DOMAIN mapAddr' = DOMAIN mapAddr
    <2>1. ASSUME NEW h \in DOMAIN mapAddr PROVE h \in DOMAIN mapAddr'
        <3>1. mapAddr[h] \in D /\ Ip[mapInfo[mapAddr[h]].addr] = h
            BY <1>2, <1>3
        <3>2. PICK i \in DOMAIN f : f[i] = mapAddr[h]
            BY <1>5, <3>1
        <3> QED BY <1>10, <3>1, <3>2
    <2>2. ASSUME NEW h \in DOMAIN mapAddr' PROVE h \in DOMAIN mapAddr
        <3>1. PICK i \in DOMAIN f : h = Ip[mapInfo[f[i]].addr]
            BY <1>4
        <3> QED BY <1>3, <1>8, <3>1
    <2> QED BY <2>1, <2>2
<1>12. \A h \in DOMAIN mapAddr' : mapAddr'[h] \in DOMAIN f /\ Ip[mapInfo[f[mapAddr'[h]]].addr] = h
    <2> SUFFICES ASSUME NEW h \in DOMAIN mapAddr'
          PROVE mapAddr'[h] \in DOMAIN f /\ Ip[mapInfo[f[mapAddr'[h]]].addr] = h
        OBVIOUS
    <2>1. PICK i \in DOMAIN f : h = Ip[mapInfo[f[i]].addr]
        BY <1>4
    <2> QED BY <1>10, <2>1
<1>13. Typed(Tables')
    <2>1. nIdCount' \in Nat /\ DOMAIN mapInfo' \subseteq 0..(nIdCount' - 1)
        BY <1>2, <1>4, <1>9
    <2>2. mapInfo' \in [DOMAIN mapInfo' -> CAddrInfo]
        <3>1. mapInfo' = [i \in DOMAIN mapInfo' |-> mapInfo'[i]]
            BY <1>4
        <3>2. \A i \in DOMAIN mapInfo' : mapInfo'[i] \in CAddrInfo
            BY <1>5, <1>8, <1>9
        <3> QED BY <3>1, <3>2
    <2>3. mapAddr' \in [DOMAIN mapAddr' -> DOMAIN mapInfo']
        <3>1. mapAddr' = [h \in DOMAIN mapAddr' |-> mapAddr'[h]]
            BY <1>4
        <3>2. \A h \in DOMAIN mapAddr' : mapAddr'[h] \in DOMAIN mapInfo'
            BY <1>5, <1>9, <1>12
        <3> QED BY <3>1, <3>2
    <2>4. DOMAIN mapAddr' \subseteq { Ip[a] : a \in Addr }
        BY <1>2, <1>11
    <2>5. vRandom' \in Seq(DOMAIN mapInfo')
        <3>1. N \in Nat /\ \A i \in 1..N : i - 1 \in DOMAIN mapInfo'
            BY <1>2, <1>9
        <3>2. vRandom' \in [1..N -> DOMAIN mapInfo']
            BY <1>4, <3>1
        <3> QED BY <3>1, <3>2, SeqDef
    <2>6. nTried' \in Nat /\ nNew' \in Nat
        BY <1>2, <1>4
    <2>7. vvTried' \in [TriedBuckets -> SUBSET DOMAIN mapInfo'] /\ vvNew' \in [NewBuckets -> SUBSET DOMAIN mapInfo']
        BY <1>4, <1>5, <1>9
    <2> QED BY <2>1, <2>2, <2>3, <2>4, <2>5, <2>6, <2>7, TablesNext DEF Typed
<1>14. Len(vRandom') = N /\ DOMAIN vRandom' = 1..N /\ \A p \in 1..N : vRandom'[p] = p - 1
    <2>1. DOMAIN vRandom' = 1..N /\ \A p \in 1..N : vRandom'[p] = p - 1
        BY <1>4
    <2>2. vRandom' \in Seq(DOMAIN mapInfo')
        BY <1>13, TablesNext DEF Typed
    <2>3. Len(vRandom') \in Nat /\ DOMAIN vRandom' = 1..Len(vRandom')
        BY <2>2, LenProperties
    <2>4. Len(vRandom') = N
        BY <1>2, <2>1, <2>3
    <2> QED BY <2>1, <2>4
<1>15. IndexesAgree(Tables')
    <2>1. ASSUME NEW i \in DOMAIN mapInfo'
          PROVE /\ mapInfo'[i].nRandomPos \in DOMAIN vRandom' /\ vRandom'[mapInfo'[i].nRandomPos] = i
                /\ Ip[mapInfo'[i].addr] \in DOMAIN mapAddr' /\ mapAddr'[Ip[mapInfo'[i].addr]] = i
        <3>1. i \in DOMAIN f /\ i + 1 \in 1..N /\ (i + 1) - 1 = i
            BY <1>2, <1>5, <1>9
        <3>2. mapInfo'[i].nRandomPos \in DOMAIN vRandom' /\ vRandom'[mapInfo'[i].nRandomPos] = i
            BY <1>8, <1>14, <3>1
        <3> QED BY <1>8, <1>10, <3>1, <3>2
    <2>2. ASSUME NEW p \in DOMAIN vRandom' PROVE mapInfo'[vRandom'[p]].nRandomPos = p
        <3>1. p - 1 \in DOMAIN f /\ (p - 1) + 1 = p /\ vRandom'[p] = p - 1
            BY <1>2, <1>5, <1>14
        <3> QED BY <1>8, <3>1
    <2>3. \A h \in DOMAIN mapAddr' : Ip[mapInfo'[mapAddr'[h]].addr] = h
        BY <1>8, <1>12
    <2> QED BY <2>1, <2>2, <2>3, TablesNext DEF IndexesAgree
<1>16. EntriesPlaced(Tables', {})
    <2> SUFFICES ASSUME NEW i \in DOMAIN mapInfo'
          PROVE /\ mapInfo'[i].nRefCount = Cardinality({ b \in NewBuckets : i \in vvNew'[b] })
                /\ mapInfo'[i].nRefCount <= NewBucketsPerAddress
                /\ \A k \in TriedBuckets :
                     i \in vvTried'[k] <=> mapInfo'[i].fInTried /\ k = GetTriedBucket[mapInfo'[i].addr]
                /\ IF mapInfo'[i].fInTried THEN mapInfo'[i].nRefCount = 0 ELSE mapInfo'[i].nRefCount # 0
        BY TablesNext DEF EntriesPlaced
    <2>1. i \in DOMAIN f
        BY <1>5, <1>9
    <2>2. { b \in NewBuckets : i \in vvNew'[b] } = { b \in NewBuckets : f[i] \in vvNew[b] }
        BY <1>4, <2>1
    <2>3. /\ mapInfo[f[i]].nRefCount = Cardinality({ b \in NewBuckets : f[i] \in vvNew[b] })
          /\ mapInfo[f[i]].nRefCount <= NewBucketsPerAddress
          /\ IF mapInfo[f[i]].fInTried THEN mapInfo[f[i]].nRefCount = 0 ELSE mapInfo[f[i]].nRefCount # 0
        <3>1. f[i] \in DOMAIN Tables.mapInfo
            BY <1>8, <2>1, TablesOf DEF D
        <3>2. /\ Tables.mapInfo[f[i]].nRefCount = Cardinality({ b \in NewBuckets : f[i] \in Tables.vvNew[b] })
              /\ Tables.mapInfo[f[i]].nRefCount <= NewBucketsPerAddress
              /\ IF Tables.mapInfo[f[i]].fInTried THEN Tables.mapInfo[f[i]].nRefCount = 0
                 ELSE Tables.mapInfo[f[i]].nRefCount # 0
            BY <1>1, <3>1 DEF EntriesPlaced
        <3> QED BY <3>2, TablesOf
    <2>4. \A k \in TriedBuckets :
            i \in vvTried'[k] <=> mapInfo[f[i]].fInTried /\ GetTriedBucket[mapInfo[f[i]].addr] = k
        BY <1>4, <2>1
    <2> QED BY <1>8, <2>1, <2>2, <2>3, <2>4
<1>17. CountsAgree(Tables')
    <2>0. \A i \in 0..(N - 1) : mapInfo'[i].fInTried <=> i >= nNew
        BY <1>5, <1>8
    <2>1. { i \in DOMAIN mapInfo' : ~ mapInfo'[i].fInTried } = 0..(nNew - 1)
        <3>1. \A i : i \in 0..(nNew - 1) <=> i \in 0..(N - 1) /\ ~ (i >= nNew)
            BY <1>2
        <3> QED BY <1>9, <2>0, <3>1
    <2>2. { i \in DOMAIN mapInfo' : mapInfo'[i].fInTried } = nNew..(N - 1)
        <3>1. \A i : i \in nNew..(N - 1) <=> i \in 0..(N - 1) /\ i >= nNew
            BY <1>2
        <3> QED BY <1>9, <2>0, <3>1
    <2>3. Cardinality(0..(nNew - 1)) = nNew /\ Cardinality(nNew..(N - 1)) = nTried
        <3>1. /\ Cardinality(0..(nNew - 1)) = IF 0 > nNew - 1 THEN 0 ELSE (nNew - 1) - 0 + 1
              /\ Cardinality(nNew..(N - 1)) = IF nNew > N - 1 THEN 0 ELSE (N - 1) - nNew + 1
            <4>1. 0 \in Int /\ nNew - 1 \in Int /\ nNew \in Int /\ N - 1 \in Int
                BY <1>2
            <4> HIDE DEF N
            <4> QED BY <4>1, FS_Interval
        <3> QED BY <1>2, <3>1
    <2> QED BY <1>4, <1>14, <2>1, <2>2, <2>3, TablesNext DEF CountsAgree
<1>18. ASSUME NEW S \in SUBSET D
       PROVE Cardinality({ i \in DOMAIN f : f[i] \in S }) <= Cardinality(S)
    <2> DEFINE T == { i \in DOMAIN f : f[i] \in S }
               g == [i \in T |-> f[i]]
    <2>1. IsFiniteSet(S)
        BY <1>1, TablesOf, IdsFinite DEF D
    <2>2. g \in Injection(T, S)
        BY <1>7 DEF Injection, IsInjective
    <2> QED BY <2>1, <2>2, FS_Injection
<1>19. Bounded(Tables')
    <2>1. ASSUME NEW b \in NewBuckets PROVE Cardinality(vvNew'[b]) <= NewBucketSize
        <3>1. vvNew'[b] = { i \in DOMAIN f : f[i] \in vvNew[b] } /\ vvNew[b] \in SUBSET D
            BY <1>2, <1>4
        <3>2. Cardinality(vvNew'[b]) <= Cardinality(vvNew[b]) /\ Cardinality(vvNew[b]) <= NewBucketSize
            BY <1>1, <1>18, <3>1, TablesOf DEF Bounded
        <3>3. vvNew'[b] \in SUBSET DOMAIN Tables'.mapInfo /\ vvNew[b] \in SUBSET DOMAIN Tables.mapInfo
            BY <1>5, <1>9, <3>1, TablesOf, TablesNext DEF D
        <3>4. Cardinality(vvNew'[b]) \in Nat /\ Cardinality(vvNew[b]) \in Nat /\ NewBucketSize \in Nat
            BY <1>1, <1>13, <3>3, IdsFinite, AddrManAssumption DEF AddrManAssumption
        <3> QED BY <3>2, <3>4
    <2>2. ASSUME NEW k \in TriedBuckets PROVE Cardinality(vvTried'[k]) <= TriedBucketSize
        <3>1. vvTried'[k] = { i \in DOMAIN f : f[i] \in vvTried[k] } /\ vvTried[k] \in SUBSET D
            <4>1. \A i \in DOMAIN f : f[i] \in vvTried[k] <=>
                    mapInfo[f[i]].fInTried /\ k = GetTriedBucket[mapInfo[f[i]].addr]
                BY <1>1, <1>8, TablesOf DEF EntriesPlaced, D
            <4> QED BY <1>2, <1>4, <4>1
        <3>2. Cardinality(vvTried'[k]) <= Cardinality(vvTried[k]) /\ Cardinality(vvTried[k]) <= TriedBucketSize
            BY <1>1, <1>18, <3>1, TablesOf DEF Bounded
        <3>3. vvTried'[k] \in SUBSET DOMAIN Tables'.mapInfo /\ vvTried[k] \in SUBSET DOMAIN Tables.mapInfo
            BY <1>5, <1>9, <3>1, TablesOf, TablesNext DEF D
        <3>4. Cardinality(vvTried'[k]) \in Nat /\ Cardinality(vvTried[k]) \in Nat /\ TriedBucketSize \in Nat
            BY <1>1, <1>13, <3>3, IdsFinite, AddrManAssumption DEF AddrManAssumption
        <3> QED BY <3>2, <3>4
    <2> QED BY <2>1, <2>2, TablesNext DEF Bounded
<1>20. ForRoom
    BY <1>11 DEF ForRoom
<1> QED BY <1>13, <1>15, <1>16, <1>17, <1>19, <1>20 DEF IInv, Sound

-----------------------------------------------------------------------------
(* The theorems. *)

LEMMA StepSafe == IInv /\ [Next]_vars => IInv' /\ [ForRoom]_vars
<1> SUFFICES ASSUME IInv, [Next]_vars PROVE IInv' /\ [ForRoom]_vars
    OBVIOUS
<1>1. CASE UNCHANGED vars
    <2>1. Sound(Tables, {}) /\ Bounded(Tables)
        BY DEF IInv
    <2>2. Sound(Tables', {}) /\ Bounded(Tables')
        BY <1>1, <2>1, TablesOf, TablesNext, SoundSame DEF vars
    <2> QED BY <1>1, <2>2 DEF IInv
<1>2. ASSUME NEW a \in Addr, NEW src \in Source, AddNew(a, src) PROVE IInv' /\ ForRoom
    BY <1>2, AddNewSafe
<1>3. ASSUME NEW a \in Addr, NEW src \in Source, AddAgain(a, src) PROVE IInv' /\ ForRoom
    BY <1>3, AddAgainSafe
<1>4. ASSUME NEW a \in Addr, Good(a) PROVE IInv' /\ ForRoom
    BY <1>4, GoodSafe
<1>5. CASE GetAddr
    BY <1>5, GetAddrSafe
<1>6. CASE Restart
    BY <1>6, RestartSafe
<1> QED BY <1>1, <1>2, <1>3, <1>4, <1>5, <1>6 DEF Next

LEMMA InductiveInvariant == Spec => []IInv
<1>1. Init => IInv
    BY InitSound
<1>2. IInv /\ [Next]_vars => IInv'
    BY StepSafe
<1> QED BY <1>1, <1>2, PTL DEF Spec

\* Every variable keeps its type, whatever the operations of CAddrMan and in whatever order.
THEOREM TypeCorrect == Spec => []TypeOK
<1>1. IInv => TypeOK
    BY TablesOf DEF IInv, Sound, Typed, TypeOK
<1> QED BY <1>1, InductiveInvariant, PTL

\* The tests of CAddrMan::Check_ never fail, for any number of addresses and buckets.
THEOREM ChecksHold == Spec => []TablesAgree
<1>1. IInv => TablesAgree
    BY DEF IInv, Sound, TablesAgree
<1> QED BY <1>1, InductiveInvariant, PTL

\* No bucket outgrows its size: MakeTried has found place for what it evicts.
THEOREM BucketsStayBounded == Spec => []BucketsBounded
<1>1. IInv => BucketsBounded
    BY TablesOf DEF IInv, Bounded, BucketsBounded
<1> QED BY <1>1, InductiveInvariant, PTL

\* ShrinkNew alone forgets a host, and only to make room in the last bucket it was in.
THEOREM HostsForgottenForRoom == Spec => ForgottenForRoom
<1>1. IInv /\ [Next]_vars =>
        [\A h \in DOMAIN mapAddr \ DOMAIN mapAddr' :
            \E b \in NewBuckets :
                /\ { c \in NewBuckets : mapAddr[h] \in vvNew[c] } = {b}
                /\ Cardinality(vvNew[b]) = NewBucketSize]_vars
    BY StepSafe DEF ForRoom
<1> QED BY <1>1, InductiveInvariant, PTL DEF Spec, ForgottenForRoom
=============================================================================
