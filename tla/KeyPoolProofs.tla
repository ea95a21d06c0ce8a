---------------------------- MODULE KeyPoolProofs ----------------------------
(***************************************************************************)
(* What holds of KeyPool for every number of CReserveKey objects, keys and *)
(* restarts.                                                               *)
(*                                                                         *)
(* Every operation first adds keys and then takes, keeps or returns one.   *)
(* So the invariant is a predicate of a set of indices, records and        *)
(* reservations, shown to survive each of these parts on its own.          *)
(***************************************************************************)
EXTENDS KeyPool, LeastNumber, FiniteSetTheorems, TLAPS

\* Everything refers to keys that have been made.
Bounded(S, P, R, nk, U) ==
    /\ nk \in 1..(MaxKeys + 1)
    /\ S \subseteq 1..(nk - 1)
    /\ P \in [1..MaxKeys -> 0..(nk - 1)]
    /\ \A i \in 1..MaxKeys : P[i] # 0 => i < nk
    /\ R \in [Holder -> [nIndex : 1..(nk - 1), vchPubKey : 1..(nk - 1)] \cup {NoKey}]
    /\ U \subseteq 1..(nk - 1)

\* Where an index is: in the pool with a record, or with one CReserveKey that has the
\* key of the record.  Only W, the indices written over a reservation, may differ.
Placed(S, P, R, W) ==
    /\ \A i \in S \ W : P[i] # 0
    /\ \A i \in 1..MaxKeys : P[i] # 0 => i \in S \/ \E h \in Holder : R[h].nIndex = i
    /\ \A h \in Holder : R[h] # NoKey /\ R[h].nIndex \notin W =>
         /\ R[h].nIndex \notin S /\ P[R[h].nIndex] = R[h].vchPubKey
         /\ \A k \in Holder : R[k].nIndex = R[h].nIndex => k = h

\* Where a key is: in one record or used, or, with the records of W, among the stranded
\* D.  A reserved key has no record but at its own index.
Counted(P, R, nk, U, W, D) ==
    /\ \A i, j \in 1..MaxKeys : P[i] # 0 /\ P[i] = P[j] => i = j
    /\ \A h \in Holder : \A j \in 1..MaxKeys : R[h] # NoKey /\ P[j] = R[h].vchPubKey => j = R[h].nIndex
    /\ \A i \in 1..MaxKeys : P[i] \notin U
    /\ \A i \in W : P[i] # 0 => P[i] \in D
    /\ \A n \in 1..(nk - 1) : n \in U \/ n \in D \/ \E i \in 1..MaxKeys : P[i] = n

Sound(S, P, R, nk, U, W, D) == Placed(S, P, R, W) /\ Counted(P, R, nk, U, W, D)

\* A key stays behind those that are reserved, in a wallet that was never locked.
Ahead ==
    ~ crypted =>
        /\ ~ locked /\ rewritten = {} /\ stranded = {}
        /\ \A h \in Holder : reserved[h] # NoKey => \E i \in setKeyPool : reserved[h].nIndex < i

Flags ==
    /\ crypted \in BOOLEAN /\ locked \in BOOLEAN /\ restarts \in 0..MaxRestarts
    /\ rewritten \subseteq 1..MaxKeys /\ stranded \subseteq 1..MaxKeys

IInv ==
    /\ Flags
    /\ Bounded(setKeyPool, pool, reserved, nextKey, used)
    /\ Sound(setKeyPool, pool, reserved, nextKey, used, rewritten, stranded)

-----------------------------------------------------------------------------
(* Adding keys. *)

LEMMA MaxExists ==
    ASSUME NEW S, NEW n \in Nat, S \subseteq 1..n, S # {}
    PROVE  \E i \in S : \A j \in S : j <= i
<1> DEFINE F == { n - j : j \in S }
<1>1. F \in SUBSET Nat /\ F # {}
    <2>1. \A j \in S : n - j \in Nat
        OBVIOUS
    <2> QED BY <2>1
<1>2. PICK k \in F : \A l \in F : k <= l
    BY <1>1, LeastNat
<1>3. PICK i \in S : k = n - i
    BY <1>2
<1>4. \A j \in S : j <= i
    <2> SUFFICES ASSUME NEW j \in S PROVE j <= i
        OBVIOUS
    <2>1. n - j \in F
        OBVIOUS
    <2>2. n - i <= n - j
        BY <1>2, <1>3, <2>1
    <2> QED BY <2>2
<1> QED BY <1>4

LEMMA EndBehind ==
    ASSUME Bounded(setKeyPool, pool, reserved, nextKey, used)
    PROVE  End \in 1..nextKey /\ \A i \in setKeyPool : i < End
<1>1. nextKey \in Nat \ {0} /\ setKeyPool \subseteq 1..(nextKey - 1)
    BY KeyPoolAssumption DEF Bounded, KeyPoolAssumption
<1>2. CASE setKeyPool = {}
    BY <1>1, <1>2 DEF End
<1>3. CASE setKeyPool # {}
    <2>0. nextKey - 1 \in Nat
        BY <1>1
    <2>1. \E i \in setKeyPool : \A j \in setKeyPool : j <= i
        BY <1>1, <1>3, <2>0, MaxExists
    <2> DEFINE m == CHOOSE i \in setKeyPool : \A j \in setKeyPool : j <= i
    <2>2. m \in setKeyPool /\ \A j \in setKeyPool : j <= m
        BY <2>1
    <2>3. End = 1 + m
        BY <1>3 DEF End
    <2> HIDE DEF m
    <2> QED BY <1>1, <2>2, <2>3
<1> QED BY <1>2, <1>3

LEMMA MissingNat ==
    ASSUME NEW n \in Nat, NEW S, IsFiniteSet(S), S = setKeyPool
    PROVE  Missing(n) \in Nat
<1>1. Cardinality(setKeyPool) \in Nat
    BY FS_CardinalityType
<1> QED BY <1>1 DEF Missing

LEMMA PoolFinite ==
    ASSUME Bounded(setKeyPool, pool, reserved, nextKey, used)
    PROVE  IsFiniteSet(setKeyPool)
<1>1. nextKey - 1 \in Int /\ setKeyPool \subseteq 1..(nextKey - 1)
    BY KeyPoolAssumption DEF Bounded, KeyPoolAssumption
<1>2. IsFiniteSet(1..(nextKey - 1))
    BY <1>1, FS_Interval
<1> QED BY <1>1, <1>2, FS_Subset

LEMMA FillBounded ==
    ASSUME NEW S, NEW P, NEW R, NEW U, Bounded(S, P, R, nextKey, U),
           NEW lo \in 1..nextKey, NEW m \in Nat, nextKey + m <= MaxKeys + 1
    PROVE  Bounded(S \cup Indices(lo, m), WithNewKeys(P, lo, m), R, nextKey + m, U)
<1> DEFINE Q == WithNewKeys(P, lo, m)
<1>1. /\ MaxKeys \in Nat /\ nextKey \in Nat \ {0} /\ nextKey + m \in 1..(MaxKeys + 1)
      /\ 1..(nextKey - 1) \subseteq 1..((nextKey + m) - 1)
    BY KeyPoolAssumption DEF Bounded, KeyPoolAssumption
<1>2. Indices(lo, m) \subseteq 1..((nextKey + m) - 1)
    BY <1>1 DEF Indices
<1>3. \A i \in 1..MaxKeys : Q[i] \in 0..((nextKey + m) - 1) /\ (Q[i] # 0 => i < nextKey + m)
    <2> SUFFICES ASSUME NEW i \in 1..MaxKeys PROVE Q[i] \in 0..((nextKey + m) - 1) /\ (Q[i] # 0 => i < nextKey + m)
        OBVIOUS
    <2>1. CASE i \in Indices(lo, m)
        <3>1. Q[i] = nextKey + (i - lo) /\ i \in lo..((lo + m) - 1)
            BY <2>1 DEF WithNewKeys, Indices
        <3> QED BY <1>1, <3>1
    <2>2. CASE i \notin Indices(lo, m)
        <3>1. Q[i] = P[i] /\ P[i] \in 0..(nextKey - 1) /\ (P[i] # 0 => i < nextKey)
            BY <2>2 DEF WithNewKeys, Bounded
        <3> QED BY <1>1, <3>1
    <2> QED BY <2>1, <2>2
<1>4. Q \in [1..MaxKeys -> 0..((nextKey + m) - 1)]
    <2>1. Q = [i \in 1..MaxKeys |-> Q[i]]
        BY DEF WithNewKeys
    <2> HIDE DEF Q
    <2> QED BY <1>3, <2>1
<1>5. R \in [Holder -> [nIndex : 1..((nextKey + m) - 1), vchPubKey : 1..((nextKey + m) - 1)] \cup {NoKey}]
    BY <1>1 DEF Bounded
<1>6. S \subseteq 1..((nextKey + m) - 1) /\ U \subseteq 1..((nextKey + m) - 1)
    BY <1>1 DEF Bounded
<1> HIDE DEF Q
<1> DEFINE nk == nextKey + m
           T == S \cup Indices(lo, m)
<1>7. /\ nk \in 1..(MaxKeys + 1) /\ T \subseteq 1..(nk - 1)
      /\ Q \in [1..MaxKeys -> 0..(nk - 1)] /\ \A i \in 1..MaxKeys : Q[i] # 0 => i < nk
      /\ R \in [Holder -> [nIndex : 1..(nk - 1), vchPubKey : 1..(nk - 1)] \cup {NoKey}]
      /\ U \subseteq 1..(nk - 1)
    <2>1. nk \in 1..(MaxKeys + 1) BY <1>1
    <2>2. T \subseteq 1..(nk - 1) BY <1>2, <1>6
    <2>3. Q \in [1..MaxKeys -> 0..(nk - 1)] BY <1>4
    <2>4. \A i \in 1..MaxKeys : Q[i] # 0 => i < nk BY <1>3
    <2>5. R \in [Holder -> [nIndex : 1..(nk - 1), vchPubKey : 1..(nk - 1)] \cup {NoKey}] BY <1>5
    <2>6. U \subseteq 1..(nk - 1) BY <1>6
    <2> QED BY <2>1, <2>2, <2>3, <2>4, <2>5, <2>6
<1> HIDE DEF nk, T
<1>8. Bounded(T, Q, R, nk, U)
    BY <1>7, Zenon DEF Bounded
<1> QED BY <1>8 DEF Q, nk, T

LEMMA HolderKeys ==
    ASSUME NEW S, NEW P, NEW R, NEW nk, NEW U, Bounded(S, P, R, nk, U)
    PROVE  /\ NoKey.nIndex = 0
           /\ \A h \in Holder : R[h] # NoKey =>
                /\ R[h].nIndex \in 1..MaxKeys /\ R[h].nIndex # 0
                /\ R[h].vchPubKey \in 1..(nk - 1) /\ R[h].vchPubKey # 0
<1> SUFFICES ASSUME NEW h \in Holder, R[h] # NoKey
             PROVE  /\ R[h].nIndex \in 1..MaxKeys /\ R[h].nIndex # 0
                    /\ R[h].vchPubKey \in 1..(nk - 1) /\ R[h].vchPubKey # 0
    BY DEF NoKey
<1>1. R[h] \in [nIndex : 1..(nk - 1), vchPubKey : 1..(nk - 1)]
    BY DEF Bounded
<1>2. nk \in 1..(MaxKeys + 1) /\ MaxKeys \in Nat
    BY KeyPoolAssumption DEF Bounded, KeyPoolAssumption
<1>3. R[h].nIndex \in 1..(nk - 1) /\ R[h].vchPubKey \in 1..(nk - 1)
    BY <1>1
<1> QED BY <1>2, <1>3

\* Indices that are written while a CReserveKey has them.
Over(R, lo, m) == { i \in Indices(lo, m) : \E h \in Holder : R[h].nIndex = i }

LEMMA FillSound ==
    ASSUME NEW S, NEW P, NEW R, NEW U, NEW W, NEW D, NEW D2,
           Bounded(S, P, R, nextKey, U), Sound(S, P, R, nextKey, U, W, D),
           NEW lo \in 1..nextKey, NEW m \in Nat, nextKey + m <= MaxKeys + 1,
           W \subseteq 1..MaxKeys, D \subseteq D2, \A i \in S : i < lo,
           \A i \in Over(R, lo, m) : (P[i] # 0 => P[i] \in D2) /\ nextKey + (i - lo) \in D2
    PROVE  Sound(S \cup Indices(lo, m), WithNewKeys(P, lo, m), R, nextKey + m, U,
                 (W \ Indices(lo, m)) \cup Over(R, lo, m), D2)
<1> DEFINE Q == WithNewKeys(P, lo, m)
           new == Indices(lo, m)
           over == Over(R, lo, m)
           X == (W \ new) \cup over
<1>1. MaxKeys \in Nat /\ nextKey \in Nat \ {0} /\ new \subseteq 1..MaxKeys /\ (lo + m) - 1 <= MaxKeys
    BY KeyPoolAssumption DEF Bounded, KeyPoolAssumption, Indices
<1>2. \A i \in new : Q[i] = nextKey + (i - lo) /\ Q[i] \in nextKey..((nextKey + m) - 1)
    <2> SUFFICES ASSUME NEW i \in new PROVE Q[i] = nextKey + (i - lo) /\ Q[i] \in nextKey..((nextKey + m) - 1)
        OBVIOUS
    <2>1. Q[i] = nextKey + (i - lo)
        BY <1>1 DEF WithNewKeys
    <2> QED BY <1>1, <2>1 DEF Indices
<1>3. \A i \in (1..MaxKeys) \ new : Q[i] = P[i] /\ P[i] \in 0..(nextKey - 1)
    BY DEF WithNewKeys, Bounded
<1>4. \A i \in new : i \in 1..MaxKeys /\ i \notin S /\ i \in Nat
    BY <1>1 DEF Indices, Bounded
<1>5. S \subseteq 1..MaxKeys
    BY <1>1 DEF Bounded
<1>6. over \subseteq new /\ X \subseteq 1..MaxKeys /\ \A i \in new : i \in X <=> \E h \in Holder : R[h].nIndex = i
    BY <1>1 DEF Over
<1>7. \A i \in over : (P[i] # 0 => P[i] \in D2) /\ Q[i] \in D2
    BY <1>2, <1>6
<1>8. /\ Placed(S, P, R, W) /\ Counted(P, R, nextKey, U, W, D)
      /\ \A i \in (1..MaxKeys) \ new : i \in X <=> i \in W
    BY <1>6 DEF Sound
<1>9. \A h \in Holder : R[h] # NoKey => R[h].nIndex \in 1..MaxKeys /\ R[h].vchPubKey \in 1..(nextKey - 1)
    BY HolderKeys
<1> HIDE DEF Q, new, over, X
<1>10. \A i \in (S \cup new) \ X : Q[i] # 0
    <2> SUFFICES ASSUME NEW i \in (S \cup new) \ X PROVE Q[i] # 0
        OBVIOUS
    <2>1. CASE i \in new
        BY <1>1, <1>2, <2>1
    <2>2. CASE i \notin new
        BY <2>2, <1>3, <1>5, <1>8 DEF Placed
    <2> QED BY <2>1, <2>2
<1>11. \A i \in 1..MaxKeys : Q[i] # 0 => i \in S \cup new \/ \E h \in Holder : R[h].nIndex = i
    BY <1>3, <1>8 DEF Placed
<1>12. ASSUME NEW h \in Holder, R[h] # NoKey, R[h].nIndex \notin X
       PROVE  /\ R[h].nIndex \notin S \cup new /\ Q[R[h].nIndex] = R[h].vchPubKey
              /\ \A k \in Holder : R[k].nIndex = R[h].nIndex => k = h
    <2>1. R[h].nIndex \in (1..MaxKeys) \ new
        BY <1>6, <1>9, <1>12
    <2>2. R[h].nIndex \notin W
        BY <2>1, <1>8, <1>12
    <2> QED BY <2>1, <2>2, <1>3, <1>8, <1>12 DEF Placed
<1>13. Placed(S \cup new, Q, R, X)
    BY <1>10, <1>11, <1>12, Zenon DEF Placed
<1>14. \A i, j \in 1..MaxKeys : Q[i] # 0 /\ Q[i] = Q[j] => i = j
    <2> SUFFICES ASSUME NEW i \in 1..MaxKeys, NEW j \in 1..MaxKeys, Q[i] # 0, Q[i] = Q[j] PROVE i = j
        OBVIOUS
    <2>1. CASE i \in new /\ j \in new
        <3>1. nextKey + (i - lo) = nextKey + (j - lo)
            BY <1>2, <2>1
        <3> QED BY <1>1, <3>1
    <2>2. CASE i \notin new /\ j \notin new
        BY <1>3, <1>8, <2>2 DEF Counted
    <2>3. CASE i \in new /\ j \notin new
        BY <1>1, <1>2, <1>3, <2>3
    <2>4. CASE i \notin new /\ j \in new
        BY <1>1, <1>2, <1>3, <2>4
    <2> QED BY <2>1, <2>2, <2>3, <2>4
<1>15. \A h \in Holder : \A j \in 1..MaxKeys : R[h] # NoKey /\ Q[j] = R[h].vchPubKey => j = R[h].nIndex
    <2> SUFFICES ASSUME NEW h \in Holder, NEW j \in 1..MaxKeys, R[h] # NoKey, Q[j] = R[h].vchPubKey
                 PROVE  j = R[h].nIndex
        OBVIOUS
    <2>1. R[h].vchPubKey \in 1..(nextKey - 1)
        BY <1>9
    <2>2. j \notin new
        BY <1>1, <1>2, <2>1
    <2> QED BY <2>2, <1>3, <1>8 DEF Counted
<1>16. \A i \in 1..MaxKeys : Q[i] \notin U
    <2> SUFFICES ASSUME NEW i \in 1..MaxKeys PROVE Q[i] \notin U
        OBVIOUS
    <2>1. CASE i \in new
        BY <1>1, <1>2, <2>1 DEF Bounded
    <2>2. CASE i \notin new
        BY <1>3, <1>8, <2>2 DEF Counted
    <2> QED BY <2>1, <2>2
<1>17. \A i \in X : Q[i] # 0 => Q[i] \in D2
    <2> SUFFICES ASSUME NEW i \in X, Q[i] # 0 PROVE Q[i] \in D2
        OBVIOUS
    <2>1. CASE i \in new
        BY <2>1, <1>6, <1>7 DEF X
    <2>2. CASE i \notin new
        BY <2>2, <1>3, <1>6, <1>8 DEF Counted
    <2> QED BY <2>1, <2>2
<1>18. \A n \in 1..((nextKey + m) - 1) : n \in U \/ n \in D2 \/ \E i \in 1..MaxKeys : Q[i] = n
    <2> SUFFICES ASSUME NEW n \in 1..((nextKey + m) - 1), n \notin U, n \notin D2
                 PROVE  \E i \in 1..MaxKeys : Q[i] = n
        OBVIOUS
    <2>1. CASE n < nextKey
        <3>1. PICK i \in 1..MaxKeys : P[i] = n
            BY <1>1, <1>8, <2>1 DEF Counted
        <3>2. i \notin new
            <4>1. i \in S \/ \E h \in Holder : R[h].nIndex = i
                BY <3>1, <1>8 DEF Placed
            <4>2. i \in new => i \in over
                BY <4>1, <1>4 DEF over, Over, new
            <4>3. i \in over => FALSE
                BY <3>1, <1>7
            <4> QED BY <4>2, <4>3
        <3> QED BY <3>1, <3>2, <1>3
    <2>2. CASE n >= nextKey
        <3> DEFINE i == lo + (n - nextKey)
        <3>1. i \in new
            BY <1>1, <2>2 DEF new, Indices
        <3>2. Q[i] = n
            BY <1>1, <1>2, <3>1
        <3> QED BY <1>4, <3>1, <3>2
    <2> QED BY <1>1, <2>1, <2>2
<1>19. Counted(Q, R, nextKey + m, U, X, D2)
    BY <1>14, <1>15, <1>16, <1>17, <1>18, Zenon DEF Counted
<1>20. Sound(S \cup new, Q, R, nextKey + m, U, X, D2)
    BY <1>13, <1>19 DEF Sound
<1> QED BY <1>20 DEF Q, new, X, over

-----------------------------------------------------------------------------
(* Taking, keeping and returning one. *)

LEMMA TakeSound ==
    ASSUME NEW S, NEW P, NEW R, NEW nk, NEW U, NEW W, NEW D,
           Bounded(S, P, R, nk, U), Sound(S, P, R, nk, U, W, D),
           NEW h \in Holder, NEW i \in S, R[h] = NoKey, P[i] # 0
    PROVE  Sound(S \ {i}, P, [R EXCEPT ![h] = [nIndex |-> i, vchPubKey |-> P[i]]], nk, U, W, D)
<1> DEFINE key == [nIndex |-> i, vchPubKey |-> P[i]]
           T == [R EXCEPT ![h] = key]
<1>0. Placed(S, P, R, W) /\ Counted(P, R, nk, U, W, D)
    BY DEF Sound
<1>1. T[h] = key /\ \A k \in Holder \ {h} : T[k] = R[k]
    BY DEF Bounded
<1>2. key.nIndex = i /\ key.vchPubKey = P[i] /\ NoKey.nIndex = 0
    BY DEF NoKey
<1>3. i \in 1..(nk - 1) /\ nk \in Nat /\ i \in 1..MaxKeys /\ i # 0
    BY KeyPoolAssumption DEF Bounded, KeyPoolAssumption
<1>4. i \notin W => \A k \in Holder : R[k].nIndex # i
    BY <1>0, <1>2, <1>3 DEF Placed
<1> HIDE DEF T, key
<1>5. \A j \in (S \ {i}) \ W : P[j] # 0
    BY <1>0 DEF Placed
<1>6. \A j \in 1..MaxKeys : P[j] # 0 => j \in S \ {i} \/ \E k \in Holder : T[k].nIndex = j
    <2> SUFFICES ASSUME NEW j \in 1..MaxKeys, P[j] # 0, j \notin S \ {i} PROVE \E k \in Holder : T[k].nIndex = j
        OBVIOUS
    <2>1. CASE j = i
        BY <1>1, <1>2, <2>1
    <2>2. CASE j # i
        <3>1. PICK k \in Holder : R[k].nIndex = j
            BY <2>2, <1>0 DEF Placed
        <3>2. k # h
            BY <3>1, <1>2
        <3> QED BY <1>1, <3>1, <3>2
    <2> QED BY <2>1, <2>2
<1>7. ASSUME NEW k \in Holder, T[k] # NoKey, T[k].nIndex \notin W
      PROVE  /\ T[k].nIndex \notin S \ {i} /\ P[T[k].nIndex] = T[k].vchPubKey
             /\ \A l \in Holder : T[l].nIndex = T[k].nIndex => l = k
    <2>1. CASE k = h
        BY <2>1, <1>1, <1>2, <1>4, <1>7
    <2>2. CASE k # h
        <3>1. T[k] = R[k] /\ R[k] # NoKey /\ R[k].nIndex \notin W
            BY <2>2, <1>1, <1>7
        <3>2. /\ R[k].nIndex \notin S /\ P[R[k].nIndex] = R[k].vchPubKey
              /\ \A l \in Holder : R[l].nIndex = R[k].nIndex => l = k
            BY <3>1, <1>0 DEF Placed
        <3>3. R[k].nIndex # i
            BY <3>2
        <3> QED BY <3>1, <3>2, <3>3, <1>1, <1>2
    <2> QED BY <2>1, <2>2
<1>8. Placed(S \ {i}, P, T, W)
    BY <1>5, <1>6, <1>7, Zenon DEF Placed
<1>9. \A k \in Holder : \A j \in 1..MaxKeys : T[k] # NoKey /\ P[j] = T[k].vchPubKey => j = T[k].nIndex
    <2> SUFFICES ASSUME NEW k \in Holder, NEW j \in 1..MaxKeys, T[k] # NoKey, P[j] = T[k].vchPubKey
                 PROVE  j = T[k].nIndex
        OBVIOUS
    <2>1. CASE k = h
        BY <2>1, <1>0, <1>1, <1>2, <1>3 DEF Counted
    <2>2. CASE k # h
        BY <2>2, <1>0, <1>1 DEF Counted
    <2> QED BY <2>1, <2>2
<1>10. Counted(P, T, nk, U, W, D)
    BY <1>0, <1>9, Zenon DEF Counted
<1>11. Sound(S \ {i}, P, T, nk, U, W, D)
    BY <1>8, <1>10 DEF Sound
<1> QED BY <1>11 DEF T, key

\* A CReserveKey lets go: its index is in the pool again, or its record is gone.
LEMMA LetGo ==
    ASSUME NEW S, NEW P, NEW R, NEW nk, NEW U, Bounded(S, P, R, nk, U), NEW h \in Holder, R[h] # NoKey
    PROVE  LET T == [R EXCEPT ![h] = NoKey]
           IN  /\ T[h] = NoKey /\ \A k \in Holder \ {h} : T[k] = R[k]
               /\ \A k \in Holder : T[k] # NoKey => k # h /\ T[k] = R[k] /\ R[k] # NoKey
BY DEF Bounded

LEMMA ReturnSound ==
    ASSUME NEW S, NEW P, NEW R, NEW nk, NEW U, NEW W, NEW D,
           Bounded(S, P, R, nk, U), Sound(S, P, R, nk, U, W, D), NEW h \in Holder, R[h] # NoKey
    PROVE  Sound(S \cup {R[h].nIndex}, P, [R EXCEPT ![h] = NoKey], nk, U, W, D)
<1> DEFINE i == R[h].nIndex
           T == [R EXCEPT ![h] = NoKey]
<1>0. Placed(S, P, R, W) /\ Counted(P, R, nk, U, W, D)
    BY DEF Sound
<1>1. /\ T[h] = NoKey /\ \A k \in Holder \ {h} : T[k] = R[k]
      /\ i \in 1..MaxKeys /\ i # 0 /\ NoKey.nIndex = 0 /\ R[h].vchPubKey # 0
      /\ \A k \in Holder : T[k] # NoKey => k # h /\ T[k] = R[k] /\ R[k] # NoKey
    BY LetGo, HolderKeys
<1> HIDE DEF T
<1>2. \A j \in (S \cup {i}) \ W : P[j] # 0
    BY <1>0, <1>1 DEF Placed
<1>3. \A j \in 1..MaxKeys : P[j] # 0 => j \in S \cup {i} \/ \E k \in Holder : T[k].nIndex = j
    <2> SUFFICES ASSUME NEW j \in 1..MaxKeys, P[j] # 0, j \notin S, j # i PROVE \E k \in Holder : T[k].nIndex = j
        OBVIOUS
    <2>1. PICK k \in Holder : R[k].nIndex = j
        BY <1>0 DEF Placed
    <2> QED BY <2>1, <1>1
<1>4. ASSUME NEW k \in Holder, T[k] # NoKey, T[k].nIndex \notin W
      PROVE  /\ T[k].nIndex \notin S \cup {i} /\ P[T[k].nIndex] = T[k].vchPubKey
             /\ \A l \in Holder : T[l].nIndex = T[k].nIndex => l = k
    <2>1. k # h /\ T[k] = R[k] /\ R[k] # NoKey
        BY <1>1, <1>4
    <2>2. /\ R[k].nIndex \notin S /\ P[R[k].nIndex] = R[k].vchPubKey
          /\ \A l \in Holder : R[l].nIndex = R[k].nIndex => l = k
        BY <2>1, <1>0, <1>4 DEF Placed
    <2>3. R[k].nIndex # i /\ R[k].nIndex # 0
        <3>1. R[k].nIndex \in 1..MaxKeys /\ R[k].nIndex # 0
            BY <2>1, HolderKeys
        <3> QED BY <3>1, <2>1, <2>2
    <2> QED BY <2>1, <2>2, <2>3, <1>1
<1>5. Placed(S \cup {i}, P, T, W)
    BY <1>2, <1>3, <1>4, Zenon DEF Placed
<1>6. Counted(P, T, nk, U, W, D)
    <2>1. \A k \in Holder : \A j \in 1..MaxKeys : T[k] # NoKey /\ P[j] = T[k].vchPubKey => j = T[k].nIndex
        BY <1>0, <1>1 DEF Counted
    <2> QED BY <2>1, <1>0, Zenon DEF Counted
<1>7. Sound(S \cup {i}, P, T, nk, U, W, D)
    BY <1>5, <1>6 DEF Sound
<1> QED BY <1>7 DEF T

LEMMA KeepSound ==
    ASSUME NEW S, NEW P, NEW R, NEW nk, NEW U, NEW W, NEW D,
           Bounded(S, P, R, nk, U), Sound(S, P, R, nk, U, W, D), W \subseteq 1..MaxKeys,
           NEW h \in Holder, R[h] # NoKey
    PROVE  Sound(S, [P EXCEPT ![R[h].nIndex] = 0], [R EXCEPT ![h] = NoKey], nk, U \cup {R[h].vchPubKey}, W, D)
<1> DEFINE i == R[h].nIndex
           key == R[h].vchPubKey
           T == [R EXCEPT ![h] = NoKey]
           Q == [P EXCEPT ![i] = 0]
<1>0. Placed(S, P, R, W) /\ Counted(P, R, nk, U, W, D)
    BY DEF Sound
<1>1. /\ T[h] = NoKey /\ \A k \in Holder \ {h} : T[k] = R[k]
      /\ i \in 1..MaxKeys /\ i # 0 /\ NoKey.nIndex = 0 /\ key # 0
      /\ \A k \in Holder : T[k] # NoKey => k # h /\ T[k] = R[k] /\ R[k] # NoKey
    BY LetGo, HolderKeys
<1>2. Q[i] = 0 /\ (\A j \in (1..MaxKeys) \ {i} : Q[j] = P[j]) 
    BY <1>1 DEF Bounded
<1>3. S \subseteq 1..MaxKeys /\ 0 \notin U
    BY KeyPoolAssumption DEF Bounded, KeyPoolAssumption
<1>4. i \notin W => i \notin S /\ P[i] = key /\ \A k \in Holder : R[k].nIndex = i => k = h
    BY <1>0 DEF Placed
<1>5. \A j \in 1..MaxKeys : P[j] = key => j = i
    BY <1>0 DEF Counted
<1>6. \A k \in Holder : T[k] # NoKey => R[k].vchPubKey # 0 /\ R[k].nIndex \in 1..MaxKeys
    BY <1>1, HolderKeys
<1> HIDE DEF T, Q, i, key
<1>7. \A j \in S \ W : Q[j] # 0
    BY <1>0, <1>2, <1>3, <1>4 DEF Placed
<1>8. \A j \in 1..MaxKeys : Q[j] # 0 => j \in S \/ \E k \in Holder : T[k].nIndex = j
    <2> SUFFICES ASSUME NEW j \in 1..MaxKeys, Q[j] # 0, j \notin S PROVE \E k \in Holder : T[k].nIndex = j
        OBVIOUS
    <2>1. j # i /\ P[j] # 0
        BY <1>2
    <2>2. PICK k \in Holder : R[k].nIndex = j
        BY <2>1, <1>0 DEF Placed
    <2> QED BY <2>1, <2>2, <1>1 DEF i
<1>9. ASSUME NEW k \in Holder, T[k] # NoKey, T[k].nIndex \notin W
      PROVE  /\ T[k].nIndex \notin S /\ Q[T[k].nIndex] = T[k].vchPubKey
             /\ \A l \in Holder : T[l].nIndex = T[k].nIndex => l = k
    <2>1. k # h /\ T[k] = R[k] /\ R[k] # NoKey /\ R[k].nIndex \in 1..MaxKeys
        BY <1>1, <1>6, <1>9
    <2>2. /\ R[k].nIndex \notin S /\ P[R[k].nIndex] = R[k].vchPubKey
          /\ \A l \in Holder : R[l].nIndex = R[k].nIndex => l = k
        BY <2>1, <1>0, <1>9 DEF Placed
    <2>3. R[k].nIndex # i /\ R[k].nIndex # 0
        BY <2>1, <2>2, <1>3 DEF i
    <2> QED BY <2>1, <2>2, <2>3, <1>1, <1>2
<1>10. Placed(S, Q, T, W)
    BY <1>7, <1>8, <1>9, Zenon DEF Placed
<1>11. \A j, k \in 1..MaxKeys : Q[j] # 0 /\ Q[j] = Q[k] => j = k
    BY <1>0, <1>2 DEF Counted
<1>12. \A k \in Holder : \A j \in 1..MaxKeys : T[k] # NoKey /\ Q[j] = T[k].vchPubKey => j = T[k].nIndex
    BY <1>0, <1>1, <1>2, <1>6 DEF Counted
<1>13. \A j \in 1..MaxKeys : Q[j] \notin U \cup {key}
    <2> SUFFICES ASSUME NEW j \in 1..MaxKeys PROVE Q[j] \notin U \cup {key}
        OBVIOUS
    <2>1. CASE j = i
        BY <2>1, <1>1, <1>2, <1>3 DEF key
    <2>2. CASE j # i
        BY <2>2, <1>0, <1>2, <1>5 DEF Counted
    <2> QED BY <2>1, <2>2
<1>14. \A j \in W : Q[j] # 0 => Q[j] \in D
    <2> SUFFICES ASSUME NEW j \in W, Q[j] # 0 PROVE Q[j] \in D
        OBVIOUS
    <2>1. j # i /\ Q[j] = P[j]
        BY <1>2
    <2> QED BY <2>1, <1>0 DEF Counted
<1>15. \A n \in 1..(nk - 1) : n \in U \cup {key} \/ n \in D \/ \E j \in 1..MaxKeys : Q[j] = n
    <2> SUFFICES ASSUME NEW n \in 1..(nk - 1), n \notin U, n # key, n \notin D PROVE \E j \in 1..MaxKeys : Q[j] = n
        OBVIOUS
    <2>1. PICK j \in 1..MaxKeys : P[j] = n
        BY <1>0 DEF Counted
    <2>2. n # 0
        BY KeyPoolAssumption DEF Bounded, KeyPoolAssumption
    <2>3. j # i
        BY <2>1, <2>2, <1>0, <1>4 DEF Counted
    <2> QED BY <2>1, <2>3, <1>2
<1>16. Counted(Q, T, nk, U \cup {key}, W, D)
    BY <1>11, <1>12, <1>13, <1>14, <1>15, Zenon DEF Counted
<1>17. Sound(S, Q, T, nk, U \cup {key}, W, D)
    BY <1>10, <1>16 DEF Sound
<1> QED BY <1>17 DEF T, Q, i, key

\* An index leaves the pool with its record, whose key is used if there was one.
LEMMA DropSound ==
    ASSUME NEW S, NEW P, NEW R, NEW nk, NEW U, NEW W, NEW D,
           Bounded(S, P, R, nk, U), Sound(S, P, R, nk, U, W, D), W \subseteq 1..MaxKeys, NEW i \in S
    PROVE  Sound(S \ {i}, [P EXCEPT ![i] = 0], R, nk, U \cup ({P[i]} \ {0}), W, D)
<1> DEFINE Q == [P EXCEPT ![i] = 0]
           V == {P[i]} \ {0}
<1>0. Placed(S, P, R, W) /\ Counted(P, R, nk, U, W, D)
    BY DEF Sound
<1>1. i \in 1..MaxKeys /\ nk \in Nat \ {0} /\ 0 \notin U \cup V /\ S \subseteq 1..MaxKeys
    BY KeyPoolAssumption DEF Bounded, KeyPoolAssumption
<1>2. Q[i] = 0 /\ (\A j \in (1..MaxKeys) \ {i} : Q[j] = P[j])
    BY <1>1 DEF Bounded
<1>3. \A k \in Holder : R[k] # NoKey => R[k].nIndex \in 1..MaxKeys /\ R[k].vchPubKey # 0
    BY HolderKeys
<1> HIDE DEF Q
<1>4. \A j \in (S \ {i}) \ W : Q[j] # 0
    <2> SUFFICES ASSUME NEW j \in S, j # i, j \notin W PROVE Q[j] # 0
        OBVIOUS
    <2>1. P[j] # 0 /\ j \in 1..MaxKeys
        BY <1>0, <1>1 DEF Placed
    <2> QED BY <2>1, <1>2
<1>5. \A j \in 1..MaxKeys : Q[j] # 0 => j \in S \ {i} \/ \E k \in Holder : R[k].nIndex = j
    BY <1>0, <1>2 DEF Placed
<1>6. ASSUME NEW k \in Holder, R[k] # NoKey, R[k].nIndex \notin W
      PROVE  /\ R[k].nIndex \notin S \ {i} /\ Q[R[k].nIndex] = R[k].vchPubKey
             /\ \A l \in Holder : R[l].nIndex = R[k].nIndex => l = k
    <2>1. /\ R[k].nIndex \notin S /\ P[R[k].nIndex] = R[k].vchPubKey
          /\ \A l \in Holder : R[l].nIndex = R[k].nIndex => l = k
        BY <1>0, <1>6 DEF Placed
    <2>2. R[k].nIndex \in 1..MaxKeys /\ R[k].nIndex # i
        BY <2>1, <1>3, <1>6
    <2> QED BY <2>1, <2>2, <1>2
<1>7. Placed(S \ {i}, Q, R, W)
    BY <1>4, <1>5, <1>6, Zenon DEF Placed
<1>8. \A j, k \in 1..MaxKeys : Q[j] # 0 /\ Q[j] = Q[k] => j = k
    BY <1>0, <1>2 DEF Counted
<1>9. \A k \in Holder : \A j \in 1..MaxKeys : R[k] # NoKey /\ Q[j] = R[k].vchPubKey => j = R[k].nIndex
    BY <1>0, <1>2, <1>3 DEF Counted
<1>10. \A j \in 1..MaxKeys : Q[j] \notin U \cup V
    <2> SUFFICES ASSUME NEW j \in 1..MaxKeys PROVE Q[j] \notin U \cup V
        OBVIOUS
    <2>1. CASE j = i
        BY <2>1, <1>1, <1>2
    <2>2. CASE j # i
        BY <1>0, <1>1, <1>2, <2>2 DEF Counted
    <2> QED BY <2>1, <2>2
<1>11. \A j \in W : Q[j] # 0 => Q[j] \in D
    BY <1>0, <1>2 DEF Counted
<1>12. \A n \in 1..(nk - 1) : n \in U \cup V \/ n \in D \/ \E j \in 1..MaxKeys : Q[j] = n
    <2> SUFFICES ASSUME NEW n \in 1..(nk - 1), n \notin U \cup V, n \notin D PROVE \E j \in 1..MaxKeys : Q[j] = n
        OBVIOUS
    <2>1. PICK j \in 1..MaxKeys : P[j] = n
        BY <1>0 DEF Counted
    <2>2. n # 0
        BY <1>1
    <2> QED BY <2>1, <2>2, <1>2
<1>13. Counted(Q, R, nk, U \cup V, W, D)
    BY <1>8, <1>9, <1>10, <1>11, <1>12, Zenon DEF Counted
<1>14. Sound(S \ {i}, Q, R, nk, U \cup V, W, D)
    BY <1>7, <1>13 DEF Sound
<1> QED BY <1>14 DEF Q

\* What each part leaves within its bounds.
LEMMA ReturnBounded ==
    ASSUME NEW S, NEW P, NEW R, NEW nk, NEW U, Bounded(S, P, R, nk, U), NEW h \in Holder, R[h] # NoKey
    PROVE  /\ R[h].nIndex \in 1..MaxKeys /\ R[h].nIndex \in 1..(nk - 1) /\ R[h].vchPubKey \in 1..(nk - 1)
           /\ Bounded(S \cup {R[h].nIndex}, P, [R EXCEPT ![h] = NoKey], nk, U)
<1>1. R[h] \in [nIndex : 1..(nk - 1), vchPubKey : 1..(nk - 1)]
    BY DEF Bounded
<1>2. nk \in 1..(MaxKeys + 1) /\ MaxKeys \in Nat
    BY KeyPoolAssumption DEF Bounded, KeyPoolAssumption
<1>3. R[h].nIndex \in 1..MaxKeys /\ R[h].nIndex \in 1..(nk - 1) /\ R[h].vchPubKey \in 1..(nk - 1)
    BY <1>1, <1>2
<1>4. [R EXCEPT ![h] = NoKey] \in [Holder -> [nIndex : 1..(nk - 1), vchPubKey : 1..(nk - 1)] \cup {NoKey}]
    BY DEF Bounded
<1>5. S \cup {R[h].nIndex} \subseteq 1..(nk - 1)
    BY <1>3 DEF Bounded
<1> QED BY <1>3, <1>4, <1>5 DEF Bounded

LEMMA TakeBounded ==
    ASSUME NEW S, NEW P, NEW R, NEW nk, NEW U, Bounded(S, P, R, nk, U), NEW h \in Holder, NEW i \in S
    PROVE  /\ Bounded(S \ {i}, P, R, nk, U)
           /\ P[i] # 0 => Bounded(S \ {i}, P, [R EXCEPT ![h] = [nIndex |-> i, vchPubKey |-> P[i]]], nk, U)
<1>1. nk \in 1..(MaxKeys + 1) /\ MaxKeys \in Nat /\ i \in 1..(nk - 1) /\ i \in 1..MaxKeys
    BY KeyPoolAssumption DEF Bounded, KeyPoolAssumption
<1>2. P[i] \in 0..(nk - 1)
    BY <1>1 DEF Bounded
<1>3. S \ {i} \subseteq 1..(nk - 1)
    BY DEF Bounded
<1>4. Bounded(S \ {i}, P, R, nk, U)
    BY <1>3 DEF Bounded
<1>5. ASSUME P[i] # 0
      PROVE  [R EXCEPT ![h] = [nIndex |-> i, vchPubKey |-> P[i]]]
                \in [Holder -> [nIndex : 1..(nk - 1), vchPubKey : 1..(nk - 1)] \cup {NoKey}]
    <2>1. P[i] \in 1..(nk - 1)
        BY <1>1, <1>2, <1>5
    <2>2. [nIndex |-> i, vchPubKey |-> P[i]] \in [nIndex : 1..(nk - 1), vchPubKey : 1..(nk - 1)]
        BY <1>1, <2>1
    <2> QED BY <2>2 DEF Bounded
<1> QED BY <1>3, <1>4, <1>5 DEF Bounded

LEMMA DropBounded ==
    ASSUME NEW S, NEW P, NEW R, NEW nk, NEW U, Bounded(S, P, R, nk, U),
           NEW i \in 1..MaxKeys, NEW V, V \subseteq 1..(nk - 1)
    PROVE  Bounded(S \ {i}, [P EXCEPT ![i] = 0], R, nk, U \cup V)
<1>1. nk \in 1..(MaxKeys + 1) /\ MaxKeys \in Nat
    BY KeyPoolAssumption DEF Bounded, KeyPoolAssumption
<1> DEFINE Q == [P EXCEPT ![i] = 0]
<1>2. Q \in [1..MaxKeys -> 0..(nk - 1)] /\ \A j \in 1..MaxKeys : Q[j] # 0 => j < nk
    BY <1>1 DEF Bounded
<1> HIDE DEF Q
<1>3. S \ {i} \subseteq 1..(nk - 1) /\ U \cup V \subseteq 1..(nk - 1)
    BY DEF Bounded
<1>4. Bounded(S \ {i}, Q, R, nk, U \cup V)
    BY <1>2, <1>3 DEF Bounded
<1> QED BY <1>4 DEF Q

LEMMA KeepBounded ==
    ASSUME NEW S, NEW P, NEW R, NEW nk, NEW U, Bounded(S, P, R, nk, U), NEW h \in Holder, R[h] # NoKey
    PROVE  Bounded(S, [P EXCEPT ![R[h].nIndex] = 0], [R EXCEPT ![h] = NoKey], nk, U \cup {R[h].vchPubKey})
<1>1. /\ R[h].nIndex \in 1..MaxKeys /\ R[h].vchPubKey \in 1..(nk - 1)
      /\ Bounded(S \cup {R[h].nIndex}, P, [R EXCEPT ![h] = NoKey], nk, U)
    BY ReturnBounded
<1> DEFINE i == R[h].nIndex
           T == [R EXCEPT ![h] = NoKey]
           V == {R[h].vchPubKey}
<1>2. i \in 1..MaxKeys /\ V \subseteq 1..(nk - 1) /\ Bounded(S \cup {i}, P, T, nk, U)
    BY <1>1
<1>3. S \subseteq 1..(nk - 1)
    BY DEF Bounded
<1> HIDE DEF i, T, V
<1>4. Bounded((S \cup {i}) \ {i}, [P EXCEPT ![i] = 0], T, nk, U \cup V)
    BY <1>2, DropBounded
<1>5. Bounded(S, [P EXCEPT ![i] = 0], T, nk, U \cup V)
    BY <1>3, <1>4 DEF Bounded
<1> QED BY <1>5 DEF i, T, V

\* NewKeyPool gives up the keys of the pool: the records it leaves and the keys.
Cleared(S, P) == [i \in 1..MaxKeys |-> IF i \in S THEN 0 ELSE P[i]]

KeysOf(S, P) == { P[i] : i \in S } \ {0}

LEMMA GiveUp ==
    ASSUME NEW S, NEW P, NEW R, NEW nk, NEW U, NEW W, NEW D,
           Bounded(S, P, R, nk, U), Sound(S, P, R, nk, U, W, D), W \subseteq 1..MaxKeys
    PROVE  /\ Bounded({}, Cleared(S, P), R, nk, U \cup KeysOf(S, P))
           /\ Sound({}, Cleared(S, P), R, nk, U \cup KeysOf(S, P), W, D)
<1> DEFINE Q == Cleared(S, P)
           V == KeysOf(S, P)
<1>0. Placed(S, P, R, W) /\ Counted(P, R, nk, U, W, D)
    BY DEF Sound
<1>1. nk \in 1..(MaxKeys + 1) /\ MaxKeys \in Nat /\ nk \in Nat
    BY KeyPoolAssumption DEF Bounded, KeyPoolAssumption
<1>2. S \subseteq 1..MaxKeys
    BY <1>1 DEF Bounded
<1>3. \A i \in 1..MaxKeys : P[i] \in 0..(nk - 1) /\ (P[i] # 0 => i < nk)
    BY DEF Bounded
<1>4. \A i \in 1..MaxKeys : Q[i] = IF i \in S THEN 0 ELSE P[i]
    BY DEF Cleared
<1>10. V = { P[i] : i \in S } \ {0} /\ Q = [i \in 1..MaxKeys |-> Q[i]]
    BY DEF KeysOf, Cleared
<1> HIDE DEF Q, V
<1>5. Bounded({}, Q, R, nk, U \cup V)
    <2>1. Q \in [1..MaxKeys -> 0..(nk - 1)]
        BY <1>1, <1>3, <1>4, <1>10
    <2>2. \A i \in 1..MaxKeys : Q[i] # 0 => i < nk
        BY <1>3, <1>4
    <2>3. V \subseteq 1..(nk - 1)
        BY <1>1, <1>2, <1>3, <1>10
    <2> QED BY <2>1, <2>2, <2>3 DEF Bounded
<1>6. 0 \notin U \cup V
    BY <1>10 DEF Bounded
<1>7. \A k \in Holder : R[k] # NoKey => R[k].nIndex \in 1..MaxKeys /\ R[k].vchPubKey # 0
    BY HolderKeys
<1>8. Placed({}, Q, R, W)
    <2>1. \A i \in {} \ W : Q[i] # 0
        OBVIOUS
    <2>2. \A i \in 1..MaxKeys : Q[i] # 0 => i \in {} \/ \E h \in Holder : R[h].nIndex = i
        BY <1>0, <1>4 DEF Placed
    <2>3. ASSUME NEW h \in Holder, R[h] # NoKey, R[h].nIndex \notin W
          PROVE  /\ R[h].nIndex \notin {} /\ Q[R[h].nIndex] = R[h].vchPubKey
                 /\ \A k \in Holder : R[k].nIndex = R[h].nIndex => k = h
        <3>1. R[h].nIndex \in 1..MaxKeys
            BY <1>7, <2>3
        <3> QED BY <3>1, <1>0, <1>4, <2>3 DEF Placed
    <2> QED BY <2>1, <2>2, <2>3, Zenon DEF Placed
<1>9. Counted(Q, R, nk, U \cup V, W, D)
    <2>1. \A i, j \in 1..MaxKeys : Q[i] # 0 /\ Q[i] = Q[j] => i = j
        BY <1>0, <1>4 DEF Counted
    <2>2. \A h \in Holder : \A j \in 1..MaxKeys : R[h] # NoKey /\ Q[j] = R[h].vchPubKey => j = R[h].nIndex
        BY <1>0, <1>4, <1>7 DEF Counted
    <2>3. \A i \in 1..MaxKeys : Q[i] \notin U \cup V
        <3> SUFFICES ASSUME NEW i \in 1..MaxKeys, i \notin S, Q[i] # 0 PROVE Q[i] \notin U \cup V
            BY <1>4, <1>6
        <3>1. Q[i] = P[i] /\ P[i] \notin U
            BY <1>0, <1>4 DEF Counted
        <3>2. \A j \in S : P[j] # P[i]
            BY <1>0, <1>2, <3>1 DEF Counted
        <3> QED BY <3>1, <3>2, <1>10
    <2>4. \A i \in W : Q[i] # 0 => Q[i] \in D
        BY <1>0, <1>4 DEF Counted
    <2>5. \A n \in 1..(nk - 1) : n \in U \cup V \/ n \in D \/ \E i \in 1..MaxKeys : Q[i] = n
        <3> SUFFICES ASSUME NEW n \in 1..(nk - 1), n \notin U \cup V, n \notin D PROVE \E i \in 1..MaxKeys : Q[i] = n
            OBVIOUS
        <3>1. PICK i \in 1..MaxKeys : P[i] = n
            BY <1>0 DEF Counted
        <3>2. i \notin S
            BY <3>1, <1>1, <1>10
        <3> QED BY <3>1, <3>2, <1>4
    <2> QED BY <2>1, <2>2, <2>3, <2>4, <2>5, Zenon DEF Counted
<1>11. Sound({}, Q, R, nk, U \cup V, W, D)
    BY <1>8, <1>9 DEF Sound
<1> QED BY <1>5, <1>11 DEF Q, V

-----------------------------------------------------------------------------
(* The steps. *)

\* What TopUpKeyPool leaves, by itself or before a key is taken.
\* What Generate writes down, for the pool that an operation starts from.
LEMMA Generated ==
    ASSUME IInv, NEW lo \in 1..nextKey, NEW m \in Nat, Generate(lo, m)
    PROVE  /\ nextKey + m <= MaxKeys + 1 /\ nextKey' = nextKey + m
           /\ rewritten' = (rewritten \ Indices(lo, m)) \cup Over(reserved, lo, m)
           /\ stranded \subseteq stranded'
           /\ \A i \in Over(reserved, lo, m) : (pool[i] # 0 => pool[i] \in stranded') /\ nextKey + (i - lo) \in stranded'
           /\ rewritten' \subseteq 1..MaxKeys /\ stranded' \subseteq 1..MaxKeys
<1>1. /\ nextKey + m <= MaxKeys + 1 /\ nextKey' = nextKey + m
      /\ rewritten' = (rewritten \ Indices(lo, m)) \cup Over(reserved, lo, m)
      /\ stranded' = stranded \cup UNION { KeysAt(i) \cup {nextKey + (i - lo)} : i \in Over(reserved, lo, m) }
    BY DEF Generate, Over, Reserved
<1>2. Bounded(setKeyPool, pool, reserved, nextKey, used) /\ Flags
    BY DEF IInv
<1>3. nextKey \in Nat \ {0} /\ MaxKeys \in Nat /\ lo \in Nat \ {0} /\ nextKey <= MaxKeys + 1
    BY <1>2, KeyPoolAssumption DEF Bounded, KeyPoolAssumption
<1>4. \A i \in Indices(lo, m) : i \in 1..MaxKeys /\ nextKey + (i - lo) \in 1..MaxKeys
    BY <1>1, <1>3 DEF Indices
<1>5. ASSUME NEW i \in 1..MaxKeys PROVE KeysAt(i) \subseteq 1..MaxKeys /\ (pool[i] # 0 => pool[i] \in KeysAt(i))
    <2>1. pool[i] \in 0..(nextKey - 1)
        BY <1>2 DEF Bounded
    <2>2. KeysIn({i}) \subseteq 1..MaxKeys /\ (pool[i] # 0 => pool[i] \in KeysIn({i}))
        BY <2>1, <1>3 DEF KeysIn
    <2>3. ASSUME NEW h \in Holder, reserved[h].nIndex = i PROVE reserved[h].vchPubKey \in 1..MaxKeys
        <3>1. reserved[h] # NoKey
            BY <1>2, <2>3, HolderKeys
        <3>2. reserved[h].vchPubKey \in 1..(nextKey - 1)
            BY <1>2, <3>1, HolderKeys
        <3> QED BY <3>2, <1>3
    <2> QED BY <2>2, <2>3 DEF KeysAt
<1>6. Over(reserved, lo, m) \subseteq Indices(lo, m)
    BY DEF Over
<1>7. rewritten' \subseteq 1..MaxKeys
    BY <1>1, <1>2, <1>4, <1>6 DEF Flags
<1>8. \A i \in Over(reserved, lo, m) : KeysAt(i) \cup {nextKey + (i - lo)} \subseteq 1..MaxKeys
    BY <1>4, <1>5, <1>6
<1>9. stranded' \subseteq 1..MaxKeys
    BY <1>1, <1>2, <1>8 DEF Flags
<1>10. \A i \in Over(reserved, lo, m) : (pool[i] # 0 => pool[i] \in stranded') /\ nextKey + (i - lo) \in stranded'
    BY <1>1, <1>4, <1>5, <1>6
<1> QED BY <1>1, <1>7, <1>9, <1>10

\* What TopUpKeyPool leaves, by itself or before a key is taken.
LEMMA Filled ==
    ASSUME IInv, NEW m \in Nat, Generate(End, m)
    PROVE  LET S == setKeyPool \cup Indices(End, m)
               P == WithNewKeys(pool, End, m)
           IN  /\ Bounded(S, P, reserved, nextKey', used)
               /\ Sound(S, P, reserved, nextKey', used, rewritten', stranded')
               /\ rewritten' \subseteq 1..MaxKeys /\ stranded' \subseteq 1..MaxKeys
<1>1. /\ Bounded(setKeyPool, pool, reserved, nextKey, used)
      /\ Sound(setKeyPool, pool, reserved, nextKey, used, rewritten, stranded) /\ rewritten \subseteq 1..MaxKeys
    BY DEF IInv, Flags
<1>2. End \in 1..nextKey /\ \A i \in setKeyPool : i < End
    BY <1>1, EndBehind
<1> DEFINE e == End
<1>3. /\ nextKey + m <= MaxKeys + 1 /\ nextKey' = nextKey + m
      /\ rewritten' = (rewritten \ Indices(e, m)) \cup Over(reserved, e, m)
      /\ stranded \subseteq stranded'
      /\ \A i \in Over(reserved, e, m) : (pool[i] # 0 => pool[i] \in stranded') /\ nextKey + (i - e) \in stranded'
      /\ rewritten' \subseteq 1..MaxKeys /\ stranded' \subseteq 1..MaxKeys
    BY <1>2, Generated
<1>4. e \in 1..nextKey /\ \A i \in setKeyPool : i < e
    BY <1>2
<1> HIDE DEF e
<1>5. Bounded(setKeyPool \cup Indices(e, m), WithNewKeys(pool, e, m), reserved, nextKey', used)
    BY <1>1, <1>3, <1>4, FillBounded
<1>6. Sound(setKeyPool \cup Indices(e, m), WithNewKeys(pool, e, m), reserved, nextKey', used, rewritten', stranded')
    BY <1>1, <1>3, <1>4, FillSound
<1> QED BY <1>3, <1>5, <1>6 DEF e

LEMMA CountsNat ==
    ASSUME IInv
    PROVE  Added \in Nat /\ \A n \in RefillSize \cup {TargetSize} : Missing(n) \in Nat
<1>1. IsFiniteSet(setKeyPool)
    BY PoolFinite DEF IInv
<1>2. Cardinality(setKeyPool) \in Nat
    BY <1>1, FS_CardinalityType
<1>3. \A n \in Nat : Missing(n) \in Nat
    BY <1>2 DEF Missing
<1>4. TargetSize \in Nat /\ RefillSize \cup {TargetSize} \subseteq Nat
    BY KeyPoolAssumption DEF KeyPoolAssumption
<1> QED BY <1>3, <1>4 DEF Added

LEMMA OldestIsLeast ==
    ASSUME NEW n \in Nat, Available \subseteq 1..n, Available # {}
    PROVE  Oldest \in Available /\ \A j \in Available : Oldest <= j
<1>1. Available \in SUBSET Nat
    OBVIOUS
<1>2. \E i \in Available : \A j \in Available : i <= j
    BY <1>1, LeastNat
<1> QED BY <1>2 DEF Oldest

LEMMA BoundedIndices ==
    ASSUME NEW S, NEW P, NEW R, NEW nk, NEW U, Bounded(S, P, R, nk, U)
    PROVE  nk \in 1..(MaxKeys + 1) /\ nk - 1 \in Nat /\ S \subseteq 1..(nk - 1) /\ S \subseteq 1..MaxKeys
<1>1. nk \in 1..(MaxKeys + 1) /\ MaxKeys \in Nat /\ S \subseteq 1..(nk - 1)
    BY KeyPoolAssumption DEF Bounded, KeyPoolAssumption
<1> QED BY <1>1

\* A key is taken: the facts Reserve and GetKeyFromPool share.
LEMMA Taken ==
    ASSUME IInv, Available # {}, Generate(End, Added)
    PROVE  /\ Bounded(Available, Records, reserved, nextKey', used)
           /\ Sound(Available, Records, reserved, nextKey', used, rewritten', stranded')
           /\ rewritten' \subseteq 1..MaxKeys /\ stranded' \subseteq 1..MaxKeys
           /\ Oldest \in Available /\ Oldest \in 1..MaxKeys /\ Oldest \in 1..(nextKey' - 1)
           /\ \A j \in Available : Oldest <= j
           /\ Records[Oldest] \in 0..(nextKey' - 1)
<1>1. Added \in Nat
    BY CountsNat
<1>2. /\ Bounded(Available, Records, reserved, nextKey', used)
      /\ Sound(Available, Records, reserved, nextKey', used, rewritten', stranded')
      /\ rewritten' \subseteq 1..MaxKeys /\ stranded' \subseteq 1..MaxKeys
    BY <1>1, Filled DEF Available, Records
<1>3. Bounded(Available, Records, reserved, nextKey', used)
    BY <1>2
<1>4. nextKey' - 1 \in Nat /\ Available \subseteq 1..(nextKey' - 1) /\ Available \subseteq 1..MaxKeys
    BY <1>3, BoundedIndices
<1>5. Oldest \in Available /\ \A j \in Available : Oldest <= j
    BY <1>4, OldestIsLeast
<1>6. Records[Oldest] \in 0..(nextKey' - 1)
    BY <1>3, <1>4, <1>5 DEF Bounded
<1> QED BY <1>2, <1>4, <1>5, <1>6

LEMMA TypeInit == Init => IInv
<1> SUFFICES ASSUME Init PROVE IInv
    OBVIOUS
<1>1. Flags
    <2>1. crypted \in BOOLEAN /\ locked \in BOOLEAN
        BY Zenon DEF Init
    <2>2. restarts \in 0..MaxRestarts /\ rewritten \subseteq 1..MaxKeys /\ stranded \subseteq 1..MaxKeys
        BY KeyPoolAssumption DEF Init, KeyPoolAssumption
    <2> QED BY <2>1, <2>2 DEF Flags
<1>2. Bounded(setKeyPool, pool, reserved, nextKey, used)
    BY KeyPoolAssumption DEF Init, Bounded, KeyPoolAssumption
<1>3. Sound(setKeyPool, pool, reserved, nextKey, used, rewritten, stranded)
    BY KeyPoolAssumption DEF Init, Sound, Placed, Counted, KeyPoolAssumption, NoKey
<1> QED BY <1>1, <1>2, <1>3 DEF IInv

LEMMA TopUpStep ==
    ASSUME IInv, NEW n \in RefillSize \cup {TargetSize}, TopUpKeyPool(n)
    PROVE  IInv'
<1>1. Missing(n) \in Nat
    BY CountsNat
<1>2. Generate(End, Missing(n))
    BY DEF TopUpKeyPool
<1>3. /\ Bounded(setKeyPool', pool', reserved', nextKey', used')
      /\ Sound(setKeyPool', pool', reserved', nextKey', used', rewritten', stranded')
      /\ rewritten' \subseteq 1..MaxKeys /\ stranded' \subseteq 1..MaxKeys
    BY <1>1, <1>2, Filled DEF TopUpKeyPool
<1>4. Flags'
    BY <1>3 DEF IInv, Flags, TopUpKeyPool
<1> QED BY <1>3, <1>4 DEF IInv

LEMMA ReserveStep ==
    ASSUME IInv, NEW h \in Holder, Reserve(h)
    PROVE  IInv'
<1>1. Available # {} /\ Generate(End, Added) /\ reserved[h] = NoKey
    BY DEF Reserve
<1>2. /\ Bounded(Available, Records, reserved, nextKey', used)
      /\ Sound(Available, Records, reserved, nextKey', used, rewritten', stranded')
      /\ rewritten' \subseteq 1..MaxKeys /\ stranded' \subseteq 1..MaxKeys /\ Oldest \in Available
    BY <1>1, Taken
<1>3. pool' = Records /\ used' = used
    BY DEF Reserve
<1>4. Flags'
    BY <1>2 DEF IInv, Flags, Reserve
<1>5. CASE Records[Oldest] = 0
    <2>1. reserved' = reserved /\ setKeyPool' = Available
        BY <1>5 DEF Reserve
    <2>2. Bounded(setKeyPool', pool', reserved', nextKey', used')
        BY <1>2, <1>3, <2>1
    <2>3. Sound(setKeyPool', pool', reserved', nextKey', used', rewritten', stranded')
        BY <1>2, <1>3, <2>1
    <2> QED BY <1>4, <2>2, <2>3 DEF IInv
<1>6. CASE Records[Oldest] # 0
    <2>1. /\ reserved' = [reserved EXCEPT ![h] = [nIndex |-> Oldest, vchPubKey |-> Records[Oldest]]]
          /\ setKeyPool' = Available \ {Oldest}
        BY <1>6 DEF Reserve
    <2>2. Bounded(setKeyPool', pool', reserved', nextKey', used')
        BY <1>2, <1>3, <1>6, <2>1, TakeBounded
    <2>3. Sound(setKeyPool', pool', reserved', nextKey', used', rewritten', stranded')
        BY <1>1, <1>2, <1>3, <1>6, <2>1, TakeSound
    <2> QED BY <1>4, <2>2, <2>3 DEF IInv
<1> QED BY <1>5, <1>6

LEMMA KeepStep ==
    ASSUME IInv, NEW h \in Holder, KeepKey(h)
    PROVE  IInv'
<1>1. reserved[h] # NoKey /\ Bounded(setKeyPool, pool, reserved, nextKey, used)
    BY DEF KeepKey, IInv
<1>2. Bounded(setKeyPool', pool', reserved', nextKey', used')
    BY <1>1, KeepBounded DEF KeepKey
<1>3. Sound(setKeyPool', pool', reserved', nextKey', used', rewritten', stranded')
    BY <1>1, KeepSound DEF KeepKey, IInv, Flags
<1>4. Flags'
    BY DEF IInv, Flags, KeepKey
<1> QED BY <1>2, <1>3, <1>4 DEF IInv

LEMMA ReturnStep ==
    ASSUME IInv, NEW h \in Holder, ReturnKey(h)
    PROVE  IInv'
<1>1. reserved[h] # NoKey /\ Bounded(setKeyPool, pool, reserved, nextKey, used)
    BY DEF ReturnKey, IInv
<1>2. Bounded(setKeyPool', pool', reserved', nextKey', used')
    BY <1>1, ReturnBounded DEF ReturnKey
<1>3. Sound(setKeyPool', pool', reserved', nextKey', used', rewritten', stranded')
    BY <1>1, ReturnSound DEF ReturnKey, IInv
<1>4. Flags'
    BY DEF IInv, Flags, ReturnKey
<1> QED BY <1>2, <1>3, <1>4 DEF IInv

LEMMA GetKeyStep ==
    ASSUME IInv, GetKeyFromPool
    PROVE  IInv'
<1>1. Available # {} /\ Generate(End, Added)
    BY DEF GetKeyFromPool
<1>2. /\ Bounded(Available, Records, reserved, nextKey', used)
      /\ Sound(Available, Records, reserved, nextKey', used, rewritten', stranded')
      /\ rewritten' \subseteq 1..MaxKeys /\ stranded' \subseteq 1..MaxKeys /\ Oldest \in Available /\ Oldest \in 1..MaxKeys
      /\ Records[Oldest] \in 0..(nextKey' - 1)
    BY <1>1, Taken
<1>3. /\ setKeyPool' = Available \ {Oldest} /\ pool' = [Records EXCEPT ![Oldest] = 0]
      /\ reserved' = reserved /\ used' = used \cup ({Records[Oldest]} \ {0})
    BY DEF GetKeyFromPool
<1>4. nextKey' - 1 \in Nat
    BY <1>2, BoundedIndices
<1>5. {Records[Oldest]} \ {0} \subseteq 1..(nextKey' - 1)
    BY <1>2, <1>4
<1>6. Bounded(setKeyPool', pool', reserved', nextKey', used')
    BY <1>2, <1>3, <1>5, DropBounded
<1>7. Sound(setKeyPool', pool', reserved', nextKey', used', rewritten', stranded')
    BY <1>2, <1>3, DropSound
<1>8. Flags'
    BY <1>2 DEF IInv, Flags, GetKeyFromPool
<1> QED BY <1>6, <1>7, <1>8 DEF IInv

LEMMA EncryptStep ==
    ASSUME IInv, EncryptWallet
    PROVE  IInv'
<1> DEFINE Q == Cleared(setKeyPool, pool)
           V == KeysOf(setKeyPool, pool)
           new == Indices(1, TargetSize)
           over == Over(reserved, 1, TargetSize)
<1>1. /\ Bounded(setKeyPool, pool, reserved, nextKey, used) /\ TargetSize \in Nat /\ rewritten \subseteq 1..MaxKeys
      /\ Sound(setKeyPool, pool, reserved, nextKey, used, rewritten, stranded)
    BY KeyPoolAssumption DEF IInv, Flags, KeyPoolAssumption
<1>2. Bounded({}, Q, reserved, nextKey, used \cup V) /\ Sound({}, Q, reserved, nextKey, used \cup V, rewritten, stranded)
    BY <1>1, GiveUp
<1>3. 1 \in 1..nextKey /\ \A i \in {} : i < 1
    <2>1. nextKey \in 1..(MaxKeys + 1) /\ MaxKeys \in Nat
        BY <1>1, BoundedIndices, KeyPoolAssumption DEF KeyPoolAssumption
    <2> QED BY <2>1
<1>4. Generate(1, TargetSize)
    BY DEF EncryptWallet
<1>5. /\ nextKey + TargetSize <= MaxKeys + 1 /\ nextKey' = nextKey + TargetSize
      /\ rewritten' = (rewritten \ new) \cup over /\ stranded \subseteq stranded'
      /\ \A i \in over : (pool[i] # 0 => pool[i] \in stranded') /\ nextKey + (i - 1) \in stranded'
      /\ rewritten' \subseteq 1..MaxKeys /\ stranded' \subseteq 1..MaxKeys
    BY <1>1, <1>3, <1>4, Generated
<1>6. \A i \in over : Q[i] # 0 => Q[i] \in stranded'
    <2> SUFFICES ASSUME NEW i \in over, Q[i] # 0 PROVE Q[i] \in stranded'
        OBVIOUS
    <2>1. i \in 1..MaxKeys
        BY <1>5
    <2>2. Q[i] = pool[i]
        BY <2>1 DEF Cleared
    <2> QED BY <2>2, <1>5
<1>7. /\ setKeyPool' = new /\ pool' = WithNewKeys(Q, 1, TargetSize)
      /\ used' = used \cup V /\ reserved' = reserved
    BY DEF EncryptWallet, Cleared, KeysOf, KeysIn
<1> HIDE DEF Q, V
<1>8. Bounded({} \cup new, WithNewKeys(Q, 1, TargetSize), reserved, nextKey', used \cup V)
    BY <1>1, <1>2, <1>3, <1>5, FillBounded
<1>9. Sound({} \cup new, WithNewKeys(Q, 1, TargetSize), reserved, nextKey', used \cup V, rewritten', stranded')
    BY <1>1, <1>2, <1>3, <1>5, <1>6, FillSound
<1>10. {} \cup new = new
    OBVIOUS
<1> HIDE DEF new, over
<1>11. Flags'
    <2>1. crypted' \in BOOLEAN /\ locked' \in BOOLEAN /\ restarts' = restarts
        BY Zenon DEF EncryptWallet
    <2> QED BY <2>1, <1>5 DEF IInv, Flags
<1> QED BY <1>7, <1>8, <1>9, <1>10, <1>11 DEF IInv

LEMMA RestartStep ==
    ASSUME IInv, Restart
    PROVE  IInv'
<1> DEFINE S == { i \in 1..MaxKeys : pool[i] # 0 }
           T == [h \in Holder |-> NoKey]
<1>1. /\ setKeyPool' = S /\ reserved' = T /\ pool' = pool /\ nextKey' = nextKey /\ used' = used
      /\ rewritten' = {} /\ stranded' = stranded
    BY DEF Restart
<1>2. Bounded(setKeyPool, pool, reserved, nextKey, used) /\ nextKey - 1 \in Nat
    BY BoundedIndices DEF IInv
<1>3. \A h \in Holder : T[h] = NoKey
    OBVIOUS
<1>4. S \subseteq 1..(nextKey - 1)
    BY <1>2, KeyPoolAssumption DEF Bounded, KeyPoolAssumption
<1>5. T \in [Holder -> [nIndex : 1..(nextKey - 1), vchPubKey : 1..(nextKey - 1)] \cup {NoKey}]
    OBVIOUS
<1>6. \A i \in 1..MaxKeys : pool[i] # 0 <=> i \in S
    OBVIOUS
<1>7. S \subseteq 1..MaxKeys
    OBVIOUS
<1> HIDE DEF S, T
<1>8. Bounded(S, pool, T, nextKey, used)
    BY <1>2, <1>4, <1>5 DEF Bounded
<1>9. Sound(S, pool, T, nextKey, used, {}, stranded)
    <2>1. Counted(pool, reserved, nextKey, used, rewritten, stranded)
        BY DEF IInv, Sound
    <2>2. Placed(S, pool, T, {})
        BY <1>3, <1>6, <1>7 DEF Placed
    <2>3. Counted(pool, T, nextKey, used, {}, stranded)
        BY <1>3, <2>1 DEF Counted
    <2> QED BY <2>2, <2>3 DEF Sound
<1>10. Flags'
    <2>1. restarts' \in 0..MaxRestarts /\ rewritten' \subseteq 1..MaxKeys /\ stranded' \subseteq 1..MaxKeys
        BY KeyPoolAssumption DEF IInv, Flags, Restart, KeyPoolAssumption
    <2>2. crypted' \in BOOLEAN /\ locked' \in BOOLEAN
        BY Zenon DEF IInv, Flags, Restart
    <2> QED BY <2>1, <2>2 DEF Flags
<1> QED BY <1>1, <1>8, <1>9, <1>10 DEF IInv

LEMMA IdleStep ==
    ASSUME IInv, Lock \/ Unlock \/ UNCHANGED vars
    PROVE  IInv'
<1>1. UNCHANGED <<setKeyPool, pool, reserved, nextKey, used, rewritten, stranded, restarts, crypted>> /\ locked' \in BOOLEAN
    <2>1. CASE Lock
        BY <2>1, Zenon DEF Lock
    <2>2. CASE Unlock
        BY <2>2, Zenon DEF Unlock
    <2>3. CASE UNCHANGED vars
        BY <2>3, Zenon DEF IInv, Flags, vars
    <2> QED BY <2>1, <2>2, <2>3
<1>2. Flags'
    BY <1>1, Zenon DEF IInv, Flags
<1>3. Bounded(setKeyPool', pool', reserved', nextKey', used')
    BY <1>1 DEF IInv
<1>4. Sound(setKeyPool', pool', reserved', nextKey', used', rewritten', stranded')
    BY <1>1 DEF IInv
<1> QED BY <1>2, <1>3, <1>4 DEF IInv

LEMMA IInvStep == IInv /\ [Next]_vars => IInv'
<1> SUFFICES ASSUME IInv, [Next]_vars PROVE IInv'
    OBVIOUS
<1>1. CASE \E n \in RefillSize \cup {TargetSize} : TopUpKeyPool(n)
    BY <1>1, TopUpStep
<1>2. ASSUME NEW h \in Holder, Reserve(h) PROVE IInv'
    BY <1>2, ReserveStep
<1>3. ASSUME NEW h \in Holder, KeepKey(h) PROVE IInv'
    BY <1>3, KeepStep
<1>4. ASSUME NEW h \in Holder, ReturnKey(h) PROVE IInv'
    BY <1>4, ReturnStep
<1>5. CASE GetKeyFromPool
    BY <1>5, GetKeyStep
<1>6. CASE EncryptWallet
    BY <1>6, EncryptStep
<1>7. CASE Restart
    BY <1>7, RestartStep
<1>8. CASE Lock \/ Unlock \/ UNCHANGED vars
    BY <1>8, IdleStep
<1> QED BY <1>1, <1>2, <1>3, <1>4, <1>5, <1>6, <1>7, <1>8 DEF Next

THEOREM IInvAlways == Spec => []IInv
BY TypeInit, IInvStep, PTL DEF Spec

-----------------------------------------------------------------------------
(* What the invariant says. *)

\* The key pool's variables keep their types: every index is of a key made before.
THEOREM TypeCorrect == Spec => []TypeOK
<1>1. IInv => TypeOK
    <2> SUFFICES ASSUME IInv PROVE TypeOK
        OBVIOUS
    <2>1. Bounded(setKeyPool, pool, reserved, nextKey, used) /\ Flags
        BY DEF IInv
    <2>2. nextKey \in 1..(MaxKeys + 1) /\ MaxKeys \in Nat
        BY <2>1, BoundedIndices, KeyPoolAssumption DEF KeyPoolAssumption
    <2>3. 1..(nextKey - 1) \subseteq 1..MaxKeys /\ 0..(nextKey - 1) \subseteq 0..MaxKeys
        BY <2>2
    <2>4. setKeyPool \subseteq 1..MaxKeys /\ used \subseteq 1..MaxKeys /\ pool \in [1..MaxKeys -> 0..MaxKeys]
        BY <2>1, <2>3 DEF Bounded
    <2>5. reserved \in [Holder -> [nIndex : 1..MaxKeys, vchPubKey : 1..MaxKeys] \cup {NoKey}]
        BY <2>1, <2>3 DEF Bounded
    <2> QED BY <2>1, <2>2, <2>4, <2>5, Zenon DEF TypeOK, Flags
<1> QED BY <1>1, IInvAlways, PTL

\* PoolReadable: an operation of CWallet meets an index of setKeyPool without a record
\* only where the record was written over a reservation since the start.
THEOREM PoolHasRecords == Spec => []PoolReadable
<1>1. IInv => PoolReadable
    BY DEF IInv, Sound, Placed, PoolReadable
<1> QED BY <1>1, IInvAlways, PTL

\* KeyUsedOnce, for every number of CReserveKey objects: writing over a reservation
\* leaves the keys of all other indices with one owner.
THEOREM KeysUsedOnce == Spec => []KeyUsedOnce
<1>1. IInv => KeyUsedOnce
    <2> SUFFICES ASSUME IInv PROVE KeyUsedOnce
        OBVIOUS
    <2>1. /\ Bounded(setKeyPool, pool, reserved, nextKey, used)
          /\ Placed(setKeyPool, pool, reserved, rewritten)
          /\ Counted(pool, reserved, nextKey, used, rewritten, stranded)
        BY DEF IInv, Sound
    <2>2. setKeyPool \subseteq 1..MaxKeys
        BY <2>1, BoundedIndices
    <2>3. ASSUME NEW h \in Holder, reserved[h] # NoKey, reserved[h].nIndex \notin rewritten
          PROVE  /\ reserved[h].vchPubKey \notin used \cup KeysIn(setKeyPool)
                 /\ \A k \in Holder \ {h} : reserved[k].vchPubKey # reserved[h].vchPubKey
        <3> DEFINE i == reserved[h].nIndex
                   key == reserved[h].vchPubKey
        <3>1. i \in 1..MaxKeys /\ key # 0
            BY <2>1, <2>3, HolderKeys
        <3>2. i \notin setKeyPool /\ pool[i] = key /\ \A k \in Holder : reserved[k].nIndex = i => k = h
            BY <2>1, <2>3 DEF Placed
        <3>3. key \notin used
            BY <2>1, <3>1, <3>2 DEF Counted
        <3>4. key \notin KeysIn(setKeyPool)
            BY <2>1, <2>2, <2>3, <3>2 DEF Counted, KeysIn
        <3>5. ASSUME NEW k \in Holder \ {h}, reserved[k].vchPubKey = key PROVE FALSE
            <4>1. reserved[k] # NoKey
                BY <3>1, <3>5 DEF NoKey
            <4>2. pool[i] = reserved[k].vchPubKey
                BY <3>2, <3>5
            <4>3. i = reserved[k].nIndex
                BY <2>1, <3>1, <4>1, <4>2 DEF Counted
            <4> QED BY <3>2, <4>3
        <3> QED BY <3>3, <3>4, <3>5
    <2>4. KeysIn(1..MaxKeys) \cap used = {}
        BY <2>1 DEF Counted, KeysIn
    <2> QED BY <2>3, <2>4 DEF KeyUsedOnce
<1> QED BY <1>1, IInvAlways, PTL

\* NoKeyLost, whatever is kept, returned, renewed and restarted: only a key of a write
\* over a reservation can be without a record and unused.
THEOREM NoKeyIsLost == Spec => []NoKeyLost
<1>1. IInv => NoKeyLost
    BY DEF IInv, Sound, Counted, NoKeyLost, KeysIn
<1> QED BY <1>1, IInvAlways, PTL

-----------------------------------------------------------------------------
(* A wallet that was never encrypted: with -keypool at 1 or more, two keys *)
(* are there when one is taken, so that one stays behind every reserved    *)
(* index and the next new index is a free one.                             *)

LEMMA AheadInit == Init => Ahead
BY DEF Init, Ahead, NoKey

\* New indices are behind every index that is reserved.
LEMMA AheadFill ==
    ASSUME IInv, Ahead, ~ crypted, NEW m \in Nat, Generate(End, m)
    PROVE  rewritten' = {} /\ stranded' = {}
<1>1. Bounded(setKeyPool, pool, reserved, nextKey, used)
    BY DEF IInv
<1>2. End \in Nat \ {0} /\ \A i \in setKeyPool : i < End /\ i \in Nat
    <2>1. End \in 1..nextKey /\ \A i \in setKeyPool : i < End
        BY <1>1, EndBehind
    <2>2. nextKey \in 1..(MaxKeys + 1) /\ MaxKeys \in Nat /\ setKeyPool \subseteq 1..MaxKeys
        BY <1>1, BoundedIndices, KeyPoolAssumption DEF KeyPoolAssumption
    <2> QED BY <2>1, <2>2
<1>3. ASSUME NEW i \in Indices(End, m), NEW h \in Holder PROVE reserved[h].nIndex # i
    <2>1. i \in Nat /\ End <= i
        BY <1>2 DEF Indices
    <2>2. CASE reserved[h] = NoKey
        BY <1>2, <2>1, <2>2 DEF NoKey
    <2>3. CASE reserved[h] # NoKey
        <3>1. reserved[h].nIndex \in 1..MaxKeys
            BY <1>1, <2>3, ReturnBounded
        <3>2. PICK j \in setKeyPool : reserved[h].nIndex < j
            BY <2>3 DEF Ahead
        <3>3. reserved[h].nIndex \in Nat /\ j \in Nat /\ j < End
            BY <3>1, <3>2, <1>2
        <3> QED BY <3>2, <3>3, <2>1, <1>2
    <2> QED BY <2>2, <2>3
<1>4. { i \in Indices(End, m) : Reserved(i) } = {}
    BY <1>3 DEF Reserved
<1>5. rewritten = {} /\ stranded = {}
    BY DEF Ahead
<1> QED BY <1>4, <1>5 DEF Generate

\* A pool that was topped up holds a key beyond the oldest.
LEMMA OneBeyond ==
    ASSUME IInv, ~ locked, TargetSize >= 1, Available # {}, Generate(End, Added)
    PROVE  \E j \in Available : Oldest < j
<1>1. Bounded(setKeyPool, pool, reserved, nextKey, used)
    BY DEF IInv
<1>2. IsFiniteSet(setKeyPool) /\ Cardinality(setKeyPool) \in Nat
    BY <1>1, PoolFinite, FS_CardinalityType
<1>3. TargetSize \in Nat /\ Added = Missing(TargetSize)
    BY KeyPoolAssumption DEF KeyPoolAssumption, Added
<1>4. End \in Nat /\ \A i \in setKeyPool : i < End /\ i \in Nat
    <2>1. End \in 1..nextKey /\ \A i \in setKeyPool : i < End
        BY <1>1, EndBehind
    <2>2. nextKey \in 1..(MaxKeys + 1) /\ MaxKeys \in Nat /\ setKeyPool \subseteq 1..MaxKeys
        BY <1>1, BoundedIndices, KeyPoolAssumption DEF KeyPoolAssumption
    <2> QED BY <2>1, <2>2
<1>5. /\ Oldest \in Available /\ Oldest \in 1..MaxKeys /\ \A j \in Available : Oldest <= j
    BY Taken
<1>6. Available = setKeyPool \cup Indices(End, Added) /\ \A j \in Available : j \in Nat
    <2>1. \A j \in Indices(End, Added) : j \in Nat
        BY <1>4, CountsNat DEF Indices
    <2> QED BY <1>4, <2>1 DEF Available
<1>7. \E i, j \in Available : i # j
    <2>1. CASE setKeyPool = {}
        <3>1. Added = TargetSize + 1
            BY <2>1, <1>3, FS_EmptySet DEF Missing
        <3>2. End \in Indices(End, Added) /\ End + 1 \in Indices(End, Added)
            BY <3>1, <1>3, <1>4 DEF Indices
        <3>3. End # End + 1
            BY <1>4
        <3> QED BY <1>6, <3>2, <3>3
    <2>2. CASE \E a \in setKeyPool : setKeyPool = {a}
        <3>1. PICK a \in setKeyPool : setKeyPool = {a}
            BY <2>2
        <3>2. Cardinality(setKeyPool) = 1
            BY <3>1, FS_Singleton
        <3>3. Added = TargetSize
            BY <1>3, <3>2 DEF Missing
        <3>4. End \in Indices(End, Added)
            <4>1. Added \in Nat /\ Added >= 1
                BY <3>3, <1>3
            <4> QED BY <4>1, <1>4 DEF Indices
        <3>5. a # End /\ a \in Available /\ End \in Available
            BY <3>1, <3>4, <1>4, <1>6
        <3> QED BY <3>5
    <2>3. CASE setKeyPool # {} /\ ~ \E a \in setKeyPool : setKeyPool = {a}
        BY <2>3, <1>6
    <2> QED BY <2>1, <2>2, <2>3
<1>8. PICK j \in Available : j # Oldest
    BY <1>7
<1> QED BY <1>5, <1>6, <1>8

LEMMA AheadStep ==
    ASSUME TargetSize >= 1
    PROVE  IInv /\ Ahead /\ [Next]_vars => Ahead'
<1> SUFFICES ASSUME IInv, Ahead, [Next]_vars, ~ crypted'
             PROVE  /\ ~ locked' /\ rewritten' = {} /\ stranded' = {}
                    /\ \A h \in Holder : reserved'[h] # NoKey => \E i \in setKeyPool' : reserved'[h].nIndex < i
    BY DEF Ahead
<1>1. CASE \E n \in RefillSize \cup {TargetSize} : TopUpKeyPool(n)
    <2>1. PICK n \in RefillSize \cup {TargetSize} : TopUpKeyPool(n)
        BY <1>1
    <2>2. ~ crypted /\ locked' = locked /\ reserved' = reserved /\ setKeyPool \subseteq setKeyPool' /\ Generate(End, Missing(n))
        BY <2>1 DEF TopUpKeyPool
    <2>3. rewritten' = {} /\ stranded' = {}
        BY <2>2, CountsNat, AheadFill
    <2> QED BY <2>2, <2>3 DEF Ahead
<1>2. ASSUME NEW h \in Holder, Reserve(h)
      PROVE  /\ ~ locked' /\ rewritten' = {} /\ stranded' = {}
             /\ \A k \in Holder : reserved'[k] # NoKey => \E i \in setKeyPool' : reserved'[k].nIndex < i
    <2>1. ~ crypted /\ ~ locked /\ locked' = locked /\ Available # {} /\ Generate(End, Added)
        BY <1>2 DEF Reserve, Ahead
    <2>2. rewritten' = {} /\ stranded' = {}
        BY <2>1, CountsNat, AheadFill
    <2>0. Records[Oldest] # 0
        BY <2>1, <2>2, Taken DEF Sound, Placed
    <2>10. /\ setKeyPool' = Available \ {Oldest}
           /\ reserved' = [reserved EXCEPT ![h] = [nIndex |-> Oldest, vchPubKey |-> Records[Oldest]]]
        BY <1>2, <2>0 DEF Reserve
    <2>3. PICK j \in Available : Oldest < j
        BY <2>1, OneBeyond
    <2>4. /\ Oldest \in Nat /\ j \in Nat /\ \A i \in Available : Oldest <= i
          /\ \A i \in Available : i \in Nat
        <3>1. Bounded(Available, Records, reserved, nextKey', used) /\ Oldest \in 1..MaxKeys
            BY <2>1, Taken
        <3>2. Available \subseteq 1..MaxKeys
            BY <3>1, BoundedIndices
        <3>3. \A i \in Available : i \in Nat
            BY <3>2
        <3> QED BY <2>1, <2>3, <3>1, <3>3, Taken
    <2>5. j \in setKeyPool'
        BY <2>10, <2>3, <2>4
    <2>6. ASSUME NEW k \in Holder, reserved[k] # NoKey PROVE \E i \in setKeyPool' : reserved[k].nIndex < i
        <3>1. PICK i \in setKeyPool : reserved[k].nIndex < i
            BY <2>1, <2>6 DEF Ahead
        <3>2. i \in Available /\ reserved[k].nIndex \in Nat
            <4>1. reserved[k].nIndex \in 1..MaxKeys
                BY <2>6, ReturnBounded DEF IInv
            <4> QED BY <4>1 DEF Available
        <3>3. CASE i = Oldest
            <4>1. reserved[k].nIndex < j
                BY <3>1, <3>2, <3>3, <2>3, <2>4
            <4> QED BY <4>1, <2>5
        <3>4. CASE i # Oldest
            BY <3>1, <3>2, <3>4, <2>10
        <3> QED BY <3>3, <3>4
    <2>7. reserved'[h].nIndex = Oldest /\ \A k \in Holder \ {h} : reserved'[k] = reserved[k]
        BY <2>10 DEF IInv, Bounded
    <2> QED BY <2>1, <2>2, <2>3, <2>5, <2>6, <2>7
<1>3. ASSUME NEW h \in Holder, KeepKey(h) \/ ReturnKey(h)
      PROVE  /\ ~ locked' /\ rewritten' = {} /\ stranded' = {}
             /\ \A k \in Holder : reserved'[k] # NoKey => \E i \in setKeyPool' : reserved'[k].nIndex < i
    <2>1. /\ ~ crypted /\ locked' = locked /\ rewritten' = rewritten /\ stranded' = stranded /\ setKeyPool \subseteq setKeyPool'
          /\ reserved' = [reserved EXCEPT ![h] = NoKey]
        BY <1>3 DEF KeepKey, ReturnKey
    <2>2. reserved'[h] = NoKey /\ \A k \in Holder \ {h} : reserved'[k] = reserved[k]
        BY <2>1 DEF IInv, Bounded
    <2> QED BY <2>1, <2>2 DEF Ahead
<1>4. CASE GetKeyFromPool
    <2>1. /\ ~ crypted /\ ~ locked /\ locked' = locked /\ Available # {} /\ Generate(End, Added)
          /\ setKeyPool' = Available \ {Oldest} /\ reserved' = reserved
        BY <1>4 DEF GetKeyFromPool, Ahead
    <2>2. rewritten' = {} /\ stranded' = {}
        BY <2>1, CountsNat, AheadFill
    <2>3. PICK j \in Available : Oldest < j
        BY <2>1, OneBeyond
    <2>4. Oldest \in Nat /\ j \in Nat
        <3>1. Bounded(Available, Records, reserved, nextKey', used) /\ Oldest \in 1..MaxKeys
            BY <2>1, Taken
        <3>2. Available \subseteq 1..MaxKeys
            BY <3>1, BoundedIndices
        <3> QED BY <3>1, <3>2, <2>3
    <2>5. j \in setKeyPool'
        BY <2>1, <2>3, <2>4
    <2>6. ASSUME NEW k \in Holder, reserved[k] # NoKey PROVE \E i \in setKeyPool' : reserved[k].nIndex < i
        <3>1. PICK i \in setKeyPool : reserved[k].nIndex < i
            BY <2>1, <2>6 DEF Ahead
        <3>2. i \in Available /\ reserved[k].nIndex \in Nat
            <4>1. reserved[k].nIndex \in 1..MaxKeys
                BY <2>6, ReturnBounded DEF IInv
            <4> QED BY <4>1 DEF Available
        <3>3. CASE i = Oldest
            <4>1. reserved[k].nIndex < j
                BY <3>1, <3>2, <3>3, <2>3, <2>4
            <4> QED BY <4>1, <2>5
        <3>4. CASE i # Oldest
            BY <3>1, <3>2, <3>4, <2>1
        <3> QED BY <3>3, <3>4
    <2> QED BY <2>1, <2>2, <2>6
<1>5. CASE Restart
    <2>1. ~ crypted /\ locked' = crypted /\ rewritten' = {} /\ stranded' = stranded /\ reserved' = [h \in Holder |-> NoKey]
        BY <1>5 DEF Restart
    <2> QED BY <2>1, Zenon DEF Ahead
<1>6. CASE EncryptWallet \/ Lock \/ Unlock \/ UNCHANGED vars
    BY <1>6 DEF EncryptWallet, Lock, Unlock, vars, Ahead
<1> QED BY <1>1, <1>2, <1>3, <1>4, <1>5, <1>6 DEF Next

\* UnencryptedNeverReuses, for every size of the pool but 0.
THEOREM NeverReusedUnencrypted ==
    ASSUME TargetSize >= 1
    PROVE  Spec => []UnencryptedNeverReuses
<1>1. IInv /\ Ahead /\ [Next]_vars => Ahead'
    BY AheadStep
<1>2. Ahead => UnencryptedNeverReuses
    BY DEF Ahead, UnencryptedNeverReuses
<1> QED BY <1>1, <1>2, AheadInit, IInvAlways, PTL DEF Spec
=============================================================================
