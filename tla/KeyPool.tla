------------------------------- MODULE KeyPool -------------------------------
(***************************************************************************)
(* The wallet's key pool (wallet.cpp, walletdb.cpp): setKeyPool in memory, *)
(* the "pool" records in wallet.dat, the CReserveKey objects that hold a   *)
(* key while a transaction is prepared, and the renewal of the pool when   *)
(* the wallet is encrypted.                                                *)
(*                                                                         *)
(* Each operation holds cs_wallet; between GetReservedKey and KeepKey or   *)
(* ReturnKey it is free, and other threads work on the pool.  Keys are     *)
(* numbered in the order they are generated; 0 is no key and no index.     *)
(***************************************************************************)
EXTENDS Integers, FiniteSets

CONSTANTS
    Holder,       \* CReserveKey objects
    TargetSize,   \* -keypool
    RefillSize,   \* what keypoolrefill may ask for
    MaxKeys,      \* bound: keys generated
    MaxRestarts   \* bound

ASSUME KeyPoolAssumption ==
    /\ TargetSize \in Nat /\ RefillSize \subseteq Nat \ {0}
    /\ MaxKeys \in Nat /\ MaxRestarts \in Nat

VARIABLES
    setKeyPool,   \* indices of the keys to be had
    pool,         \* [1..MaxKeys -> key or 0], the records in wallet.dat
    reserved,     \* [Holder -> [nIndex, vchPubKey]], zeroes if it holds nothing
    crypted,      \* the wallet is encrypted
    locked,       \* and its keys are not in memory
    nextKey,      \* the next key that GenerateNewKey makes
    used,         \* history: keys kept, and keys NewKeyPool has given up
    rewritten,    \* history: indices last written while a CReserveKey had them
    stranded,     \* history: the keys of those writes: the record's, the holders', the new one
    restarts

vars == <<setKeyPool, pool, reserved, crypted, locked, nextKey, used, rewritten, stranded,
          restarts>>

NoKey == [nIndex |-> 0, vchPubKey |-> 0]

KeysIn(S) == { pool[i] : i \in S } \ {0}

\* An index that a CReserveKey has.
Reserved(i) == \E h \in Holder : reserved[h].nIndex = i

Init ==
    /\ setKeyPool = {} /\ pool = [i \in 1..MaxKeys |-> 0]
    /\ reserved = [h \in Holder |-> NoKey]
    /\ crypted = FALSE /\ locked = FALSE
    /\ nextKey = 1 /\ used = {} /\ rewritten = {} /\ stranded = {} /\ restarts = 0

-----------------------------------------------------------------------------
(* Filling the pool. *)

\* Wrong on purpose: the end is taken from the number of keys.
EndBySize == Cardinality(setKeyPool) + 1

\* The first index behind those in setKeyPool.
End == IF setKeyPool = {} THEN 1
       ELSE 1 + CHOOSE i \in setKeyPool : \A j \in setKeyPool : j <= i

\* TopUpKeyPool leaves n + 1 keys in the pool.
Missing(n) == IF Cardinality(setKeyPool) < n + 1 THEN (n + 1) - Cardinality(setKeyPool) ELSE 0

\* The indices of m keys from index lo on, and the records with new keys there.
Indices(lo, m) == lo..((lo + m) - 1)

WithNewKeys(records, lo, m) ==
    [i \in 1..MaxKeys |-> IF i \in Indices(lo, m) THEN nextKey + (i - lo) ELSE records[i]]

\* The keys that a write to index i leaves with two owners or none: the one recorded
\* there and those of the CReserveKey objects that have the index.
KeysAt(i) == KeysIn({i}) \cup { reserved[h].vchPubKey : h \in { k \in Holder : reserved[k].nIndex = i } }

\* m calls of GenerateNewKey, for the indices from lo on.
Generate(lo, m) ==
    LET over == { i \in Indices(lo, m) : Reserved(i) }
    IN  /\ nextKey + m <= MaxKeys + 1
        /\ nextKey' = nextKey + m
        /\ rewritten' = (rewritten \ Indices(lo, m)) \cup over
        /\ stranded' = stranded \cup UNION { KeysAt(i) \cup {nextKey + (i - lo)} : i \in over }

\* keypoolrefill, walletpassphrase, getnewaddress: TopUpKeyPool by itself.
TopUpKeyPool(n) ==
    /\ ~ locked
    /\ Generate(End, Missing(n))
    /\ setKeyPool' = setKeyPool \cup Indices(End, Missing(n))
    /\ pool' = WithNewKeys(pool, End, Missing(n))
    /\ UNCHANGED <<reserved, crypted, locked, used, restarts>>

-----------------------------------------------------------------------------
(* Taking keys. *)

\* An unlocked wallet tops up before it takes a key: how many keys, the indices to
\* choose from, and their records.
Added == IF locked THEN 0 ELSE Missing(TargetSize)

Available == setKeyPool \cup Indices(End, Added)

Records == WithNewKeys(pool, End, Added)

Oldest == CHOOSE i \in Available : \A j \in Available : i <= j

\* Wrong on purpose: the index stays in setKeyPool.
ReserveKeepsIndex(h) ==
    /\ reserved[h] = NoKey /\ Available # {}
    /\ Generate(End, Added)
    /\ pool' = Records
    /\ setKeyPool' = Available
    /\ reserved' = [reserved EXCEPT ![h] = [nIndex |-> Oldest, vchPubKey |-> Records[Oldest]]]
    /\ UNCHANGED <<crypted, locked, used, restarts>>

\* GetReservedKey: the oldest key.  With nothing in the pool of a locked wallet it
\* answers with the default key, and nothing changes.  ReadPool fails on an index
\* without a record and throws; the destructor of the CReserveKey, whose nIndex is
\* set by then, puts the index back.
Reserve(h) ==
    /\ reserved[h] = NoKey /\ Available # {}
    /\ Generate(End, Added)
    /\ pool' = Records
    /\ IF Records[Oldest] = 0
       THEN setKeyPool' = Available /\ UNCHANGED reserved
       ELSE /\ setKeyPool' = Available \ {Oldest}
            /\ reserved' = [reserved EXCEPT ![h] = [nIndex |-> Oldest, vchPubKey |-> Records[Oldest]]]
    /\ UNCHANGED <<crypted, locked, used, restarts>>

\* Wrong on purpose: the record stays in wallet.dat.
KeepKeyInFile(h) ==
    /\ reserved[h] # NoKey
    /\ used' = used \cup {reserved[h].vchPubKey}
    /\ reserved' = [reserved EXCEPT ![h] = NoKey]
    /\ UNCHANGED <<setKeyPool, pool, crypted, locked, nextKey, rewritten, stranded, restarts>>

\* CReserveKey::KeepKey: the key is in a transaction or a block.
KeepKey(h) ==
    /\ reserved[h] # NoKey
    /\ pool' = [pool EXCEPT ![reserved[h].nIndex] = 0]
    /\ used' = used \cup {reserved[h].vchPubKey}
    /\ reserved' = [reserved EXCEPT ![h] = NoKey]
    /\ UNCHANGED <<setKeyPool, crypted, locked, nextKey, rewritten, stranded, restarts>>

\* Wrong on purpose: without the test of nIndex.
ReturnKeyAlways(h) ==
    /\ setKeyPool' = setKeyPool \cup {reserved[h].nIndex}
    /\ reserved' = [reserved EXCEPT ![h] = NoKey]
    /\ UNCHANGED <<pool, crypted, locked, nextKey, used, rewritten, stranded,
                   restarts>>

\* CReserveKey::ReturnKey, also in its destructor: the key was not needed.
ReturnKey(h) ==
    /\ reserved[h] # NoKey
    /\ setKeyPool' = setKeyPool \cup {reserved[h].nIndex}
    /\ reserved' = [reserved EXCEPT ![h] = NoKey]
    /\ UNCHANGED <<pool, crypted, locked, nextKey, used, rewritten, stranded,
                   restarts>>

\* GetKeyFromPool: reserve and keep in one hold of cs_wallet.  An index without a
\* record is gone from setKeyPool when the call throws.
GetKeyFromPool ==
    /\ Available # {}
    /\ Generate(End, Added)
    /\ setKeyPool' = Available \ {Oldest}
    /\ pool' = [Records EXCEPT ![Oldest] = 0]
    /\ used' = used \cup ({Records[Oldest]} \ {0})
    /\ UNCHANGED <<reserved, crypted, locked, restarts>>

-----------------------------------------------------------------------------
(* The wallet as a whole. *)

\* EncryptWallet and, in it, NewKeyPool: "Mark old keypool keys as used, and
\* generate all new keys", from index 1 on.
EncryptWallet ==
    /\ ~ crypted
    /\ Generate(1, TargetSize)
    /\ setKeyPool' = Indices(1, TargetSize)
    /\ pool' = WithNewKeys([i \in 1..MaxKeys |-> IF i \in setKeyPool THEN 0 ELSE pool[i]], 1, TargetSize)
    /\ used' = used \cup KeysIn(setKeyPool)
    /\ crypted' = TRUE /\ locked' = TRUE
    /\ UNCHANGED <<reserved, restarts>>

Lock ==
    /\ crypted /\ ~ locked
    /\ locked' = TRUE
    /\ UNCHANGED <<setKeyPool, pool, reserved, crypted, nextKey, used, rewritten, stranded,
                   restarts>>

Unlock ==
    /\ locked
    /\ locked' = FALSE
    /\ UNCHANGED <<setKeyPool, pool, reserved, crypted, nextKey, used, rewritten, stranded,
                   restarts>>

\* The process ends, in whatever state, and LoadWallet reads the records back: what
\* was reserved is to be had again.
Restart ==
    /\ restarts < MaxRestarts
    /\ restarts' = restarts + 1
    /\ setKeyPool' = { i \in 1..MaxKeys : pool[i] # 0 }
    /\ reserved' = [h \in Holder |-> NoKey]
    /\ locked' = crypted
    /\ rewritten' = {}
    /\ UNCHANGED <<pool, crypted, nextKey, used, stranded>>

Next ==
    \/ \E n \in RefillSize \cup {TargetSize} : TopUpKeyPool(n)
    \/ \E h \in Holder : Reserve(h) \/ KeepKey(h) \/ ReturnKey(h)
    \/ GetKeyFromPool \/ EncryptWallet \/ Lock \/ Unlock \/ Restart

Spec == Init /\ [][Next]_vars

-----------------------------------------------------------------------------
(* Properties. *)

\* Every variable has its type.
TypeOK ==
    /\ setKeyPool \subseteq 1..MaxKeys
    /\ pool \in [1..MaxKeys -> 0..MaxKeys]
    /\ reserved \in [Holder -> [nIndex : 1..MaxKeys, vchPubKey : 1..MaxKeys] \cup {NoKey}]
    /\ crypted \in BOOLEAN /\ locked \in BOOLEAN
    /\ rewritten \subseteq 1..MaxKeys /\ stranded \subseteq 1..MaxKeys
    /\ nextKey \in 1..(MaxKeys + 1) /\ used \subseteq 1..MaxKeys
    /\ restarts \in 0..MaxRestarts

\* Every index to be had has its record, so that ReserveKeyFromKeyPool does not throw
\* "read failed", whatever is kept, returned and renewed by whom.  Only an index
\* written while a CReserveKey had it may be without: KeepKey then erases the record
\* of a key it does not hold.  Writing it anew, or a restart, heals it.
PoolReadable == \A i \in setKeyPool \ rewritten : pool[i] # 0

\* A renewal over a reservation harms no index but its own: the key of any other
\* CReserveKey is not in the pool, not used and nobody else's.  The record of a used
\* key is gone in every case, so that LoadWallet does not bring it back, also when the
\* process ended while it was reserved.
KeyUsedOnce ==
    /\ \A h \in Holder : reserved[h] # NoKey /\ reserved[h].nIndex \notin rewritten =>
         /\ reserved[h].vchPubKey \notin used \cup KeysIn(setKeyPool)
         /\ \A k \in Holder \ {h} : reserved[k].vchPubKey # reserved[h].vchPubKey
    /\ KeysIn(1..MaxKeys) \cap used = {}

\* No key is lost but those of a write over a reservation: each one made is used or
\* has its record, which LoadWallet finds.
NoKeyLost == (1..(nextKey - 1)) \ stranded \subseteq used \cup KeysIn(1..MaxKeys)

\* Before the wallet is encrypted no index is written while a CReserveKey has it,
\* whatever is reserved, returned and topped up, if -keypool is not 0: one key always
\* stays behind those that are reserved.
UnencryptedNeverReuses == ~ crypted => rewritten = {} /\ stranded = {}
=============================================================================
