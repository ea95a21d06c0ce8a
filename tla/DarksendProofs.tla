---------------------------- MODULE DarksendProofs ----------------------------
(***************************************************************************)
(* What holds of DarksendSession for any number of participants, coins,    *)
(* places, requests and sessions, whatever the timeouts.                   *)
(*                                                                         *)
(* A step is a chain of operators on the primenode's or a participant's    *)
(* side.  So there is one lemma for each operator, which says what type    *)
(* its result has and what becomes of the session.                         *)
(***************************************************************************)
EXTENDS DarksendSession, SequenceTheorems, FiniteSetTheorems, TLAPS

-----------------------------------------------------------------------------
(* Types, when n sessions have been opened. *)

MnPool(n) == [state : State \ Ended, sessionID : 0..n, sessionUsers : 0..MaxPoolTransactions,
              entries : SUBSET Entry, sev : SUBSET Signature,
              tx : SUBSET Entry, txSigs : SUBSET Signature, age : Nat]

ClientPool(n) == [state : State, sessionID : 0..n, found : BOOLEAN, entries : SUBSET Entry,
                  lockedCoins : SUBSET Coin, submitted : BOOLEAN, age : Nat]

ToMn == [type : {"dsa"}] \cup [type : {"dsi"}, entry : Entry] \cup [type : {"dss"}, sig : Signature]

FromMn(n) ==
    [type : {"dssu"}, id : 0..n, state : State, accepted : {-1, 0, 1}]
    \cup [type : {"dsq"}]
    \cup [type : {"dsf"}, id : 0..n, tx : SUBSET Entry]
    \cup [type : {"dsc"}, id : 0..n]

World(n) == [pool : MnPool(n), net : [Client -> Seq(FromMn(n))], mixed : SUBSET Entry]

\* The session goes on with as many users, or is over.
SessionKept(p, q) ==
    \/ q.sessionID = p.sessionID /\ q.sessionUsers = p.sessionUsers
    \/ q.sessionID = 0 /\ q.sessionUsers = 0

LEMMA SeqGrows ==
    ASSUME NEW S, NEW T, S \subseteq T, NEW s \in Seq(S)
    PROVE  s \in Seq(T)
<1>1. s \in [1..Len(s) -> T] /\ Len(s) \in Nat
    BY LenProperties
<1> QED BY <1>1, SeqDef

LEMMA FromMnGrows ==
    ASSUME NEW n \in Nat, NEW m \in Nat, n <= m
    PROVE  FromMn(n) \subseteq FromMn(m) /\ MnPool(n) \subseteq MnPool(m) /\ ClientPool(n) \subseteq ClientPool(m)
<1>1. 0..n \subseteq 0..m
    OBVIOUS
<1>2. MnPool(n) \subseteq MnPool(m)
    BY <1>1 DEF MnPool
<1>3. ClientPool(n) \subseteq ClientPool(m)
    BY <1>1 DEF ClientPool
<1>4. FromMn(n) \subseteq FromMn(m)
    BY <1>1 DEF FromMn
<1> QED BY <1>2, <1>3, <1>4

-----------------------------------------------------------------------------
(* The primenode. *)

LEMMA RelayTyped ==
    ASSUME NEW n \in Nat, NEW w \in World(n), NEW m \in FromMn(n)
    PROVE  /\ Relay(w, m) \in World(n)
           /\ Relay(w, m).pool = w.pool /\ Relay(w, m).mixed = w.mixed
<1>1. \A c \in Client : Append(w.net[c], m) \in Seq(FromMn(n))
    BY AppendProperties DEF World
<1> QED BY <1>1 DEF Relay, World

LEMMA DssuTyped ==
    ASSUME NEW n \in Nat, NEW p \in MnPool(n), NEW a \in {-1, 0, 1}
    PROVE  Dssu(p, a) \in FromMn(n)
  BY DEF Dssu, FromMn, MnPool

LEMMA ReplyTyped ==
    ASSUME NEW n \in Nat, NEW w \in World(n), NEW c \in Client, NEW a \in {-1, 0, 1}
    PROVE  Reply(w, c, a) \in World(n) /\ Reply(w, c, a).pool = w.pool
<1>1. Dssu(w.pool, a) \in FromMn(n)
    BY DssuTyped DEF World
<1>2. Append(w.net[c], Dssu(w.pool, a)) \in Seq(FromMn(n))
    BY <1>1, AppendProperties DEF World
<1> QED BY <1>2 DEF Reply, World

LEMMA RelayStatusTyped ==
    ASSUME NEW n \in Nat, NEW w \in World(n)
    PROVE  /\ RelayStatus(w) \in World(n)
           /\ RelayStatus(w).pool = w.pool /\ RelayStatus(w).mixed = w.mixed
<1>1. Dssu(w.pool, -1) \in FromMn(n)
    BY DssuTyped DEF World
<1> QED BY <1>1, RelayTyped DEF RelayStatus

\* A world whose pool is another one.
LEMMA PoolReplaced ==
    ASSUME NEW n \in Nat, NEW w \in World(n), NEW p \in MnPool(n)
    PROVE  /\ [w EXCEPT !.pool = p] \in World(n)
           /\ [w EXCEPT !.pool = p].pool = p
           /\ [w EXCEPT !.pool = p].mixed = w.mixed
  BY DEF World

LEMMA UpdateStateTyped ==
    ASSUME NEW n \in Nat, NEW w \in World(n), NEW s \in State \ Ended
    PROVE  /\ UpdateState(w, s) \in World(n)
           /\ UpdateState(w, s).pool.state = s
           /\ UpdateState(w, s).pool.sessionID = w.pool.sessionID
           /\ UpdateState(w, s).pool.sessionUsers = w.pool.sessionUsers
           /\ UpdateState(w, s).pool.entries = w.pool.entries
           /\ UpdateState(w, s).pool.sev = w.pool.sev
           /\ UpdateState(w, s).mixed = w.mixed
<1> DEFINE q == [w.pool EXCEPT !.age = 0]
           v == IF w.pool.state # s THEN RelayStatus([w EXCEPT !.pool = q]) ELSE w
           r == [v.pool EXCEPT !.state = s]
<1>1. w.pool \in MnPool(n)
    BY DEF World
<1>2. q \in MnPool(n) /\ q.sessionID = w.pool.sessionID /\ q.sessionUsers = w.pool.sessionUsers
      /\ q.entries = w.pool.entries /\ q.sev = w.pool.sev
    BY <1>1 DEF MnPool
<1>3. [w EXCEPT !.pool = q] \in World(n) /\ [w EXCEPT !.pool = q].pool = q /\ [w EXCEPT !.pool = q].mixed = w.mixed
    BY <1>2, PoolReplaced
<1>4. /\ v \in World(n) /\ v.pool \in MnPool(n) /\ v.mixed = w.mixed
      /\ v.pool.sessionID = w.pool.sessionID /\ v.pool.sessionUsers = w.pool.sessionUsers
      /\ v.pool.entries = w.pool.entries /\ v.pool.sev = w.pool.sev
    <2> HIDE DEF q
    <2>1. CASE w.pool.state = s
        BY <1>1, <2>1
    <2>2. CASE w.pool.state # s
        <3> DEFINE x == [w EXCEPT !.pool = q]
        <3> HIDE DEF x
        <3>1. x \in World(n) /\ x.pool = q /\ x.mixed = w.mixed
            BY <1>3 DEF x
        <3>2. RelayStatus(x) \in World(n) /\ RelayStatus(x).pool = q /\ RelayStatus(x).mixed = w.mixed
            BY <3>1, RelayStatusTyped
        <3>3. v = RelayStatus(x)
            BY <2>2 DEF x
        <3> QED BY <1>2, <3>2, <3>3
    <2> QED BY <2>1, <2>2
<1>5. UpdateState(w, s) = [v EXCEPT !.pool = r]
    <2>1. UpdateState(w, s) = [v EXCEPT !.pool.state = s]
        BY DEF UpdateState
    <2> HIDE DEF v
    <2> QED BY <1>4, <2>1 DEF World
<1> HIDE DEF v
<1>6. r \in MnPool(n) /\ r.state = s /\ r.sessionID = v.pool.sessionID /\ r.sessionUsers = v.pool.sessionUsers
      /\ r.entries = v.pool.entries /\ r.sev = v.pool.sev
    BY <1>4 DEF MnPool
<1> HIDE DEF r
<1> QED BY <1>4, <1>5, <1>6, PoolReplaced

LEMMA SetNullTyped ==
    ASSUME NEW n \in Nat, NEW w \in World(n)
    PROVE  /\ SetNull(w) \in World(n) /\ SetNull(w).pool = NullMn /\ SetNull(w).mixed = w.mixed
           /\ NullMn \in MnPool(n) /\ NullMn.sessionID = 0 /\ NullMn.sessionUsers = 0
<1>1. NullMn \in MnPool(n) /\ NullMn.sessionID = 0 /\ NullMn.sessionUsers = 0
    BY DarksendAssumption DEF DarksendAssumption, NullMn, MnPool, State, Ended
<1> QED BY <1>1, PoolReplaced DEF SetNull

LEMMA FinalizeTyped ==
    ASSUME NEW n \in Nat, NEW w \in World(n)
    PROVE  Finalize(w) \in World(n) /\ SessionKept(w.pool, Finalize(w).pool)
<1> DEFINE a == UpdateState(w, "FINALIZE_TRANSACTION")
           u == UpdateState(a, "SIGNING")
           p == [u.pool EXCEPT !.tx = u.pool.entries, !.txSigs = u.pool.sev]
           v == [u EXCEPT !.pool = p]
           m == [type |-> "dsf", id |-> v.pool.sessionID, tx |-> v.pool.tx]
<1>1. {"FINALIZE_TRANSACTION", "SIGNING"} \subseteq State \ Ended
    BY DEF State, Ended
<1>2. a \in World(n) /\ SessionKept(w.pool, a.pool)
    BY <1>1, UpdateStateTyped DEF SessionKept
<1> HIDE DEF a
<1>3. u \in World(n) /\ SessionKept(w.pool, u.pool)
    BY <1>1, <1>2, UpdateStateTyped DEF SessionKept
<1> HIDE DEF u
<1>4. u.pool \in MnPool(n)
    BY <1>3 DEF World
<1>5. p \in MnPool(n) /\ SessionKept(w.pool, p)
    BY <1>3, <1>4 DEF MnPool, SessionKept
<1>6. v \in World(n) /\ v.pool = p
    <2> HIDE DEF p
    <2> QED BY <1>3, <1>5, PoolReplaced
<1>7. [[u EXCEPT !.pool.tx = u.pool.entries] EXCEPT !.pool.txSigs = u.pool.sev] = v
    BY <1>3, <1>4 DEF World, MnPool
<1>8. Finalize(w) = Relay(v, m)
    BY <1>7 DEF Finalize, a, u
<1>9. m \in FromMn(n)
    <2> HIDE DEF v, p
    <2>1. v.pool \in MnPool(n)
        BY <1>6 DEF World
    <2>2. v.pool.sessionID \in 0..n /\ v.pool.tx \subseteq Entry
        BY <2>1 DEF MnPool
    <2> QED BY <2>2 DEF FromMn
<1> HIDE DEF v, m, p
<1> QED BY <1>5, <1>6, <1>8, <1>9, RelayTyped

LEMMA CheckFinalTransactionTyped ==
    ASSUME NEW n \in Nat, NEW w \in World(n), NEW x \in CheckFinalTransaction(w)
    PROVE  x \in World(n) /\ SessionKept(w.pool, x.pool)
<1> DEFINE p == w.pool
           sent == [w EXCEPT !.mixed = @ \cup p.tx]
           refused == UpdateState(SetNull(w), "ACCEPTING_ENTRIES")
           done == [type |-> "dsc", id |-> p.sessionID]
           none == [type |-> "dsc", id |-> 0]
<1>1. p \in MnPool(n)
    BY DEF World
<1>2. sent \in World(n) /\ sent.pool = p
    BY <1>1 DEF World, MnPool
<1>3. done \in FromMn(n) /\ none \in FromMn(n)
    BY <1>1 DEF FromMn, MnPool
<1>4. "ACCEPTING_ENTRIES" \in State \ Ended
    BY DEF State, Ended
<1>5. refused \in World(n) /\ refused.pool.sessionID = 0 /\ refused.pool.sessionUsers = 0
    BY <1>4, SetNullTyped, UpdateStateTyped
<1>6. x \in {Relay(refused, none), RelayStatus(SetNull(Relay(sent, done))), sent}
    BY DEF CheckFinalTransaction
<1> HIDE DEF refused, sent, done, none, p
<1>7. CASE x = Relay(refused, none)
    BY <1>3, <1>5, <1>7, RelayTyped DEF SessionKept
<1>8. CASE x = RelayStatus(SetNull(Relay(sent, done)))
    <2>1. Relay(sent, done) \in World(n)
        BY <1>2, <1>3, RelayTyped
    <2>2. SetNull(Relay(sent, done)) \in World(n) /\ SetNull(Relay(sent, done)).pool = NullMn
          /\ NullMn.sessionID = 0 /\ NullMn.sessionUsers = 0
        BY <2>1, SetNullTyped
    <2> QED BY <1>8, <2>2, RelayStatusTyped DEF SessionKept
<1>9. CASE x = sent
    BY <1>2, <1>9 DEF SessionKept, p
<1> QED BY <1>6, <1>7, <1>8, <1>9

LEMMA CheckTyped ==
    ASSUME NEW n \in Nat, NEW w \in World(n), NEW x \in Check(w)
    PROVE  x \in World(n) /\ SessionKept(w.pool, x.pool)
<1> DEFINE v == IF w.pool.state = "ACCEPTING_ENTRIES" /\ Cardinality(w.pool.entries) >= MaxPoolTransactions
                THEN Finalize(w) ELSE w
           t == UpdateState(v, "TRANSMISSION")
<1>1. v \in World(n) /\ SessionKept(w.pool, v.pool)
    BY FinalizeTyped DEF SessionKept
<1>2. x = v \/ x \in CheckFinalTransaction(t)
    BY DEF Check
<1> HIDE DEF v
<1>3. t \in World(n) /\ SessionKept(w.pool, t.pool)
    <2>1. "TRANSMISSION" \in State \ Ended
        BY DEF State, Ended
    <2> QED BY <1>1, <2>1, UpdateStateTyped DEF SessionKept
<1> HIDE DEF t
<1>4. ASSUME x \in CheckFinalTransaction(t) PROVE x \in World(n) /\ SessionKept(t.pool, x.pool)
    BY <1>3, <1>4, CheckFinalTransactionTyped
<1> QED BY <1>1, <1>2, <1>3, <1>4 DEF SessionKept

LEMMA DsaTyped ==
    ASSUME NEW n \in Nat, n = sessions, NEW w \in World(n), NEW c \in Client, NEW x \in Dsa(w, c)
    PROVE  \/ x \in World(n) /\ x.pool = w.pool
           \/ /\ x \in World(n + 1) /\ w.pool.sessionUsers = 0
              /\ x.pool.sessionID = n + 1 /\ x.pool.sessionUsers = 1
           \/ /\ x \in World(n) /\ w.pool.sessionUsers # 0
              /\ x.pool.sessionID = w.pool.sessionID /\ x.pool.sessionUsers = w.pool.sessionUsers + 1
<1> DEFINE p == w.pool
           q == [p EXCEPT !.sessionID = n + 1, !.sessionUsers = 1, !.age = 0]
           r == [p EXCEPT !.sessionUsers = @ + 1, !.age = 0]
           opened == UpdateState([w EXCEPT !.pool = q], "QUEUE")
           joined == [w EXCEPT !.pool = r]
<1>w. w \in World(n + 1) /\ p \in MnPool(n) /\ p \in MnPool(n + 1) /\ n + 1 \in Nat
    <2>1. FromMn(n) \subseteq FromMn(n + 1) /\ MnPool(n) \subseteq MnPool(n + 1)
        BY FromMnGrows
    <2>2. \A d \in Client : w.net[d] \in Seq(FromMn(n + 1))
        BY <2>1, SeqGrows DEF World
    <2> QED BY <2>1, <2>2 DEF World
<1>m. MaxPoolTransactions \in Nat /\ MaxPoolTransactions > 1
    BY DarksendAssumption DEF DarksendAssumption
<1>1. q \in MnPool(n + 1) /\ q.sessionID = n + 1 /\ q.sessionUsers = 1
    <2>1. n + 1 \in 0..(n + 1) /\ 1 \in 0..MaxPoolTransactions /\ 0 \in Nat
        BY <1>m
    <2> QED BY <1>w, <2>1 DEF MnPool
<1>2. [w EXCEPT !.pool.sessionID = n + 1, !.pool.sessionUsers = 1, !.pool.age = 0] = [w EXCEPT !.pool = q]
    BY <1>w DEF World, MnPool
<1>3. [w EXCEPT !.pool.sessionUsers = @ + 1, !.pool.age = 0] = joined
    BY <1>w DEF World, MnPool
<1>4. opened \in World(n + 1) /\ opened.pool.sessionID = n + 1 /\ opened.pool.sessionUsers = 1
    <2> HIDE DEF q
    <2> DEFINE y == [w EXCEPT !.pool = q]
    <2> HIDE DEF y
    <2>1. y \in World(n + 1) /\ y.pool = q
        BY <1>w, <1>1, PoolReplaced DEF y
    <2>2. "QUEUE" \in State \ Ended
        BY DEF State, Ended
    <2>3. UpdateState(y, "QUEUE") \in World(n + 1)
          /\ UpdateState(y, "QUEUE").pool.sessionID = q.sessionID
          /\ UpdateState(y, "QUEUE").pool.sessionUsers = q.sessionUsers
        BY <1>w, <2>1, <2>2, UpdateStateTyped
    <2>4. opened = UpdateState(y, "QUEUE")
        BY DEF y
    <2> QED BY <1>1, <2>3, <2>4
<1>5. ASSUME p.sessionUsers \in 1..(MaxPoolTransactions - 1)
      PROVE  /\ joined \in World(n) /\ joined.pool.sessionID = p.sessionID
             /\ joined.pool.sessionUsers = p.sessionUsers + 1
    <2>0. p.sessionUsers + 1 \in 0..MaxPoolTransactions /\ 0 \in Nat
        BY <1>m, <1>5
    <2>1. r \in MnPool(n) /\ r.sessionID = p.sessionID /\ r.sessionUsers = p.sessionUsers + 1
        BY <1>w, <2>0 DEF MnPool
    <2> HIDE DEF r
    <2> QED BY <1>w, <2>1, PoolReplaced
<1>6. \/ x = Reply(w, c, 0)
      \/ p.sessionUsers = 0 /\ x = Reply(opened, c, 1)
      \/ p.sessionUsers \in 1..(MaxPoolTransactions - 1) /\ x = Reply(joined, c, 1)
    BY <1>2, <1>3, Zenon DEF Dsa
<1> HIDE DEF opened, joined
<1>7. CASE x = Reply(w, c, 0)
    BY <1>w, <1>7, ReplyTyped
<1>8. CASE p.sessionUsers = 0 /\ x = Reply(opened, c, 1)
    BY <1>w, <1>4, <1>8, ReplyTyped
<1>9. CASE p.sessionUsers \in 1..(MaxPoolTransactions - 1) /\ x = Reply(joined, c, 1)
    <2>1. Reply(joined, c, 1) \in World(n) /\ Reply(joined, c, 1).pool = joined.pool
        BY <1>w, <1>5, <1>9, ReplyTyped
    <2>2. p.sessionUsers # 0
        BY <1>9, <1>m
    <2> QED BY <1>5, <1>9, <2>1, <2>2
<1> QED BY <1>6, <1>7, <1>8, <1>9

LEMMA DsiTyped ==
    ASSUME NEW n \in Nat, NEW w \in World(n), NEW c \in Client, NEW e \in Entry, NEW x \in Dsi(w, c, e)
    PROVE  /\ x \in World(n)
           /\ \/ SessionKept(w.pool, x.pool)
              \/ /\ w.pool.sessionUsers >= MaxPoolTransactions /\ x.pool.sessionID = w.pool.sessionID
                 /\ x.pool.sessionUsers = w.pool.sessionUsers - 1
<1> DEFINE p == w.pool
           q == [p EXCEPT !.entries = @ \cup {e}]
           r == [p EXCEPT !.sessionUsers = @ - 1]
           added == Reply([w EXCEPT !.pool = q], c, 1)
           refused == [w EXCEPT !.pool = r]
<1>p. p \in MnPool(n)
    BY DEF World
<1>m. MaxPoolTransactions \in Nat /\ MaxPoolTransactions > 1
    BY DarksendAssumption DEF DarksendAssumption
<1>1. [w EXCEPT !.pool.entries = @ \cup {e}] = [w EXCEPT !.pool = q]
    BY <1>p DEF World, MnPool
<1>2. [w EXCEPT !.pool.sessionUsers = @ - 1] = refused
    BY <1>p DEF World, MnPool
<1>3. added \in World(n) /\ SessionKept(p, added.pool)
    <2>1. q \in MnPool(n) /\ SessionKept(p, q)
        BY <1>p DEF MnPool, SessionKept
    <2> HIDE DEF q
    <2> DEFINE y == [w EXCEPT !.pool = q]
    <2>2. y \in World(n) /\ y.pool = q
        BY <2>1, PoolReplaced
    <2> HIDE DEF y
    <2>3. Reply(y, c, 1) \in World(n) /\ Reply(y, c, 1).pool = q
        BY <2>2, ReplyTyped
    <2> QED BY <2>1, <2>3 DEF y
<1>4. ASSUME IsSessionReady(p)
      PROVE  /\ refused \in World(n) /\ refused.pool.sessionID = p.sessionID
             /\ refused.pool.sessionUsers = p.sessionUsers - 1 /\ p.sessionUsers >= MaxPoolTransactions
    <2>1. p.sessionUsers >= MaxPoolTransactions
        BY <1>4 DEF IsSessionReady
    <2>2. r \in MnPool(n) /\ r.sessionID = p.sessionID /\ r.sessionUsers = p.sessionUsers - 1
        BY <1>p, <1>m, <2>1 DEF MnPool
    <2> HIDE DEF r
    <2> QED BY <2>1, <2>2, PoolReplaced
<1>5. \/ x = Reply(w, c, 0)
      \/ IsSessionReady(p) /\ x = Reply(refused, c, 0)
      \/ \E v \in Check(added) : x = RelayStatus(v)
    BY <1>1, <1>2, Zenon DEF Dsi
<1> HIDE DEF added, refused
<1>6. CASE x = Reply(w, c, 0)
    BY <1>6, ReplyTyped DEF SessionKept
<1>7. CASE IsSessionReady(p) /\ x = Reply(refused, c, 0)
    BY <1>4, <1>7, ReplyTyped
<1>8. ASSUME NEW v \in Check(added), x = RelayStatus(v) PROVE x \in World(n) /\ SessionKept(p, x.pool)
    <2>1. v \in World(n) /\ SessionKept(added.pool, v.pool)
        BY <1>3, CheckTyped
    <2> QED BY <1>3, <1>8, <2>1, RelayStatusTyped DEF SessionKept
<1> QED BY <1>5, <1>6, <1>7, <1>8

LEMMA DssTyped ==
    ASSUME NEW n \in Nat, NEW w \in World(n), NEW g \in Signature, NEW x \in Dss(w, g)
    PROVE  x \in World(n) /\ SessionKept(w.pool, x.pool)
<1> DEFINE p == w.pool
           q == AddScriptSig(p, g)
           v == [w EXCEPT !.pool = q]
<1>p. p \in MnPool(n)
    BY DEF World
<1>1. q \in MnPool(n) /\ SessionKept(p, q)
    <2>1. CASE g \in p.sev
        BY <1>p, <2>1 DEF AddScriptSig, SessionKept
    <2>2. CASE g \notin p.sev
        <3> DEFINE A == IF g.coin \in Coins(p.tx) THEN { h \in p.txSigs : h.coin # g.coin } \cup {g} ELSE p.txSigs
                   B == IF g.coin \in Coins(p.entries) \ Coins(p.sev) THEN p.sev \cup {g} ELSE p.sev
        <3>1. A \subseteq Signature /\ B \subseteq Signature
            BY <1>p DEF MnPool
        <3>2. q = [p EXCEPT !.txSigs = A, !.sev = B]
            BY <1>p, <2>2 DEF AddScriptSig, MnPool
        <3> HIDE DEF A, B, q
        <3> QED BY <1>p, <3>1, <3>2 DEF MnPool, SessionKept
    <2> QED BY <2>1, <2>2
<1> HIDE DEF q
<1>2. v \in World(n) /\ v.pool = q
    BY <1>1, PoolReplaced
<1>3. x = v \/ \E u \in Check(v) : x = RelayStatus(u)
    BY Zenon DEF Dss, q
<1> HIDE DEF v
<1>4. ASSUME NEW u \in Check(v), x = RelayStatus(u) PROVE x \in World(n) /\ SessionKept(p, x.pool)
    <2>1. u \in World(n) /\ SessionKept(v.pool, u.pool)
        BY <1>2, CheckTyped
    <2> QED BY <1>1, <1>2, <1>4, <2>1, RelayStatusTyped DEF SessionKept
<1> QED BY <1>1, <1>2, <1>3, <1>4

-----------------------------------------------------------------------------
(* A participant.  What its pool takes part with is locked in the wallet,   *)
(* and it has an entry only in a session it has found.                      *)

Side(n) == [pool : ClientPool(n), locked : SUBSET Coin, sent : Seq(ToMn)]

Sound(k, n) ==
    /\ k \in Side(n)
    /\ k.pool.lockedCoins \subseteq k.locked
    /\ Coins(k.pool.entries) \subseteq k.pool.lockedCoins
    /\ k.pool.entries # {} => k.pool.found

LEMMA SideReplaced ==
    ASSUME NEW n \in Nat, NEW k \in Side(n), NEW p \in ClientPool(n)
    PROVE  /\ [k EXCEPT !.pool = p] \in Side(n) /\ [k EXCEPT !.pool = p].pool = p
           /\ [k EXCEPT !.pool = p].locked = k.locked /\ [k EXCEPT !.pool = p].sent = k.sent
  BY DEF Side

LEMMA EnterStateSound ==
    ASSUME NEW n \in Nat, NEW k, Sound(k, n), NEW s \in State
    PROVE  /\ Sound(EnterState(k, s), n)
           /\ EnterState(k, s).pool.sessionID = k.pool.sessionID
           /\ EnterState(k, s).pool.found = k.pool.found
           /\ EnterState(k, s).pool.entries = k.pool.entries
           /\ EnterState(k, s).pool.lockedCoins = k.pool.lockedCoins
           /\ EnterState(k, s).locked = k.locked
           /\ EnterState(k, s).sent = k.sent
<1> DEFINE q == [k.pool EXCEPT !.state = s, !.age = IF k.pool.state # s THEN 0 ELSE @]
<1>1. k \in Side(n) /\ k.pool \in ClientPool(n)
    BY DEF Sound, Side
<1>2. /\ q \in ClientPool(n) /\ q.sessionID = k.pool.sessionID /\ q.found = k.pool.found
      /\ q.entries = k.pool.entries /\ q.lockedCoins = k.pool.lockedCoins
    BY <1>1 DEF ClientPool
<1>3. EnterState(k, s) = [k EXCEPT !.pool = q]
    BY <1>1 DEF EnterState, Side, ClientPool
<1> HIDE DEF q
<1> QED BY <1>1, <1>2, <1>3, SideReplaced DEF Sound

\* UnlockCoins, for a participant without an entry.
LEMMA UnlockCoinsSound ==
    ASSUME NEW n \in Nat, NEW k, Sound(k, n), k.pool.entries = {}
    PROVE  /\ Sound(UnlockCoins(k), n)
           /\ UnlockCoins(k).pool.entries = {}
<1> DEFINE q == [k.pool EXCEPT !.lockedCoins = {}]
           l == k.locked \ k.pool.lockedCoins
<1>1. k \in Side(n) /\ k.pool \in ClientPool(n)
    BY DEF Sound, Side
<1>2. q \in ClientPool(n) /\ q.entries = {} /\ q.lockedCoins = {}
    BY <1>1 DEF ClientPool
<1>3. UnlockCoins(k) = [k EXCEPT !.locked = l, !.pool = q]
    BY <1>1 DEF UnlockCoins, Side, ClientPool
<1> HIDE DEF q
<1>4. UnlockCoins(k) \in Side(n) /\ UnlockCoins(k).pool = q /\ UnlockCoins(k).locked = l
    BY <1>1, <1>2, <1>3 DEF Side
<1> QED BY <1>2, <1>4 DEF Sound, Coins

\* Release leaves nothing locked that was locked for the pool, and no entry.
LEMMA ReleaseSound ==
    ASSUME NEW n \in Nat, NEW k \in Side(n)
    PROVE  /\ Sound(Release(k), n)
           /\ Release(k).pool.entries = {} /\ Release(k).sent = k.sent
<1> DEFINE q == [k.pool EXCEPT !.lockedCoins = {}, !.state = "IDLE", !.sessionID = 0, !.found = FALSE,
                               !.entries = {}, !.age = 0]
           l == k.locked \ k.pool.lockedCoins
<1>1. k.pool \in ClientPool(n)
    BY DEF Side
<1>2. /\ q \in ClientPool(n) /\ q.entries = {} /\ q.lockedCoins = {}
    <2>1. "IDLE" \in State /\ 0 \in 0..n /\ FALSE \in BOOLEAN /\ 0 \in Nat
        BY DEF State
    <2> QED BY <1>1, <2>1 DEF ClientPool
<1>3. Release(k) = [k EXCEPT !.locked = l, !.pool = q]
    BY <1>1 DEF Release, UnlockCoins, NullPool, Side, ClientPool
<1> HIDE DEF q
<1>4. Release(k) \in Side(n) /\ Release(k).pool = q /\ Release(k).locked = l /\ Release(k).sent = k.sent
    BY <1>1, <1>2, <1>3 DEF Side
<1> QED BY <1>2, <1>4 DEF Sound, Coins

\* A message sent, and whether anything was submitted.
LEMMA SendSound ==
    ASSUME NEW n \in Nat, NEW k, Sound(k, n), NEW m \in ToMn
    PROVE  Sound([k EXCEPT !.sent = <<m>>], n)
<1> DEFINE j == [k EXCEPT !.sent = <<m>>]
<1>1. <<m>> \in Seq(ToMn) /\ k \in Side(n)
    BY DEF Sound
<1>2. j \in Side(n) /\ j.pool = k.pool /\ j.locked = k.locked
    BY <1>1 DEF Side
<1> HIDE DEF j
<1> QED BY <1>2 DEF Sound, j

LEMMA DoAutomaticDenominatingSound ==
    ASSUME NEW n \in Nat, NEW k, Sound(k, n), NEW j \in DoAutomaticDenominating(k)
    PROVE  Sound(j, n)
<1> DEFINE clean == EnterState(Release(k), "ACCEPTING_ENTRIES")
           q == [clean.pool EXCEPT !.submitted = TRUE]
           v == [clean EXCEPT !.pool = q]
           m == [type |-> "dsa"]
<1>1. Sound(clean, n)
    <2>1. k \in Side(n) /\ "ACCEPTING_ENTRIES" \in State
        BY DEF Sound, State
    <2> QED BY <2>1, ReleaseSound, EnterStateSound
<1> HIDE DEF clean
<1>2. clean \in Side(n) /\ clean.pool \in ClientPool(n)
    BY <1>1 DEF Sound, Side
<1>3. q \in ClientPool(n) /\ q.entries = clean.pool.entries /\ q.lockedCoins = clean.pool.lockedCoins
      /\ q.found = clean.pool.found
    BY <1>2 DEF ClientPool
<1>4. [clean EXCEPT !.pool.submitted = TRUE, !.sent = <<m>>] = [v EXCEPT !.sent = <<m>>]
    BY <1>2 DEF Side, ClientPool
<1>5. Sound(v, n)
    <2> HIDE DEF q
    <2>1. v \in Side(n) /\ v.pool = q /\ v.locked = clean.locked
        BY <1>2, <1>3, SideReplaced
    <2> HIDE DEF v
    <2> QED BY <1>1, <1>3, <2>1 DEF Sound
<1>6. m \in ToMn
    BY DEF ToMn
<1>7. j \in {k, clean, [v EXCEPT !.sent = <<m>>]}
    BY <1>4, Zenon DEF DoAutomaticDenominating, clean
<1> HIDE DEF v, m
<1> QED BY <1>1, <1>5, <1>6, <1>7, SendSound

\* A pool changed only in what it has found.
LEMMA FoundSound ==
    ASSUME NEW n \in Nat, NEW k, Sound(k, n), NEW p \in ClientPool(n),
           p.entries = k.pool.entries, p.lockedCoins = k.pool.lockedCoins, p.found = TRUE
    PROVE  Sound([k EXCEPT !.pool = p], n)
<1>1. k \in Side(n)
    BY DEF Sound
<1> DEFINE v == [k EXCEPT !.pool = p]
<1>2. v \in Side(n) /\ v.pool = p /\ v.locked = k.locked
    BY <1>1, SideReplaced
<1> HIDE DEF v
<1>3. Sound(v, n)
    BY <1>2 DEF Sound
<1> QED BY <1>3 DEF v

LEMMA StatusUpdateSound ==
    ASSUME NEW n \in Nat, NEW k, Sound(k, n), NEW m, m.state \in State, m.id \in 0..n,
           NEW j \in StatusUpdate(k, m)
    PROVE  Sound(j, n)
<1> DEFINE taken == m.accepted = 1 /\ m.id # 0
           a == EnterState(k, m.state)
           p == [a.pool EXCEPT !.sessionID = m.id, !.found = TRUE]
           b == IF m.accepted = 0 THEN EnterState(a, "ERROR")
                ELSE IF taken THEN [a EXCEPT !.pool = p] ELSE a
           q == [b.pool EXCEPT !.found = TRUE]
           f == [b EXCEPT !.pool = q]
           u == EnterState(UnlockCoins(b), "ACCEPTING_ENTRIES")
           other == b.pool.sessionID = 0 /\ ~ b.pool.found
<1>s. {"ERROR", "QUEUE", "ACCEPTING_ENTRIES"} \subseteq State
    BY DEF State
<1>1. Sound(a, n)
    BY EnterStateSound
<1> HIDE DEF a
<1>2. a \in Side(n) /\ a.pool \in ClientPool(n)
    BY <1>1 DEF Sound, Side
<1>3. Sound([a EXCEPT !.pool = p], n)
    <2>1. /\ p \in ClientPool(n) /\ p.entries = a.pool.entries /\ p.lockedCoins = a.pool.lockedCoins
          /\ p.found = TRUE
        BY <1>2 DEF ClientPool
    <2> HIDE DEF p
    <2> QED BY <1>1, <2>1, FoundSound
<1>4. [a EXCEPT !.pool.sessionID = m.id, !.pool.found = TRUE] = [a EXCEPT !.pool = p]
    BY <1>2 DEF Side, ClientPool
<1>5. Sound(b, n)
    <2> HIDE DEF p
    <2>1. Sound(EnterState(a, "ERROR"), n)
        BY <1>s, <1>1, EnterStateSound
    <2>2. b \in {EnterState(a, "ERROR"), [a EXCEPT !.pool = p], a}
        OBVIOUS
    <2> QED BY <1>1, <1>3, <2>1, <2>2
<1>6. j \in StatusUpdate(k, m) =>
        \/ j \in {k, b, EnterState([b EXCEPT !.pool.found = TRUE], "QUEUE")}
        \/ other /\ j \in DoAutomaticDenominating(u)
    BY <1>4 DEF StatusUpdate, a
<1> HIDE DEF b
<1>7. b \in Side(n) /\ b.pool \in ClientPool(n)
    BY <1>5 DEF Sound, Side
<1>8. [b EXCEPT !.pool.found = TRUE] = f
    BY <1>7 DEF Side, ClientPool
<1>9. Sound(EnterState(f, "QUEUE"), n)
    <2>1. /\ q \in ClientPool(n) /\ q.entries = b.pool.entries /\ q.lockedCoins = b.pool.lockedCoins
          /\ q.found = TRUE
        BY <1>7 DEF ClientPool
    <2> HIDE DEF q
    <2>2. Sound(f, n)
        BY <1>5, <2>1, FoundSound
    <2> HIDE DEF f
    <2> QED BY <1>s, <2>2, EnterStateSound
<1>10. ASSUME other, j \in DoAutomaticDenominating(u) PROVE Sound(j, n)
    <2>1. b.pool.entries = {}
        BY <1>5, <1>10 DEF Sound
    <2>2. Sound(u, n)
        BY <1>s, <1>5, <2>1, UnlockCoinsSound, EnterStateSound
    <2> HIDE DEF u
    <2> QED BY <1>10, <2>2, DoAutomaticDenominatingSound
<1> QED BY <1>5, <1>6, <1>8, <1>9, <1>10

LEMMA SendDarksendDenominateSound ==
    ASSUME NEW n \in Nat, NEW k, Sound(k, n), k.pool.entries = {}, NEW e \in Entry, e.coin \in k.locked,
           NEW j \in SendDarksendDenominate(k, e)
    PROVE  Sound(j, n)
<1> DEFINE p == [k.pool EXCEPT !.lockedCoins = @ \cup {e.coin}]
           a == [k EXCEPT !.pool = p]
           b == EnterState(a, "ACCEPTING_ENTRIES")
           q == [b.pool EXCEPT !.entries = {e}]
           m == [type |-> "dsi", entry |-> e]
           v == [b EXCEPT !.pool = q]
<1>1. k \in Side(n) /\ k.pool \in ClientPool(n) /\ e.coin \in Coin
    BY DEF Sound, Side, Entry
<1>2. /\ p \in ClientPool(n) /\ p.entries = {} /\ p.lockedCoins = k.pool.lockedCoins \cup {e.coin}
      /\ p.found = k.pool.found
    BY <1>1 DEF ClientPool
<1>3. [k EXCEPT !.pool.lockedCoins = @ \cup {e.coin}] = a
    BY <1>1 DEF Side, ClientPool
<1> HIDE DEF p
<1>4. Sound(a, n) /\ a.pool = p
    <2>1. a \in Side(n) /\ a.pool = p /\ a.locked = k.locked
        BY <1>1, <1>2, SideReplaced
    <2> HIDE DEF a
    <2> QED BY <1>2, <2>1 DEF Sound, Coins
<1>5. \/ j = Release(a)
      \/ j = Release(b)
      \/ a.pool.found /\ j = [b EXCEPT !.pool.entries = {e}, !.sent = <<m>>]
    BY <1>3, Zenon DEF SendDarksendDenominate
<1> HIDE DEF a
<1>6. /\ Sound(b, n) /\ b.pool.found = a.pool.found /\ b.pool.lockedCoins = a.pool.lockedCoins
    <2>1. "ACCEPTING_ENTRIES" \in State
        BY DEF State
    <2> QED BY <1>4, <2>1, EnterStateSound
<1> HIDE DEF b
<1>7. b \in Side(n) /\ b.pool \in ClientPool(n)
    BY <1>6 DEF Sound, Side
<1>8. ASSUME a.pool.found PROVE Sound([v EXCEPT !.sent = <<m>>], n)
    <2>1. /\ q \in ClientPool(n) /\ q.entries = {e} /\ q.lockedCoins = b.pool.lockedCoins
          /\ q.found = b.pool.found
        BY <1>7 DEF ClientPool
    <2> HIDE DEF q
    <2>2. v \in Side(n) /\ v.pool = q /\ v.locked = b.locked
        BY <1>7, <2>1, SideReplaced
    <2>3. Coins({e}) \subseteq b.pool.lockedCoins
        BY <1>2, <1>4, <1>6 DEF Coins
    <2> HIDE DEF v
    <2>4. Sound(v, n)
        BY <1>6, <1>8, <2>1, <2>2, <2>3 DEF Sound
    <2>5. m \in ToMn
        BY DEF ToMn
    <2> HIDE DEF m
    <2> QED BY <2>4, <2>5, SendSound
<1>9. [b EXCEPT !.pool.entries = {e}, !.sent = <<m>>] = [v EXCEPT !.sent = <<m>>]
    BY <1>7 DEF Side, ClientPool
<1>10. a \in Side(n)
    BY <1>4 DEF Sound
<1> HIDE DEF v, m
<1> QED BY <1>5, <1>7, <1>8, <1>9, <1>10, ReleaseSound

LEMMA DsqReadySound ==
    ASSUME NEW n \in Nat, NEW c, NEW k, Sound(k, n), made[c] \in Nat, NEW j \in DsqReady(c, k)
    PROVE  Sound(j, n)
<1>1. CASE j = k
    BY <1>1
<1>2. ASSUME NEW x \in Coin, k.pool.entries = {},
             j \in SendDarksendDenominate([k EXCEPT !.locked = @ \cup {x}], [coin |-> x, out |-> made[c] + 1])
      PROVE  Sound(j, n)
    <2> DEFINE l == [k EXCEPT !.locked = @ \cup {x}]
               e == [coin |-> x, out |-> made[c] + 1]
    <2>1. k \in Side(n)
        BY DEF Sound
    <2>2. l \in Side(n) /\ l.pool = k.pool /\ l.locked = k.locked \cup {x}
        BY <2>1 DEF Side
    <2>3. e \in Entry /\ e.coin = x
        BY DEF Entry
    <2> HIDE DEF l, e
    <2>4. Sound(l, n)
        BY <2>2 DEF Sound
    <2>5. j \in SendDarksendDenominate(l, e)
        BY <1>2 DEF l, e
    <2> QED BY <1>2, <2>2, <2>3, <2>4, <2>5, SendDarksendDenominateSound
<1>3. \/ j = k
      \/ /\ k.pool.entries = {}
         /\ \E x \in Coin : j \in SendDarksendDenominate([k EXCEPT !.locked = @ \cup {x}],
                                                        [coin |-> x, out |-> made[c] + 1])
    <2>1. ASSUME j # k
          PROVE  /\ k.pool.entries = {}
                 /\ j \in UNION { SendDarksendDenominate([k EXCEPT !.locked = @ \cup {x}],
                                                         [coin |-> x, out |-> made[c] + 1]) :
                                  x \in { y \in Coin : Owner[y] = c } \ k.locked }
        BY <2>1 DEF DsqReady
    <2> QED BY <2>1
<1> QED BY <1>1, <1>2, <1>3

LEMMA DsfSound ==
    ASSUME NEW n \in Nat, NEW k, Sound(k, n), NEW m, m.tx \subseteq Entry
    PROVE  Sound(Dsf(k, m), n)
<1> DEFINE mine == { e \in k.pool.entries : e.coin \in Coins(m.tx) }
           g == [coin |-> (CHOOSE e \in mine : TRUE).coin, tx |-> m.tx]
           s == [type |-> "dss", sig |-> g]
<1>1. k \in Side(n) /\ k.pool.entries \subseteq Entry
    BY DEF Sound, Side, ClientPool
<1>2. CASE k.pool.sessionID # m.id \/ mine = {}
    BY <1>2, Zenon DEF Dsf
<1>3. CASE ~ (k.pool.sessionID # m.id \/ mine = {}) /\ ~ mine \subseteq m.tx
    <2>1. Dsf(k, m) = Release(k)
        BY <1>3, Zenon DEF Dsf
    <2> QED BY <1>1, <2>1, ReleaseSound
<1>4. CASE ~ (k.pool.sessionID # m.id \/ mine = {}) /\ mine \subseteq m.tx
    <2>1. Dsf(k, m) = [k EXCEPT !.sent = <<s>>]
        BY <1>4, Zenon DEF Dsf
    <2>2. (CHOOSE e \in mine : TRUE) \in Entry
        BY <1>1, <1>4
    <2>3. s \in ToMn
        <3> DEFINE z == CHOOSE e \in mine : TRUE
        <3> HIDE DEF mine, z
        <3>1. z.coin \in Coin
            BY <2>2 DEF z, Entry
        <3> QED BY <3>1 DEF ToMn, Signature, z
    <2> HIDE DEF s
    <2> QED BY <2>1, <2>3, SendSound
<1> QED BY <1>2, <1>3, <1>4

LEMMA ReceiveSound ==
    ASSUME NEW n \in Nat, NEW c, NEW k, Sound(k, n), made[c] \in Nat, NEW m \in FromMn(n),
           NEW j \in Receive(c, k, m)
    PROVE  Sound(j, n)
<1>1. k \in Side(n)
    BY DEF Sound
<1>2. CASE j = k
    BY <1>2
<1>3. CASE m.type = "dssu" /\ j \in StatusUpdate(k, m)
    <2>1. m.state \in State /\ m.id \in 0..n
        BY <1>3 DEF FromMn
    <2> QED BY <1>3, <2>1, StatusUpdateSound
<1>4. CASE m.type = "dsq" /\ j \in DsqReady(c, k)
    BY <1>4, DsqReadySound
<1>5. CASE m.type = "dsf" /\ j = Dsf(k, m)
    <2>1. m.tx \subseteq Entry
        BY <1>5 DEF FromMn
    <2> QED BY <1>5, <2>1, DsfSound
<1>6. CASE m.type = "dsc" /\ j = Dsc(k, m)
    BY <1>1, <1>6, ReleaseSound DEF Dsc
<1>7. m.type \in {"dssu", "dsq", "dsf", "dsc"}
    BY DEF FromMn
<1>8. \/ j = k
      \/ m.type = "dssu" /\ j \in StatusUpdate(k, m)
      \/ m.type = "dsq" /\ j \in DsqReady(c, k)
      \/ m.type = "dsf" /\ j = Dsf(k, m)
      \/ m.type = "dsc" /\ j = Dsc(k, m)
    BY <1>7 DEF Receive
<1> QED BY <1>2, <1>3, <1>4, <1>5, <1>6, <1>8

-----------------------------------------------------------------------------
(* The invariant: types, and a session has users. *)

Typed ==
    /\ sessions \in Nat /\ mn \in MnPool(sessions) /\ mixed \subseteq Entry
    /\ toMn \in [Client -> Seq(ToMn)] /\ toClient \in [Client -> Seq(FromMn(sessions))]
    /\ pool \in [Client -> ClientPool(sessions)] /\ locked \in [Client -> SUBSET Coin]
    /\ requests \in [Client -> Nat] /\ made \in [Client -> Nat]
    /\ \A c \in Client :
         /\ pool[c].lockedCoins \subseteq locked[c]
         /\ Coins(pool[c].entries) \subseteq pool[c].lockedCoins
         /\ pool[c].entries # {} => pool[c].found

SessionInv == mn.sessionID # 0 => mn.sessionUsers # 0

IInv == Typed /\ SessionInv

LEMMA TypedSides ==
    ASSUME Typed
    PROVE  /\ Mn \in World(sessions) /\ Mn.pool = mn
           /\ \A c \in Client : Sound(Participant(c), sessions)
<1>1. Mn \in World(sessions) /\ Mn.pool = mn
    BY DEF Typed, Mn, World
<1>2. ASSUME NEW c \in Client PROVE Sound(Participant(c), sessions)
    <2> DEFINE k == Participant(c)
    <2>1. k.pool = pool[c] /\ k.locked = locked[c] /\ k \in Side(sessions)
        BY DEF Participant, Typed, Side
    <2> HIDE DEF k
    <2> QED BY <2>1 DEF Typed, Sound, k
<1> QED BY <1>1, <1>2

\* A step of the primenode that takes its world to w, with m sessions opened.
LEMMA MnStepTyped ==
    ASSUME Typed, sessions' \in {sessions, sessions + 1}, NEW w \in World(sessions'),
           mn' = w.pool, toClient' = w.net, mixed' = w.mixed, toMn' \in [Client -> Seq(ToMn)],
           UNCHANGED <<pool, locked, requests, made>>
    PROVE  Typed'
<1>1. sessions \in Nat /\ sessions' \in Nat /\ sessions <= sessions'
    BY DEF Typed
<1>2. ClientPool(sessions) \subseteq ClientPool(sessions')
    BY <1>1, FromMnGrows
<1>3. mn' \in MnPool(sessions') /\ toClient' \in [Client -> Seq(FromMn(sessions'))] /\ mixed' \subseteq Entry
    BY DEF World
<1>4. pool' \in [Client -> ClientPool(sessions')]
    BY <1>2 DEF Typed
<1>5. /\ locked' \in [Client -> SUBSET Coin]
      /\ requests' \in [Client -> Nat] /\ made' \in [Client -> Nat]
      /\ \A c \in Client :
           /\ pool'[c].lockedCoins \subseteq locked'[c]
           /\ Coins(pool'[c].entries) \subseteq pool'[c].lockedCoins
           /\ pool'[c].entries # {} => pool'[c].found
    BY DEF Typed
<1>6. toMn' \in [Client -> Seq(ToMn)]
    OBVIOUS
<1> QED BY <1>1, <1>3, <1>4, <1>5, <1>6 DEF Typed

\* A step of participant c.
LEMMA BecomesTyped ==
    ASSUME Typed, NEW c \in Client, NEW k, Sound(k, sessions), Becomes(c, k),
           toClient' \in [Client -> Seq(FromMn(sessions))]
    PROVE  Typed' /\ mn' = mn
<1>1. /\ pool' = [pool EXCEPT ![c] = k.pool] /\ locked' = [locked EXCEPT ![c] = k.locked]
      /\ toMn' = [toMn EXCEPT ![c] = @ \o k.sent]
      /\ UNCHANGED <<mn, sessions, mixed>>
    BY DEF Becomes
<1>2. k.pool \in ClientPool(sessions) /\ k.locked \subseteq Coin /\ k.sent \in Seq(ToMn)
    BY DEF Sound, Side
<1>3. toMn' \in [Client -> Seq(ToMn)]
    <2>1. toMn[c] \o k.sent \in Seq(ToMn)
        BY <1>2, ConcatProperties DEF Typed
    <2> QED BY <1>1, <2>1 DEF Typed
<1>4. requests' \in [Client -> Nat] /\ made' \in [Client -> Nat]
    <2> DEFINE S(type) == IF k.sent # <<>> /\ Head(k.sent).type = type THEN 1 ELSE 0
    <2>1. requests' = [requests EXCEPT ![c] = @ + S("dsa")] /\ made' = [made EXCEPT ![c] = @ + S("dsi")]
        BY Zenon DEF Becomes
    <2>2. S("dsa") \in Nat /\ S("dsi") \in Nat
        OBVIOUS
    <2> HIDE DEF S
    <2>3. requests[c] + S("dsa") \in Nat /\ made[c] + S("dsi") \in Nat
        BY <2>2 DEF Typed
    <2> QED BY <2>1, <2>3 DEF Typed
<1>5. ASSUME NEW d \in Client
      PROVE  /\ pool'[d].lockedCoins \subseteq locked'[d]
             /\ Coins(pool'[d].entries) \subseteq pool'[d].lockedCoins
             /\ pool'[d].entries # {} => pool'[d].found
    <2>1. CASE d = c
        <3>1. pool'[d] = k.pool /\ locked'[d] = k.locked
            BY <1>1, <2>1 DEF Typed
        <3> QED BY <3>1 DEF Sound
    <2>2. CASE d # c
        <3>1. pool'[d] = pool[d] /\ locked'[d] = locked[d]
            BY <1>1, <2>2 DEF Typed
        <3> QED BY <3>1 DEF Typed
    <2> QED BY <2>1, <2>2
<1>6. pool' \in [Client -> ClientPool(sessions)] /\ locked' \in [Client -> SUBSET Coin]
    BY <1>1, <1>2 DEF Typed
<1>7. sessions \in Nat /\ mn \in MnPool(sessions) /\ mixed \subseteq Entry
    BY DEF Typed
<1> QED BY <1>1, <1>3, <1>4, <1>5, <1>6, <1>7 DEF Typed

SessionStep == mn.sessionID # 0 /\ mn'.sessionID # mn.sessionID => mn'.sessionID = 0

LEMMA MnReceiveStep ==
    ASSUME IInv, NEW c \in Client, MnReceive(c)
    PROVE  IInv' /\ SessionStep
<1>t. /\ Typed /\ sessions \in Nat /\ mn \in MnPool(sessions) /\ mn.sessionID \in 0..sessions
      /\ mn.sessionUsers \in 0..MaxPoolTransactions
      /\ MaxPoolTransactions \in Nat /\ MaxPoolTransactions > 1
      /\ Mn \in World(sessions) /\ Mn.pool = mn
    BY TypedSides, DarksendAssumption DEF DarksendAssumption, IInv, Typed, MnPool
<1> DEFINE m == Head(toMn[c])
<1>1. m \in ToMn /\ toMn' \in [Client -> Seq(ToMn)]
    <2>1. toMn[c] \in Seq(ToMn) /\ toMn[c] # <<>>
        BY <1>t DEF Typed, MnReceive
    <2>2. Head(toMn[c]) \in ToMn /\ Tail(toMn[c]) \in Seq(ToMn)
        BY <2>1, HeadTailProperties
    <2>3. toMn' = [toMn EXCEPT ![c] = Tail(@)]
        BY DEF MnReceive
    <2> QED BY <1>t, <2>2, <2>3 DEF Typed
<1>2. m.type \in {"dsa", "dsi", "dss"}
    BY <1>1 DEF ToMn
<1>3. PICK w \in CASE m.type = "dsa" -> Dsa(Mn, c)
                   [] m.type = "dsi" -> Dsi(Mn, c, m.entry)
                   [] m.type = "dss" -> Dss(Mn, m.sig) :
             /\ mn' = w.pool /\ toClient' = w.net /\ mixed' = w.mixed
             /\ sessions' = IF w.pool.sessionID \in {0, mn.sessionID} THEN sessions ELSE sessions + 1
    BY Zenon DEF MnReceive
<1>4. UNCHANGED <<pool, locked, requests, made>>
    BY DEF MnReceive
<1> DEFINE Goal == w \in World(sessions') /\ sessions' \in {sessions, sessions + 1} /\ SessionInv' /\ SessionStep
<1>k. ASSUME w \in World(sessions), SessionKept(mn, w.pool) PROVE Goal
    <2>1. sessions' = sessions
        BY <1>3, <1>k DEF SessionKept
    <2> QED BY <1>3, <1>k, <2>1 DEF SessionKept, IInv, SessionInv, SessionStep
<1>5. ASSUME m.type = "dsa" PROVE Goal
    <2>1. w \in Dsa(Mn, c)
        BY <1>3, <1>5
    <2>2. \/ w \in World(sessions) /\ w.pool = mn
          \/ /\ w \in World(sessions + 1) /\ mn.sessionUsers = 0
             /\ w.pool.sessionID = sessions + 1 /\ w.pool.sessionUsers = 1
          \/ /\ w \in World(sessions) /\ mn.sessionUsers # 0
             /\ w.pool.sessionID = mn.sessionID /\ w.pool.sessionUsers = mn.sessionUsers + 1
        BY <1>t, <2>1, DsaTyped
    <2>3. CASE w \in World(sessions) /\ w.pool = mn
        BY <1>k, <2>3 DEF SessionKept
    <2>4. CASE /\ w \in World(sessions + 1) /\ mn.sessionUsers = 0
               /\ w.pool.sessionID = sessions + 1 /\ w.pool.sessionUsers = 1
        <3>1. mn.sessionID = 0
            BY <2>4 DEF IInv, SessionInv
        <3>2. sessions' = sessions + 1
            BY <1>t, <1>3, <2>4, <3>1
        <3> QED BY <1>3, <2>4, <3>1, <3>2 DEF SessionInv, SessionStep
    <2>5. CASE /\ w \in World(sessions) /\ mn.sessionUsers # 0
               /\ w.pool.sessionID = mn.sessionID /\ w.pool.sessionUsers = mn.sessionUsers + 1
        <3>1. sessions' = sessions /\ mn'.sessionUsers # 0 /\ mn'.sessionID = mn.sessionID
            BY <1>t, <1>3, <2>5
        <3> QED BY <2>5, <3>1 DEF SessionInv, SessionStep
    <2> QED BY <2>2, <2>3, <2>4, <2>5
<1>6. ASSUME m.type = "dsi" PROVE Goal
    <2>1. w \in Dsi(Mn, c, m.entry) /\ m.entry \in Entry
        BY <1>1, <1>3, <1>6 DEF ToMn
    <2>2. /\ w \in World(sessions)
          /\ \/ SessionKept(mn, w.pool)
             \/ /\ mn.sessionUsers >= MaxPoolTransactions /\ w.pool.sessionID = mn.sessionID
                /\ w.pool.sessionUsers = mn.sessionUsers - 1
        BY <1>t, <2>1, DsiTyped
    <2>3. ASSUME /\ mn.sessionUsers >= MaxPoolTransactions /\ w.pool.sessionID = mn.sessionID
                 /\ w.pool.sessionUsers = mn.sessionUsers - 1
          PROVE Goal
        <3>1. sessions' = sessions /\ mn'.sessionUsers # 0 /\ mn'.sessionID = mn.sessionID
            BY <1>t, <1>3, <2>3
        <3> QED BY <2>2, <3>1 DEF SessionInv, SessionStep
    <2> QED BY <1>k, <2>2, <2>3
<1>7. ASSUME m.type = "dss" PROVE Goal
    <2>1. w \in Dss(Mn, m.sig) /\ m.sig \in Signature
        BY <1>1, <1>3, <1>7 DEF ToMn
    <2> QED BY <1>t, <1>k, <2>1, DssTyped
<1> HIDE DEF m
<1>8. Goal
    BY <1>2, <1>5, <1>6, <1>7
<1>9. Typed'
    BY <1>t, <1>1, <1>3, <1>4, <1>8, MnStepTyped
<1> QED BY <1>8, <1>9 DEF IInv

-----------------------------------------------------------------------------
(* The other steps. *)

\* A step of the primenode by its timer: it opens no session.
LEMMA MnTimerStep ==
    ASSUME IInv, NEW w \in World(sessions), SessionKept(mn, w.pool),
           mn' = w.pool, toClient' = w.net, UNCHANGED <<sessions, mixed, toMn, pool, locked, requests, made>>
    PROVE  IInv' /\ SessionStep
<1>1. sessions' = sessions /\ sessions \in Nat /\ mixed' = mixed /\ mixed \subseteq Entry
      /\ mn' \in MnPool(sessions) /\ toClient' \in [Client -> Seq(FromMn(sessions))]
    BY DEF IInv, Typed, World
<1>2. Typed'
    BY <1>1 DEF IInv, Typed
<1>3. SessionInv' /\ SessionStep
    BY DEF SessionKept, IInv, SessionInv, SessionStep
<1> QED BY <1>2, <1>3 DEF IInv

LEMMA CheckForCompleteQueueStep ==
    ASSUME IInv, CheckForCompleteQueue
    PROVE  IInv' /\ SessionStep
<1> DEFINE u == UpdateState(Mn, "ACCEPTING_ENTRIES")
           w == Relay(u, [type |-> "dsq"])
<1>1. Typed /\ sessions \in Nat /\ Mn \in World(sessions) /\ Mn.pool = mn
    BY TypedSides DEF IInv, Typed
<1>2. "ACCEPTING_ENTRIES" \in State \ Ended /\ [type |-> "dsq"] \in FromMn(sessions)
    BY DEF State, Ended, FromMn
<1>3. u \in World(sessions) /\ SessionKept(mn, u.pool)
    BY <1>1, <1>2, UpdateStateTyped DEF SessionKept
<1>4. mn' = w.pool /\ toClient' = w.net /\ UNCHANGED <<sessions, mixed, toMn, pool, locked, requests, made>>
    BY DEF CheckForCompleteQueue
<1> HIDE DEF u
<1>5. w \in World(sessions) /\ w.pool = u.pool
    BY <1>1, <1>2, <1>3, RelayTyped
<1> HIDE DEF w
<1> QED BY <1>3, <1>4, <1>5, MnTimerStep

LEMMA MnTimeoutStep ==
    ASSUME IInv, MnTimeout
    PROVE  IInv' /\ SessionStep
<1>1. sessions \in Nat /\ Mn \in World(sessions) /\ Mn.net = toClient
    BY TypedSides DEF IInv, Typed, Mn
<1>2. SetNull(Mn) \in World(sessions) /\ SessionKept(mn, SetNull(Mn).pool)
    BY <1>1, SetNullTyped DEF SessionKept
<1>3. SetNull(Mn).net = toClient
    BY DEF SetNull, Mn
<1>4. /\ mn' = SetNull(Mn).pool /\ toClient' = toClient
      /\ UNCHANGED <<sessions, mixed, toMn, pool, locked, requests, made>>
    BY DEF MnTimeout
<1> DEFINE w == SetNull(Mn)
<1> HIDE DEF w
<1>5. w \in World(sessions) /\ SessionKept(mn, w.pool) /\ mn' = w.pool /\ toClient' = w.net
    BY <1>2, <1>3, <1>4 DEF w
<1> QED BY <1>4, <1>5, MnTimerStep

LEMMA EraseTyped ==
    ASSUME NEW n \in Nat, NEW w \in World(n), NEW e
    PROVE  Erase(w, e) \in World(n) /\ SessionKept(w.pool, Erase(w, e).pool)
<1> DEFINE left == w.pool.entries \ {e}
           sev == { g \in w.pool.sev : g.coin # e.coin }
           q == [w.pool EXCEPT !.entries = left, !.sev = sev]
           v == [w EXCEPT !.pool = q]
<1>1. w.pool \in MnPool(n)
    BY DEF World
<1>2. left \subseteq Entry /\ sev \subseteq Signature
    BY <1>1 DEF MnPool
<1>3. [w EXCEPT !.pool.entries = left, !.pool.sev = sev] = v
    BY <1>1 DEF World, MnPool
<1>4. Erase(w, e) = RelayStatus(SetNull(w)) \/ Erase(w, e) = RelayStatus(v)
    <2>1. \/ Erase(w, e) = RelayStatus(SetNull(w))
          \/ Erase(w, e) = RelayStatus([w EXCEPT !.pool.entries = left,
                                                 !.pool.sev = { g \in @ : g.coin # e.coin }])
        BY DEF Erase
    <2>2. [w EXCEPT !.pool.entries = left, !.pool.sev = { g \in @ : g.coin # e.coin }] = v
        BY <1>1 DEF World, MnPool
    <2> QED BY <2>1, <2>2
<1>5. q \in MnPool(n) /\ SessionKept(w.pool, q)
    <2> HIDE DEF left, sev
    <2> QED BY <1>1, <1>2 DEF MnPool, SessionKept
<1> HIDE DEF q
<1>6. v \in World(n) /\ v.pool = q
    BY <1>5, PoolReplaced
<1> HIDE DEF v
<1>7. SetNull(w) \in World(n) /\ SessionKept(w.pool, SetNull(w).pool)
    BY SetNullTyped DEF SessionKept
<1> QED BY <1>4, <1>5, <1>6, <1>7, RelayStatusTyped

LEMMA MnExpireEntryStep ==
    ASSUME IInv, MnExpireEntry
    PROVE  IInv' /\ SessionStep
<1>1. sessions \in Nat /\ Mn \in World(sessions) /\ Mn.pool = mn
    BY TypedSides DEF IInv, Typed
<1>2. PICK e \in mn.entries : mn' = Erase(Mn, e).pool /\ toClient' = Erase(Mn, e).net
    BY Zenon DEF MnExpireEntry
<1>3. UNCHANGED <<sessions, mixed, toMn, pool, locked, requests, made>>
    BY DEF MnExpireEntry
<1>4. Erase(Mn, e) \in World(sessions) /\ SessionKept(mn, Erase(Mn, e).pool)
    BY <1>1, EraseTyped
<1> QED BY <1>2, <1>3, <1>4, MnTimerStep

\* A step of a participant does nothing to the primenode's session.
LEMMA ClientStep ==
    ASSUME IInv, NEW c \in Client, NEW k, Sound(k, sessions), Becomes(c, k),
           toClient' \in [Client -> Seq(FromMn(sessions))]
    PROVE  IInv' /\ SessionStep
<1>1. Typed' /\ mn' = mn
    BY BecomesTyped DEF IInv
<1> QED BY <1>1 DEF IInv, SessionInv, SessionStep

LEMMA ClientReceiveStep ==
    ASSUME IInv, NEW c \in Client, ClientReceive(c)
    PROVE  IInv' /\ SessionStep
<1>1. Typed /\ sessions \in Nat /\ made[c] \in Nat /\ Sound(Participant(c), sessions)
    BY TypedSides DEF IInv, Typed
<1>2. toClient[c] \in Seq(FromMn(sessions)) /\ toClient[c] # <<>>
    BY <1>1 DEF Typed, ClientReceive
<1>3. Head(toClient[c]) \in FromMn(sessions) /\ Tail(toClient[c]) \in Seq(FromMn(sessions))
    BY <1>2, HeadTailProperties
<1>4. PICK k \in Receive(c, Participant(c), Head(toClient[c])) : Becomes(c, k)
    BY DEF ClientReceive
<1>5. Sound(k, sessions)
    BY <1>1, <1>3, ReceiveSound
<1>6. toClient' = [toClient EXCEPT ![c] = Tail(@)]
    BY DEF ClientReceive
<1>7. toClient' \in [Client -> Seq(FromMn(sessions))]
    BY <1>1, <1>3, <1>6 DEF Typed
<1> QED BY <1>4, <1>5, <1>7, ClientStep

LEMMA ClientTimerStep ==
    ASSUME IInv, NEW c \in Client, StartMixing(c) \/ ClientTimeout(c) \/ ClientExpireEntry(c)
    PROVE  IInv' /\ SessionStep
<1> DEFINE p == Participant(c)
           r == Release(p)
<1>1. Typed /\ sessions \in Nat /\ Sound(p, sessions)
    BY TypedSides DEF IInv, Typed
<1> HIDE DEF p
<1>2. Sound(r, sessions) /\ Sound(EnterState(r, "ERROR"), sessions)
    <2>1. "ERROR" \in State /\ p \in Side(sessions)
        BY <1>1 DEF State, Sound
    <2> HIDE DEF r
    <2>2. Sound(r, sessions)
        BY <1>1, <2>1, ReleaseSound DEF r
    <2> QED BY <1>1, <2>1, <2>2, EnterStateSound
<1>3. toClient' = toClient
    BY DEF StartMixing, ClientTimeout, ClientExpireEntry
<1>4. toClient' \in [Client -> Seq(FromMn(sessions))]
    BY <1>1, <1>3 DEF Typed
<1>5. \E k : Becomes(c, k) /\ Sound(k, sessions)
    <2>1. CASE StartMixing(c)
        <3>1. PICK k \in DoAutomaticDenominating(p) : Becomes(c, k)
            BY <2>1 DEF StartMixing, p
        <3>2. Sound(k, sessions)
            BY <1>1, <3>1, DoAutomaticDenominatingSound
        <3> QED BY <3>1, <3>2
    <2>2. CASE ClientTimeout(c)
        <3>1. Becomes(c, r) \/ Becomes(c, EnterState(r, "ERROR"))
            <4>1. Becomes(c, IF pool[c].state \in Collecting \cup Ended THEN r ELSE EnterState(r, "ERROR"))
                BY <2>2 DEF ClientTimeout, p
            <4> HIDE DEF r
            <4>2. CASE pool[c].state \in Collecting \cup Ended
                BY <4>1, <4>2, Zenon
            <4>3. CASE ~ (pool[c].state \in Collecting \cup Ended)
                BY <4>1, <4>3, Zenon
            <4> QED BY <4>2, <4>3
        <3> HIDE DEF r
        <3> QED BY <1>2, <3>1
    <2>3. CASE ClientExpireEntry(c)
        <3>1. Becomes(c, r)
            BY <2>3 DEF ClientExpireEntry, p
        <3> HIDE DEF r
        <3> QED BY <1>2, <3>1
    <2> QED BY <2>1, <2>2, <2>3
<1>6. PICK k : Becomes(c, k) /\ Sound(k, sessions)
    BY <1>5
<1> QED BY <1>4, <1>6, ClientStep

LEMMA DisconnectStep ==
    ASSUME IInv, NEW c \in Client, Disconnect(c)
    PROVE  IInv' /\ SessionStep
<1>1. /\ toMn' = [toMn EXCEPT ![c] = <<>>] /\ toClient' = [toClient EXCEPT ![c] = <<>>]
      /\ UNCHANGED <<mn, sessions, mixed, pool, locked, requests, made>>
    BY DEF Disconnect
<1>2. <<>> \in Seq(ToMn) /\ <<>> \in Seq(FromMn(sessions))
    BY EmptySeq
<1>3. toMn' \in [Client -> Seq(ToMn)] /\ toClient' \in [Client -> Seq(FromMn(sessions))]
    BY <1>1, <1>2 DEF IInv, Typed
<1>4. Typed'
    BY <1>1, <1>3 DEF IInv, Typed
<1> QED BY <1>1, <1>4 DEF IInv, SessionInv, SessionStep

LEMMA TickStep ==
    ASSUME IInv, Tick
    PROVE  IInv' /\ SessionStep
<1>1. /\ mn' = [mn EXCEPT !.age = IF mn.state = "IDLE" THEN 0 ELSE @ + 1]
      /\ pool' = [c \in Client |-> [pool[c] EXCEPT !.age = @ + 1]]
      /\ UNCHANGED <<sessions, mixed, toMn, toClient, locked, requests, made>>
    BY DEF Tick
<1>2. Typed
    BY DEF IInv
<1>3. /\ mn' \in MnPool(sessions)
      /\ mn'.sessionID = mn.sessionID /\ mn'.sessionUsers = mn.sessionUsers
    <2>1. mn \in MnPool(sessions)
        BY <1>2 DEF Typed
    <2> DEFINE a == IF mn.state = "IDLE" THEN 0 ELSE mn.age + 1
    <2>2. a \in Nat
        BY <2>1 DEF MnPool
    <2>3. mn' = [mn EXCEPT !.age = a]
        BY <1>1
    <2> HIDE DEF a
    <2> QED BY <2>1, <2>2, <2>3 DEF MnPool
<1>4. ASSUME NEW c \in Client
      PROVE  /\ pool'[c] \in ClientPool(sessions) /\ pool'[c].lockedCoins = pool[c].lockedCoins
             /\ pool'[c].entries = pool[c].entries /\ pool'[c].found = pool[c].found
    <2>1. pool[c] \in ClientPool(sessions)
        BY <1>2 DEF Typed
    <2>2. pool[c].age + 1 \in Nat
        BY <2>1 DEF ClientPool
    <2>3. pool'[c] = [pool[c] EXCEPT !.age = pool[c].age + 1]
        BY <1>1
    <2> QED BY <2>1, <2>2, <2>3 DEF ClientPool
<1>5. pool' \in [Client -> ClientPool(sessions)]
    <2>1. pool' = [c \in Client |-> pool'[c]]
        BY <1>1
    <2> QED BY <1>4, <2>1
<1>6. \A c \in Client : /\ pool'[c].lockedCoins \subseteq locked'[c]
                        /\ Coins(pool'[c].entries) \subseteq pool'[c].lockedCoins
                        /\ pool'[c].entries # {} => pool'[c].found
    BY <1>1, <1>2, <1>4 DEF Typed
<1>7. Typed'
    BY <1>1, <1>2, <1>3, <1>5, <1>6 DEF Typed
<1> QED BY <1>3, <1>7 DEF IInv, SessionInv, SessionStep

LEMMA InitInv == Init => IInv
<1> SUFFICES ASSUME Init PROVE IInv
    OBVIOUS
<1>1. sessions = 0 /\ mixed = {} /\ mn = NullMn
    BY DEF Init
<1>2. mn \in MnPool(0) /\ mn.sessionID = 0
    <2>1. {0} \subseteq 0..MaxPoolTransactions /\ 0 \in 0..0 /\ "IDLE" \in State \ Ended
        BY DarksendAssumption DEF DarksendAssumption, State, Ended
    <2> QED BY <1>1, <2>1 DEF NullMn, MnPool
<1>3. toMn \in [Client -> Seq(ToMn)] /\ toClient \in [Client -> Seq(FromMn(0))]
    BY EmptySeq DEF Init
<1>4. /\ locked \in [Client -> SUBSET Coin]
      /\ requests \in [Client -> Nat] /\ made \in [Client -> Nat]
    BY DEF Init
<1>5. /\ pool \in [Client -> ClientPool(0)]
      /\ \A c \in Client : pool[c].lockedCoins = {} /\ pool[c].entries = {}
    BY DEF Init, ClientPool, State
<1>6. Typed
    BY <1>1, <1>2, <1>3, <1>4, <1>5 DEF Typed, Coins
<1> QED BY <1>2, <1>6 DEF IInv, SessionInv

LEMMA NextInv == ASSUME IInv, [Next]_vars PROVE IInv' /\ SessionStep
<1>1. ASSUME NEW c \in Client, MnReceive(c) PROVE IInv' /\ SessionStep
    BY <1>1, MnReceiveStep
<1>2. ASSUME NEW c \in Client, ClientReceive(c) PROVE IInv' /\ SessionStep
    BY <1>2, ClientReceiveStep
<1>3. ASSUME NEW c \in Client, StartMixing(c) \/ ClientTimeout(c) \/ ClientExpireEntry(c)
      PROVE  IInv' /\ SessionStep
    BY <1>3, ClientTimerStep
<1>4. ASSUME NEW c \in Client, Disconnect(c) PROVE IInv' /\ SessionStep
    BY <1>4, DisconnectStep
<1>5. CASE CheckForCompleteQueue
    BY <1>5, CheckForCompleteQueueStep
<1>6. CASE MnTimeout
    BY <1>6, MnTimeoutStep
<1>7. CASE MnExpireEntry
    BY <1>7, MnExpireEntryStep
<1>8. CASE Tick
    BY <1>8, TickStep
<1>9. CASE UNCHANGED vars
    BY <1>9 DEF vars, IInv, Typed, SessionInv, SessionStep
<1> QED BY <1>1, <1>2, <1>3, <1>4, <1>5, <1>6, <1>7, <1>8, <1>9 DEF Next

LEMMA InductiveInvariant == Spec => []IInv
<1>1. IInv /\ [Next]_vars => IInv'
    BY NextInv
<1> QED BY <1>1, InitInv, PTL DEF Spec

-----------------------------------------------------------------------------
(* What a step appends to a queue. *)

\* t is s with messages of R behind it.
Relayed(s, t, R) ==
    /\ Len(s) <= Len(t)
    /\ \A i \in 1..Len(s) : t[i] = s[i]
    /\ \A i \in (Len(s) + 1)..Len(t) : t[i] \in R

\* The same, with one message a among those of R.
Answered(s, t, R, a) ==
    /\ Len(s) <= Len(t)
    /\ \A i \in 1..Len(s) : t[i] = s[i]
    /\ \E k \in (Len(s) + 1)..Len(t) :
         t[k] = a /\ \A i \in (Len(s) + 1)..Len(t) : i # k => t[i] \in R

LEMMA AppendFacts ==
    ASSUME NEW X, NEW s \in Seq(X), NEW m \in X
    PROVE  /\ Append(s, m) \in Seq(X) /\ Len(s) \in Nat /\ Len(Append(s, m)) = Len(s) + 1
           /\ \A i \in 1..Len(s) : Append(s, m)[i] = s[i]
           /\ Append(s, m)[Len(s) + 1] = m
  BY AppendProperties, LenProperties

LEMMA RelayedNothing ==
    ASSUME NEW X, NEW s \in Seq(X), NEW R
    PROVE  Relayed(s, s, R)
<1>1. Len(s) \in Nat
    BY LenProperties
<1> QED BY <1>1 DEF Relayed

LEMMA RelayedMore ==
    ASSUME NEW X, NEW s \in Seq(X), NEW t \in Seq(X), NEW R, NEW m \in X, Relayed(s, t, R), m \in R
    PROVE  Relayed(s, Append(t, m), R)
<1> DEFINE u == Append(t, m)
<1>1. /\ Len(s) \in Nat /\ Len(t) \in Nat /\ Len(u) = Len(t) + 1
      /\ \A i \in 1..Len(t) : u[i] = t[i]
      /\ u[Len(t) + 1] = m
    BY AppendFacts
<1> HIDE DEF u
<1>2. Len(s) <= Len(u)
    BY <1>1 DEF Relayed
<1>3. \A i \in 1..Len(s) : u[i] = s[i]
    BY <1>1 DEF Relayed
<1>4. ASSUME NEW i \in (Len(s) + 1)..Len(u) PROVE u[i] \in R
    <2>1. i \in (Len(s) + 1)..Len(t) \/ i = Len(t) + 1
        BY <1>1
    <2>2. i \in (Len(s) + 1)..Len(t) => i \in 1..Len(t)
        BY <1>1
    <2> QED BY <1>1, <2>1, <2>2 DEF Relayed
<1>5. Relayed(s, u, R)
    BY <1>2, <1>3, <1>4 DEF Relayed
<1> QED BY <1>5 DEF u

LEMMA RelayedOne ==
    ASSUME NEW n, NEW s \in Seq(FromMn(n)), NEW t \in Seq(FromMn(n)), NEW R, Relayed(s, t, R),
           NEW m, m \in FromMn(n), m \in R, NEW u, u = Append(t, m)
    PROVE  Relayed(s, u, R)
  BY RelayedMore

LEMMA AnsweredNow ==
    ASSUME NEW X, NEW s \in Seq(X), NEW t \in Seq(X), NEW R, NEW a \in X, Relayed(s, t, R)
    PROVE  Answered(s, Append(t, a), R, a)
<1> DEFINE u == Append(t, a)
<1>1. /\ Len(s) \in Nat /\ Len(t) \in Nat /\ Len(u) = Len(t) + 1
      /\ \A i \in 1..Len(t) : u[i] = t[i]
      /\ u[Len(t) + 1] = a
    BY AppendFacts
<1> HIDE DEF u
<1>2. Len(s) <= Len(u) /\ \A i \in 1..Len(s) : u[i] = s[i]
    BY <1>1 DEF Relayed
<1>3. Len(t) + 1 \in (Len(s) + 1)..Len(u)
    BY <1>1 DEF Relayed
<1>4. ASSUME NEW i \in (Len(s) + 1)..Len(u), i # Len(t) + 1 PROVE u[i] \in R
    <2>1. i \in (Len(s) + 1)..Len(t) /\ i \in 1..Len(t)
        BY <1>1, <1>4
    <2> QED BY <1>1, <2>1 DEF Relayed
<1>5. Answered(s, u, R, a)
    BY <1>1, <1>2, <1>3, <1>4 DEF Answered
<1> QED BY <1>5 DEF u

LEMMA AnsweredMore ==
    ASSUME NEW X, NEW s \in Seq(X), NEW t \in Seq(X), NEW R, NEW a, NEW m \in X,
           Answered(s, t, R, a), m \in R
    PROVE  Answered(s, Append(t, m), R, a)
<1> DEFINE u == Append(t, m)
<1>1. /\ Len(s) \in Nat /\ Len(t) \in Nat /\ Len(u) = Len(t) + 1
      /\ \A i \in 1..Len(t) : u[i] = t[i]
      /\ u[Len(t) + 1] = m
    BY AppendFacts
<1> HIDE DEF u
<1>2. PICK k \in (Len(s) + 1)..Len(t) :
         t[k] = a /\ \A i \in (Len(s) + 1)..Len(t) : i # k => t[i] \in R
    BY DEF Answered
<1>3. Len(s) <= Len(u) /\ \A i \in 1..Len(s) : u[i] = s[i]
    BY <1>1 DEF Answered
<1>4. k \in (Len(s) + 1)..Len(u) /\ k \in 1..Len(t) /\ u[k] = a
    <2>1. k \in (Len(s) + 1)..Len(u) /\ k \in 1..Len(t)
        BY <1>1
    <2> QED BY <1>1, <1>2, <2>1
<1>5. ASSUME NEW i \in (Len(s) + 1)..Len(u), i # k PROVE u[i] \in R
    <2>1. CASE i = Len(t) + 1
        BY <1>1, <2>1
    <2>2. CASE i # Len(t) + 1
        <3>1. i \in (Len(s) + 1)..Len(t) /\ i \in 1..Len(t)
            BY <1>1, <2>2
        <3> QED BY <1>1, <1>2, <1>5, <3>1
    <2> QED BY <2>1, <2>2
<1>6. Answered(s, u, R, a)
    BY <1>3, <1>4, <1>5 DEF Answered
<1> QED BY <1>6 DEF u

LEMMA RelayedTwice ==
    ASSUME NEW X, NEW s \in Seq(X), NEW t \in Seq(X), NEW u \in Seq(X), NEW R,
           Relayed(s, t, R), Relayed(t, u, R)
    PROVE  Relayed(s, u, R)
<1>1. Len(s) \in Nat /\ Len(t) \in Nat /\ Len(u) \in Nat
    BY LenProperties
<1>2. Len(s) <= Len(u) /\ \A i \in 1..Len(s) : i \in 1..Len(t)
    BY <1>1 DEF Relayed
<1>3. \A i \in 1..Len(s) : u[i] = s[i]
    BY <1>2 DEF Relayed
<1>4. ASSUME NEW i \in (Len(s) + 1)..Len(u) PROVE u[i] \in R
    <2>1. CASE i \in (Len(t) + 1)..Len(u)
        BY <2>1 DEF Relayed
    <2>2. CASE i \notin (Len(t) + 1)..Len(u)
        <3>1. i \in (Len(s) + 1)..Len(t) /\ i \in 1..Len(t)
            BY <1>1, <2>2 DEF Relayed
        <3> QED BY <3>1 DEF Relayed
    <2> QED BY <2>1, <2>2
<1> QED BY <1>2, <1>3, <1>4 DEF Relayed

-----------------------------------------------------------------------------
(* What the primenode's operators do to the whole pool and to each queue. *)

Status(id, s) == [type |-> "dssu", id |-> id, state |-> s, accepted |-> -1]

LEMMA RelayNet ==
    ASSUME NEW n \in Nat, NEW w \in World(n), NEW m \in FromMn(n)
    PROVE  \A d \in Client : Relay(w, m).net[d] = Append(w.net[d], m)
  BY DEF Relay, World

LEMMA RelayStatusNet ==
    ASSUME NEW n \in Nat, NEW w \in World(n)
    PROVE  /\ Status(w.pool.sessionID, w.pool.state) \in FromMn(n)
           /\ \A d \in Client : RelayStatus(w).net[d] = Append(w.net[d], Status(w.pool.sessionID, w.pool.state))
<1>1. Dssu(w.pool, -1) \in FromMn(n)
    BY DssuTyped DEF World
<1>2. Dssu(w.pool, -1) = Status(w.pool.sessionID, w.pool.state)
    BY DEF Dssu, Status
<1> QED BY <1>1, <1>2, RelayNet DEF RelayStatus

LEMMA ReplyNet ==
    ASSUME NEW n \in Nat, NEW w \in World(n), NEW c \in Client, NEW a \in {-1, 0, 1}
    PROVE  /\ Dssu(w.pool, a) \in FromMn(n)
           /\ Reply(w, c, a).net[c] = Append(w.net[c], Dssu(w.pool, a))
           /\ \A d \in Client : d # c => Reply(w, c, a).net[d] = w.net[d]
           /\ Reply(w, c, a).mixed = w.mixed /\ Reply(w, c, a).pool = w.pool
<1>1. Dssu(w.pool, a) \in FromMn(n)
    BY DssuTyped DEF World
<1> QED BY <1>1 DEF Reply, World

\* UpdateState, from another state.
LEMMA UpdateStateWhole ==
    ASSUME NEW n \in Nat, NEW w \in World(n), NEW s \in State \ Ended, w.pool.state # s
    PROVE  /\ UpdateState(w, s).pool = [w.pool EXCEPT !.state = s, !.age = 0]
           /\ \A d \in Client :
                UpdateState(w, s).net[d] = Append(w.net[d], Status(w.pool.sessionID, w.pool.state))
           /\ UpdateState(w, s).mixed = w.mixed
<1> DEFINE q == [w.pool EXCEPT !.age = 0]
           v == [w EXCEPT !.pool = q]
           x == RelayStatus(v)
           r == [x.pool EXCEPT !.state = s]
<1>1. w.pool \in MnPool(n)
    BY DEF World
<1>2. q \in MnPool(n) /\ q.sessionID = w.pool.sessionID /\ q.state = w.pool.state
      /\ [q EXCEPT !.state = s] = [w.pool EXCEPT !.state = s, !.age = 0]
    BY <1>1 DEF MnPool
<1>3. [w EXCEPT !.pool.age = 0] = v
    BY <1>1 DEF World, MnPool
<1> HIDE DEF q
<1>4. v \in World(n) /\ v.pool = q /\ v.mixed = w.mixed /\ v.net = w.net
    BY <1>2, PoolReplaced DEF World
<1> HIDE DEF v
<1>5. /\ x \in World(n) /\ x.pool = q /\ x.mixed = w.mixed
      /\ \A d \in Client : x.net[d] = Append(w.net[d], Status(w.pool.sessionID, w.pool.state))
    <2>1. /\ x \in World(n) /\ x.pool = v.pool /\ x.mixed = v.mixed
          /\ \A d \in Client : x.net[d] = Append(v.net[d], Status(v.pool.sessionID, v.pool.state))
        BY <1>4, RelayStatusTyped, RelayStatusNet
    <2> QED BY <1>2, <1>4, <2>1
<1>6. UpdateState(w, s) = [x EXCEPT !.pool.state = s]
    BY <1>3 DEF UpdateState
<1> HIDE DEF x
<1>7. UpdateState(w, s) = [x EXCEPT !.pool = r]
    BY <1>5, <1>6, <1>2 DEF World, MnPool
<1>8. r = [w.pool EXCEPT !.state = s, !.age = 0]
    BY <1>2, <1>5
<1> HIDE DEF r
<1>9. [x EXCEPT !.pool = r].pool = r /\ [x EXCEPT !.pool = r].net = x.net /\ [x EXCEPT !.pool = r].mixed = x.mixed
    BY <1>5 DEF World
<1> QED BY <1>5, <1>7, <1>8, <1>9

LEMMA FinalizeWhole ==
    ASSUME NEW n \in Nat, NEW w \in World(n), w.pool.state = "ACCEPTING_ENTRIES"
    PROVE  LET p == w.pool
           IN  /\ Finalize(w).pool = [p EXCEPT !.state = "SIGNING", !.age = 0, !.tx = p.entries, !.txSigs = p.sev]
               /\ Finalize(w).mixed = w.mixed
               /\ Status(p.sessionID, "ACCEPTING_ENTRIES") \in FromMn(n)
               /\ Status(p.sessionID, "FINALIZE_TRANSACTION") \in FromMn(n)
               /\ [type |-> "dsf", id |-> p.sessionID, tx |-> p.entries] \in FromMn(n)
               /\ \A d \in Client :
                    Finalize(w).net[d] =
                      Append(Append(Append(w.net[d], Status(p.sessionID, "ACCEPTING_ENTRIES")),
                                    Status(p.sessionID, "FINALIZE_TRANSACTION")),
                             [type |-> "dsf", id |-> p.sessionID, tx |-> p.entries])
<1> DEFINE p == w.pool
           a == UpdateState(w, "FINALIZE_TRANSACTION")
           u == UpdateState(a, "SIGNING")
           q == [u.pool EXCEPT !.tx = u.pool.entries, !.txSigs = u.pool.sev]
           v == [u EXCEPT !.pool = q]
           m == [type |-> "dsf", id |-> v.pool.sessionID, tx |-> v.pool.tx]
           pa == [p EXCEPT !.state = "FINALIZE_TRANSACTION", !.age = 0]
           pu == [p EXCEPT !.state = "SIGNING", !.age = 0]
           pv == [p EXCEPT !.state = "SIGNING", !.age = 0, !.tx = p.entries, !.txSigs = p.sev]
<1>s. {"FINALIZE_TRANSACTION", "SIGNING", "ACCEPTING_ENTRIES"} \subseteq State \ Ended
    BY DEF State, Ended
<1>p. p \in MnPool(n)
    BY DEF World
<1>1. /\ pa.state = "FINALIZE_TRANSACTION" /\ pa.sessionID = p.sessionID
      /\ [pa EXCEPT !.state = "SIGNING", !.age = 0] = pu
      /\ pu.sessionID = p.sessionID /\ pu.entries = p.entries /\ pu.sev = p.sev
      /\ [pu EXCEPT !.tx = pu.entries, !.txSigs = pu.sev] = pv
      /\ pv.sessionID = p.sessionID /\ pv.tx = p.entries /\ pv \in MnPool(n)
    BY <1>p, <1>s DEF MnPool
<1> HIDE DEF pa, pu, pv
<1>2. /\ a \in World(n) /\ a.pool = pa /\ a.mixed = w.mixed
      /\ \A d \in Client : a.net[d] = Append(w.net[d], Status(p.sessionID, "ACCEPTING_ENTRIES"))
    <2>1. w.pool.state # "FINALIZE_TRANSACTION" /\ "FINALIZE_TRANSACTION" \in State \ Ended
        BY <1>s
    <2>2. /\ a.pool = [w.pool EXCEPT !.state = "FINALIZE_TRANSACTION", !.age = 0] /\ a.mixed = w.mixed
          /\ \A d \in Client : a.net[d] = Append(w.net[d], Status(w.pool.sessionID, w.pool.state))
        BY <2>1, UpdateStateWhole
    <2>3. a \in World(n)
        BY <2>1, UpdateStateTyped
    <2> QED BY <2>2, <2>3 DEF pa
<1> HIDE DEF a
<1>3. /\ u \in World(n) /\ u.pool = pu /\ u.mixed = w.mixed
      /\ \A d \in Client : u.net[d] = Append(a.net[d], Status(p.sessionID, "FINALIZE_TRANSACTION"))
    <2>1. a.pool.state # "SIGNING" /\ "SIGNING" \in State \ Ended
        BY <1>1, <1>2, <1>s
    <2>2. /\ u.pool = [a.pool EXCEPT !.state = "SIGNING", !.age = 0] /\ u.mixed = a.mixed
          /\ \A d \in Client : u.net[d] = Append(a.net[d], Status(a.pool.sessionID, a.pool.state))
        BY <1>2, <2>1, UpdateStateWhole
    <2>3. u \in World(n)
        BY <1>2, <2>1, UpdateStateTyped
    <2> QED BY <1>1, <1>2, <2>2, <2>3
<1> HIDE DEF u
<1>4. q = pv /\ u.pool \in MnPool(n)
    BY <1>1, <1>3 DEF World
<1>5. [[u EXCEPT !.pool.tx = u.pool.entries] EXCEPT !.pool.txSigs = u.pool.sev] = v
    BY <1>3, <1>4 DEF World, MnPool
<1> HIDE DEF q
<1>6. v \in World(n) /\ v.pool = pv /\ v.net = u.net /\ v.mixed = u.mixed
    BY <1>1, <1>3, <1>4 DEF World
<1>7. Finalize(w) = Relay(v, m)
    BY <1>5 DEF Finalize, a, u
<1>8. m = [type |-> "dsf", id |-> p.sessionID, tx |-> p.entries]
    BY <1>1, <1>6
<1> HIDE DEF v
<1>9. p.sessionID \in 0..n /\ p.entries \subseteq Entry
    BY <1>p DEF MnPool
<1>10. /\ m \in FromMn(n) /\ Status(p.sessionID, "ACCEPTING_ENTRIES") \in FromMn(n)
       /\ Status(p.sessionID, "FINALIZE_TRANSACTION") \in FromMn(n)
    BY <1>8, <1>9, <1>s DEF FromMn, Status
<1> HIDE DEF m
<1>11. Relay(v, m).pool = pv /\ Relay(v, m).mixed = w.mixed
       /\ \A d \in Client : Relay(v, m).net[d] = Append(u.net[d], m)
    <2>1. /\ Relay(v, m).pool = v.pool /\ Relay(v, m).mixed = v.mixed
          /\ \A d \in Client : Relay(v, m).net[d] = Append(v.net[d], m)
        BY <1>6, <1>10, RelayTyped, RelayNet
    <2> QED BY <1>3, <1>6, <2>1
<1>12. \A d \in Client :
          Relay(v, m).net[d] =
            Append(Append(Append(w.net[d], Status(p.sessionID, "ACCEPTING_ENTRIES")),
                          Status(p.sessionID, "FINALIZE_TRANSACTION")), m)
    BY <1>2, <1>3, <1>11
<1> QED BY <1>7, <1>8, <1>10, <1>11, <1>12 DEF pv

-----------------------------------------------------------------------------
(* The primenode's pool between steps. *)

Sealed == {"SIGNING", "TRANSMISSION"}

\* From the signing on the transaction is what the entries say, and until then there
\* are no signatures.
MnInv(p) ==
    /\ IsFiniteSet(p.entries)
    /\ \A e, f \in p.entries : e.coin = f.coin => e = f
    /\ p.state \in Collecting \cup Sealed \cup {"IDLE"}
    /\ p.state \in Sealed => p.tx = p.entries /\ Cardinality(p.entries) >= MaxPoolTransactions
    /\ p.state \notin Sealed => p.sev = {}
    /\ p.state = "SIGNING" => p.txSigs = p.sev
    /\ \A g \in p.sev : g.tx = p.entries
    /\ p.sessionID = 0 => p.sessionUsers = 0 /\ p.entries = {} /\ p.state \in {"IDLE", "ACCEPTING_ENTRIES"}
    /\ p.sessionID # 0 => p.state # "IDLE"

\* The session is over.
Nulled(q) ==
    /\ q.sessionID = 0 /\ q.sessionUsers = 0 /\ q.entries = {} /\ q.sev = {}
    /\ q.state \in {"IDLE", "ACCEPTING_ENTRIES"}

LEMMA NulledInv == ASSUME NEW q, Nulled(q) PROVE MnInv(q)
<1>1. IsFiniteSet({})
    BY FS_EmptySet
<1> QED BY <1>1 DEF Nulled, MnInv, Sealed, Collecting

\* A signature for an entry of the pool is one over its transaction.
Fits(p, g) == g.coin \in Coins(p.entries) => p.state \in Sealed /\ g.tx = p.entries

\* Only the number of users, the age and what was not yet begun differ.
Same(p, q) ==
    /\ q.state = p.state /\ q.sessionID = p.sessionID /\ q.entries = p.entries
    /\ q.age = p.age \/ p.state \in Collecting

LEMMA AddScriptSigOutcome ==
    ASSUME NEW n \in Nat, NEW p \in MnPool(n), MnInv(p), NEW g \in Signature, Fits(p, g)
    PROVE  LET q == AddScriptSig(p, g)
           IN  /\ q \in MnPool(n) /\ MnInv(q) /\ Same(p, q)
               /\ q.sessionUsers = p.sessionUsers /\ q.age = p.age /\ q.tx = p.tx
               /\ \/ q.sev = p.sev
                  \/ p.state \in Sealed /\ g.tx = p.entries /\ q.sev = p.sev \cup {g}
<1>1. CASE g \in p.sev
    <2>1. AddScriptSig(p, g) = p
        BY <1>1 DEF AddScriptSig
    <2> QED BY <2>1 DEF Same
<1>2. CASE g \notin p.sev
    <2> DEFINE A == IF g.coin \in Coins(p.tx) THEN { h \in p.txSigs : h.coin # g.coin } \cup {g} ELSE p.txSigs
               B == IF g.coin \in Coins(p.entries) \ Coins(p.sev) THEN p.sev \cup {g} ELSE p.sev
               q == [p EXCEPT !.txSigs = A, !.sev = B]
    <2>1. AddScriptSig(p, g) = q
        BY <1>2 DEF AddScriptSig
    <2>2. A \subseteq Signature /\ B \subseteq Signature
        BY DEF MnPool
    <2>3. B = p.sev \/ (p.state \in Sealed /\ g.tx = p.entries /\ B = p.sev \cup {g})
        BY DEF Fits
    <2>4. p.state = "SIGNING" => A = B
        <3> SUFFICES ASSUME p.state = "SIGNING" PROVE A = B
            OBVIOUS
        <3>1. p.txSigs = p.sev /\ p.tx = p.entries
            BY DEF MnInv, Sealed
        <3>2. CASE g.coin \notin Coins(p.entries)
            BY <3>1, <3>2
        <3>3. CASE g.coin \in Coins(p.entries)
            <4>1. g.tx = p.entries
                BY <3>3 DEF Fits
            <4>2. ASSUME NEW h \in p.sev, h.coin = g.coin PROVE FALSE
                <5>1. h.tx = p.entries /\ h \in Signature
                    BY DEF MnInv, MnPool
                <5>2. h = g
                    BY <4>1, <4>2, <5>1 DEF Signature
                <5> QED BY <1>2, <5>2
            <4>3. g.coin \notin Coins(p.sev) /\ { h \in p.sev : h.coin # g.coin } = p.sev
                BY <4>2 DEF Coins
            <4> QED BY <3>1, <3>3, <4>3
        <3> QED BY <3>2, <3>3
    <2> HIDE DEF A, B
    <2>5. /\ q \in MnPool(n) /\ q.state = p.state /\ q.sessionID = p.sessionID /\ q.sessionUsers = p.sessionUsers
          /\ q.entries = p.entries /\ q.tx = p.tx /\ q.age = p.age /\ q.sev = B /\ q.txSigs = A
        BY <2>2 DEF MnPool
    <2> HIDE DEF q
    <2>6. MnInv(q)
        BY <2>3, <2>4, <2>5 DEF MnInv
    <2>7. Same(p, q)
        BY <2>5 DEF Same
    <2> QED BY <2>1, <2>3, <2>5, <2>6, <2>7
<1> QED BY <1>1, <1>2

\* What goes to everyone at the end of a session.
Over(id) ==
    {Status(id, "SIGNING"), Status(0, "IDLE"), Status(0, "ACCEPTING_ENTRIES"),
     [type |-> "dsc", id |-> id], [type |-> "dsc", id |-> 0]}

LEMMA SetNullNet ==
    ASSUME NEW n \in Nat, NEW w \in World(n) PROVE SetNull(w).net = w.net
  BY DEF SetNull, World

LEMMA NullMnFields ==
    /\ NullMn.state = "IDLE" /\ NullMn.sessionID = 0 /\ NullMn.sessionUsers = 0
    /\ NullMn.entries = {} /\ NullMn.sev = {} /\ Nulled(NullMn)
  BY DEF NullMn, Nulled

LEMMA CheckFinalTransactionOutcome ==
    ASSUME NEW n \in Nat, NEW w \in World(n), NEW x \in CheckFinalTransaction(w)
    PROVE  \/ /\ Nulled(x.pool) /\ x.mixed \subseteq w.mixed \cup w.pool.tx
              /\ \A d \in Client : Relayed(w.net[d], x.net[d], Over(w.pool.sessionID))
           \/ /\ x.pool = w.pool /\ x.net = w.net /\ x.mixed = w.mixed \cup w.pool.tx
<1> DEFINE p == w.pool
           sent == [w EXCEPT !.mixed = @ \cup p.tx]
           z == SetNull(w)
           a == UpdateState(z, "ACCEPTING_ENTRIES")
           none == [type |-> "dsc", id |-> 0]
           done == [type |-> "dsc", id |-> p.sessionID]
           r == Relay(sent, done)
           y == SetNull(r)
<1>p. p \in MnPool(n) /\ p.tx \subseteq Entry /\ p.sessionID \in 0..n /\ 0 \in 0..n
    BY DEF World, MnPool
<1>s. none \in FromMn(n) /\ done \in FromMn(n) /\ "ACCEPTING_ENTRIES" \in State \ Ended
    BY <1>p DEF FromMn, State, Ended
<1>o. /\ Status(0, "IDLE") \in Over(p.sessionID)
      /\ none \in Over(p.sessionID) /\ done \in Over(p.sessionID)
    BY DEF Over
<1>1. x = Relay(a, none) \/ x = RelayStatus(y) \/ x = sent
    BY Zenon DEF CheckFinalTransaction
<1>2. CASE x = Relay(a, none)
    <2>1. z \in World(n) /\ z.pool = NullMn /\ z.mixed = w.mixed /\ z.net = w.net
        BY SetNullTyped, SetNullNet
    <2>2. z.pool.state # "ACCEPTING_ENTRIES" /\ z.pool.state = "IDLE" /\ z.pool.sessionID = 0
        BY <2>1, NullMnFields
    <2> HIDE DEF z
    <2>3. /\ a.pool = [NullMn EXCEPT !.state = "ACCEPTING_ENTRIES", !.age = 0] /\ a.mixed = w.mixed
          /\ \A d \in Client : a.net[d] = Append(w.net[d], Status(0, "IDLE"))
        <3>1. /\ a.pool = [z.pool EXCEPT !.state = "ACCEPTING_ENTRIES", !.age = 0] /\ a.mixed = z.mixed
              /\ \A d \in Client : a.net[d] = Append(z.net[d], Status(z.pool.sessionID, z.pool.state))
            BY <2>1, <2>2, <1>s, UpdateStateWhole
        <3> QED BY <2>1, <2>2, <3>1
    <2>4. a \in World(n)
        BY <2>1, <1>s, UpdateStateTyped
    <2>5. Nulled(a.pool)
        BY <2>3 DEF NullMn, Nulled
    <2>6. Status(0, "IDLE") \in FromMn(n)
        BY <1>p DEF FromMn, Status, State
    <2> HIDE DEF a, none
    <2>7. /\ x.pool = a.pool /\ x.mixed = a.mixed
          /\ \A d \in Client : x.net[d] = Append(a.net[d], none)
        BY <1>2, <1>s, <2>4, RelayTyped, RelayNet
    <2>8. ASSUME NEW d \in Client PROVE Relayed(w.net[d], x.net[d], Over(p.sessionID))
        <3>1. w.net[d] \in Seq(FromMn(n)) /\ a.net[d] \in Seq(FromMn(n))
            BY <2>4 DEF World
        <3>2. Relayed(w.net[d], w.net[d], Over(p.sessionID))
            BY <3>1, RelayedNothing
        <3>3. a.net[d] = Append(w.net[d], Status(0, "IDLE")) /\ x.net[d] = Append(a.net[d], none)
            BY <2>3, <2>7
        <3>4. Relayed(w.net[d], a.net[d], Over(p.sessionID))
            BY ONLY <1>o, <2>6, <3>1, <3>2, <3>3, RelayedOne
        <3> QED BY ONLY <1>o, <1>s, <3>1, <3>3, <3>4, RelayedOne
    <2> QED BY <2>3, <2>5, <2>7, <2>8
<1>3. CASE x = RelayStatus(y)
    <2>1. sent \in World(n) /\ sent.net = w.net /\ sent.mixed = w.mixed \cup p.tx /\ sent.pool = p
        BY <1>p DEF World
    <2> HIDE DEF sent, done
    <2>2. /\ r \in World(n) /\ r.mixed = sent.mixed
          /\ \A d \in Client : r.net[d] = Append(w.net[d], done)
        <3>1. r \in World(n) /\ r.mixed = sent.mixed
            BY ONLY n \in Nat, <2>1, <1>s, RelayTyped DEF r
        <3>2. \A d \in Client : r.net[d] = Append(sent.net[d], done)
            BY ONLY n \in Nat, <2>1, <1>s, RelayNet DEF r
        <3> QED BY ONLY <2>1, <3>1, <3>2
    <2> HIDE DEF r
    <2>3. y \in World(n) /\ y.pool = NullMn /\ y.mixed = r.mixed /\ y.net = r.net
        BY <2>2, SetNullTyped, SetNullNet
    <2> HIDE DEF y
    <2>4. /\ x.pool = y.pool /\ x.mixed = y.mixed /\ Status(y.pool.sessionID, y.pool.state) \in FromMn(n)
          /\ \A d \in Client : x.net[d] = Append(y.net[d], Status(y.pool.sessionID, y.pool.state))
        BY <1>3, <2>3, RelayStatusTyped, RelayStatusNet
    <2>5. Status(y.pool.sessionID, y.pool.state) = Status(0, "IDLE") /\ Nulled(y.pool)
        BY <2>3, NullMnFields
    <2>6. ASSUME NEW d \in Client PROVE Relayed(w.net[d], x.net[d], Over(p.sessionID))
        <3>1. w.net[d] \in Seq(FromMn(n)) /\ y.net[d] \in Seq(FromMn(n)) /\ y.net[d] = Append(w.net[d], done)
            BY <2>2, <2>3 DEF World
        <3>2. Relayed(w.net[d], w.net[d], Over(p.sessionID))
            BY <3>1, RelayedNothing
        <3>3. Relayed(w.net[d], y.net[d], Over(p.sessionID))
            BY ONLY <1>o, <1>s, <3>1, <3>2, RelayedOne
        <3>4. x.net[d] = Append(y.net[d], Status(0, "IDLE")) /\ Status(0, "IDLE") \in FromMn(n)
            BY <2>4, <2>5
        <3> QED BY ONLY <1>o, <3>1, <3>3, <3>4, RelayedOne
    <2> QED BY <2>1, <2>2, <2>3, <2>4, <2>5, <2>6
<1>4. CASE x = sent
    <2>1. sent.net = w.net /\ sent.mixed = w.mixed \cup p.tx /\ sent.pool = p
        BY DEF World
    <2> QED BY <1>4, <2>1
<1> QED BY <1>1, <1>2, <1>3, <1>4

LEMMA CheckSealed ==
    ASSUME NEW w, w.pool.state \in Sealed, NEW x \in Check(w)
    PROVE  \/ x = w
           \/ /\ w.pool.state = "SIGNING" /\ SignaturesComplete(w.pool)
              /\ x \in CheckFinalTransaction(UpdateState(w, "TRANSMISSION"))
  BY DEF Check, Sealed

\* A signature is counted, or not, and no more; or it is the last one.
DssCounted(w, x, g) ==
    LET p == w.pool   q == x.pool
    IN  /\ MnInv(q) /\ Same(p, q) /\ q.sessionUsers = p.sessionUsers /\ q.age = p.age
        /\ q.sev = p.sev \/ (p.state \in Sealed /\ g.tx = p.entries /\ q.sev = p.sev \cup {g})
        /\ x.mixed = w.mixed
        /\ \A d \in Client : Relayed(w.net[d], x.net[d], {Status(p.sessionID, p.state)})

DssLast(w, x, g) ==
    LET p == w.pool   q == x.pool
    IN  /\ p.state = "SIGNING" /\ g.tx = p.entries /\ Coins(p.entries) \subseteq Coins(p.sev \cup {g})
        /\ x.mixed \subseteq w.mixed \cup p.entries
        /\ \/ /\ Nulled(q)
              /\ \A d \in Client : Relayed(w.net[d], x.net[d], Over(p.sessionID))
           \/ /\ MnInv(q) /\ q.sessionID = p.sessionID /\ q.sessionUsers = p.sessionUsers
              /\ q.state = "TRANSMISSION" /\ q.entries = p.entries /\ q.sev = p.sev \cup {g}
              /\ \A d \in Client : Relayed(w.net[d], x.net[d], {Status(p.sessionID, s) : s \in Sealed})

LEMMA DssEnds ==
    ASSUME NEW n \in Nat, NEW w \in World(n), MnInv(w.pool), NEW g \in Signature, Fits(w.pool, g),
           NEW x \in Dss(w, g)
    PROVE  DssCounted(w, x, g) \/ DssLast(w, x, g)
<1> DEFINE p == w.pool
           q == AddScriptSig(p, g)
           v == [w EXCEPT !.pool = q]
           t == UpdateState(v, "TRANSMISSION")
           R == {Status(p.sessionID, p.state)}
<1>p. p \in MnPool(n)
    BY DEF World
<1>1. /\ q \in MnPool(n) /\ MnInv(q) /\ Same(p, q)
      /\ q.sessionUsers = p.sessionUsers /\ q.age = p.age /\ q.tx = p.tx
      /\ q.sev = p.sev \/ (p.state \in Sealed /\ g.tx = p.entries /\ q.sev = p.sev \cup {g})
    BY <1>p, AddScriptSigOutcome
<1>2. (x = v /\ v.pool.sev = w.pool.sev) \/ \E u \in Check(v) : v.pool.sev # w.pool.sev /\ x = RelayStatus(u)
    BY Zenon DEF Dss
<1> HIDE DEF q
<1>3. v \in World(n) /\ v.pool = q /\ v.net = w.net /\ v.mixed = w.mixed
    BY <1>1 DEF World
<1> HIDE DEF v
<1>4. CASE x = v
    <2>1. \A d \in Client : Relayed(w.net[d], x.net[d], R)
        <3> TAKE d \in Client
        <3>1. w.net[d] \in Seq(FromMn(n)) /\ x.net[d] = w.net[d]
            BY <1>3, <1>4 DEF World
        <3> QED BY <3>1, RelayedNothing
    <2>2. DssCounted(w, x, g)
        BY <1>1, <1>3, <1>4, <2>1 DEF DssCounted
    <2> QED BY <2>2
<1>5. ASSUME NEW u \in Check(v), v.pool.sev # w.pool.sev, x = RelayStatus(u)
      PROVE  DssCounted(w, x, g) \/ DssLast(w, x, g)
    <2>1. p.state \in Sealed /\ g.tx = p.entries /\ q.sev = p.sev \cup {g} /\ v.pool.state \in Sealed
        BY <1>1, <1>3, <1>5 DEF Same
    <2>2. \/ u = v
          \/ /\ v.pool.state = "SIGNING" /\ SignaturesComplete(v.pool) /\ u \in CheckFinalTransaction(t)
        BY <2>1, CheckSealed
    <2>3. CASE u = v
        <3>1. /\ x.pool = q /\ x.mixed = w.mixed /\ Status(q.sessionID, q.state) \in FromMn(n)
              /\ \A d \in Client : x.net[d] = Append(w.net[d], Status(q.sessionID, q.state))
            <4>1. /\ x.pool = v.pool /\ x.mixed = v.mixed /\ Status(v.pool.sessionID, v.pool.state) \in FromMn(n)
                  /\ \A d \in Client : x.net[d] = Append(v.net[d], Status(v.pool.sessionID, v.pool.state))
                BY <1>3, <1>5, <2>3, RelayStatusTyped, RelayStatusNet
            <4> QED BY <1>3, <4>1
        <3>2. \A d \in Client : Relayed(w.net[d], x.net[d], R)
            <4> TAKE d \in Client
            <4>1. w.net[d] \in Seq(FromMn(n))
                BY DEF World
            <4>2. Relayed(w.net[d], w.net[d], R)
                BY <4>1, RelayedNothing
            <4>3. /\ Status(p.sessionID, p.state) \in R /\ Status(p.sessionID, p.state) \in FromMn(n)
                  /\ x.net[d] = Append(w.net[d], Status(p.sessionID, p.state))
                BY <1>1, <3>1 DEF Same
            <4> QED BY ONLY <4>1, <4>2, <4>3, RelayedOne
        <3>3. DssCounted(w, x, g)
            BY <1>1, <2>1, <3>1, <3>2 DEF DssCounted
        <3> QED BY <3>3
    <2>4. CASE v.pool.state = "SIGNING" /\ SignaturesComplete(v.pool) /\ u \in CheckFinalTransaction(t)
        <3>1. p.state = "SIGNING" /\ q.state = "SIGNING" /\ q.entries = p.entries /\ q.sessionID = p.sessionID
              /\ q.tx = p.entries
            BY <1>1, <1>3, <2>4 DEF Same, MnInv, Sealed
        <3>2. Coins(p.entries) \subseteq Coins(p.sev \cup {g})
            BY <1>3, <2>1, <2>4, <3>1 DEF SignaturesComplete
        <3> DEFINE pt == [q EXCEPT !.state = "TRANSMISSION", !.age = 0]
        <3>s. "TRANSMISSION" \in State \ Ended
            BY DEF State, Ended
        <3>3. /\ t \in World(n) /\ t.pool = pt /\ t.mixed = w.mixed
              /\ \A d \in Client : t.net[d] = Append(w.net[d], Status(p.sessionID, "SIGNING"))
            <4>1. v.pool.state # "TRANSMISSION"
                BY <2>4
            <4>2. /\ t.pool = [v.pool EXCEPT !.state = "TRANSMISSION", !.age = 0] /\ t.mixed = v.mixed
                  /\ \A d \in Client : t.net[d] = Append(v.net[d], Status(v.pool.sessionID, v.pool.state))
                BY <1>3, <3>s, <4>1, UpdateStateWhole
            <4>3. t \in World(n)
                BY <1>3, <3>s, UpdateStateTyped
            <4> QED BY <1>3, <3>1, <4>2, <4>3
        <3>4. /\ pt.state = "TRANSMISSION" /\ pt.sessionID = p.sessionID /\ pt.sessionUsers = p.sessionUsers
              /\ pt.entries = p.entries /\ pt.sev = p.sev \cup {g} /\ pt.tx = p.entries
            BY <1>1, <2>1, <3>1 DEF MnPool
        <3>5. MnInv(pt)
            BY <1>1, <2>1, <3>1, <3>4 DEF MnInv, Sealed
        <3> HIDE DEF t, pt
        <3>6. \/ /\ Nulled(u.pool) /\ u.mixed \subseteq w.mixed \cup p.entries
                 /\ \A d \in Client : Relayed(t.net[d], u.net[d], Over(p.sessionID))
              \/ /\ u.pool = pt /\ u.net = t.net /\ u.mixed = w.mixed \cup p.entries
            <4>1. \/ /\ Nulled(u.pool) /\ u.mixed \subseteq t.mixed \cup t.pool.tx
                     /\ \A d \in Client : Relayed(t.net[d], u.net[d], Over(t.pool.sessionID))
                  \/ /\ u.pool = t.pool /\ u.net = t.net /\ u.mixed = t.mixed \cup t.pool.tx
                BY <2>4, <3>3, CheckFinalTransactionOutcome
            <4> QED BY <3>3, <3>4, <4>1
        <3>7. u \in World(n)
            BY <2>4, <3>3, CheckFinalTransactionTyped
        <3>8. /\ x.pool = u.pool /\ x.mixed = u.mixed /\ Status(u.pool.sessionID, u.pool.state) \in FromMn(n)
              /\ \A d \in Client : x.net[d] = Append(u.net[d], Status(u.pool.sessionID, u.pool.state))
            BY <1>5, <3>7, RelayStatusTyped, RelayStatusNet
        <3>9. p.sessionID \in 0..n /\ Status(p.sessionID, "SIGNING") \in FromMn(n)
            BY <1>p DEF MnPool, FromMn, Status, State
        <3>10. CASE /\ Nulled(u.pool) /\ u.mixed \subseteq w.mixed \cup p.entries
                    /\ \A d \in Client : Relayed(t.net[d], u.net[d], Over(p.sessionID))
            <4>1. Status(p.sessionID, "SIGNING") \in Over(p.sessionID)
                  /\ Status(u.pool.sessionID, u.pool.state) \in Over(p.sessionID)
                BY <3>10 DEF Nulled, Over
            <4>2. \A d \in Client : Relayed(w.net[d], x.net[d], Over(p.sessionID))
                <5> TAKE d \in Client
                <5>1. w.net[d] \in Seq(FromMn(n)) /\ t.net[d] \in Seq(FromMn(n)) /\ u.net[d] \in Seq(FromMn(n))
                    BY <3>3, <3>7 DEF World
                <5>2. Relayed(w.net[d], w.net[d], Over(p.sessionID))
                    BY <5>1, RelayedNothing
                <5>3. t.net[d] = Append(w.net[d], Status(p.sessionID, "SIGNING"))
                      /\ x.net[d] = Append(u.net[d], Status(u.pool.sessionID, u.pool.state))
                    BY <3>3, <3>8
                <5>4. Relayed(w.net[d], t.net[d], Over(p.sessionID))
                    BY ONLY <3>9, <4>1, <5>1, <5>2, <5>3, RelayedOne
                <5>5. Relayed(t.net[d], u.net[d], Over(p.sessionID))
                    BY <3>10
                <5>6. Relayed(w.net[d], u.net[d], Over(p.sessionID))
                    BY ONLY <5>1, <5>4, <5>5, RelayedTwice
                <5> QED BY ONLY <3>8, <4>1, <5>1, <5>3, <5>6, RelayedOne
            <4>3. DssLast(w, x, g)
                BY <2>1, <3>1, <3>2, <3>8, <3>10, <4>2 DEF DssLast
            <4> QED BY <4>3
        <3>11. CASE u.pool = pt /\ u.net = t.net /\ u.mixed = w.mixed \cup p.entries
            <4> DEFINE T == {Status(p.sessionID, s) : s \in Sealed}
            <4>1. Status(p.sessionID, "SIGNING") \in T /\ Status(p.sessionID, "TRANSMISSION") \in T
                BY DEF Sealed
            <4>0. \A d \in Client : Relayed(w.net[d], x.net[d], T)
                <5> HIDE DEF T
                <5> TAKE d \in Client
                <5>1. w.net[d] \in Seq(FromMn(n)) /\ t.net[d] \in Seq(FromMn(n))
                    BY <3>3 DEF World
                <5>2. Relayed(w.net[d], w.net[d], T)
                    BY <5>1, RelayedNothing
                <5>3. t.net[d] = Append(w.net[d], Status(p.sessionID, "SIGNING"))
                    BY <3>3
                <5>4. x.net[d] = Append(t.net[d], Status(p.sessionID, "TRANSMISSION"))
                      /\ Status(p.sessionID, "TRANSMISSION") \in FromMn(n)
                    BY <3>4, <3>8, <3>11
                <5>5. Relayed(w.net[d], t.net[d], T)
                    BY ONLY <3>9, <4>1, <5>1, <5>2, <5>3, RelayedOne
                <5> QED BY ONLY <4>1, <5>1, <5>4, <5>5, RelayedOne
            <4>2. DssLast(w, x, g)
                BY <2>1, <3>1, <3>2, <3>4, <3>5, <3>8, <3>11, <4>0 DEF DssLast
            <4> QED BY <4>2
        <3> QED BY <3>6, <3>10, <3>11
    <2> QED BY <2>2, <2>3, <2>4
<1> QED BY <1>2, <1>4, <1>5

Answer(id, s, a) == [type |-> "dssu", id |-> id, state |-> s, accepted |-> a]

\* The message a goes to c alone, and to everyone messages of R.
Told(w, x, c, R, a) ==
    /\ Answered(w.net[c], x.net[c], R, a)
    /\ \A d \in Client \ {c} : Relayed(w.net[d], x.net[d], R)

LEMMA ReplyTold ==
    ASSUME NEW n \in Nat, NEW w \in World(n), NEW y \in World(n), NEW c \in Client, NEW a \in {-1, 0, 1}, NEW R,
           \A d \in Client : Relayed(w.net[d], y.net[d], R)
    PROVE  Told(w, Reply(y, c, a), c, R, Answer(y.pool.sessionID, y.pool.state, a))
<1> DEFINE m == Dssu(y.pool, a)
           x == Reply(y, c, a)
<1>1. m = Answer(y.pool.sessionID, y.pool.state, a)
    BY DEF Dssu, Answer
<1>2. /\ m \in FromMn(n) /\ x.net[c] = Append(y.net[c], m)
      /\ \A d \in Client : d # c => x.net[d] = y.net[d]
    <2>1. y.pool \in MnPool(n) /\ DOMAIN y = {"pool", "net", "mixed"} /\ y.net \in [Client -> Seq(FromMn(n))]
        BY DEF World
    <2>2. m \in FromMn(n)
        BY <2>1, DssuTyped
    <2> HIDE DEF m
    <2>3. x.net = [y.net EXCEPT ![c] = Append(@, m)]
        BY <2>1 DEF Reply, m
    <2> HIDE DEF x
    <2>4. x.net[c] = Append(y.net[c], m) /\ \A d \in Client : d # c => x.net[d] = y.net[d]
        BY ONLY <2>1, <2>3, c \in Client
    <2> QED BY ONLY <2>2, <2>4
<1> HIDE DEF m, x
<1>3. Answered(w.net[c], x.net[c], R, m)
    <2>1. w.net[c] \in Seq(FromMn(n)) /\ y.net[c] \in Seq(FromMn(n)) /\ Relayed(w.net[c], y.net[c], R)
        BY DEF World
    <2>2. Answered(w.net[c], Append(y.net[c], m), R, m)
        BY <1>2, <2>1, AnsweredNow
    <2> QED BY <1>2, <2>2
<1>4. \A d \in Client \ {c} : Relayed(w.net[d], x.net[d], R)
    BY <1>2
<1>5. Told(w, x, c, R, m)
    BY <1>3, <1>4 DEF Told
<1> QED BY <1>1, <1>5 DEF x

LEMMA WorldRelayed ==
    ASSUME NEW n \in Nat, NEW w \in World(n), NEW x, x.net = w.net, NEW R
    PROVE  \A d \in Client : Relayed(w.net[d], x.net[d], R)
<1> TAKE d \in Client
<1>1. w.net[d] \in Seq(FromMn(n)) /\ x.net[d] = w.net[d]
    BY DEF World
<1> QED BY <1>1, RelayedNothing

\* A request is answered; and it opens a session.
DsaAnswered(w, x, c) ==
    /\ Same(w.pool, x.pool) /\ x.pool.sev = w.pool.sev
    /\ \E a \in {0, 1} : /\ a = 1 => w.pool.state \in Collecting /\ w.pool.sessionID # 0
                         /\ Told(w, x, c, {}, Answer(w.pool.sessionID, w.pool.state, a))

DsaOpens(w, x, c, id) ==
    LET p == w.pool   q == x.pool
    IN  /\ p.sessionID = 0 /\ q.sessionID = id /\ q.state = "QUEUE" /\ q.entries = {} /\ q.sev = {}
        /\ p.state \in {"IDLE", "ACCEPTING_ENTRIES"}
        /\ Told(w, x, c, {Status(id, p.state)}, Answer(id, "QUEUE", 1))

\* dsa: an answer, and perhaps a place in the session or a new one.
LEMMA DsaOutcome ==
    ASSUME NEW n \in Nat, n = sessions, NEW w \in World(n), MnInv(w.pool), NEW c \in Client, NEW x \in Dsa(w, c),
           w.pool.sessionID # 0 => w.pool.sessionUsers # 0
    PROVE  x.mixed = w.mixed /\ MnInv(x.pool) /\ (DsaAnswered(w, x, c) \/ DsaOpens(w, x, c, n + 1))
<1> DEFINE p == w.pool
           po == [p EXCEPT !.sessionID = n + 1, !.sessionUsers = 1, !.age = 0]
           v == [w EXCEPT !.pool = po]
           opened == UpdateState(v, "QUEUE")
           pj == [p EXCEPT !.sessionUsers = @ + 1, !.age = 0]
           joined == [w EXCEPT !.pool = pj]
<1>p. p \in MnPool(n)
    BY DEF World
<1>m. MaxPoolTransactions \in Nat /\ MaxPoolTransactions > 1
    BY DarksendAssumption DEF DarksendAssumption
<1>1. [w EXCEPT !.pool.sessionID = n + 1, !.pool.sessionUsers = 1, !.pool.age = 0] = v
    BY <1>p DEF World, MnPool
<1>2. [w EXCEPT !.pool.sessionUsers = @ + 1, !.pool.age = 0] = joined
    BY <1>p DEF World, MnPool
<1>3. \/ x = Reply(w, c, 0)
      \/ p.sessionUsers = 0 /\ x = Reply(opened, c, 1)
      \/ p.sessionUsers \in 1..(MaxPoolTransactions - 1) /\ p.state \in Collecting /\ x = Reply(joined, c, 1)
    BY <1>1, <1>2, Zenon DEF Dsa
<1>4. CASE x = Reply(w, c, 0)
    <2>1. x.pool = p /\ x.mixed = w.mixed
        BY <1>4, ReplyNet
    <2>2. \A d \in Client : Relayed(w.net[d], w.net[d], {})
        BY WorldRelayed
    <2>3. Told(w, x, c, {}, Answer(p.sessionID, p.state, 0))
        BY <1>4, <2>2, ReplyTold
    <2>4. Same(p, x.pool) /\ x.pool.sev = p.sev
        BY <2>1 DEF Same
    <2>5. DsaAnswered(w, x, c)
        BY <2>3, <2>4 DEF DsaAnswered
    <2> QED BY <2>1, <2>5
<1>5. CASE p.sessionUsers = 0 /\ x = Reply(opened, c, 1)
    <2>1. p.sessionID = 0 /\ p.entries = {} /\ p.state \in {"IDLE", "ACCEPTING_ENTRIES"} /\ p.sev = {}
        BY <1>5 DEF MnInv, Sealed
    <2>2. /\ po \in MnPool(n + 1) /\ po.sessionID = n + 1 /\ po.state = p.state /\ po.entries = {} /\ po.sev = {}
        <3>1. p \in MnPool(n + 1) /\ n + 1 \in 0..(n + 1)
            BY <1>p, FromMnGrows
        <3>2. 1 \in 0..MaxPoolTransactions /\ 0 \in Nat
            BY <1>m
        <3>3. po \in MnPool(n + 1)
            BY <3>1, <3>2 DEF MnPool
        <3>4. po.sessionID = n + 1 /\ po.state = p.state /\ po.entries = p.entries /\ po.sev = p.sev
            BY <1>p DEF MnPool
        <3> QED BY <2>1, <3>3, <3>4
    <2> HIDE DEF po
    <2>w. w \in World(n + 1)
        <3>1. FromMn(n) \subseteq FromMn(n + 1) /\ MnPool(n) \subseteq MnPool(n + 1)
            BY FromMnGrows
        <3>2. \A d \in Client : w.net[d] \in Seq(FromMn(n + 1))
            BY <3>1, SeqGrows DEF World
        <3> QED BY <1>p, <3>1, <3>2 DEF World
    <2>3. v \in World(n + 1) /\ v.pool = po /\ v.net = w.net /\ v.mixed = w.mixed
        BY <2>2, <2>w DEF World
    <2> HIDE DEF v
    <2>s. "QUEUE" \in State \ Ended
        BY DEF State, Ended
    <2>4. /\ opened \in World(n + 1) /\ opened.mixed = w.mixed
          /\ opened.pool = [po EXCEPT !.state = "QUEUE", !.age = 0]
          /\ \A d \in Client : opened.net[d] = Append(w.net[d], Status(n + 1, p.state))
        <3>1. v.pool.state # "QUEUE"
            BY <2>1, <2>2, <2>3
        <3>2. /\ opened.pool = [v.pool EXCEPT !.state = "QUEUE", !.age = 0] /\ opened.mixed = v.mixed
              /\ \A d \in Client : opened.net[d] = Append(v.net[d], Status(v.pool.sessionID, v.pool.state))
            <4>1. n + 1 \in Nat /\ v \in World(n + 1)
                BY <2>3
            <4> QED BY ONLY <4>1, <2>s, <3>1, UpdateStateWhole
        <3>3. opened \in World(n + 1)
            <4>1. n + 1 \in Nat /\ v \in World(n + 1)
                BY <2>3
            <4> QED BY ONLY <4>1, <2>s, UpdateStateTyped
        <3> QED BY <2>2, <2>3, <3>2, <3>3
    <2> HIDE DEF opened
    <2>5. /\ opened.pool.state = "QUEUE" /\ opened.pool.sessionID = n + 1 /\ opened.pool.entries = {}
          /\ opened.pool.sev = {}
        BY <2>2, <2>4 DEF MnPool
    <2>6. MnInv(opened.pool)
        <3>1. IsFiniteSet({}) /\ n + 1 # 0
            BY FS_EmptySet
        <3> QED BY <2>5, <3>1 DEF MnInv, Sealed, Collecting
    <2>7. \A d \in Client : Relayed(w.net[d], opened.net[d], {Status(n + 1, p.state)})
        <3> DEFINE m == Status(n + 1, p.state)
        <3>1. m \in FromMn(n + 1)
            <4>1. p.state \in State /\ n + 1 \in 0..(n + 1)
                BY <1>p DEF MnPool
            <4> QED BY <4>1 DEF FromMn, Status
        <3> HIDE DEF m
        <3>2. ASSUME NEW d \in Client PROVE Relayed(w.net[d], opened.net[d], {m})
            <4>1. w.net[d] \in Seq(FromMn(n + 1))
                BY <2>w DEF World
            <4>2. Relayed(w.net[d], w.net[d], {m})
                BY <4>1, RelayedNothing
            <4>3. opened.net[d] = Append(w.net[d], m) /\ m \in {m}
                BY <2>4 DEF m
            <4> QED BY ONLY <3>1, <4>1, <4>2, <4>3, RelayedOne
        <3> QED BY <3>2 DEF m
    <2>8. Told(w, Reply(opened, c, 1), c, {Status(n + 1, p.state)}, Answer(opened.pool.sessionID, opened.pool.state, 1))
        <3> DEFINE R == {Status(n + 1, p.state)}
        <3>1. \A d \in Client : Relayed(w.net[d], opened.net[d], R)
            BY <2>7
        <3>2. n + 1 \in Nat /\ 1 \in {-1, 0, 1}
            OBVIOUS
        <3> HIDE DEF R
        <3>3. Told(w, Reply(opened, c, 1), c, R, Answer(opened.pool.sessionID, opened.pool.state, 1))
            BY <2>w, <2>4, <3>1, <3>2, ReplyTold
        <3> QED BY <3>3 DEF R
    <2>9. x.pool = opened.pool /\ x.mixed = opened.mixed
        <3>1. x = Reply(opened, c, 1)
            BY <1>5
        <3>2. n + 1 \in Nat /\ opened \in World(n + 1) /\ c \in Client /\ 1 \in {-1, 0, 1}
            BY <2>4
        <3> QED BY ONLY <3>1, <3>2, ReplyNet
    <2>10. Told(w, x, c, {Status(n + 1, p.state)}, Answer(n + 1, "QUEUE", 1))
        BY <1>5, <2>5, <2>8
    <2>11. DsaOpens(w, x, c, n + 1)
        BY <2>1, <2>5, <2>9, <2>10 DEF DsaOpens
    <2> QED BY <2>4, <2>6, <2>9, <2>11
<1>6. CASE p.sessionUsers \in 1..(MaxPoolTransactions - 1) /\ p.state \in Collecting /\ x = Reply(joined, c, 1)
    <2>1. p.sessionID # 0
        BY <1>6 DEF MnInv
    <2>2. /\ pj \in MnPool(n) /\ pj.state = p.state /\ pj.sessionID = p.sessionID /\ pj.entries = p.entries
          /\ pj.sev = p.sev /\ pj.tx = p.tx /\ pj.txSigs = p.txSigs
        <3>1. p.sessionUsers + 1 \in 0..MaxPoolTransactions /\ 0 \in Nat
            BY <1>m, <1>6
        <3>2. pj \in MnPool(n)
            BY <1>p, <3>1 DEF MnPool
        <3> QED BY <1>p, <3>2 DEF MnPool
    <2> HIDE DEF pj
    <2>3. MnInv(pj) /\ Same(p, pj)
        BY <1>6, <2>1, <2>2 DEF MnInv, Same
    <2>4. joined \in World(n) /\ joined.pool = pj /\ joined.net = w.net /\ joined.mixed = w.mixed
        BY <2>2 DEF World
    <2> HIDE DEF joined
    <2>5. \A d \in Client : Relayed(w.net[d], joined.net[d], {})
        BY <2>4, WorldRelayed
    <2>6. Told(w, Reply(joined, c, 1), c, {}, Answer(joined.pool.sessionID, joined.pool.state, 1))
        BY <2>4, <2>5, ReplyTold
    <2>7. x.pool = joined.pool /\ x.mixed = joined.mixed
        BY <1>6, <2>4, ReplyNet
    <2>8. Told(w, x, c, {}, Answer(p.sessionID, p.state, 1))
        BY <1>6, <2>2, <2>4, <2>6
    <2>9. DsaAnswered(w, x, c)
        BY <1>6, <2>1, <2>2, <2>3, <2>4, <2>7, <2>8 DEF DsaAnswered
    <2> QED BY <2>3, <2>4, <2>7, <2>9
<1> QED BY <1>3, <1>4, <1>5, <1>6

\* Messages of R, then m, then messages of T.
Staged(s, t, R, m, T) ==
    /\ Len(s) <= Len(t)
    /\ \A i \in 1..Len(s) : t[i] = s[i]
    /\ \E k \in (Len(s) + 1)..Len(t) :
         /\ t[k] = m
         /\ \A i \in (Len(s) + 1)..(k - 1) : t[i] \in R
         /\ \A i \in (k + 1)..Len(t) : t[i] \in T

LEMMA StagedNow ==
    ASSUME NEW n, NEW s \in Seq(FromMn(n)), NEW t \in Seq(FromMn(n)), NEW R, NEW T, Relayed(s, t, R),
           NEW m, m \in FromMn(n), NEW u, u = Append(t, m)
    PROVE  Staged(s, u, R, m, T)
<1>1. /\ Len(s) \in Nat /\ Len(t) \in Nat /\ Len(u) = Len(t) + 1
      /\ \A i \in 1..Len(t) : u[i] = t[i]
      /\ u[Len(t) + 1] = m
    BY AppendFacts
<1>2. Len(s) <= Len(u) /\ \A i \in 1..Len(s) : u[i] = s[i]
    BY <1>1 DEF Relayed
<1>3. Len(t) + 1 \in (Len(s) + 1)..Len(u)
    BY <1>1 DEF Relayed
<1>4. ASSUME NEW i \in (Len(s) + 1)..((Len(t) + 1) - 1) PROVE u[i] \in R
    <2>1. i \in (Len(s) + 1)..Len(t) /\ i \in 1..Len(t)
        BY <1>1
    <2> QED BY <1>1, <2>1 DEF Relayed
<1>5. \A i \in ((Len(t) + 1) + 1)..Len(u) : u[i] \in T
    BY <1>1
<1> QED BY <1>1, <1>2, <1>3, <1>4, <1>5 DEF Staged

LEMMA StagedMore ==
    ASSUME NEW n, NEW s \in Seq(FromMn(n)), NEW t \in Seq(FromMn(n)), NEW R, NEW T, NEW a, Staged(s, t, R, a, T),
           NEW m, m \in FromMn(n), m \in T, NEW u, u = Append(t, m)
    PROVE  Staged(s, u, R, a, T)
<1>1. /\ Len(s) \in Nat /\ Len(t) \in Nat /\ Len(u) = Len(t) + 1
      /\ \A i \in 1..Len(t) : u[i] = t[i]
      /\ u[Len(t) + 1] = m
    BY AppendFacts
<1>2. Len(s) <= Len(u) /\ \A i \in 1..Len(s) : u[i] = s[i]
    BY <1>1 DEF Staged
<1>3. PICK k \in (Len(s) + 1)..Len(t) :
         /\ t[k] = a
         /\ \A i \in (Len(s) + 1)..(k - 1) : t[i] \in R
         /\ \A i \in (k + 1)..Len(t) : t[i] \in T
    BY DEF Staged
<1>4. k \in (Len(s) + 1)..Len(u) /\ k \in 1..Len(t)
    BY <1>1
<1>5. ASSUME NEW i \in (Len(s) + 1)..(k - 1) PROVE u[i] \in R
    <2>1. i \in 1..Len(t)
        BY <1>1, <1>4
    <2> QED BY <1>1, <1>3, <2>1
<1>6. ASSUME NEW i \in (k + 1)..Len(u) PROVE u[i] \in T
    <2>1. CASE i = Len(t) + 1
        BY <1>1, <2>1
    <2>2. CASE i # Len(t) + 1
        <3>1. i \in (k + 1)..(Len(t) + 1) /\ k \in 1..Len(t) /\ Len(t) \in Nat
            BY <1>1, <1>4
        <3>2. i \in 1..Len(t) /\ i \in (k + 1)..Len(t)
            BY ONLY <2>2, <3>1
        <3>3. u[i] = t[i]
            BY <1>1, <3>2
        <3>4. t[i] \in T
            BY <1>3, <3>2
        <3> QED BY <3>3, <3>4
    <2> QED BY <2>1, <2>2
<1> QED BY <1>1, <1>2, <1>3, <1>4, <1>5, <1>6 DEF Staged

LEMMA AnsweredOne ==
    ASSUME NEW n, NEW s \in Seq(FromMn(n)), NEW t \in Seq(FromMn(n)), NEW R, NEW a, Answered(s, t, R, a),
           NEW m, m \in FromMn(n), m \in R, NEW u, u = Append(t, m)
    PROVE  Answered(s, u, R, a)
  BY AnsweredMore

LEMMA ToldAll ==
    ASSUME NEW n \in Nat, NEW w \in World(n), NEW y \in World(n), NEW c \in Client, NEW R, NEW a, Told(w, y, c, R, a),
           NEW m, m \in FromMn(n), m \in R, NEW x, \A d \in Client : x.net[d] = Append(y.net[d], m)
    PROVE  Told(w, x, c, R, a)
<1>1. \A d \in Client : w.net[d] \in Seq(FromMn(n)) /\ y.net[d] \in Seq(FromMn(n))
    BY DEF World
<1>2. Answered(w.net[c], x.net[c], R, a)
    <2>1. Answered(w.net[c], y.net[c], R, a)
        BY DEF Told
    <2> QED BY <1>1, <2>1, AnsweredOne
<1>3. ASSUME NEW d \in Client \ {c} PROVE Relayed(w.net[d], x.net[d], R)
    <2>1. Relayed(w.net[d], y.net[d], R)
        BY DEF Told
    <2> QED BY <1>1, <2>1, RelayedOne
<1> QED BY <1>2, <1>3 DEF Told

LEMMA ToldMore ==
    ASSUME NEW w, NEW x, NEW c, NEW R, NEW T, NEW a, Told(w, x, c, R, a), R \subseteq T
    PROVE  Told(w, x, c, T, a)
  BY DEF Told, Answered, Relayed

\* What everyone hears when the transaction is made.
Sealing(id, es) ==
    {Status(id, "ACCEPTING_ENTRIES"), Status(id, "FINALIZE_TRANSACTION"), [type |-> "dsf", id |-> id, tx |-> es],
     Status(id, "SIGNING")}

\* Check after an entry: the transaction is made when there are enough of them.
LEMMA CheckCollecting ==
    ASSUME NEW w, w.pool.state \in Collecting, w.pool.sev = {}, w.pool.entries # {}, NEW x \in Check(w),
           w.pool.state = "ACCEPTING_ENTRIES" =>
             Finalize(w).pool.sev = {} /\ Finalize(w).pool.entries = w.pool.entries
    PROVE  \/ x = w
           \/ /\ w.pool.state = "ACCEPTING_ENTRIES" /\ Cardinality(w.pool.entries) >= MaxPoolTransactions
              /\ x = Finalize(w)
<1> DEFINE v == IF w.pool.state = "ACCEPTING_ENTRIES" /\ Cardinality(w.pool.entries) >= MaxPoolTransactions
                THEN Finalize(w) ELSE w
<1>1. x \in IF v.pool.state = "SIGNING" /\ SignaturesComplete(v.pool)
            THEN CheckFinalTransaction(UpdateState(v, "TRANSMISSION")) ELSE {v}
    BY DEF Check
<1>2. v.pool.sev = {} /\ v.pool.entries # {}
    OBVIOUS
<1>3. ~ SignaturesComplete(v.pool)
    BY <1>2 DEF SignaturesComplete, Coins
<1>4. x = v
    BY <1>1, <1>3
<1> QED BY <1>4

\* An entry for a coin that none of the entries has.
LEMMA MnPoolFinite ==
    ASSUME NEW n \in Nat, NEW w \in World(n), MnInv(w.pool), NEW e \in Entry, e.coin \notin Coins(w.pool.entries),
           NEW es, es = w.pool.entries \cup {e}
    PROVE  /\ IsFiniteSet(es) /\ es # {} /\ es \subseteq Entry
           /\ \A f, g \in es : f.coin = g.coin => f = g
<1>1. IsFiniteSet(es)
    <2>1. IsFiniteSet(w.pool.entries)
        BY DEF MnInv
    <2> QED BY <2>1, FS_AddElement
<1>2. es \subseteq Entry
    BY DEF World, MnPool
<1>3. \A f \in w.pool.entries : f.coin # e.coin
    BY DEF Coins
<1>4. \A f, g \in es : f.coin = g.coin => f = g
    BY <1>3 DEF MnInv
<1> QED BY <1>1, <1>2, <1>4

\* An entry refused; one taken; and one that makes the transaction.
DsiRefused(w, x, c) ==
    /\ Same(w.pool, x.pool) /\ x.pool.sev = w.pool.sev
    /\ Told(w, x, c, {}, Answer(w.pool.sessionID, w.pool.state, 0))

DsiTaken(w, x, c, e) ==
    LET p == w.pool   q == x.pool
    IN  /\ p.sessionID # 0 /\ p.state \in Collecting
        /\ q.sessionID = p.sessionID /\ q.state = p.state /\ q.entries = p.entries \cup {e} /\ q.sev = {}
        /\ Told(w, x, c, {Status(p.sessionID, p.state)}, Answer(p.sessionID, p.state, 1))

DsiSeals(w, x, c, e) ==
    LET p == w.pool   q == x.pool
        es == p.entries \cup {e}
        answer == Answer(p.sessionID, "ACCEPTING_ENTRIES", 1)
    IN  /\ p.sessionID # 0 /\ p.state = "ACCEPTING_ENTRIES"
        /\ q.sessionID = p.sessionID /\ q.state = "SIGNING" /\ q.entries = es /\ q.age = 0 /\ q.sev = {}
        /\ Told(w, x, c, Sealing(p.sessionID, es), answer)
        /\ \A d \in Client :
             Staged(w.net[d], x.net[d], {answer, Status(p.sessionID, "ACCEPTING_ENTRIES")},
                    Status(p.sessionID, "FINALIZE_TRANSACTION"),
                    {[type |-> "dsf", id |-> p.sessionID, tx |-> es], Status(p.sessionID, "SIGNING")})

\* What Finalize and the status after it send, behind the answer m to c.
LEMMA SealingSent ==
    ASSUME NEW n \in Nat, NEW w \in World(n), NEW c \in Client, NEW a \in World(n), NEW m \in FromMn(n),
           NEW id, id = a.pool.sessionID, NEW es, es = a.pool.entries, a.pool.state = "ACCEPTING_ENTRIES",
           a.net[c] = Append(w.net[c], m), \A d \in Client : d # c => a.net[d] = w.net[d],
           NEW x, x = RelayStatus(Finalize(a))
    PROVE  /\ Told(w, x, c, Sealing(id, es), m)
           /\ \A d \in Client :
                Staged(w.net[d], x.net[d], {m, Status(id, "ACCEPTING_ENTRIES")},
                       Status(id, "FINALIZE_TRANSACTION"),
                       {[type |-> "dsf", id |-> id, tx |-> es], Status(id, "SIGNING")})
<1> DEFINE f == Finalize(a)
           A == Status(id, "ACCEPTING_ENTRIES")
           F == Status(id, "FINALIZE_TRANSACTION")
           D == [type |-> "dsf", id |-> id, tx |-> es]
           G == Status(id, "SIGNING")
           R == {A, F, D, G}
           R1 == {m, A}
           R2 == {D, G}
<1>1. /\ f.pool = [a.pool EXCEPT !.state = "SIGNING", !.age = 0, !.tx = a.pool.entries, !.txSigs = a.pool.sev]
      /\ A \in FromMn(n) /\ F \in FromMn(n) /\ D \in FromMn(n)
      /\ \A d \in Client : f.net[d] = Append(Append(Append(a.net[d], A), F), D)
    BY FinalizeWhole
<1>2. f.pool.state = "SIGNING" /\ f.pool.sessionID = id
    BY <1>1 DEF World, MnPool
<1>3. f \in World(n)
    BY FinalizeTyped
<1> HIDE DEF f
<1>4. G \in FromMn(n) /\ \A d \in Client : x.net[d] = Append(f.net[d], G)
    <2>1. /\ Status(f.pool.sessionID, f.pool.state) \in FromMn(n)
          /\ \A d \in Client : x.net[d] = Append(f.net[d], Status(f.pool.sessionID, f.pool.state))
        BY <1>3, RelayStatusNet DEF f
    <2> QED BY <1>2, <2>1
<1>r. R = Sealing(id, es) /\ A \in R /\ F \in R /\ D \in R /\ G \in R
      /\ m \in R1 /\ A \in R1 /\ D \in R2 /\ G \in R2
    BY DEF Sealing
<1> HIDE DEF A, F, D, G, R, R1, R2
<1>5. ASSUME NEW d \in Client
      PROVE  \E s1, s2, s3 \in Seq(FromMn(n)) :
               /\ s1 = Append(a.net[d], A) /\ s2 = Append(s1, F) /\ s3 = Append(s2, D)
               /\ x.net[d] = Append(s3, G)
    <2>1. a.net[d] \in Seq(FromMn(n))
        BY DEF World
    <2>2. Append(a.net[d], A) \in Seq(FromMn(n))
        BY <1>1, <2>1, AppendProperties
    <2>3. Append(Append(a.net[d], A), F) \in Seq(FromMn(n))
        BY <1>1, <2>2, AppendProperties
    <2>4. Append(Append(Append(a.net[d], A), F), D) \in Seq(FromMn(n))
        BY <1>1, <2>3, AppendProperties
    <2> QED BY <1>1, <1>4, <2>2, <2>3, <2>4
<1>6. ASSUME NEW d \in Client, d # c PROVE Relayed(w.net[d], x.net[d], R)
    <2>1. PICK s1, s2, s3 \in Seq(FromMn(n)) :
             /\ s1 = Append(a.net[d], A) /\ s2 = Append(s1, F) /\ s3 = Append(s2, D)
             /\ x.net[d] = Append(s3, G)
        BY <1>5
    <2>2. w.net[d] \in Seq(FromMn(n)) /\ a.net[d] = w.net[d]
        BY <1>6 DEF World
    <2>3. Relayed(w.net[d], w.net[d], R)
        BY <2>2, RelayedNothing
    <2>4. Relayed(w.net[d], s1, R)
        BY ONLY <1>1, <1>r, <2>1, <2>2, <2>3, RelayedOne
    <2>5. Relayed(w.net[d], s2, R)
        BY ONLY <1>1, <1>r, <2>1, <2>2, <2>4, RelayedOne
    <2>6. Relayed(w.net[d], s3, R)
        BY ONLY <1>1, <1>r, <2>1, <2>2, <2>5, RelayedOne
    <2> QED BY ONLY <1>4, <1>r, <2>1, <2>2, <2>6, RelayedOne
<1>7. Answered(w.net[c], x.net[c], R, m)
    <2>1. PICK s1, s2, s3 \in Seq(FromMn(n)) :
             /\ s1 = Append(a.net[c], A) /\ s2 = Append(s1, F) /\ s3 = Append(s2, D)
             /\ x.net[c] = Append(s3, G)
        BY <1>5
    <2>2. w.net[c] \in Seq(FromMn(n)) /\ a.net[c] \in Seq(FromMn(n)) /\ a.net[c] = Append(w.net[c], m)
        BY DEF World
    <2>3. Relayed(w.net[c], w.net[c], R)
        BY <2>2, RelayedNothing
    <2>4. Answered(w.net[c], a.net[c], R, m)
        BY <2>2, <2>3, AnsweredNow
    <2>5. Answered(w.net[c], s1, R, m)
        BY ONLY <1>1, <1>r, <2>1, <2>2, <2>4, AnsweredOne
    <2>6. Answered(w.net[c], s2, R, m)
        BY ONLY <1>1, <1>r, <2>1, <2>2, <2>5, AnsweredOne
    <2>7. Answered(w.net[c], s3, R, m)
        BY ONLY <1>1, <1>r, <2>1, <2>2, <2>6, AnsweredOne
    <2> QED BY ONLY <1>4, <1>r, <2>1, <2>2, <2>7, AnsweredOne
<1>8. ASSUME NEW d \in Client PROVE Staged(w.net[d], x.net[d], R1, F, R2)
    <2>1. PICK s1, s2, s3 \in Seq(FromMn(n)) :
             /\ s1 = Append(a.net[d], A) /\ s2 = Append(s1, F) /\ s3 = Append(s2, D)
             /\ x.net[d] = Append(s3, G)
        BY <1>5
    <2>2. w.net[d] \in Seq(FromMn(n)) /\ a.net[d] \in Seq(FromMn(n))
        BY DEF World
    <2>3. Relayed(w.net[d], w.net[d], R1)
        BY <2>2, RelayedNothing
    <2>4. Relayed(w.net[d], a.net[d], R1)
        <3>1. CASE d = c
            BY ONLY <1>r, <2>2, <2>3, <3>1, RelayedOne, m \in FromMn(n), a.net[c] = Append(w.net[c], m)
        <3>2. CASE d # c
            <4>1. a.net[d] = w.net[d]
                BY <3>2
            <4> QED BY <2>3, <4>1
        <3> QED BY <3>1, <3>2
    <2>5. Relayed(w.net[d], s1, R1)
        BY ONLY <1>1, <1>r, <2>1, <2>2, <2>4, RelayedOne
    <2>6. Staged(w.net[d], s2, R1, F, R2)
        BY ONLY <1>1, <1>r, <2>1, <2>2, <2>5, StagedNow
    <2>7. Staged(w.net[d], s3, R1, F, R2)
        BY ONLY <1>1, <1>r, <2>1, <2>2, <2>6, StagedMore
    <2> QED BY ONLY <1>4, <1>r, <2>1, <2>2, <2>7, StagedMore
<1>9. Told(w, x, c, R, m)
    BY <1>6, <1>7 DEF Told
<1> QED BY <1>8, <1>9, <1>r DEF A, F, D, G, R1, R2

\* dsi: the entry is refused, or taken, or it is the last one.
LEMMA DsiOutcome ==
    ASSUME NEW n \in Nat, NEW w \in World(n), MnInv(w.pool), NEW c \in Client, NEW e \in Entry, NEW x \in Dsi(w, c, e)
    PROVE  /\ x.mixed = w.mixed /\ MnInv(x.pool)
           /\ DsiRefused(w, x, c) \/ DsiTaken(w, x, c, e) \/ DsiSeals(w, x, c, e)
<1> DEFINE p == w.pool
           es == p.entries \cup {e}
           q == [p EXCEPT !.entries = es]
           r == [p EXCEPT !.sessionUsers = @ - 1]
           y == [w EXCEPT !.pool = q]
           added == Reply(y, c, 1)
           refused == [w EXCEPT !.pool = r]
           answer == Answer(p.sessionID, p.state, 1)
<1>p. p \in MnPool(n)
    BY DEF World
<1>m. MaxPoolTransactions \in Nat /\ MaxPoolTransactions > 1
    BY DarksendAssumption DEF DarksendAssumption
<1>1. [w EXCEPT !.pool.entries = @ \cup {e}] = y
    BY <1>p DEF World, MnPool
<1>2. [w EXCEPT !.pool.sessionUsers = @ - 1] = refused
    BY <1>p DEF World, MnPool
<1>3. \/ x = Reply(w, c, 0)
      \/ IsSessionReady(p) /\ x = Reply(refused, c, 0)
      \/ /\ IsSessionReady(p) /\ Cardinality(p.entries) < MaxPoolTransactions /\ e.coin \notin Coins(p.entries)
         /\ \E v \in Check(added) : x = RelayStatus(v)
    BY <1>1, <1>2, Zenon DEF Dsi
<1>4. CASE x = Reply(w, c, 0)
    <2>1. x.pool = p /\ x.mixed = w.mixed
        BY <1>4, ReplyNet
    <2>2. \A d \in Client : Relayed(w.net[d], w.net[d], {})
        BY WorldRelayed
    <2>3. Told(w, x, c, {}, Answer(p.sessionID, p.state, 0))
        BY <1>4, <2>2, ReplyTold
    <2>4. DsiRefused(w, x, c)
        BY <2>1, <2>3 DEF Same, DsiRefused
    <2> QED BY <2>1, <2>4
<1>5. CASE IsSessionReady(p) /\ x = Reply(refused, c, 0)
    <2>1. p.sessionUsers >= MaxPoolTransactions /\ p.sessionUsers - 1 \in 0..MaxPoolTransactions
        BY <1>p, <1>m, <1>5 DEF IsSessionReady, MnPool
    <2>2. p.sessionID # 0
        BY <1>m, <2>1 DEF MnInv
    <2>3. r \in MnPool(n)
        BY <1>p, <2>1 DEF MnPool
    <2>4. /\ r.state = p.state /\ r.sessionID = p.sessionID /\ r.entries = p.entries /\ r.sev = p.sev
          /\ r.tx = p.tx /\ r.txSigs = p.txSigs /\ r.age = p.age
        BY <1>p DEF MnPool
    <2> HIDE DEF r
    <2>5. MnInv(r) /\ Same(p, r)
        BY <2>2, <2>4 DEF MnInv, Same
    <2>6. refused \in World(n) /\ refused.pool = r /\ refused.net = w.net /\ refused.mixed = w.mixed
        BY <2>3 DEF World
    <2> HIDE DEF refused
    <2>7. \A d \in Client : Relayed(w.net[d], refused.net[d], {})
        BY <2>6, WorldRelayed
    <2>8. Told(w, Reply(refused, c, 0), c, {}, Answer(refused.pool.sessionID, refused.pool.state, 0))
        BY <2>6, <2>7, ReplyTold
    <2>9. x.pool = refused.pool /\ x.mixed = refused.mixed
        BY <1>5, <2>6, ReplyNet
    <2>10. DsiRefused(w, x, c)
        BY <1>5, <2>4, <2>5, <2>6, <2>8, <2>9 DEF DsiRefused
    <2> QED BY <2>5, <2>6, <2>9, <2>10
<1>6. ASSUME IsSessionReady(p), Cardinality(p.entries) < MaxPoolTransactions, e.coin \notin Coins(p.entries),
             NEW v \in Check(added), x = RelayStatus(v)
      PROVE  /\ x.mixed = w.mixed /\ MnInv(x.pool)
             /\ DsiTaken(w, x, c, e) \/ DsiSeals(w, x, c, e)
    <2>1. p.sessionUsers >= MaxPoolTransactions
        BY <1>6 DEF IsSessionReady
    <2>2. p.sessionID # 0 /\ p.state \in Collecting /\ p.sev = {}
        <3>1. p.sessionID # 0
            BY <1>m, <2>1 DEF MnInv
        <3>2. IsFiniteSet(p.entries)
            BY DEF MnInv
        <3>3. Cardinality(p.entries) \in Nat
            BY <3>2, FS_CardinalityType
        <3>4. p.state \notin Sealed
            BY <1>m, <1>6, <3>3 DEF MnInv
        <3> QED BY <3>1, <3>4 DEF MnInv
    <2>3. /\ IsFiniteSet(es) /\ es # {} /\ es \subseteq Entry
          /\ \A f, g \in es : f.coin = g.coin => f = g
        BY <1>6, MnPoolFinite
    <2> HIDE DEF es
    <2>4. q \in MnPool(n)
        BY <1>p, <2>3 DEF MnPool
    <2>5. /\ q.state = p.state /\ q.sessionID = p.sessionID /\ q.entries = es /\ q.sev = {}
          /\ q.tx = p.tx /\ q.txSigs = p.txSigs
        BY <1>p, <2>2 DEF MnPool
    <2> HIDE DEF q
    <2>6. p.state \notin Sealed
        BY <2>2 DEF Collecting, Sealed
    <2>7. MnInv(q)
        BY <2>2, <2>3, <2>5, <2>6 DEF MnInv, Sealed, Collecting
    <2>8. y \in World(n) /\ y.pool = q /\ y.net = w.net /\ y.mixed = w.mixed
        BY <2>4 DEF World
    <2> HIDE DEF y
    <2>9. /\ answer \in FromMn(n) /\ added.net[c] = Append(w.net[c], answer)
          /\ \A d \in Client : d # c => added.net[d] = w.net[d]
          /\ added.mixed = w.mixed /\ added.pool = q /\ added \in World(n)
        <3>1. Dssu(q, 1) = answer
            BY <2>5 DEF Dssu, Answer
        <3>2. n \in Nat /\ y \in World(n) /\ c \in Client /\ 1 \in {-1, 0, 1}
            BY <2>8
        <3>3. /\ Dssu(y.pool, 1) \in FromMn(n)
              /\ added.net[c] = Append(y.net[c], Dssu(y.pool, 1))
              /\ \A d \in Client : d # c => added.net[d] = y.net[d]
              /\ added.mixed = y.mixed /\ added.pool = y.pool
            BY ONLY <3>2, ReplyNet
        <3>4. added \in World(n)
            BY ONLY <3>2, ReplyTyped
        <3> QED BY <2>8, <3>1, <3>3, <3>4
    <2>t. \A d \in Client : Relayed(w.net[d], y.net[d], {Status(p.sessionID, p.state)})
        BY <2>8, WorldRelayed
    <2>10. Told(w, added, c, {Status(p.sessionID, p.state)}, answer)
        <3> DEFINE R == {Status(p.sessionID, p.state)}
        <3> HIDE DEF R
        <3>1. Told(w, Reply(y, c, 1), c, R, Answer(y.pool.sessionID, y.pool.state, 1))
            BY <2>8, <2>t, ReplyTold DEF R
        <3> QED BY <2>5, <2>8, <3>1 DEF R
    <2> HIDE DEF added, answer
    <2>11. \/ v = added
           \/ added.pool.state = "ACCEPTING_ENTRIES" /\ Cardinality(added.pool.entries) >= MaxPoolTransactions
              /\ v = Finalize(added)
        <3>1. added.pool.state \in Collecting /\ added.pool.sev = {} /\ added.pool.entries # {}
            BY <2>2, <2>3, <2>5, <2>9
        <3>2. added.pool.state = "ACCEPTING_ENTRIES" =>
                Finalize(added).pool.sev = {} /\ Finalize(added).pool.entries = added.pool.entries
            <4> SUFFICES ASSUME added.pool.state = "ACCEPTING_ENTRIES"
                         PROVE  Finalize(added).pool.sev = {} /\ Finalize(added).pool.entries = added.pool.entries
                OBVIOUS
            <4>1. Finalize(added).pool = [added.pool EXCEPT !.state = "SIGNING", !.age = 0, !.tx = added.pool.entries,
                                                            !.txSigs = added.pool.sev]
                BY <2>9, FinalizeWhole
            <4>2. added.pool \in MnPool(n)
                BY <2>4, <2>9
            <4> QED BY <3>1, <4>1, <4>2 DEF MnPool
        <3> QED BY <1>6, <3>1, <3>2, CheckCollecting
    <2>12. CASE v = added
        <3>1. /\ x.pool = q /\ x.mixed = w.mixed /\ Status(p.sessionID, p.state) \in FromMn(n)
              /\ \A d \in Client : x.net[d] = Append(added.net[d], Status(p.sessionID, p.state))
            <4>1. /\ x.pool = added.pool /\ x.mixed = added.mixed
                  /\ Status(added.pool.sessionID, added.pool.state) \in FromMn(n)
                  /\ \A d \in Client : x.net[d] = Append(added.net[d], Status(added.pool.sessionID, added.pool.state))
                BY <1>6, <2>9, <2>12, RelayStatusTyped, RelayStatusNet
            <4> QED BY <2>5, <2>9, <4>1
        <3>2. Told(w, x, c, {Status(p.sessionID, p.state)}, answer)
            <4>1. Status(p.sessionID, p.state) \in {Status(p.sessionID, p.state)}
                OBVIOUS
            <4> QED BY <2>9, <2>10, <3>1, <4>1, ToldAll
        <3>3. DsiTaken(w, x, c, e)
            BY <2>2, <2>5, <3>1, <3>2 DEF DsiTaken, answer, es
        <3> QED BY <2>7, <3>1, <3>3
    <2>13. CASE /\ added.pool.state = "ACCEPTING_ENTRIES" /\ Cardinality(added.pool.entries) >= MaxPoolTransactions
                /\ v = Finalize(added)
        <3> DEFINE z == [q EXCEPT !.state = "SIGNING", !.age = 0, !.tx = es, !.txSigs = {}]
        <3>1. p.state = "ACCEPTING_ENTRIES" /\ Cardinality(es) >= MaxPoolTransactions
            BY <2>5, <2>9, <2>13
        <3>2. /\ v.pool = z /\ v.mixed = w.mixed /\ v \in World(n)
            <4>1. /\ v.pool = [added.pool EXCEPT !.state = "SIGNING", !.age = 0, !.tx = added.pool.entries,
                                                 !.txSigs = added.pool.sev]
                  /\ v.mixed = added.mixed
                BY <2>9, <2>13, FinalizeWhole
            <4>2. v \in World(n)
                BY <2>9, <2>13, FinalizeTyped
            <4> QED BY <2>5, <2>9, <4>1, <4>2
        <3>3. /\ z.state = "SIGNING" /\ z.age = 0 /\ z.tx = es /\ z.txSigs = {} /\ z.sessionID = p.sessionID
              /\ z.entries = es /\ z.sev = {}
            BY <2>4, <2>5 DEF MnPool
        <3> HIDE DEF z
        <3>4. MnInv(z)
            BY <2>2, <2>3, <3>1, <3>3 DEF MnInv, Sealed, Collecting
        <3>5. x.pool = z /\ x.mixed = w.mixed
            BY <1>6, <3>2, RelayStatusTyped
        <3>6. /\ Told(w, x, c, Sealing(p.sessionID, es), answer)
              /\ \A d \in Client :
                    Staged(w.net[d], x.net[d], {answer, Status(p.sessionID, "ACCEPTING_ENTRIES")},
                           Status(p.sessionID, "FINALIZE_TRANSACTION"),
                           {[type |-> "dsf", id |-> p.sessionID, tx |-> es], Status(p.sessionID, "SIGNING")})
            <4>1. added \in World(n) /\ answer \in FromMn(n) /\ p.sessionID = added.pool.sessionID
                  /\ es = added.pool.entries /\ added.pool.state = "ACCEPTING_ENTRIES"
                  /\ added.net[c] = Append(w.net[c], answer)
                  /\ (\A d \in Client : d # c => added.net[d] = w.net[d])
                  /\ x = RelayStatus(Finalize(added))
                BY <1>6, <2>5, <2>9, <2>13
            <4>2. n \in Nat /\ w \in World(n) /\ c \in Client
                OBVIOUS
            <4> QED BY ONLY <4>1, <4>2, SealingSent
        <3>7. answer = Answer(p.sessionID, "ACCEPTING_ENTRIES", 1)
            BY <3>1 DEF answer
        <3>8. DsiSeals(w, x, c, e)
            BY <2>2, <3>1, <3>3, <3>5, <3>6, <3>7 DEF DsiSeals, es
        <3> QED BY <3>4, <3>5, <3>8
    <2> QED BY <2>11, <2>12, <2>13
<1> QED BY <1>3, <1>4, <1>5, <1>6

\* An entry expires, and with the last one the session.
LEMMA EraseOutcome ==
    ASSUME NEW n \in Nat, NEW w \in World(n), MnInv(w.pool), w.pool.state \in Collecting, NEW e
    PROVE  LET p == w.pool   x == Erase(w, e)   q == x.pool
           IN  /\ MnInv(q)
               /\ \/ Nulled(q) /\ \A d \in Client : Relayed(w.net[d], x.net[d], {Status(0, "IDLE")})
                  \/ /\ q.sessionID = p.sessionID /\ q.state = p.state /\ q.entries = p.entries \ {e} /\ q.sev = {}
                     /\ \A d \in Client : Relayed(w.net[d], x.net[d], {Status(p.sessionID, p.state)})
<1> DEFINE p == w.pool
           left == p.entries \ {e}
           sev == { g \in p.sev : g.coin # e.coin }
           q == [p EXCEPT !.entries = left, !.sev = sev]
           v == [w EXCEPT !.pool = q]
           z == SetNull(w)
           x == Erase(w, e)
<1>p. p \in MnPool(n)
    BY DEF World
<1>1. [w EXCEPT !.pool.entries = left, !.pool.sev = { g \in @ : g.coin # e.coin }] = v
    BY <1>p DEF World, MnPool
<1>2. x = RelayStatus(z) \/ x = RelayStatus(v)
    BY <1>1, Zenon DEF Erase
<1>s. p.state \notin Sealed /\ p.sev = {}
    BY DEF Collecting, Sealed, MnInv
<1> HIDE DEF x
<1>3. CASE x = RelayStatus(z)
    <2>1. z \in World(n) /\ z.pool = NullMn /\ z.net = w.net
        BY SetNullTyped, SetNullNet
    <2> HIDE DEF z
    <2>2. /\ x.pool = NullMn /\ Status(0, "IDLE") \in FromMn(n)
          /\ \A d \in Client : x.net[d] = Append(w.net[d], Status(0, "IDLE"))
        <3>1. /\ x.pool = z.pool /\ Status(z.pool.sessionID, z.pool.state) \in FromMn(n)
              /\ \A d \in Client : x.net[d] = Append(z.net[d], Status(z.pool.sessionID, z.pool.state))
            BY <1>3, <2>1, RelayStatusTyped, RelayStatusNet
        <3> QED BY <2>1, <3>1, NullMnFields
    <2>3. Nulled(x.pool) /\ MnInv(x.pool)
        BY <2>2, NullMnFields, NulledInv
    <2>4. \A d \in Client : Relayed(w.net[d], x.net[d], {Status(0, "IDLE")})
        <3> DEFINE R == {Status(0, "IDLE")}
        <3>1. Status(0, "IDLE") \in R
            OBVIOUS
        <3> HIDE DEF R
        <3>2. ASSUME NEW d \in Client PROVE Relayed(w.net[d], x.net[d], R)
            <4>1. w.net[d] \in Seq(FromMn(n)) /\ x.net[d] = Append(w.net[d], Status(0, "IDLE"))
                BY <2>2 DEF World
            <4>2. Relayed(w.net[d], w.net[d], R)
                BY <4>1, RelayedNothing
            <4>3. Status(0, "IDLE") \in FromMn(n)
                BY <2>2
            <4> QED BY ONLY <3>1, <4>1, <4>2, <4>3, RelayedOne
        <3> QED BY <3>2 DEF R
    <2> QED BY <2>3, <2>4 DEF x
<1>4. CASE x = RelayStatus(v)
    <2>1. left \subseteq Entry /\ sev = {} /\ IsFiniteSet(left)
        <3>1. IsFiniteSet(p.entries)
            BY DEF MnInv
        <3>2. IsFiniteSet(left)
            BY <3>1, FS_Subset
        <3> QED BY <1>p, <1>s, <3>2 DEF MnPool
    <2> HIDE DEF sev
    <2>2. /\ q \in MnPool(n) /\ q.sessionID = p.sessionID /\ q.sessionUsers = p.sessionUsers
          /\ q.state = p.state /\ q.entries = left /\ q.sev = {}
        BY <1>p, <2>1 DEF MnPool
    <2> HIDE DEF q
    <2>3. MnInv(q)
        <3>1. q.state \notin Sealed /\ \A f, g \in left : f.coin = g.coin => f = g
            BY <1>s, <2>2 DEF MnInv
        <3> QED BY <1>s, <2>1, <2>2, <3>1 DEF MnInv, Sealed
    <2>4. v \in World(n) /\ v.pool = q /\ v.net = w.net
        BY <2>2 DEF World
    <2> HIDE DEF v
    <2>5. /\ x.pool = q /\ Status(p.sessionID, p.state) \in FromMn(n)
          /\ \A d \in Client : x.net[d] = Append(w.net[d], Status(p.sessionID, p.state))
        <3>1. /\ x.pool = v.pool /\ Status(v.pool.sessionID, v.pool.state) \in FromMn(n)
              /\ \A d \in Client : x.net[d] = Append(v.net[d], Status(v.pool.sessionID, v.pool.state))
            BY <1>4, <2>4, RelayStatusTyped, RelayStatusNet
        <3> QED BY <2>2, <2>4, <3>1
    <2>6. \A d \in Client : Relayed(w.net[d], x.net[d], {Status(p.sessionID, p.state)})
        <3> DEFINE m == Status(p.sessionID, p.state)
                   R == {m}
        <3>1. m \in R
            OBVIOUS
        <3> HIDE DEF R
        <3>2. ASSUME NEW d \in Client PROVE Relayed(w.net[d], x.net[d], R)
            <4>1. w.net[d] \in Seq(FromMn(n)) /\ x.net[d] = Append(w.net[d], m) /\ m \in FromMn(n)
                BY <2>5 DEF World
            <4>2. Relayed(w.net[d], w.net[d], R)
                BY <4>1, RelayedNothing
            <4> HIDE DEF m
            <4> QED BY ONLY <3>1, <4>1, <4>2, RelayedOne
        <3> QED BY <3>2 DEF R
    <2> QED BY <2>2, <2>3, <2>5, <2>6 DEF x
<1> QED BY <1>2, <1>3, <1>4

\* The queue is complete.
LEMMA CompleteQueueOutcome ==
    ASSUME NEW n \in Nat, NEW w \in World(n), MnInv(w.pool), w.pool.state = "QUEUE",
           NEW x, x = Relay(UpdateState(w, "ACCEPTING_ENTRIES"), [type |-> "dsq"])
    PROVE  LET p == w.pool   q == x.pool
           IN  /\ MnInv(q) /\ p.sessionID # 0
               /\ q.sessionID = p.sessionID /\ q.state = "ACCEPTING_ENTRIES" /\ q.entries = p.entries /\ q.sev = {}
               /\ \A d \in Client : Relayed(w.net[d], x.net[d], {Status(p.sessionID, "QUEUE"), [type |-> "dsq"]})
<1> DEFINE p == w.pool
           q == [p EXCEPT !.state = "ACCEPTING_ENTRIES", !.age = 0]
           u == UpdateState(w, "ACCEPTING_ENTRIES")
           m == [type |-> "dsq"]
           s == Status(p.sessionID, "QUEUE")
           R == {s, m}
<1>p. p \in MnPool(n) /\ p.sessionID \in 0..n
    BY DEF World, MnPool
<1>s. "ACCEPTING_ENTRIES" \in State \ Ended /\ m \in FromMn(n) /\ s \in FromMn(n) /\ s \in R /\ m \in R
    BY <1>p DEF State, Ended, FromMn, Status
<1>1. /\ q.sessionID = p.sessionID /\ q.sessionUsers = p.sessionUsers /\ q.state = "ACCEPTING_ENTRIES"
      /\ q.entries = p.entries /\ q.sev = p.sev
    BY <1>p DEF MnPool
<1> HIDE DEF q
<1>2. p.sev = {} /\ p.sessionID # 0
    BY DEF MnInv, Sealed
<1>3. MnInv(q)
    BY <1>1, <1>2 DEF MnInv, Sealed, Collecting
<1>4. /\ u \in World(n) /\ u.pool = q
      /\ \A d \in Client : u.net[d] = Append(w.net[d], s)
    <2>1. w.pool.state # "ACCEPTING_ENTRIES"
        OBVIOUS
    <2>2. /\ u.pool = [w.pool EXCEPT !.state = "ACCEPTING_ENTRIES", !.age = 0]
          /\ \A d \in Client : u.net[d] = Append(w.net[d], Status(w.pool.sessionID, w.pool.state))
        BY <1>s, <2>1, UpdateStateWhole
    <2>3. u \in World(n)
        BY <1>s, UpdateStateTyped
    <2> QED BY <2>2, <2>3 DEF q
<1>u. x = Relay(u, m)
    OBVIOUS
<1> HIDE DEF u, m, s, R
<1>5. x.pool = q /\ \A d \in Client : x.net[d] = Append(u.net[d], m)
    <2>1. Relay(u, m).pool = u.pool /\ \A d \in Client : Relay(u, m).net[d] = Append(u.net[d], m)
        BY <1>s, <1>4, RelayTyped, RelayNet
    <2> QED BY <1>u, <1>4, <2>1
<1>6. ASSUME NEW d \in Client PROVE Relayed(w.net[d], x.net[d], R)
    <2>1. w.net[d] \in Seq(FromMn(n)) /\ u.net[d] \in Seq(FromMn(n))
        BY <1>4 DEF World
    <2>2. Relayed(w.net[d], w.net[d], R)
        BY <2>1, RelayedNothing
    <2>3. u.net[d] = Append(w.net[d], s) /\ x.net[d] = Append(u.net[d], m)
        BY <1>4, <1>5
    <2>4. Relayed(w.net[d], u.net[d], R)
        BY ONLY <1>s, <2>1, <2>2, <2>3, RelayedOne
    <2> QED BY ONLY <1>s, <2>1, <2>3, <2>4, RelayedOne
<1> QED BY <1>1, <1>2, <1>3, <1>5, <1>6 DEF R, s, m

-----------------------------------------------------------------------------
(* Why signatures fit.  The out of an entry counts what its owner made, and *)
(* a connection keeps the order.  So an entry that is not the primenode's   *)
(* yet is newer than every one it has heard of.                             *)

\* Entry e has come to the primenode, or is lost: all of its owner's under way are newer.
Before(e) ==
    LET o == Owner[e.coin]
    IN  /\ e.out <= made[o]
        /\ \A i \in 1..Len(toMn[o]) : toMn[o][i].type = "dsi" => e.out < toMn[o][i].entry.out

\* A transaction that Finalize made, in this session or an earlier one: no entry of the
\* pool is older than one of its, and the pool has one of its only in the session it is of.
Past(tx) ==
    /\ \A e \in tx : Before(e)
    /\ \A e \in tx : \A f \in mn.entries : e.coin = f.coin => e.out <= f.out
    /\ \A e \in tx : e \in mn.entries => mn.state \in Sealed /\ tx = mn.entries

\* What the primenode has of e's coin when it comes to c's i-th message is not newer than e.
After(c, i, e) ==
    /\ \A f \in mn.entries : f.coin = e.coin => f.out <= e.out
    /\ \A j \in 1..(i - 1) : toMn[c][j].type = "dsi" => toMn[c][j].entry.out <= e.out

EntriesInv == \A e \in mn.entries : Before(e)

ClientInv ==
    \A c \in Client : \A e \in pool[c].entries :
        pool[c].entries = {e} /\ e.out = made[c] /\ Owner[e.coin] = c

DsiInv ==
    \A c \in Client : \A i \in 1..Len(toMn[c]) :
        toMn[c][i].type = "dsi" =>
            LET e == toMn[c][i].entry
            IN  /\ Owner[e.coin] = c /\ e.out <= made[c]
                /\ \A j \in 1..(i - 1) : toMn[c][j].type = "dsi" => toMn[c][j].entry.out < e.out

DssInv ==
    \A c \in Client : \A i \in 1..Len(toMn[c]) :
        toMn[c][i].type = "dss" =>
            LET g == toMn[c][i].sig
            IN  Owner[g.coin] = c /\ Past(g.tx) /\ \E e \in g.tx : e.coin = g.coin /\ After(c, i, e)

DsfInv ==
    \A c \in Client : \A i \in 1..Len(toClient[c]) :
        toClient[c][i].type = "dsf" => Past(toClient[c][i].tx)

FitInv == MnInv(mn) /\ EntriesInv /\ ClientInv /\ DsiInv /\ DssInv /\ DsfInv

LEMMA TypedMessages ==
    ASSUME Typed, NEW c \in Client
    PROVE  /\ Len(toMn[c]) \in Nat /\ Len(toClient[c]) \in Nat /\ made[c] \in Nat
           /\ \A i \in 1..Len(toMn[c]) :
                /\ toMn[c][i].type \in {"dsa", "dsi", "dss"}
                /\ toMn[c][i].type = "dsi" => toMn[c][i].entry \in Entry
                /\ toMn[c][i].type = "dss" => toMn[c][i].sig \in Signature
           /\ \A i \in 1..Len(toClient[c]) :
                /\ toClient[c][i] \in FromMn(sessions)
                /\ toClient[c][i].type = "dsf" => toClient[c][i].tx \subseteq Entry
<1>1. toMn[c] \in Seq(ToMn) /\ toClient[c] \in Seq(FromMn(sessions)) /\ made[c] \in Nat
    BY DEF Typed
<1>2. Len(toMn[c]) \in Nat /\ Len(toClient[c]) \in Nat
    BY <1>1, LenProperties
<1>3. \A i \in 1..Len(toMn[c]) : toMn[c][i] \in ToMn
    BY <1>1, ElementOfSeq
<1>4. \A i \in 1..Len(toClient[c]) : toClient[c][i] \in FromMn(sessions)
    BY <1>1, ElementOfSeq
<1>5. ASSUME NEW m \in ToMn
      PROVE  /\ m.type \in {"dsa", "dsi", "dss"}
             /\ m.type = "dsi" => m.entry \in Entry
             /\ m.type = "dss" => m.sig \in Signature
    BY DEF ToMn
<1>6. ASSUME NEW m \in FromMn(sessions) PROVE m.type = "dsf" => m.tx \subseteq Entry
    BY DEF FromMn
<1> QED BY <1>1, <1>2, <1>3, <1>4, <1>5, <1>6

LEMMA EntryFacts ==
    ASSUME NEW e \in Entry
    PROVE  /\ e.coin \in Coin /\ e.out \in Nat /\ Owner[e.coin] \in Client
           /\ \A f \in Entry : f.coin = e.coin /\ f.out = e.out => f = e
<1>1. e.coin \in Coin /\ e.out \in Nat
    BY DEF Entry
<1>2. Owner[e.coin] \in Client
    BY <1>1, DarksendAssumption DEF DarksendAssumption
<1>3. \A f \in Entry : f.coin = e.coin /\ f.out = e.out => f = e
    BY DEF Entry
<1> QED BY <1>1, <1>2, <1>3

\* r is what is left of q when some have been taken.
Suffix(q, r) ==
    \E k \in Nat : Len(q) = Len(r) + k /\ \A i \in 1..Len(r) : r[i] = q[i + k]

\* How the primenode's entries change: some go, and those of a transaction only together;
\* or the next entry of a participant comes.
EntriesGo ==
    \/ /\ mn'.entries \subseteq mn.entries
       /\ mn.state \in Sealed /\ mn'.entries # {} => mn'.state \in Sealed /\ mn'.entries = mn.entries
    \/ \E c \in Client :
         /\ toMn[c] # <<>> /\ toMn[c][1].type = "dsi" /\ toMn'[c] = Tail(toMn[c])
         /\ mn.state \notin Sealed /\ mn'.entries = mn.entries \cup {toMn[c][1].entry}

LEMMA BeforeKept ==
    ASSUME Typed, Typed', NEW e \in Entry, Before(e), made[Owner[e.coin]] <= made'[Owner[e.coin]],
           \A i \in 1..Len(toMn'[Owner[e.coin]]) :
             toMn'[Owner[e.coin]][i].type = "dsi" =>
               \/ \E j \in 1..Len(toMn[Owner[e.coin]]) : toMn'[Owner[e.coin]][i] = toMn[Owner[e.coin]][j]
               \/ toMn'[Owner[e.coin]][i].entry.out > made[Owner[e.coin]]
    PROVE  Before(e)'
<1> DEFINE o == Owner[e.coin]
<1>1. e.out \in Nat /\ o \in Client
    BY EntryFacts
<1>2. made[o] \in Nat /\ made'[o] \in Nat
    BY <1>1 DEF Typed
<1>3. /\ e.out <= made[o]
      /\ \A i \in 1..Len(toMn[o]) : toMn[o][i].type = "dsi" => e.out < toMn[o][i].entry.out
    BY DEF Before
<1>4. e.out <= made'[o]
    <2> DEFINE k == made[o]
               l == made'[o]
               z == e.out
    <2>1. z \in Nat /\ k \in Nat /\ l \in Nat /\ z <= k /\ k <= l
        BY <1>1, <1>2, <1>3
    <2> HIDE DEF k, l, z
    <2>2. z <= l
        BY ONLY <2>1
    <2> QED BY ONLY <2>2 DEF z, l
<1>5. \A i \in 1..Len(toMn'[o]) : toMn'[o][i].type = "dsi" => toMn'[o][i].entry \in Entry
    <2>1. toMn'[o] \in Seq(ToMn)
        BY <1>1 DEF Typed
    <2>2. \A i \in 1..Len(toMn'[o]) : toMn'[o][i] \in ToMn
        BY <2>1, ElementOfSeq
    <2>3. ASSUME NEW m \in ToMn PROVE m.type = "dsi" => m.entry \in Entry
        BY DEF ToMn
    <2> QED BY <2>2, <2>3
<1>6. ASSUME NEW i \in 1..Len(toMn'[o]), toMn'[o][i].type = "dsi" PROVE e.out < toMn'[o][i].entry.out
    <2>1. toMn'[o][i].entry.out \in Nat
        BY <1>5, <1>6, EntryFacts
    <2>2. CASE \E j \in 1..Len(toMn[o]) : toMn'[o][i] = toMn[o][j]
        BY <1>3, <1>6, <2>2
    <2>3. CASE toMn'[o][i].entry.out > made[o]
        <3> DEFINE k == made[o]
                   v == toMn'[o][i].entry.out
                   z == e.out
        <3>1. z \in Nat /\ k \in Nat /\ v \in Nat /\ z <= k /\ v > k
            BY <1>1, <1>2, <1>3, <2>1, <2>3
        <3> HIDE DEF k, v, z
        <3>2. z < v
            BY ONLY <3>1
        <3> QED BY ONLY <3>2 DEF z, v
    <2> QED BY <1>6, <2>2, <2>3
<1> QED BY <1>4, <1>6 DEF Before

LEMMA PastKept ==
    ASSUME Typed, FitInv, NEW tx, tx \subseteq Entry, Past(tx), \A e \in tx : Before(e)', EntriesGo
    PROVE  Past(tx)'
<1>1. CASE /\ mn'.entries \subseteq mn.entries
           /\ mn.state \in Sealed /\ mn'.entries # {} => mn'.state \in Sealed /\ mn'.entries = mn.entries
    BY <1>1 DEF Past
<1>2. CASE \E c \in Client :
             /\ toMn[c] # <<>> /\ toMn[c][1].type = "dsi" /\ toMn'[c] = Tail(toMn[c])
             /\ mn.state \notin Sealed /\ mn'.entries = mn.entries \cup {toMn[c][1].entry}
    <2>1. PICK c \in Client :
             /\ toMn[c] # <<>> /\ toMn[c][1].type = "dsi" /\ toMn'[c] = Tail(toMn[c])
             /\ mn.state \notin Sealed /\ mn'.entries = mn.entries \cup {toMn[c][1].entry}
        BY <1>2
    <2>2. 1 \in 1..Len(toMn[c])
        <3>1. toMn[c] \in Seq(ToMn)
            BY DEF Typed
        <3>2. Len(toMn[c]) \in Nat /\ Len(toMn[c]) # 0
            BY <2>1, <3>1, LenProperties, EmptySeq
        <3> QED BY <3>2
    <2> DEFINE f == toMn[c][1].entry
    <2>3. f \in Entry /\ Owner[f.coin] = c
        BY <2>1, <2>2, TypedMessages DEF FitInv, DsiInv
    <2> HIDE DEF f
    <2>4. mn'.entries = mn.entries \cup {f}
        BY <2>1 DEF f
    <2>5. ASSUME NEW e \in tx, e.coin = f.coin PROVE e.out < f.out
        <3>1. Before(e) /\ Owner[e.coin] = c
            BY <2>3, <2>5 DEF Past
        <3> QED BY <2>1, <2>2, <3>1 DEF Before, f
    <2>6. ASSUME NEW e \in tx, NEW h \in mn'.entries, e.coin = h.coin PROVE e.out <= h.out
        <3>1. CASE h = f
            <4>1. e.out < f.out /\ e.out \in Nat /\ f.out \in Nat
                BY <2>3, <2>5, <2>6, <3>1, EntryFacts
            <4> QED BY <3>1, <4>1
        <3>2. CASE h \in mn.entries
            BY <2>6, <3>2 DEF Past
        <3> QED BY <2>4, <3>1, <3>2
    <2>7. ASSUME NEW e \in tx PROVE e \notin mn'.entries
        <3>1. e \notin mn.entries
            BY <2>1 DEF Past
        <3>2. e # f
            <4>1. e.out \in Nat /\ f.out \in Nat
                BY <2>3, EntryFacts
            <4> QED BY <2>5, <4>1
        <3> QED BY <2>4, <3>1, <3>2
    <2> QED BY <2>6, <2>7 DEF Past
<1> QED BY <1>1, <1>2 DEF EntriesGo

LEMMA SuffixFacts ==
    ASSUME NEW X, NEW q \in Seq(X)
    PROVE  /\ Suffix(q, q) /\ Suffix(q, <<>>)
           /\ q # <<>> => Suffix(q, Tail(q)) /\ Len(q) \in Nat \ {0} /\ Head(q) = q[1]
<1>1. Len(q) \in Nat
    BY LenProperties
<1>2. Suffix(q, q)
    <2>1. 0 \in Nat /\ Len(q) = Len(q) + 0 /\ \A i \in 1..Len(q) : i + 0 = i
        BY <1>1
    <2>2. \A i \in 1..Len(q) : q[i] = q[i + 0]
        BY <2>1
    <2> QED BY <2>1, <2>2 DEF Suffix
<1>3. Suffix(q, <<>>)
    <2>1. Len(<<>>) = 0
        BY EmptySeq
    <2>2. Len(q) = 0 + Len(q) /\ 1..0 = {}
        BY <1>1
    <2> QED BY <1>1, <2>1, <2>2 DEF Suffix
<1>4. ASSUME q # <<>> PROVE Suffix(q, Tail(q)) /\ Len(q) \in Nat \ {0} /\ Head(q) = q[1]
    <2>1. Len(q) # 0
        BY <1>4, EmptySeq
    <2>2. /\ Tail(q) \in Seq(X) /\ Len(Tail(q)) = Len(q) - 1
          /\ \A i \in 1..Len(Tail(q)) : Tail(q)[i] = q[i + 1]
        BY <1>4, HeadTailProperties
    <2>3. Len(q) = Len(Tail(q)) + 1 /\ 1 \in Nat
        BY <1>1, <2>2
    <2>4. Suffix(q, Tail(q))
        BY <2>2, <2>3 DEF Suffix
    <2> QED BY <1>1, <2>1, <2>4, HeadTailProperties
<1> QED BY <1>2, <1>3, <1>4

\* A step of the primenode, in which queues to it only get shorter.
LEMMA MnKeepsFit ==
    ASSUME Typed, Typed', FitInv, MnInv(mn'), EntriesGo, made' = made,
           \A d \in Client : pool'[d].entries = pool[d].entries,
           \A d \in Client : Suffix(toMn[d], toMn'[d]),
           \A d \in Client : \A i \in 1..Len(toClient'[d]) :
             toClient'[d][i].type = "dsf" =>
               \/ \E j \in 1..Len(toClient[d]) : toClient'[d][i] = toClient[d][j]
               \/ mn'.state \in Sealed /\ toClient'[d][i].tx = mn'.entries
    PROVE  FitInv'
<1>0. \A d \in Client : Len(toMn'[d]) \in Nat /\ Len(toMn[d]) \in Nat
    <2>1. \A d \in Client : toMn'[d] \in Seq(ToMn) /\ toMn[d] \in Seq(ToMn)
        BY DEF Typed
    <2> QED BY <2>1, LenProperties
<1>1. ASSUME NEW d \in Client, NEW i \in 1..Len(toMn'[d])
      PROVE  \E j \in 1..Len(toMn[d]) : toMn'[d][i] = toMn[d][j]
    <2>1. PICK k \in Nat : Len(toMn[d]) = Len(toMn'[d]) + k
                           /\ \A j \in 1..Len(toMn'[d]) : toMn'[d][j] = toMn[d][j + k]
        BY DEF Suffix
    <2>2. i + k \in 1..Len(toMn[d])
        BY <1>0, <2>1
    <2> QED BY <2>1, <2>2
<1>2. ASSUME NEW e \in Entry, Before(e) PROVE Before(e)'
    <2>1. Owner[e.coin] \in Client /\ made[Owner[e.coin]] \in Nat
        BY EntryFacts DEF Typed
    <2>2. made[Owner[e.coin]] <= made'[Owner[e.coin]]
        BY <2>1
    <2>3. \A i \in 1..Len(toMn'[Owner[e.coin]]) :
            \E j \in 1..Len(toMn[Owner[e.coin]]) : toMn'[Owner[e.coin]][i] = toMn[Owner[e.coin]][j]
        BY <1>1, <2>1
    <2> QED BY ONLY Typed, Typed', e \in Entry, <1>2, <2>2, <2>3, BeforeKept
<1>3. ASSUME NEW tx, tx \subseteq Entry, Past(tx) PROVE Past(tx)'
    <2>1. \A e \in tx : Before(e)
        BY <1>3 DEF Past
    <2>2. \A e \in tx : Before(e)'
        BY <1>2, <1>3, <2>1
    <2> QED BY <1>3, <2>2, PastKept
<1>4. EntriesInv'
    <2> SUFFICES ASSUME NEW e, e \in mn'.entries PROVE Before(e)'
        BY DEF EntriesInv
    <2>1. CASE e \in mn.entries
        <3>1. e \in Entry
            BY <2>1 DEF Typed, MnPool
        <3>2. Before(e)
            BY <2>1 DEF FitInv, EntriesInv
        <3> QED BY <1>2, <3>1, <3>2
    <2>2. CASE e \notin mn.entries
        <3>1. PICK c \in Client :
                /\ toMn[c] # <<>> /\ toMn[c][1].type = "dsi" /\ toMn'[c] = Tail(toMn[c])
                /\ e = toMn[c][1].entry
            BY <2>2 DEF EntriesGo
        <3>2. toMn[c] \in Seq(ToMn)
            BY DEF Typed
        <3>3. /\ Len(toMn[c]) \in Nat \ {0} /\ Len(toMn'[c]) = Len(toMn[c]) - 1
              /\ \A i \in 1..Len(toMn'[c]) : toMn'[c][i] = toMn[c][i + 1]
            BY <3>1, <3>2, SuffixFacts, HeadTailProperties
        <3>4. 1 \in 1..Len(toMn[c])
            BY <3>3
        <3>5. e \in Entry /\ Owner[e.coin] = c /\ e.out <= made[c]
            BY <3>1, <3>4, TypedMessages DEF FitInv, DsiInv
        <3>6. ASSUME NEW i \in 1..Len(toMn'[c]), toMn'[c][i].type = "dsi" PROVE e.out < toMn'[c][i].entry.out
            <4>1. PICK l \in 1..Len(toMn[c]) : 1 \in 1..(l - 1) /\ toMn'[c][i] = toMn[c][l]
                <5>1. i + 1 \in 1..Len(toMn[c]) /\ 1 \in 1..((i + 1) - 1) /\ toMn'[c][i] = toMn[c][i + 1]
                    BY <3>3
                <5> QED BY <5>1
            <4>2. toMn[c][1].entry.out < toMn[c][l].entry.out
                BY <3>1, <3>6, <4>1 DEF FitInv, DsiInv
            <4> QED BY <3>1, <4>1, <4>2
        <3> QED BY <3>5, <3>6 DEF Before
    <2> QED BY <2>1, <2>2
<1>5. ClientInv'
    <2>1. ClientInv /\ pool' \in [Client -> ClientPool(sessions')]
        BY DEF FitInv, Typed
    <2> SUFFICES ASSUME NEW d \in Client, NEW e, e \in pool'[d].entries
                 PROVE  pool'[d].entries = {e} /\ e.out = made'[d] /\ Owner[e.coin] = d
        BY DEF ClientInv
    <2> QED BY <2>1 DEF ClientInv
<1>6. ASSUME NEW d \in Client, NEW i \in 1..Len(toMn'[d])
      PROVE  \E l \in 1..Len(toMn[d]) : /\ toMn'[d][i] = toMn[d][l] /\ l = i + (Len(toMn[d]) - Len(toMn'[d]))
                                         /\ \A j \in 1..(i - 1) : \E h \in 1..(l - 1) : toMn'[d][j] = toMn[d][h]
    <2>1. PICK k \in Nat : Len(toMn[d]) = Len(toMn'[d]) + k
                           /\ \A j \in 1..Len(toMn'[d]) : toMn'[d][j] = toMn[d][j + k]
        BY DEF Suffix
    <2>2. i + k \in 1..Len(toMn[d])
        BY <1>0, <2>1
    <2>3. ASSUME NEW j \in 1..(i - 1) PROVE \E h \in 1..((i + k) - 1) : toMn'[d][j] = toMn[d][h]
        <3>1. j \in 1..Len(toMn'[d]) /\ j + k \in 1..((i + k) - 1)
            BY <1>0
        <3> QED BY <2>1, <3>1
    <2>4. toMn'[d][i] = toMn[d][i + k] /\ i + k = i + (Len(toMn[d]) - Len(toMn'[d]))
        BY <1>0, <2>1
    <2> QED BY <2>2, <2>3, <2>4
<1>7. DsiInv'
    <2> SUFFICES ASSUME NEW d \in Client, NEW i \in 1..Len(toMn'[d]), toMn'[d][i].type = "dsi"
                 PROVE  /\ Owner[toMn'[d][i].entry.coin] = d /\ toMn'[d][i].entry.out <= made'[d]
                        /\ \A j \in 1..(i - 1) :
                             toMn'[d][j].type = "dsi" => toMn'[d][j].entry.out < toMn'[d][i].entry.out
        BY DEF DsiInv
    <2>1. PICK l \in 1..Len(toMn[d]) : /\ toMn'[d][i] = toMn[d][l] /\ l = i + (Len(toMn[d]) - Len(toMn'[d]))
                                       /\ \A j \in 1..(i - 1) : \E h \in 1..(l - 1) : toMn'[d][j] = toMn[d][h]
        BY <1>6
    <2>2. /\ Owner[toMn[d][l].entry.coin] = d /\ toMn[d][l].entry.out <= made[d]
          /\ \A h \in 1..(l - 1) : toMn[d][h].type = "dsi" => toMn[d][h].entry.out < toMn[d][l].entry.out
        <3>1. DsiInv /\ d \in Client /\ l \in 1..Len(toMn[d]) /\ toMn[d][l].type = "dsi"
            BY <2>1 DEF FitInv
        <3> QED BY ONLY <3>1 DEF DsiInv
    <2>3. ASSUME NEW j \in 1..(i - 1), toMn'[d][j].type = "dsi"
          PROVE  toMn'[d][j].entry.out < toMn'[d][i].entry.out
        <3>1. PICK h \in 1..(l - 1) : toMn'[d][j] = toMn[d][h]
            BY <2>1
        <3> QED BY <2>1, <2>2, <2>3, <3>1
    <2> QED BY <2>1, <2>2, <2>3
<1>8. DssInv'
    <2> SUFFICES ASSUME NEW d \in Client, NEW i \in 1..Len(toMn'[d]), toMn'[d][i].type = "dss",
                        NEW g, g = toMn'[d][i].sig
                 PROVE  (Owner[g.coin] = d /\ Past(g.tx) /\ \E e \in g.tx : e.coin = g.coin /\ After(d, i, e))'
        BY DEF DssInv
    <2>1. PICK l \in 1..Len(toMn[d]) : /\ toMn'[d][i] = toMn[d][l] /\ l = i + (Len(toMn[d]) - Len(toMn'[d]))
                                       /\ \A j \in 1..(i - 1) : \E h \in 1..(l - 1) : toMn'[d][j] = toMn[d][h]
        BY <1>6
    <2>2. /\ Owner[g.coin] = d /\ Past(g.tx) /\ \E e \in g.tx : e.coin = g.coin /\ After(d, l, e)
        <3>1. DssInv /\ d \in Client /\ l \in 1..Len(toMn[d]) /\ toMn[d][l].type = "dss" /\ g = toMn[d][l].sig
            BY <2>1 DEF FitInv
        <3> QED BY ONLY <3>1 DEF DssInv
    <2>3. g \in Signature /\ g.tx \subseteq Entry
        <3>1. g \in Signature
            BY <2>1, TypedMessages
        <3> QED BY <3>1 DEF Signature
    <2>4. Past(g.tx)'
        BY <1>3, <2>2, <2>3
    <2>5. PICK e \in g.tx : e.coin = g.coin /\ After(d, l, e)
        BY <2>2
    <2>6. After(d, i, e)'
        <3>1. ASSUME NEW j \in 1..(i - 1), toMn'[d][j].type = "dsi" PROVE toMn'[d][j].entry.out <= e.out
            BY <2>1, <2>5, <3>1 DEF After
        <3>2. ASSUME NEW f \in mn'.entries, f.coin = e.coin PROVE f.out <= e.out
            <4>1. CASE f \in mn.entries
                BY <2>5, <3>2, <4>1 DEF After
            <4>2. CASE f \notin mn.entries
                <5>1. PICK c \in Client :
                        /\ toMn[c] # <<>> /\ toMn[c][1].type = "dsi" /\ toMn'[c] = Tail(toMn[c])
                        /\ f = toMn[c][1].entry
                    BY <4>2 DEF EntriesGo
                <5>2. toMn[c] \in Seq(ToMn)
                    BY DEF Typed
                <5>3. Len(toMn[c]) \in Nat \ {0} /\ Len(toMn'[c]) = Len(toMn[c]) - 1
                    BY <5>1, <5>2, SuffixFacts, HeadTailProperties
                <5>4. 1 \in 1..Len(toMn[c])
                    BY <5>3
                <5>5. Owner[f.coin] = c
                    BY <5>1, <5>4 DEF FitInv, DsiInv
                <5>6. c = d
                    BY <2>2, <2>5, <3>2, <5>5
                <5>7. l = i + 1
                    <6>1. Len(toMn[d]) \in Nat /\ Len(toMn'[d]) = Len(toMn[d]) - 1
                        BY <5>3, <5>6
                    <6>2. l = i + (Len(toMn[d]) - Len(toMn'[d])) /\ i \in Int
                        BY <2>1
                    <6> QED BY ONLY <6>1, <6>2
                <5>8. 1 \in 1..(l - 1)
                    BY <1>0, <5>7
                <5> QED BY <2>5, <5>1, <5>6, <5>8 DEF After
            <4> QED BY <4>1, <4>2
        <3> QED BY <3>1, <3>2 DEF After
    <2> QED BY <2>2, <2>4, <2>5, <2>6
<1>9. DsfInv'
    <2> SUFFICES ASSUME NEW d \in Client, NEW i \in 1..Len(toClient'[d]), toClient'[d][i].type = "dsf",
                        NEW tx, tx = toClient'[d][i].tx
                 PROVE  Past(tx)'
        BY DEF DsfInv
    <2>1. CASE \E j \in 1..Len(toClient[d]) : toClient'[d][i] = toClient[d][j]
        <3>1. PICK j \in 1..Len(toClient[d]) : toClient'[d][i] = toClient[d][j]
            BY <2>1
        <3>2. tx \subseteq Entry /\ Past(tx)
            BY <3>1, TypedMessages DEF FitInv, DsfInv
        <3> QED BY <1>3, <3>2
    <2>2. CASE mn'.state \in Sealed /\ toClient'[d][i].tx = mn'.entries
        <3>1. tx = mn'.entries
            BY <2>2
        <3>2. \A e \in tx : Before(e)'
            <4>1. \A e \in mn'.entries : Before(e)'
                BY <1>4 DEF EntriesInv
            <4> QED BY <3>1, <4>1
        <3>3. ASSUME NEW e \in tx, NEW f \in mn'.entries, e.coin = f.coin PROVE e.out <= f.out
            <4>1. e = f
                BY <3>1, <3>3 DEF MnInv
            <4>2. f \in Entry
                BY DEF Typed, MnPool
            <4>3. f.out \in Nat
                BY <4>2, EntryFacts
            <4> QED BY <4>1, <4>3
        <3> QED BY <2>2, <3>1, <3>2, <3>3 DEF Past
    <2> QED BY <2>1, <2>2
<1>10. (MnInv(mn))'
    OBVIOUS
<1> QED BY <1>4, <1>5, <1>7, <1>8, <1>9, <1>10 DEF FitInv

\* What a step of participant c sends: nothing that matters, an entry, or a signature
\* over a transaction it has heard of and has an entry in.
Quiet(c) ==
    /\ made'[c] = made[c] /\ pool'[c].entries \subseteq pool[c].entries
    /\ toMn'[c] = toMn[c] \/ toMn'[c] = Append(toMn[c], [type |-> "dsa"])

SendsEntry(c) ==
    \E e \in Entry :
        /\ Owner[e.coin] = c /\ e.out = made[c] + 1 /\ made'[c] = made[c] + 1 /\ pool'[c].entries = {e}
        /\ toMn'[c] = Append(toMn[c], [type |-> "dsi", entry |-> e])

SendsSignature(c) ==
    \E g \in Signature :
        /\ made'[c] = made[c] /\ pool'[c].entries = pool[c].entries /\ Past(g.tx)
        /\ \E e \in pool[c].entries : e \in g.tx /\ e.coin = g.coin
        /\ toMn'[c] = Append(toMn[c], [type |-> "dss", sig |-> g])

LEMMA SentFacts ==
    ASSUME Typed, NEW c \in Client, NEW m \in ToMn, NEW q, q = Append(toMn[c], m)
    PROVE  /\ Len(toMn[c]) \in Nat /\ Len(q) = Len(toMn[c]) + 1 /\ q[Len(toMn[c]) + 1] = m
           /\ \A i \in 1..Len(toMn[c]) : q[i] = toMn[c][i]
           /\ \A i \in 1..Len(q) : i \in 1..Len(toMn[c]) \/ i = Len(toMn[c]) + 1
<1>1. toMn[c] \in Seq(ToMn)
    BY DEF Typed
<1>2. /\ Len(toMn[c]) \in Nat /\ Len(q) = Len(toMn[c]) + 1 /\ q[Len(toMn[c]) + 1] = m
      /\ \A i \in 1..Len(toMn[c]) : q[i] = toMn[c][i]
    BY <1>1, AppendFacts
<1> QED BY <1>2

LEMMA ClientKeepsFit ==
    ASSUME Typed, Typed', FitInv, NEW c \in Client, mn' = mn,
           \A d \in Client \ {c} : toMn'[d] = toMn[d] /\ pool'[d] = pool[d] /\ made'[d] = made[d],
           \A d \in Client : Suffix(toClient[d], toClient'[d]),
           Quiet(c) \/ SendsEntry(c) \/ SendsSignature(c)
    PROVE  FitInv'
<1>0. \A d \in Client : Len(toMn[d]) \in Nat /\ made[d] \in Nat /\ made'[d] \in Nat
    BY TypedMessages DEF Typed
<1>1. made[c] <= made'[c]
    <2>1. made'[c] = made[c] \/ made'[c] = made[c] + 1
        BY DEF Quiet, SendsEntry, SendsSignature
    <2>2. made[c] \in Nat /\ made'[c] \in Nat
        BY <1>0
    <2> QED BY ONLY <2>1, <2>2
<1>2. \E m \in ToMn :
        /\ toMn'[c] = toMn[c] \/ toMn'[c] = Append(toMn[c], m)
        /\ m.type = "dsi" =>
             /\ m.entry \in Entry /\ Owner[m.entry.coin] = c /\ m.entry.out = made[c] + 1
             /\ made'[c] = made[c] + 1 /\ pool'[c].entries = {m.entry}
        /\ m.type # "dsi" => made'[c] = made[c] /\ pool'[c].entries \subseteq pool[c].entries
        /\ m.type = "dss" =>
             /\ m.sig \in Signature /\ Past(m.sig.tx)
             /\ \E e \in pool[c].entries : e \in m.sig.tx /\ e.coin = m.sig.coin
    <2>1. CASE Quiet(c)
        <3> DEFINE m == [type |-> "dsa"]
        <3>1. m \in ToMn /\ m.type = "dsa"
            BY DEF ToMn
        <3> QED BY <2>1, <3>1 DEF Quiet
    <2>2. CASE SendsEntry(c)
        <3>1. PICK e \in Entry :
                /\ Owner[e.coin] = c /\ e.out = made[c] + 1 /\ made'[c] = made[c] + 1 /\ pool'[c].entries = {e}
                /\ toMn'[c] = Append(toMn[c], [type |-> "dsi", entry |-> e])
            BY <2>2 DEF SendsEntry
        <3> DEFINE m == [type |-> "dsi", entry |-> e]
        <3>2. m \in ToMn /\ m.type = "dsi" /\ m.entry = e
            BY DEF ToMn
        <3> QED BY <3>1, <3>2
    <2>3. CASE SendsSignature(c)
        <3>1. PICK g \in Signature :
                /\ made'[c] = made[c] /\ pool'[c].entries = pool[c].entries /\ Past(g.tx)
                /\ \E e \in pool[c].entries : e \in g.tx /\ e.coin = g.coin
                /\ toMn'[c] = Append(toMn[c], [type |-> "dss", sig |-> g])
            BY <2>3 DEF SendsSignature
        <3> DEFINE m == [type |-> "dss", sig |-> g]
        <3>2. m \in ToMn /\ m.type = "dss" /\ m.sig = g
            BY DEF ToMn
        <3> QED BY <3>1, <3>2
    <2> QED BY <2>1, <2>2, <2>3
<1>3. PICK m \in ToMn :
        /\ toMn'[c] = toMn[c] \/ toMn'[c] = Append(toMn[c], m)
        /\ m.type = "dsi" =>
             /\ m.entry \in Entry /\ Owner[m.entry.coin] = c /\ m.entry.out = made[c] + 1
             /\ made'[c] = made[c] + 1 /\ pool'[c].entries = {m.entry}
        /\ m.type # "dsi" => made'[c] = made[c] /\ pool'[c].entries \subseteq pool[c].entries
        /\ m.type = "dss" =>
             /\ m.sig \in Signature /\ Past(m.sig.tx)
             /\ \E e \in pool[c].entries : e \in m.sig.tx /\ e.coin = m.sig.coin
    BY <1>2
<1>4. ASSUME NEW i \in 1..Len(toMn'[c])
      PROVE  \/ i \in 1..Len(toMn[c]) /\ toMn'[c][i] = toMn[c][i] /\ \A j \in 1..(i - 1) : toMn'[c][j] = toMn[c][j]
             \/ i = Len(toMn[c]) + 1 /\ toMn'[c][i] = m /\ \A j \in 1..(i - 1) : toMn'[c][j] = toMn[c][j]
    <2>1. CASE toMn'[c] = toMn[c]
        BY <2>1
    <2>2. CASE toMn'[c] = Append(toMn[c], m)
        <3>1. /\ toMn'[c][Len(toMn[c]) + 1] = m
              /\ \A j \in 1..Len(toMn[c]) : toMn'[c][j] = toMn[c][j]
              /\ i \in 1..Len(toMn[c]) \/ i = Len(toMn[c]) + 1
            BY <2>2, SentFacts
        <3>2. \A j \in 1..(i - 1) : j \in 1..Len(toMn[c])
            BY <1>0, <3>1
        <3> QED BY <3>1, <3>2
    <2> QED BY <1>3, <2>1, <2>2
<1>5. ASSUME NEW d \in Client, NEW i \in 1..Len(toMn'[d])
      PROVE  \/ i \in 1..Len(toMn[d]) /\ toMn'[d][i] = toMn[d][i] /\ \A j \in 1..(i - 1) : toMn'[d][j] = toMn[d][j]
             \/ /\ d = c /\ i = Len(toMn[d]) + 1 /\ toMn'[d][i] = m
                /\ \A j \in 1..(i - 1) : toMn'[d][j] = toMn[d][j]
    <2>1. CASE d = c
        BY <1>4, <2>1
    <2>2. CASE d # c
        BY <2>2
    <2> QED BY <2>1, <2>2
<1>6. ASSUME NEW e \in Entry, Before(e) PROVE Before(e)'
    <2> DEFINE o == Owner[e.coin]
    <2>1. o \in Client
        BY EntryFacts
    <2>2. made[o] <= made'[o]
        BY <1>0, <1>1, <2>1
    <2>3. ASSUME NEW i \in 1..Len(toMn'[o]), toMn'[o][i].type = "dsi"
          PROVE  (\E j \in 1..Len(toMn[o]) : toMn'[o][i] = toMn[o][j]) \/ toMn'[o][i].entry.out > made[o]
        <3>1. CASE i \in 1..Len(toMn[o]) /\ toMn'[o][i] = toMn[o][i]
            BY <3>1
        <3>2. CASE o = c /\ toMn'[o][i] = m
            <4>1. m.type = "dsi" /\ m.entry.out = made[o] + 1
                BY <1>3, <2>3, <3>2
            <4> QED BY <1>0, <2>1, <3>2, <4>1
        <3> QED BY <1>5, <2>1, <3>1, <3>2
    <2> QED BY <1>6, <2>2, <2>3, BeforeKept
<1>7. EntriesGo
    <2>1. mn'.entries \subseteq mn.entries /\ (mn.state \in Sealed => mn'.state \in Sealed) /\ mn'.entries = mn.entries
        OBVIOUS
    <2> QED BY <2>1 DEF EntriesGo
<1>8. ASSUME NEW tx, tx \subseteq Entry, Past(tx) PROVE Past(tx)'
    <2>1. \A e \in tx : Before(e)
        BY <1>8 DEF Past
    <2>2. \A e \in tx : Before(e)'
        BY <1>6, <1>8, <2>1
    <2> QED BY <1>7, <1>8, <2>2, PastKept
<1>9. MnInv(mn)' /\ EntriesInv'
    <2> SUFFICES ASSUME NEW e, e \in mn'.entries PROVE Before(e)'
        BY DEF FitInv, EntriesInv
    <2>1. e \in Entry /\ Before(e)
        BY DEF FitInv, EntriesInv, Typed, MnPool
    <2> QED BY <1>6, <2>1
<1>10. ClientInv'
    <2> SUFFICES ASSUME NEW d \in Client, NEW e, e \in pool'[d].entries
                 PROVE  pool'[d].entries = {e} /\ e.out = made'[d] /\ Owner[e.coin] = d
        BY DEF ClientInv
    <2>1. CASE d # c
        <3>1. pool'[d] = pool[d] /\ made'[d] = made[d]
            BY <2>1
        <3> QED BY <3>1 DEF FitInv, ClientInv
    <2>2. CASE d = c /\ m.type = "dsi"
        BY <1>3, <2>2
    <2>3. CASE d = c /\ m.type # "dsi"
        <3>1. made'[d] = made[d] /\ pool'[d].entries \subseteq pool[d].entries
            BY <1>3, <2>3
        <3>2. pool[d].entries = {e} /\ e.out = made[d] /\ Owner[e.coin] = d
            BY <3>1 DEF FitInv, ClientInv
        <3> QED BY <3>1, <3>2
    <2> QED BY <2>1, <2>2, <2>3
<1>11. DsiInv'
    <2> SUFFICES ASSUME NEW d \in Client, NEW i \in 1..Len(toMn'[d]), toMn'[d][i].type = "dsi"
                 PROVE  /\ Owner[toMn'[d][i].entry.coin] = d /\ toMn'[d][i].entry.out <= made'[d]
                        /\ \A j \in 1..(i - 1) :
                             toMn'[d][j].type = "dsi" => toMn'[d][j].entry.out < toMn'[d][i].entry.out
        BY DEF DsiInv
    <2>0. made[d] <= made'[d]
        BY <1>0, <1>1
    <2>1. CASE i \in 1..Len(toMn[d]) /\ toMn'[d][i] = toMn[d][i] /\ \A j \in 1..(i - 1) : toMn'[d][j] = toMn[d][j]
        <3>1. /\ Owner[toMn[d][i].entry.coin] = d /\ toMn[d][i].entry.out <= made[d]
              /\ \A j \in 1..(i - 1) : toMn[d][j].type = "dsi" => toMn[d][j].entry.out < toMn[d][i].entry.out
            BY <2>1 DEF FitInv, DsiInv
        <3>2. toMn[d][i].entry.out \in Nat
            BY <2>1, TypedMessages, EntryFacts
        <3>3. toMn[d][i].entry.out <= made'[d]
            BY <1>0, <2>0, <3>1, <3>2
        <3> QED BY <2>1, <3>1, <3>3
    <2>2. CASE /\ d = c /\ i = Len(toMn[d]) + 1 /\ toMn'[d][i] = m
               /\ \A j \in 1..(i - 1) : toMn'[d][j] = toMn[d][j]
        <3>1. m.entry \in Entry /\ Owner[m.entry.coin] = d /\ m.entry.out = made[d] + 1 /\ made'[d] = made[d] + 1
            BY <1>3, <2>2
        <3>2. ASSUME NEW j \in 1..(i - 1), toMn[d][j].type = "dsi" PROVE toMn[d][j].entry.out < m.entry.out
            <4>1. j \in 1..Len(toMn[d])
                BY <1>0, <2>2
            <4>2. toMn[d][j].entry \in Entry /\ toMn[d][j].entry.out <= made[d]
                BY <3>2, <4>1, TypedMessages DEF FitInv, DsiInv
            <4>3. toMn[d][j].entry.out \in Nat
                BY <4>2, EntryFacts
            <4> QED BY <1>0, <3>1, <4>2, <4>3
        <3>3. m.entry.out <= made'[d]
            BY <1>0, <3>1
        <3> QED BY <2>2, <3>1, <3>2, <3>3
    <2> QED BY <1>5, <2>1, <2>2
<1>12. DssInv'
    <2> SUFFICES ASSUME NEW d \in Client, NEW i \in 1..Len(toMn'[d]), toMn'[d][i].type = "dss",
                        NEW g, g = toMn'[d][i].sig
                 PROVE  (Owner[g.coin] = d /\ Past(g.tx) /\ \E e \in g.tx : e.coin = g.coin /\ After(d, i, e))'
        BY DEF DssInv
    <2>1. CASE i \in 1..Len(toMn[d]) /\ toMn'[d][i] = toMn[d][i] /\ \A j \in 1..(i - 1) : toMn'[d][j] = toMn[d][j]
        <3>1. Owner[g.coin] = d /\ Past(g.tx) /\ \E e \in g.tx : e.coin = g.coin /\ After(d, i, e)
            BY <2>1 DEF FitInv, DssInv
        <3>2. g \in Signature
            BY <2>1, TypedMessages
        <3>3. Past(g.tx)'
            BY <1>8, <3>1, <3>2 DEF Signature
        <3>4. PICK e \in g.tx : e.coin = g.coin /\ After(d, i, e)
            BY <3>1
        <3>5. After(d, i, e)'
            BY <2>1, <3>4 DEF After
        <3> QED BY <3>1, <3>3, <3>4, <3>5
    <2>2. CASE /\ d = c /\ i = Len(toMn[d]) + 1 /\ toMn'[d][i] = m
               /\ \A j \in 1..(i - 1) : toMn'[d][j] = toMn[d][j]
        <3>1. g \in Signature /\ Past(g.tx) /\ made'[d] = made[d]
            BY <1>3, <2>2
        <3>2. PICK e \in pool[d].entries : e \in g.tx /\ e.coin = g.coin
            BY <1>3, <2>2
        <3>3. e.out = made[d] /\ Owner[e.coin] = d /\ e \in Entry
            <4>1. e.out = made[d] /\ Owner[e.coin] = d
                BY <3>2 DEF FitInv, ClientInv
            <4>2. pool[d] \in ClientPool(sessions)
                BY DEF Typed
            <4> QED BY <3>2, <4>1, <4>2 DEF ClientPool
        <3>4. Past(g.tx)'
            BY <1>8, <3>1 DEF Signature
        <3>5. ASSUME NEW f \in mn'.entries, f.coin = e.coin PROVE f.out <= e.out
            <4>1. Before(f)
                BY DEF FitInv, EntriesInv
            <4> QED BY <3>3, <3>5, <4>1 DEF Before
        <3>6. ASSUME NEW j \in 1..(i - 1), toMn'[d][j].type = "dsi" PROVE toMn'[d][j].entry.out <= e.out
            <4>1. j \in 1..Len(toMn[d]) /\ toMn'[d][j] = toMn[d][j]
                BY <1>0, <2>2
            <4>2. toMn[d][j].entry.out <= made[d]
                BY <3>6, <4>1 DEF FitInv, DsiInv
            <4> QED BY <3>3, <4>1, <4>2
        <3>7. After(d, i, e)'
            BY <3>5, <3>6 DEF After
        <3> QED BY <3>2, <3>3, <3>4, <3>7
    <2> QED BY <1>5, <2>1, <2>2
<1>13. DsfInv'
    <2> SUFFICES ASSUME NEW d \in Client, NEW i \in 1..Len(toClient'[d]), toClient'[d][i].type = "dsf",
                        NEW tx, tx = toClient'[d][i].tx
                 PROVE  Past(tx)'
        BY DEF DsfInv
    <2>1. PICK k \in Nat : Len(toClient[d]) = Len(toClient'[d]) + k
                           /\ \A j \in 1..Len(toClient'[d]) : toClient'[d][j] = toClient[d][j + k]
        BY DEF Suffix
    <2>2. Len(toClient'[d]) \in Nat
        <3>1. toClient'[d] \in Seq(FromMn(sessions'))
            BY DEF Typed
        <3> QED BY <3>1, LenProperties
    <2>3. PICK j \in 1..Len(toClient[d]) : toClient'[d][i] = toClient[d][j]
        <3>1. i + k \in 1..Len(toClient[d])
            BY <2>1, <2>2
        <3> QED BY <2>1, <3>1
    <2>4. tx \subseteq Entry /\ Past(tx)
        BY <2>3, TypedMessages DEF FitInv, DsfInv
    <2> QED BY <1>8, <2>4
<1> QED BY <1>9, <1>10, <1>11, <1>12, <1>13 DEF FitInv

-----------------------------------------------------------------------------
(* What a participant's operators do to the whole pool. *)

\* The pool is left, and with a new request; the entry and the session are kept; a state
\* is entered.
Left(j) == j.pool.entries = {} /\ j.pool.sessionID = 0 /\ j.pool.found = FALSE /\ j.sent = <<>>
Requests(j) ==
    /\ j.pool.entries = {} /\ j.pool.sessionID = 0 /\ j.pool.found = FALSE /\ j.pool.submitted = TRUE
    /\ j.sent = <<[type |-> "dsa"]>>
Kept(k, j) ==
    /\ j.pool.entries = k.pool.entries /\ j.pool.sessionID = k.pool.sessionID /\ j.pool.found = k.pool.found
    /\ j.sent = <<>>
Enters(k, j, s) == j.pool.state = s /\ j.pool.age = IF k.pool.state # s THEN 0 ELSE k.pool.age

LEMMA EnterStateWhole ==
    ASSUME NEW n \in Nat, NEW k \in Side(n), NEW s \in State
    PROVE  LET j == EnterState(k, s)
           IN  /\ j \in Side(n) /\ Enters(k, j, s)
               /\ j.pool.entries = k.pool.entries /\ j.pool.sessionID = k.pool.sessionID
               /\ j.pool.found = k.pool.found /\ j.pool.submitted = k.pool.submitted
               /\ j.pool.lockedCoins = k.pool.lockedCoins
               /\ j.sent = k.sent /\ j.locked = k.locked
<1> DEFINE a == IF k.pool.state # s THEN 0 ELSE k.pool.age
           q == [k.pool EXCEPT !.state = s, !.age = a]
<1>1. k.pool \in ClientPool(n)
    BY DEF Side
<1>2. EnterState(k, s) = [k EXCEPT !.pool = q]
    BY <1>1 DEF EnterState, Side, ClientPool
<1>a. a \in Nat
    BY <1>1 DEF ClientPool
<1>b. a = IF k.pool.state # s THEN 0 ELSE k.pool.age
    OBVIOUS
<1> HIDE DEF a
<1>3. /\ q \in ClientPool(n) /\ q.state = s /\ q.age = a /\ q.entries = k.pool.entries
      /\ q.sessionID = k.pool.sessionID /\ q.found = k.pool.found /\ q.submitted = k.pool.submitted
      /\ q.lockedCoins = k.pool.lockedCoins
    BY <1>1, <1>a DEF ClientPool
<1> HIDE DEF q
<1>4. LET j == [k EXCEPT !.pool = q] IN j \in Side(n) /\ j.pool = q /\ j.sent = k.sent /\ j.locked = k.locked
    BY <1>3, SideReplaced
<1> QED BY <1>2, <1>3, <1>4, <1>b DEF Enters

LEMMA UnlockCoinsWhole ==
    ASSUME NEW n \in Nat, NEW k \in Side(n)
    PROVE  LET j == UnlockCoins(k)
           IN  /\ j \in Side(n) /\ j.sent = k.sent
               /\ j.pool.state = k.pool.state /\ j.pool.age = k.pool.age
               /\ j.pool.entries = k.pool.entries /\ j.pool.sessionID = k.pool.sessionID
               /\ j.pool.found = k.pool.found /\ j.pool.submitted = k.pool.submitted
<1> DEFINE q == [k.pool EXCEPT !.lockedCoins = {}]
           l == k.locked \ k.pool.lockedCoins
<1>1. k.pool \in ClientPool(n)
    BY DEF Side
<1>2. /\ q \in ClientPool(n) /\ q.state = k.pool.state /\ q.age = k.pool.age /\ q.entries = k.pool.entries
      /\ q.sessionID = k.pool.sessionID /\ q.found = k.pool.found /\ q.submitted = k.pool.submitted
    BY <1>1 DEF ClientPool
<1>3. UnlockCoins(k) = [k EXCEPT !.locked = l, !.pool = q]
    BY <1>1 DEF UnlockCoins, Side, ClientPool
<1> HIDE DEF q
<1>4. UnlockCoins(k) \in Side(n) /\ UnlockCoins(k).pool = q /\ UnlockCoins(k).sent = k.sent
    BY <1>1, <1>2, <1>3 DEF Side
<1> QED BY <1>2, <1>4

LEMMA ReleaseWhole ==
    ASSUME NEW n \in Nat, NEW k \in Side(n)
    PROVE  LET j == Release(k)
           IN  /\ j \in Side(n) /\ j.sent = k.sent
               /\ j.pool.state = "IDLE" /\ j.pool.age = 0 /\ j.pool.entries = {} /\ j.pool.sessionID = 0
               /\ j.pool.found = FALSE /\ j.pool.submitted = k.pool.submitted
<1> DEFINE q == [k.pool EXCEPT !.lockedCoins = {}, !.state = "IDLE", !.sessionID = 0, !.found = FALSE,
                               !.entries = {}, !.age = 0]
           l == k.locked \ k.pool.lockedCoins
<1>1. k.pool \in ClientPool(n)
    BY DEF Side
<1>2. q \in ClientPool(n)
    <2>1. "IDLE" \in State /\ 0 \in 0..n /\ FALSE \in BOOLEAN /\ 0 \in Nat
        BY DEF State
    <2> QED BY <1>1, <2>1 DEF ClientPool
<1>3. /\ q.state = "IDLE" /\ q.age = 0 /\ q.entries = {} /\ q.sessionID = 0 /\ q.found = FALSE
      /\ q.submitted = k.pool.submitted
    BY <1>1 DEF ClientPool
<1>4. Release(k) = [k EXCEPT !.locked = l, !.pool = q]
    BY <1>1 DEF Release, UnlockCoins, NullPool, Side, ClientPool
<1> HIDE DEF q
<1>5. Release(k) \in Side(n) /\ Release(k).pool = q /\ Release(k).sent = k.sent
    BY <1>1, <1>2, <1>4 DEF Side
<1> QED BY <1>3, <1>5

LEMMA DoAutomaticDenominatingOutcome ==
    ASSUME NEW n \in Nat, NEW k \in Side(n), k.sent = <<>>, NEW j \in DoAutomaticDenominating(k)
    PROVE  /\ j.pool.submitted \in {k.pool.submitted, TRUE}
           /\ \/ j = k
              \/ /\ k.pool.entries = {} /\ k.pool.found = FALSE
                 /\ Left(j) \/ Requests(j)
<1> DEFINE r == Release(k)
           clean == EnterState(r, "ACCEPTING_ENTRIES")
           q == [clean.pool EXCEPT !.submitted = TRUE]
           s == <<[type |-> "dsa"]>>
           v == [clean EXCEPT !.pool = q, !.sent = s]
<1>1. /\ r \in Side(n) /\ r.sent = <<>> /\ r.pool.entries = {} /\ r.pool.sessionID = 0
      /\ r.pool.found = FALSE /\ r.pool.submitted = k.pool.submitted
    BY ReleaseWhole
<1>2. "ACCEPTING_ENTRIES" \in State
    BY DEF State
<1> HIDE DEF r
<1>3. /\ clean \in Side(n) /\ clean.sent = <<>> /\ clean.pool.entries = {} /\ clean.pool.sessionID = 0
      /\ clean.pool.found = FALSE /\ clean.pool.submitted = k.pool.submitted
    BY <1>1, <1>2, EnterStateWhole
<1> HIDE DEF clean
<1>4. clean.pool \in ClientPool(n)
    BY <1>3 DEF Side
<1>5. q.entries = {} /\ q.sessionID = 0 /\ q.found = FALSE /\ q.submitted = TRUE
    BY <1>3, <1>4 DEF ClientPool
<1>6. [clean EXCEPT !.pool.submitted = TRUE, !.sent = s] = v
    BY <1>3, <1>4 DEF Side, ClientPool
<1> HIDE DEF q, s
<1>7. v.pool = q /\ v.sent = s
    BY <1>3 DEF Side
<1>8. j = k \/ (k.pool.entries = {} /\ ~ k.pool.found /\ (j = clean \/ j = v))
    <2>1. ASSUME j # k PROVE ~ (k.pool.state \in Ended \/ k.pool.entries # {} \/ k.pool.found) /\ (j = clean \/ j = v)
        BY <1>6, <2>1, Zenon DEF DoAutomaticDenominating, clean, r, s
    <2> QED BY <2>1
<1> HIDE DEF v
<1>9. k.pool.found \in BOOLEAN
    BY DEF Side, ClientPool
<1>10. CASE j = k
    BY <1>10
<1>11. CASE k.pool.entries = {} /\ ~ k.pool.found /\ j = clean
    <2>1. k.pool.found = FALSE
        BY <1>9, <1>11
    <2>2. Left(j)
        BY <1>3, <1>11 DEF Left
    <2>3. j.pool.submitted = k.pool.submitted
        BY <1>3, <1>11
    <2> QED BY <1>11, <2>1, <2>2, <2>3
<1>12. CASE k.pool.entries = {} /\ ~ k.pool.found /\ j = v
    BY <1>5, <1>7, <1>9, <1>12 DEF Requests, s
<1> QED BY <1>8, <1>10, <1>11, <1>12

\* What a status does, and an answer that refuses or takes.
StatusTaken(k, m, j) ==
    \/ j = k /\ ((m.accepted = -1 /\ k.pool.sessionID # m.id) \/ k.pool.state \in Ended)
    \/ /\ m.accepted = -1 /\ m.id = k.pool.sessionID /\ k.pool.state \notin Ended
       /\ Kept(k, j) /\ Enters(k, j, m.state)
    \/ /\ m.accepted = 0
       /\ \/ k.pool.entries = {} /\ (Left(j) \/ Requests(j))
          \/ Kept(k, j) /\ j.pool.state \in {"ERROR", "ACCEPTING_ENTRIES"}
             /\ (j.pool.state # "ERROR" => k.pool.entries = {})
    \/ /\ m.accepted = 1 /\ j.pool.entries = k.pool.entries /\ j.sent = <<>>
       /\ m.id # 0 => /\ j.pool.sessionID = m.id /\ j.pool.found = TRUE
                      /\ j.pool.state \in {m.state, "QUEUE"}

LEMMA StatusUpdateOutcome ==
    ASSUME NEW n \in Nat, NEW k, Sound(k, n), k.sent = <<>>, NEW m, m.state \in State, m.id \in 0..n,
           m.accepted \in {-1, 0, 1}, NEW j \in StatusUpdate(k, m)
    PROVE  /\ j.pool.submitted \in {k.pool.submitted, TRUE}
           /\ StatusTaken(k, m, j)
<1> DEFINE taken == m.accepted = 1 /\ m.id # 0
           a == EnterState(k, m.state)
           f == EnterState(a, "ERROR")
           t == [a.pool EXCEPT !.sessionID = m.id, !.found = TRUE]
           at == [a EXCEPT !.pool = t]
           b == IF m.accepted = 0 THEN f ELSE IF taken THEN at ELSE a
           other == b.pool.sessionID = 0 /\ ~ b.pool.found
           foundB == [b EXCEPT !.pool.found = TRUE]
           retry == EnterState(UnlockCoins(b), "ACCEPTING_ENTRIES")
<1>k. k \in Side(n) /\ (k.pool.entries # {} => k.pool.found)
    BY DEF Sound
<1>s. "ERROR" \in State /\ "ACCEPTING_ENTRIES" \in State /\ "QUEUE" \in State
    BY DEF State
<1>1. /\ a \in Side(n) /\ Enters(k, a, m.state) /\ a.pool.entries = k.pool.entries
      /\ a.pool.sessionID = k.pool.sessionID /\ a.pool.found = k.pool.found
      /\ a.pool.submitted = k.pool.submitted /\ a.sent = <<>>
    BY <1>k, EnterStateWhole
<1>2. [a EXCEPT !.pool.sessionID = m.id, !.pool.found = TRUE] = at
    BY <1>1 DEF Side, ClientPool
<1>3. CASE (m.accepted = -1 /\ k.pool.sessionID # m.id) \/ k.pool.state \in Ended
    <2>1. StatusUpdate(k, m) = {k}
        BY <1>3, Zenon DEF StatusUpdate
    <2>2. j = k
        BY <2>1
    <2> QED BY <1>3, <2>2 DEF StatusTaken
<1>4. CASE ~ ((m.accepted = -1 /\ k.pool.sessionID # m.id) \/ k.pool.state \in Ended)
    <2>1. StatusUpdate(k, m) =
            CASE m.state = "ACCEPTING_ENTRIES" /\ m.accepted = 1 -> {EnterState(foundB, "QUEUE")}
              [] m.state = "ACCEPTING_ENTRIES" /\ m.accepted = 0 /\ other -> DoAutomaticDenominating(retry)
              [] OTHER -> {b}
        BY <1>2, <1>4, Zenon DEF StatusUpdate
    <2>2. CASE m.accepted = -1
        <3>1. b = a
            BY <2>2
        <3> HIDE DEF b, foundB, retry, other
        <3>2. j = a
            BY <2>1, <2>2, <3>1
        <3> QED BY <1>1, <1>4, <2>2, <3>2 DEF StatusTaken, Kept, Enters
    <2>3. CASE m.accepted = 0
        <3>1. b = f
            BY <2>3
        <3> HIDE DEF b, foundB, a
        <3>2. /\ f \in Side(n) /\ f.pool.state = "ERROR" /\ f.pool.entries = k.pool.entries
              /\ f.pool.sessionID = k.pool.sessionID /\ f.pool.found = k.pool.found
              /\ f.pool.submitted = k.pool.submitted /\ f.sent = <<>>
            <4>1. /\ f \in Side(n) /\ Enters(a, f, "ERROR") /\ f.pool.entries = a.pool.entries
                  /\ f.pool.sessionID = a.pool.sessionID /\ f.pool.found = a.pool.found
                  /\ f.pool.submitted = a.pool.submitted /\ f.sent = a.sent
                BY <1>1, <1>s, EnterStateWhole
            <4>2. f.pool.state = "ERROR"
                BY <4>1 DEF Enters
            <4> HIDE DEF f
            <4> QED BY <1>1, <4>1, <4>2
        <3> HIDE DEF f
        <3>3. CASE m.state = "ACCEPTING_ENTRIES" /\ other
            <4>1. j \in DoAutomaticDenominating(retry)
                BY <2>1, <2>3, <3>3
            <4>2. ~ k.pool.found /\ k.pool.entries = {}
                BY <1>k, <3>1, <3>2, <3>3
            <4> DEFINE u == UnlockCoins(f)
                       z == EnterState(u, "ACCEPTING_ENTRIES")
            <4>3. /\ u \in Side(n) /\ u.pool.entries = k.pool.entries /\ u.pool.sessionID = k.pool.sessionID
                  /\ u.pool.found = k.pool.found /\ u.pool.submitted = k.pool.submitted /\ u.sent = <<>>
                BY <3>2, UnlockCoinsWhole
            <4>4. retry = z
                BY <3>1
            <4> HIDE DEF u
            <4>5. /\ z \in Side(n) /\ z.pool.entries = k.pool.entries /\ z.pool.sessionID = k.pool.sessionID
                  /\ z.pool.found = k.pool.found /\ z.pool.submitted = k.pool.submitted /\ z.sent = <<>>
                  /\ z.pool.state = "ACCEPTING_ENTRIES"
                <5>1. /\ z \in Side(n) /\ Enters(u, z, "ACCEPTING_ENTRIES") /\ z.pool.entries = u.pool.entries
                      /\ z.pool.sessionID = u.pool.sessionID /\ z.pool.found = u.pool.found
                      /\ z.pool.submitted = u.pool.submitted /\ z.sent = u.sent
                    BY <1>s, <4>3, EnterStateWhole
                <5>2. z.pool.state = "ACCEPTING_ENTRIES"
                    BY <5>1 DEF Enters
                <5> HIDE DEF z
                <5> QED BY <4>3, <5>1, <5>2
            <4> HIDE DEF z, retry
            <4>6. /\ j.pool.submitted \in {z.pool.submitted, TRUE}
                  /\ j = z \/ Left(j) \/ Requests(j)
                BY <4>1, <4>4, <4>5, DoAutomaticDenominatingOutcome
            <4>7. CASE j = z
                <5>1. Kept(k, j) /\ j.pool.state = "ACCEPTING_ENTRIES"
                    BY <4>5, <4>7 DEF Kept
                <5>2. j.pool.submitted = k.pool.submitted
                    BY <4>5, <4>7
                <5>3. StatusTaken(k, m, j)
                    BY <2>3, <4>2, <5>1 DEF StatusTaken
                <5> QED BY <5>2, <5>3
            <4>8. CASE Left(j) \/ Requests(j)
                <5>1. StatusTaken(k, m, j)
                    BY <2>3, <4>2, <4>8 DEF StatusTaken
                <5>2. j.pool.submitted \in {k.pool.submitted, TRUE}
                    BY <4>5, <4>6
                <5> QED BY <5>1, <5>2
            <4> QED BY <4>6, <4>7, <4>8
        <3>4. CASE ~ (m.state = "ACCEPTING_ENTRIES" /\ other)
            <4> HIDE DEF other, retry
            <4>1. j = f
                BY <2>1, <2>3, <3>1, <3>4
            <4>2. Kept(k, j)
                BY <3>2, <4>1 DEF Kept
            <4> QED BY <2>3, <3>2, <4>1, <4>2 DEF StatusTaken
        <3> QED BY <3>3, <3>4
    <2>4. CASE m.accepted = 1
        <3>1. /\ b \in Side(n) /\ b.pool.entries = k.pool.entries /\ b.sent = <<>> /\ b.pool.state = m.state
              /\ b.pool.submitted = k.pool.submitted
              /\ m.id # 0 => b.pool.sessionID = m.id /\ b.pool.found = TRUE
            <4>1. CASE m.id # 0
                <5>1. b = at
                    BY <2>4, <4>1
                <5>2. /\ t \in ClientPool(n) /\ t.entries = a.pool.entries /\ t.state = a.pool.state
                      /\ t.submitted = a.pool.submitted /\ t.sessionID = m.id /\ t.found = TRUE
                    BY <1>1 DEF Side, ClientPool
                <5> HIDE DEF t, b
                <5>3. at \in Side(n) /\ at.pool = t /\ at.sent = <<>>
                    BY <1>1, <5>2 DEF Side
                <5> QED BY <1>1, <5>1, <5>2, <5>3 DEF Enters
            <4>2. CASE m.id = 0
                <5>1. b = a
                    BY <2>4, <4>2
                <5> QED BY <1>1, <4>2, <5>1 DEF Enters
            <4> QED BY <4>1, <4>2
        <3> HIDE DEF b, retry, other
        <3>2. CASE m.state = "ACCEPTING_ENTRIES"
            <4>1. j = EnterState(foundB, "QUEUE")
                BY <2>1, <2>4, <3>2
            <4> DEFINE q == [b.pool EXCEPT !.found = TRUE]
            <4>2. foundB = [b EXCEPT !.pool = q]
                BY <3>1 DEF Side, ClientPool
            <4>3. /\ q \in ClientPool(n) /\ q.entries = b.pool.entries /\ q.sessionID = b.pool.sessionID
                  /\ q.submitted = b.pool.submitted /\ q.found = TRUE
                BY <3>1 DEF Side, ClientPool
            <4> HIDE DEF q
            <4>4. foundB \in Side(n) /\ foundB.pool = q /\ foundB.sent = <<>>
                BY <3>1, <4>2, <4>3 DEF Side
            <4> HIDE DEF foundB
            <4>5. /\ j.pool.state = "QUEUE" /\ j.pool.entries = q.entries /\ j.pool.sessionID = q.sessionID
                  /\ j.pool.found = TRUE /\ j.pool.submitted = q.submitted /\ j.sent = <<>>
                <5>1. n \in Nat /\ foundB \in Side(n) /\ "QUEUE" \in State
                    BY <1>s, <4>4
                <5>2. /\ Enters(foundB, j, "QUEUE") /\ j.pool.entries = foundB.pool.entries
                      /\ j.pool.sessionID = foundB.pool.sessionID /\ j.pool.found = foundB.pool.found
                      /\ j.pool.submitted = foundB.pool.submitted /\ j.sent = foundB.sent
                    BY ONLY <4>1, <5>1, EnterStateWhole
                <5> QED BY <4>3, <4>4, <5>2 DEF Enters
            <4> QED BY <2>4, <3>1, <4>3, <4>5 DEF StatusTaken
        <3>3. CASE m.state # "ACCEPTING_ENTRIES"
            <4>1. j = b
                BY <2>1, <2>4, <3>3
            <4> QED BY <2>4, <3>1, <4>1 DEF StatusTaken
        <3> QED BY <3>2, <3>3
    <2> QED BY <2>2, <2>3, <2>4
<1> QED BY <1>3, <1>4

\* What a ready dsq does: the pool is left, or has an entry now, which is sent.
DsqTaken(c, k, j) ==
    \/ j = k
    \/ /\ k.pool.state = "QUEUE" /\ k.pool.entries = {}
       /\ \/ Left(j)
          \/ /\ k.pool.found = TRUE /\ j.pool.found = TRUE /\ j.pool.sessionID = k.pool.sessionID
             /\ j.pool.state = "ACCEPTING_ENTRIES"
             /\ \E e \in Entry : /\ Owner[e.coin] = c /\ e.out = made[c] + 1 /\ j.pool.entries = {e}
                                 /\ j.sent = <<[type |-> "dsi", entry |-> e]>>

\* What a dsf does: nothing, the pool is left, or an entry is signed for.
DsfTaken(k, m, j) ==
    \/ j = k
    \/ /\ k.pool.sessionID = m.id /\ Left(j)
       /\ \E e \in k.pool.entries : e.coin \in Coins(m.tx) /\ e \notin m.tx
    \/ /\ k.pool.sessionID = m.id /\ j.pool = k.pool
       /\ \E e \in k.pool.entries :
            e \in m.tx /\ j.sent = <<[type |-> "dss", sig |-> [coin |-> e.coin, tx |-> m.tx]]>>

LEMMA SendDarksendDenominateOutcome ==
    ASSUME NEW n \in Nat, NEW k \in Side(n), k.sent = <<>>, NEW e \in Entry, NEW j \in SendDarksendDenominate(k, e)
    PROVE  /\ j.pool.submitted = k.pool.submitted
           /\ \/ Left(j)
              \/ /\ k.pool.found = TRUE /\ j.pool.found = TRUE /\ j.pool.sessionID = k.pool.sessionID
                 /\ j.pool.state = "ACCEPTING_ENTRIES" /\ j.pool.entries = {e}
                 /\ j.sent = <<[type |-> "dsi", entry |-> e]>>
<1> DEFINE p == [k.pool EXCEPT !.lockedCoins = @ \cup {e.coin}]
           a == [k EXCEPT !.pool = p]
           b == EnterState(a, "ACCEPTING_ENTRIES")
           q == [b.pool EXCEPT !.entries = {e}]
           s == <<[type |-> "dsi", entry |-> e]>>
           v == [b EXCEPT !.pool = q, !.sent = s]
<1>1. k.pool \in ClientPool(n) /\ e.coin \in Coin
    BY DEF Side, Entry
<1>2. [k EXCEPT !.pool.lockedCoins = @ \cup {e.coin}] = a
    BY <1>1 DEF Side, ClientPool
<1>3. /\ p \in ClientPool(n) /\ p.sessionID = k.pool.sessionID /\ p.found = k.pool.found
      /\ p.submitted = k.pool.submitted
    BY <1>1 DEF ClientPool
<1> HIDE DEF p
<1>4. a \in Side(n) /\ a.pool = p /\ a.sent = <<>>
    BY <1>3 DEF Side
<1> HIDE DEF a
<1>5. /\ b \in Side(n) /\ b.pool.state = "ACCEPTING_ENTRIES" /\ b.pool.sessionID = k.pool.sessionID
      /\ b.pool.found = k.pool.found /\ b.pool.submitted = k.pool.submitted
    <2>1. "ACCEPTING_ENTRIES" \in State
        BY DEF State
    <2>2. /\ b \in Side(n) /\ Enters(a, b, "ACCEPTING_ENTRIES")
          /\ b.pool.sessionID = a.pool.sessionID /\ b.pool.found = a.pool.found
          /\ b.pool.submitted = a.pool.submitted
        BY <1>4, <2>1, EnterStateWhole
    <2>3. b.pool.state = "ACCEPTING_ENTRIES"
        BY <2>2 DEF Enters
    <2> HIDE DEF b
    <2> QED BY <1>3, <1>4, <2>2, <2>3
<1> HIDE DEF b
<1>6. /\ q.entries = {e} /\ q.state = "ACCEPTING_ENTRIES" /\ q.sessionID = k.pool.sessionID
      /\ q.found = k.pool.found /\ q.submitted = k.pool.submitted
    BY <1>5 DEF Side, ClientPool
<1>7. [b EXCEPT !.pool.entries = {e}, !.sent = s] = v
    BY <1>5 DEF Side, ClientPool
<1>8. (~ a.pool.found /\ j = Release(a)) \/ (a.pool.found /\ (j = Release(b) \/ j = v))
    BY <1>2, <1>7, Zenon DEF SendDarksendDenominate, a, b, s
<1> HIDE DEF q, s
<1>9. v.pool = q /\ v.sent = s
    BY <1>5 DEF Side
<1> HIDE DEF v
<1>10. b.sent = <<>>
    <2>1. "ACCEPTING_ENTRIES" \in State
        BY DEF State
    <2> QED BY <1>4, <2>1, EnterStateWhole DEF b
<1>11. CASE j = Release(a)
    <2>1. /\ j.pool.entries = {} /\ j.pool.sessionID = 0 /\ j.pool.found = FALSE
          /\ j.pool.submitted = a.pool.submitted /\ j.sent = a.sent
        BY <1>4, <1>11, ReleaseWhole
    <2> QED BY <1>3, <1>4, <2>1 DEF Left
<1>12. CASE j = Release(b)
    <2>1. /\ j.pool.entries = {} /\ j.pool.sessionID = 0 /\ j.pool.found = FALSE
          /\ j.pool.submitted = b.pool.submitted /\ j.sent = b.sent
        BY <1>5, <1>12, ReleaseWhole
    <2> QED BY <1>5, <1>10, <2>1 DEF Left
<1>13. CASE a.pool.found /\ j = v
    <2>1. k.pool.found = TRUE
        <3>1. a.pool.found \in BOOLEAN /\ a.pool.found = k.pool.found
            BY <1>3, <1>4 DEF Side, ClientPool
        <3>2. a.pool.found = TRUE
            BY <1>13, <3>1, Zenon
        <3> QED BY <3>1, <3>2
    <2>2. /\ j.pool.entries = {e} /\ j.pool.state = "ACCEPTING_ENTRIES" /\ j.pool.sessionID = k.pool.sessionID
          /\ j.pool.found = k.pool.found /\ j.pool.submitted = k.pool.submitted
          /\ j.sent = <<[type |-> "dsi", entry |-> e]>>
        BY <1>6, <1>9, <1>13 DEF s
    <2> QED BY <2>1, <2>2
<1> QED BY <1>8, <1>11, <1>12, <1>13

LEMMA DsqReadyOutcome ==
    ASSUME NEW n \in Nat, NEW c, NEW k \in Side(n), k.sent = <<>>, made[c] \in Nat, NEW j \in DsqReady(c, k)
    PROVE  j.pool.submitted = k.pool.submitted /\ DsqTaken(c, k, j)
<1>1. CASE j = k
    BY <1>1 DEF DsqTaken
<1>2. ASSUME NEW x \in Coin, Owner[x] = c, k.pool.entries = {}, k.pool.state = "QUEUE",
             j \in SendDarksendDenominate([k EXCEPT !.locked = @ \cup {x}], [coin |-> x, out |-> made[c] + 1])
      PROVE  j.pool.submitted = k.pool.submitted /\ DsqTaken(c, k, j)
    <2> DEFINE l == [k EXCEPT !.locked = @ \cup {x}]
               e == [coin |-> x, out |-> made[c] + 1]
    <2>1. l \in Side(n) /\ l.pool = k.pool /\ l.sent = <<>>
        BY DEF Side
    <2>2. e \in Entry /\ e.coin = x /\ e.out = made[c] + 1
        BY DEF Entry
    <2> HIDE DEF l, e
    <2>3. j \in SendDarksendDenominate(l, e)
        BY <1>2 DEF l, e
    <2>4. /\ j.pool.submitted = l.pool.submitted
          /\ \/ Left(j)
             \/ /\ l.pool.found = TRUE /\ j.pool.found = TRUE /\ j.pool.sessionID = l.pool.sessionID
                /\ j.pool.state = "ACCEPTING_ENTRIES" /\ j.pool.entries = {e}
                /\ j.sent = <<[type |-> "dsi", entry |-> e]>>
        <3>1. n \in Nat /\ l \in Side(n) /\ l.sent = <<>> /\ e \in Entry /\ j \in SendDarksendDenominate(l, e)
            BY <2>1, <2>2, <2>3
        <3> QED BY ONLY <3>1, SendDarksendDenominateOutcome
    <2>5. DsqTaken(c, k, j)
        <3>1. CASE Left(j)
            BY <1>2, <3>1 DEF DsqTaken
        <3>2. CASE /\ l.pool.found = TRUE /\ j.pool.found = TRUE /\ j.pool.sessionID = l.pool.sessionID
                   /\ j.pool.state = "ACCEPTING_ENTRIES" /\ j.pool.entries = {e}
                   /\ j.sent = <<[type |-> "dsi", entry |-> e]>>
            <4>1. Owner[e.coin] = c
                BY <1>2, <2>2
            <4>2. \E f \in Entry : /\ Owner[f.coin] = c /\ f.out = made[c] + 1 /\ j.pool.entries = {f}
                                   /\ j.sent = <<[type |-> "dsi", entry |-> f]>>
                BY <2>2, <3>2, <4>1
            <4> QED BY <1>2, <2>1, <3>2, <4>2 DEF DsqTaken
        <3> QED BY <2>4, <3>1, <3>2
    <2> QED BY <2>1, <2>4, <2>5
<1>3. \/ j = k
      \/ /\ k.pool.entries = {} /\ k.pool.state = "QUEUE"
         /\ \E x \in Coin : Owner[x] = c
              /\ j \in SendDarksendDenominate([k EXCEPT !.locked = @ \cup {x}], [coin |-> x, out |-> made[c] + 1])
    <2>1. ASSUME j # k
          PROVE  /\ k.pool.entries = {} /\ k.pool.state = "QUEUE"
                 /\ j \in UNION { SendDarksendDenominate([k EXCEPT !.locked = @ \cup {x}],
                                                         [coin |-> x, out |-> made[c] + 1]) :
                                  x \in { y \in Coin : Owner[y] = c } \ k.locked }
        BY <2>1 DEF DsqReady
    <2> QED BY <2>1
<1> QED BY <1>1, <1>2, <1>3

LEMMA DsfOutcome ==
    ASSUME NEW n \in Nat, NEW k \in Side(n), k.sent = <<>>, NEW m, NEW j, j = Dsf(k, m)
    PROVE  j.pool.submitted = k.pool.submitted /\ DsfTaken(k, m, j)
<1> DEFINE mine == { e \in k.pool.entries : e.coin \in Coins(m.tx) }
           f == CHOOSE e \in mine : TRUE
           s == [type |-> "dss", sig |-> [coin |-> f.coin, tx |-> m.tx]]
<1>1. CASE k.pool.sessionID # m.id \/ mine = {}
    <2>1. j = k
        BY <1>1, Zenon DEF Dsf
    <2> QED BY <2>1 DEF DsfTaken
<1>2. CASE ~ (k.pool.sessionID # m.id \/ mine = {}) /\ ~ mine \subseteq m.tx
    <2>1. j = Release(k)
        BY <1>2, Zenon DEF Dsf
    <2>2. /\ j.pool.entries = {} /\ j.pool.sessionID = 0 /\ j.pool.found = FALSE
          /\ j.pool.submitted = k.pool.submitted /\ j.sent = k.sent
        BY <2>1, ReleaseWhole
    <2>3. \E e \in k.pool.entries : e.coin \in Coins(m.tx) /\ e \notin m.tx
        BY <1>2
    <2> QED BY <1>2, <2>2, <2>3 DEF DsfTaken, Left
<1>3. CASE ~ (k.pool.sessionID # m.id \/ mine = {}) /\ mine \subseteq m.tx
    <2>1. j = [k EXCEPT !.sent = <<s>>]
        BY <1>3, Zenon DEF Dsf
    <2>2. f \in mine
        BY <1>3
    <2>3. f \in k.pool.entries /\ f \in m.tx
        BY <1>3, <2>2
    <2> HIDE DEF f
    <2>4. j.pool = k.pool /\ j.sent = <<s>>
        BY <2>1 DEF Side
    <2>5. \E e \in k.pool.entries :
            e \in m.tx /\ j.sent = <<[type |-> "dss", sig |-> [coin |-> e.coin, tx |-> m.tx]]>>
        BY <2>3, <2>4
    <2> QED BY <1>3, <2>4, <2>5 DEF DsfTaken
<1> QED BY <1>1, <1>2, <1>3

\* What a message does to participant c.
MessageTaken(c, k, m, j) ==
    \/ k.pool.submitted = FALSE /\ j = k
    \/ m.type = "dssu" /\ StatusTaken(k, m, j)
    \/ m.type = "dsq" /\ DsqTaken(c, k, j)
    \/ m.type = "dsf" /\ DsfTaken(k, m, j)
    \/ m.type = "dsc" /\ k.pool.sessionID # m.id /\ j = k
    \/ m.type = "dsc" /\ k.pool.sessionID = m.id /\ Left(j)

\* Nothing happens to a participant that has not submitted.
Heeds(k, j) == j = k \/ k.pool.submitted = TRUE

LEMMA ReceiveOutcome ==
    ASSUME NEW n \in Nat, NEW c, NEW k, Sound(k, n), k.sent = <<>>, made[c] \in Nat, NEW m \in FromMn(n),
           NEW j \in Receive(c, k, m)
    PROVE  /\ j.pool.submitted \in {k.pool.submitted, TRUE} /\ MessageTaken(c, k, m, j)
           /\ Heeds(k, j)
<1>k. k \in Side(n) /\ k.pool.submitted \in BOOLEAN
    BY DEF Sound, Side, ClientPool
<1>1. CASE ~ k.pool.submitted
    <2>1. Receive(c, k, m) = {k}
        BY <1>1, Zenon DEF Receive
    <2>2. j = k
        BY <2>1
    <2>3. k.pool.submitted = FALSE
        BY <1>k, <1>1
    <2>4. MessageTaken(c, k, m, j)
        BY <2>2, <2>3 DEF MessageTaken
    <2> QED BY <2>2, <2>4 DEF Heeds
<1>2. CASE k.pool.submitted
    <2>s. Heeds(k, j)
        BY <1>k, <1>2 DEF Heeds
    <2>0. Receive(c, k, m) =
            CASE m.type = "dssu" -> StatusUpdate(k, m)
              [] m.type = "dsq" -> DsqReady(c, k)
              [] m.type = "dsf" -> {Dsf(k, m)}
              [] m.type = "dsc" -> {Dsc(k, m)}
        BY <1>2, Zenon DEF Receive
    <2>1. m.type \in {"dssu", "dsq", "dsf", "dsc"}
        BY DEF FromMn
    <2>2. CASE m.type = "dssu"
        <3>1. m.state \in State /\ m.id \in 0..n /\ m.accepted \in {-1, 0, 1}
            BY <2>2 DEF FromMn
        <3>2. j \in StatusUpdate(k, m)
            BY <2>0, <2>2
        <3>3. j.pool.submitted \in {k.pool.submitted, TRUE} /\ StatusTaken(k, m, j)
            BY <3>1, <3>2, StatusUpdateOutcome
        <3> QED BY <2>s, <2>2, <3>3 DEF MessageTaken
    <2>3. CASE m.type = "dsq"
        <3>1. j \in DsqReady(c, k)
            BY <2>0, <2>3
        <3>2. j.pool.submitted = k.pool.submitted /\ DsqTaken(c, k, j)
            BY <1>k, <3>1, DsqReadyOutcome
        <3> QED BY <2>s, <2>3, <3>2 DEF MessageTaken
    <2>4. CASE m.type = "dsf"
        <3>1. j = Dsf(k, m)
            BY <2>0, <2>4
        <3>2. j.pool.submitted = k.pool.submitted /\ DsfTaken(k, m, j)
            BY <1>k, <3>1, DsfOutcome
        <3> QED BY <2>s, <2>4, <3>2 DEF MessageTaken
    <2>5. CASE m.type = "dsc"
        <3>1. j = Dsc(k, m)
            BY <2>0, <2>5
        <3>2. CASE k.pool.sessionID = m.id
            <4>1. j = Release(k)
                BY <3>1, <3>2, Zenon DEF Dsc
            <4>2. /\ j.pool.entries = {} /\ j.pool.sessionID = 0 /\ j.pool.found = FALSE
                  /\ j.pool.submitted = k.pool.submitted /\ j.sent = <<>>
                BY <1>k, <4>1, ReleaseWhole
            <4>3. Left(j)
                BY <4>2 DEF Left
            <4>4. MessageTaken(c, k, m, j)
                BY <2>5, <3>2, <4>3 DEF MessageTaken
            <4> QED BY <2>s, <4>2, <4>4
        <3>3. CASE k.pool.sessionID # m.id
            <4>1. j = k
                BY <3>1, <3>3, Zenon DEF Dsc
            <4>2. MessageTaken(c, k, m, j)
                BY <2>5, <3>3, <4>1 DEF MessageTaken
            <4> QED BY <2>s, <4>1, <4>2
        <3> QED BY <3>2, <3>3
    <2> QED BY <2>1, <2>2, <2>3, <2>4, <2>5
<1> QED BY <1>1, <1>2

LEMMA ParticipantWhole ==
    ASSUME Typed, NEW c \in Client
    PROVE  LET k == Participant(c)
           IN  /\ k.pool = pool[c] /\ k.locked = locked[c] /\ k.sent = <<>>
               /\ Sound(k, sessions) /\ k \in Side(sessions)
<1>1. Sound(Participant(c), sessions)
    BY TypedSides
<1> QED BY <1>1 DEF Participant, Sound

\* The step of participant c that ends with j.
LEMMA BecomesWhole ==
    ASSUME Typed, NEW c \in Client, NEW j, Becomes(c, j)
    PROVE  /\ mn' = mn /\ sessions' = sessions /\ mixed' = mixed
           /\ pool'[c] = j.pool /\ locked'[c] = j.locked
           /\ \A d \in Client \ {c} :
                toMn'[d] = toMn[d] /\ pool'[d] = pool[d] /\ made'[d] = made[d] /\ locked'[d] = locked[d]
           /\ j.sent = <<>> => toMn'[c] = toMn[c] /\ made'[c] = made[c]
           /\ \A m \in ToMn : j.sent = <<m>> =>
                /\ toMn'[c] = Append(toMn[c], m)
                /\ made'[c] = made[c] + (IF m.type = "dsi" THEN 1 ELSE 0)
<1> DEFINE S(type) == IF j.sent # <<>> /\ Head(j.sent).type = type THEN 1 ELSE 0
<1>1. /\ pool' = [pool EXCEPT ![c] = j.pool] /\ locked' = [locked EXCEPT ![c] = j.locked]
      /\ toMn' = [toMn EXCEPT ![c] = @ \o j.sent] /\ UNCHANGED <<mn, sessions, mixed>>
    BY DEF Becomes
<1>2. made' = [made EXCEPT ![c] = @ + S("dsi")]
    BY Zenon DEF Becomes
<1>3. /\ toMn'[c] = toMn[c] \o j.sent /\ made'[c] = made[c] + S("dsi")
      /\ pool'[c] = j.pool /\ locked'[c] = j.locked
    <2> HIDE DEF S
    <2> QED BY <1>1, <1>2 DEF Typed
<1>4. \A d \in Client \ {c} :
        toMn'[d] = toMn[d] /\ pool'[d] = pool[d] /\ made'[d] = made[d] /\ locked'[d] = locked[d]
    <2> HIDE DEF S
    <2> QED BY <1>1, <1>2 DEF Typed
<1>5. toMn[c] \in Seq(ToMn) /\ made[c] \in Nat
    BY DEF Typed
<1>6. ASSUME j.sent = <<>> PROVE toMn'[c] = toMn[c] /\ made'[c] = made[c]
    <2>1. toMn[c] \o <<>> = toMn[c]
        BY <1>5, ConcatEmptySeq
    <2>2. S("dsi") = 0
        BY <1>6
    <2> HIDE DEF S
    <2> QED BY <1>3, <1>5, <1>6, <2>1, <2>2
<1>7. ASSUME NEW m \in ToMn, j.sent = <<m>>
      PROVE  /\ toMn'[c] = Append(toMn[c], m)
             /\ made'[c] = made[c] + (IF m.type = "dsi" THEN 1 ELSE 0)
    <2>1. toMn[c] \o <<m>> = Append(toMn[c], m)
        BY <1>5, AppendIsConcat
    <2>2. S("dsi") = IF m.type = "dsi" THEN 1 ELSE 0
        BY <1>7
    <2> HIDE DEF S
    <2> QED BY <1>3, <1>7, <2>1, <2>2
<1> QED BY <1>1, <1>3, <1>4, <1>6, <1>7

\* What a participant's timer does.
LEMMA ClientTimerOutcome ==
    ASSUME Typed, NEW c \in Client, StartMixing(c) \/ ClientTimeout(c) \/ ClientExpireEntry(c)
    PROVE  /\ toClient' = toClient /\ overlapped \subseteq overlapped'
           /\ \E j : /\ Becomes(c, j) /\ j.pool.submitted \in {pool[c].submitted, TRUE}
                     /\ \/ /\ StartMixing(c) /\ pool[c].entries = {} /\ pool[c].found = FALSE
                           /\ Left(j) \/ (Requests(j) /\ (c \in overlapped' \/ ~ AnswerUnderWay(c)))
                        \/ ClientTimeout(c) /\ Left(j)
                        \/ ClientExpireEntry(c) /\ Left(j)
<1> DEFINE k == Participant(c)
           r == Release(k)
           x == EnterState(r, "ERROR")
<1>1. sessions \in Nat /\ k.pool = pool[c] /\ k.sent = <<>> /\ k \in Side(sessions)
    BY ParticipantWhole DEF Typed
<1>2. toClient' = toClient /\ overlapped \subseteq overlapped'
    BY DEF StartMixing, ClientTimeout, ClientExpireEntry
<1>3. ASSUME StartMixing(c)
      PROVE  \E j : /\ Becomes(c, j) /\ j.pool.submitted \in {pool[c].submitted, TRUE}
                    /\ pool[c].entries = {} /\ pool[c].found = FALSE
                    /\ Left(j) \/ (Requests(j) /\ (c \in overlapped' \/ ~ AnswerUnderWay(c)))
    <2>1. PICK j \in DoAutomaticDenominating(k) \ {k} :
             /\ Becomes(c, j)
             /\ overlapped' = overlapped \cup IF j.sent # <<>> /\ AnswerUnderWay(c) THEN {c} ELSE {}
        BY <1>3, Zenon DEF StartMixing
    <2> HIDE DEF k
    <2>2. /\ j.pool.submitted \in {k.pool.submitted, TRUE}
          /\ k.pool.entries = {} /\ k.pool.found = FALSE /\ (Left(j) \/ Requests(j))
        BY <1>1, <2>1, DoAutomaticDenominatingOutcome
    <2>3. Requests(j) => j.sent # <<>>
        BY DEF Requests
    <2>4. Requests(j) => c \in overlapped' \/ ~ AnswerUnderWay(c)
        BY <2>1, <2>3
    <2> QED BY <1>1, <2>1, <2>2, <2>4
<1> HIDE DEF k
<1>4. /\ r \in Side(sessions) /\ r.pool.entries = {} /\ r.pool.sessionID = 0 /\ r.pool.found = FALSE
      /\ r.pool.submitted = pool[c].submitted /\ r.sent = <<>>
    BY <1>1, ReleaseWhole
<1> HIDE DEF r
<1>5. Left(r)
    BY <1>4 DEF Left
<1>6. Left(x) /\ x.pool.submitted = pool[c].submitted
    <2>1. "ERROR" \in State
        BY DEF State
    <2>2. /\ x.pool.entries = r.pool.entries /\ x.pool.sessionID = r.pool.sessionID
          /\ x.pool.found = r.pool.found /\ x.pool.submitted = r.pool.submitted /\ x.sent = r.sent
        BY <1>1, <1>4, <2>1, EnterStateWhole
    <2> HIDE DEF x
    <2> QED BY <1>4, <2>2 DEF Left
<1>7. ASSUME ClientTimeout(c) PROVE Becomes(c, r) \/ Becomes(c, x)
    <2>1. Becomes(c, IF pool[c].state \in Collecting \cup Ended THEN r ELSE x)
        BY <1>7 DEF ClientTimeout, r, k
    <2> HIDE DEF x
    <2>2. CASE pool[c].state \in Collecting \cup Ended
        BY <2>1, <2>2, Zenon
    <2>3. CASE ~ (pool[c].state \in Collecting \cup Ended)
        BY <2>1, <2>3, Zenon
    <2> QED BY <2>2, <2>3
<1>8. ASSUME ClientExpireEntry(c) PROVE Becomes(c, r)
    BY <1>8 DEF ClientExpireEntry, r, k
<1> HIDE DEF x
<1>9. ASSUME ClientTimeout(c)
      PROVE  \E j : Becomes(c, j) /\ j.pool.submitted \in {pool[c].submitted, TRUE} /\ Left(j)
    BY <1>4, <1>5, <1>6, <1>7, <1>9
<1>10. ASSUME ClientExpireEntry(c)
       PROVE  \E j : Becomes(c, j) /\ j.pool.submitted \in {pool[c].submitted, TRUE} /\ Left(j)
    BY <1>4, <1>5, <1>8, <1>10
<1> QED BY <1>2, <1>3, <1>9, <1>10

LEMMA QuietStep ==
    ASSUME Typed, NEW c \in Client, NEW j, Becomes(c, j), j.pool.entries \subseteq pool[c].entries,
           j.sent = <<>> \/ j.sent = <<[type |-> "dsa"]>>
    PROVE  Quiet(c)
<1>1. pool'[c] = j.pool
    BY BecomesWhole
<1>2. CASE j.sent = <<>>
    <2>1. toMn'[c] = toMn[c] /\ made'[c] = made[c]
        BY <1>2, BecomesWhole
    <2> QED BY <1>1, <2>1 DEF Quiet
<1>3. CASE j.sent = <<[type |-> "dsa"]>>
    <2> DEFINE m == [type |-> "dsa"]
    <2>1. m \in ToMn /\ m.type # "dsi" /\ j.sent = <<m>>
        BY <1>3 DEF ToMn
    <2> HIDE DEF m
    <2>2. toMn'[c] = Append(toMn[c], m) /\ made'[c] = made[c] + 0
        BY <2>1, BecomesWhole
    <2>3. made[c] \in Nat
        BY DEF Typed
    <2> QED BY <1>1, <2>2, <2>3 DEF Quiet, m
<1> QED BY <1>2, <1>3

LEMMA LeftQuiet ==
    ASSUME Typed, NEW c \in Client, NEW j, Becomes(c, j), Left(j) \/ Requests(j)
    PROVE  Quiet(c)
  BY QuietStep DEF Left, Requests

LEMMA ReceiveFits ==
    ASSUME Typed, FitInv, NEW c \in Client, 1 \in 1..Len(toClient[c]), NEW m, m = toClient[c][1], NEW k, k.pool = pool[c],
           k.sent = <<>>, NEW j, MessageTaken(c, k, m, j), Becomes(c, j)
    PROVE  Quiet(c) \/ SendsEntry(c) \/ SendsSignature(c)
<1>1. CASE j = k
    BY <1>1, QuietStep
<1>2. CASE Left(j)
    BY <1>2, LeftQuiet
<1>3. CASE StatusTaken(k, m, j)
    <2>1. \/ j = k \/ Left(j) \/ Requests(j)
          \/ j.pool.entries = pool[c].entries /\ j.sent = <<>>
        BY <1>3 DEF StatusTaken, Kept
    <2>2. CASE j.pool.entries = pool[c].entries /\ j.sent = <<>>
        BY <2>2, QuietStep
    <2> QED BY <1>1, <2>1, <2>2, LeftQuiet
<1>4. CASE \E e \in Entry : /\ Owner[e.coin] = c /\ e.out = made[c] + 1 /\ j.pool.entries = {e}
                            /\ j.sent = <<[type |-> "dsi", entry |-> e]>>
    <2>1. PICK e \in Entry : /\ Owner[e.coin] = c /\ e.out = made[c] + 1 /\ j.pool.entries = {e}
                             /\ j.sent = <<[type |-> "dsi", entry |-> e]>>
        BY <1>4
    <2> DEFINE s == [type |-> "dsi", entry |-> e]
    <2>2. s \in ToMn /\ s.type = "dsi" /\ j.sent = <<s>>
        BY <2>1 DEF ToMn
    <2> HIDE DEF s
    <2>3. toMn'[c] = Append(toMn[c], s) /\ made'[c] = made[c] + 1 /\ pool'[c] = j.pool
        BY <2>2, BecomesWhole
    <2> QED BY <2>1, <2>3 DEF SendsEntry, s
<1>5. CASE /\ m.type = "dsf" /\ j.pool = k.pool
           /\ \E e \in k.pool.entries :
                e \in m.tx /\ j.sent = <<[type |-> "dss", sig |-> [coin |-> e.coin, tx |-> m.tx]]>>
    <2>1. PICK e \in pool[c].entries :
             e \in m.tx /\ j.sent = <<[type |-> "dss", sig |-> [coin |-> e.coin, tx |-> m.tx]]>>
        BY <1>5
    <2> DEFINE g == [coin |-> e.coin, tx |-> m.tx]
               s == [type |-> "dss", sig |-> g]
    <2>2. m.tx \subseteq Entry /\ Past(m.tx)
        BY <1>5, TypedMessages DEF FitInv, DsfInv
    <2>3. g \in Signature /\ g.tx = m.tx /\ g.coin = e.coin
        <3>1. e \in Entry
            BY <2>1, <2>2
        <3>2. e.coin \in Coin
            BY <3>1, EntryFacts
        <3> QED BY <2>2, <3>2 DEF Signature
    <2>4. s \in ToMn /\ s.type = "dss" /\ j.sent = <<s>>
        <3> HIDE DEF g
        <3>1. s \in ToMn /\ s.type = "dss"
            BY <2>3 DEF ToMn
        <3> QED BY <2>1, <3>1 DEF g
    <2>5. toMn'[c] = Append(toMn[c], s) /\ made'[c] = made[c] + 0 /\ pool'[c] = pool[c]
        <3> HIDE DEF s, g
        <3>1. toMn'[c] = Append(toMn[c], s) /\ made'[c] = made[c] + (IF s.type = "dsi" THEN 1 ELSE 0) /\ pool'[c] = j.pool
            BY <2>4, BecomesWhole
        <3> QED BY <1>5, <2>4, <3>1
    <2>6. made[c] \in Nat
        BY DEF Typed
    <2>7. toMn'[c] = Append(toMn[c], [type |-> "dss", sig |-> g])
        BY <2>5
    <2> HIDE DEF g
    <2>8. /\ made'[c] = made[c] /\ pool'[c].entries = pool[c].entries /\ Past(g.tx)
          /\ \E f \in pool[c].entries : f \in g.tx /\ f.coin = g.coin
        BY <2>1, <2>2, <2>3, <2>5, <2>6
    <2> QED BY <2>3, <2>7, <2>8 DEF SendsSignature
<1> QED BY <1>1, <1>2, <1>3, <1>4, <1>5 DEF MessageTaken, DsqTaken, DsfTaken

LEMMA SuffixOthers ==
    ASSUME Typed, NEW c \in Client, toClient[c] # <<>>, toClient' = [toClient EXCEPT ![c] = Tail(@)]
    PROVE  \A d \in Client : Suffix(toClient[d], toClient'[d])
<1>1. \A d \in Client : toClient[d] \in Seq(FromMn(sessions))
    BY DEF Typed
<1>2. ASSUME NEW d \in Client PROVE Suffix(toClient[d], toClient'[d])
    <2>1. CASE d = c
        <3>1. toClient'[d] = Tail(toClient[d])
            BY <2>1 DEF Typed
        <3> QED BY <1>1, <2>1, <3>1, SuffixFacts
    <2>2. CASE d # c
        <3>1. toClient'[d] = toClient[d]
            BY <2>2 DEF Typed
        <3> QED BY <1>1, <3>1, SuffixFacts
    <2> QED BY <2>1, <2>2
<1> QED BY <1>2

\* What participant c finds when it takes a message.
LEMMA ClientReceiveOutcome ==
    ASSUME Typed, NEW c \in Client, ClientReceive(c)
    PROVE  /\ \A d \in Client : Suffix(toClient[d], toClient'[d])
           /\ 1 \in 1..Len(toClient[c]) /\ toClient[c][1] \in FromMn(sessions)
           /\ toClient' = [toClient EXCEPT ![c] = Tail(toClient[c])]
           /\ \E j : /\ Becomes(c, j) /\ j.pool.submitted \in {pool[c].submitted, TRUE}
                     /\ MessageTaken(c, Participant(c), toClient[c][1], j)
                     /\ Heeds(Participant(c), j)
<1> DEFINE k == Participant(c)
           m == toClient[c][1]
<1>1. sessions \in Nat /\ made[c] \in Nat /\ k.pool = pool[c] /\ k.sent = <<>> /\ Sound(k, sessions)
    BY ParticipantWhole DEF Typed
<1>2. toClient[c] \in Seq(FromMn(sessions)) /\ toClient[c] # <<>>
    BY DEF Typed, ClientReceive
<1>3. Len(toClient[c]) \in Nat \ {0} /\ Head(toClient[c]) = m /\ m \in FromMn(sessions)
    <2>1. Head(toClient[c]) \in FromMn(sessions)
        BY <1>2, HeadTailProperties
    <2> QED BY <1>2, <2>1, SuffixFacts
<1>4. toClient' = [toClient EXCEPT ![c] = Tail(@)]
    BY DEF ClientReceive
<1>5. \A d \in Client : Suffix(toClient[d], toClient'[d])
    BY <1>2, <1>4, SuffixOthers
<1>6. PICK j \in Receive(c, k, m) : Becomes(c, j)
    <2>1. \E j \in Receive(c, Participant(c), Head(toClient[c])) : Becomes(c, j)
        BY Zenon DEF ClientReceive
    <2> QED BY <1>3, <2>1
<1> HIDE DEF k, m
<1>7. j.pool.submitted \in {k.pool.submitted, TRUE} /\ MessageTaken(c, k, m, j) /\ Heeds(k, j)
    BY <1>1, <1>3, <1>6, ReceiveOutcome
<1>8. 1 \in 1..Len(toClient[c])
    BY <1>3
<1> QED BY <1>1, <1>3, <1>4, <1>5, <1>6, <1>7, <1>8 DEF k, m

LEMMA ClientReceiveFits ==
    ASSUME Typed, Typed', FitInv, NEW c \in Client, ClientReceive(c)
    PROVE  FitInv'
<1>1. PICK j : Becomes(c, j) /\ MessageTaken(c, Participant(c), toClient[c][1], j)
    BY ClientReceiveOutcome
<1>2. 1 \in 1..Len(toClient[c]) /\ \A d \in Client : Suffix(toClient[d], toClient'[d])
    BY ClientReceiveOutcome
<1>3. Participant(c).pool = pool[c] /\ Participant(c).sent = <<>>
    BY ParticipantWhole
<1>4. Quiet(c) \/ SendsEntry(c) \/ SendsSignature(c)
    BY <1>1, <1>2, <1>3, ReceiveFits
<1>5. mn' = mn /\ \A d \in Client \ {c} : toMn'[d] = toMn[d] /\ pool'[d] = pool[d] /\ made'[d] = made[d]
    BY <1>1, BecomesWhole
<1> QED BY <1>2, <1>4, <1>5, ClientKeepsFit

LEMMA ClientTimerFits ==
    ASSUME Typed, Typed', FitInv, NEW c \in Client, StartMixing(c) \/ ClientTimeout(c) \/ ClientExpireEntry(c)
    PROVE  FitInv'
<1>1. PICK j : Becomes(c, j) /\ (Left(j) \/ Requests(j))
    BY ClientTimerOutcome
<1>2. Quiet(c)
    BY <1>1, LeftQuiet
<1>3. mn' = mn /\ \A d \in Client \ {c} : toMn'[d] = toMn[d] /\ pool'[d] = pool[d] /\ made'[d] = made[d]
    BY <1>1, BecomesWhole
<1>4. \A d \in Client : Suffix(toClient[d], toClient'[d])
    <2>1. toClient' = toClient /\ \A d \in Client : toClient[d] \in Seq(FromMn(sessions))
        BY ClientTimerOutcome DEF Typed
    <2> QED BY <2>1, SuffixFacts
<1> QED BY <1>2, <1>3, <1>4, ClientKeepsFit

-----------------------------------------------------------------------------
(* Signatures fit after each step of the primenode. *)

\* What the primenode does with message m of c.
MnTakes(w, x, c, m) ==
    \/ m.type = "dsa" /\ x.mixed = w.mixed /\ DsaAnswered(w, x, c)
    \/ m.type = "dsa" /\ x.mixed = w.mixed /\ DsaOpens(w, x, c, sessions + 1)
    \/ m.type = "dsi" /\ x.mixed = w.mixed /\ DsiRefused(w, x, c)
    \/ m.type = "dsi" /\ x.mixed = w.mixed /\ DsiTaken(w, x, c, m.entry)
    \/ m.type = "dsi" /\ x.mixed = w.mixed /\ DsiSeals(w, x, c, m.entry)
    \/ m.type = "dss" /\ DssCounted(w, x, m.sig)
    \/ m.type = "dss" /\ DssLast(w, x, m.sig)

\* The signature that comes next is one over the transaction of the entries, if it is for
\* one of them: its own entry came before it.
LEMMA HeadFits ==
    ASSUME Typed, FitInv, NEW c \in Client, 1 \in 1..Len(toMn[c]), toMn[c][1].type = "dss",
           NEW g, g = toMn[c][1].sig
    PROVE  g \in Signature /\ Owner[g.coin] = c /\ Fits(mn, g)
<1>1. g \in Signature
    BY TypedMessages
<1>2. Owner[g.coin] = c /\ Past(g.tx) /\ \E e \in g.tx : e.coin = g.coin /\ After(c, 1, e)
    BY DEF FitInv, DssInv
<1>3. PICK e \in g.tx : e.coin = g.coin /\ After(c, 1, e)
    BY <1>2
<1>4. ASSUME NEW f \in mn.entries, f.coin = g.coin PROVE mn.state \in Sealed /\ g.tx = mn.entries
    <2>1. f \in Entry /\ e \in Entry
        BY <1>1 DEF Typed, MnPool, Signature
    <2>2. e.out <= f.out /\ f.out <= e.out
        BY <1>2, <1>3, <1>4 DEF Past, After
    <2>3. e.out \in Nat /\ f.out \in Nat
        BY <2>1, EntryFacts
    <2>4. e.out = f.out
        BY <2>2, <2>3
    <2>5. f = e
        BY <1>3, <1>4, <2>1, <2>4, EntryFacts
    <2> QED BY <1>2, <1>4, <2>5 DEF Past
<1>5. Fits(mn, g)
    BY <1>4 DEF Fits, Coins
<1> QED BY <1>1, <1>2, <1>5

LEMMA MnWorld ==
    ASSUME Typed
    PROVE  /\ sessions \in Nat /\ Mn \in World(sessions)
           /\ Mn.pool = mn /\ Mn.net = toClient /\ Mn.mixed = mixed
<1>1. sessions \in Nat /\ Mn \in World(sessions) /\ Mn.pool = mn
    BY TypedSides DEF Typed
<1> QED BY <1>1 DEF Mn

LEMMA MnReceiveOutcome ==
    ASSUME IInv, FitInv, NEW c \in Client, MnReceive(c)
    PROVE  /\ 1 \in 1..Len(toMn[c]) /\ toMn[c] # <<>> /\ toMn[c][1] \in ToMn
           /\ toMn' = [toMn EXCEPT ![c] = Tail(toMn[c])]
           /\ UNCHANGED <<pool, locked, requests, made>>
           /\ sessions' \in {sessions, sessions + 1}
           /\ \E x : /\ mn' = x.pool /\ toClient' = x.net /\ mixed' = x.mixed /\ MnInv(mn')
                     /\ MnTakes(Mn, x, c, toMn[c][1])
<1> DEFINE m == toMn[c][1]
<1>t. Typed /\ MnInv(mn)
    BY DEF IInv, FitInv
<1>w. sessions \in Nat /\ Mn \in World(sessions) /\ Mn.pool = mn /\ Mn.net = toClient /\ Mn.mixed = mixed
    BY <1>t, MnWorld
<1>1. toMn[c] \in Seq(ToMn) /\ toMn[c] # <<>>
    BY <1>t DEF Typed, MnReceive
<1>2. Len(toMn[c]) \in Nat \ {0} /\ Head(toMn[c]) = m /\ m \in ToMn
    <2>1. Head(toMn[c]) \in ToMn
        BY <1>1, HeadTailProperties
    <2> QED BY <1>1, <2>1, SuffixFacts
<1>3. 1 \in 1..Len(toMn[c])
    BY <1>2
<1>4. toMn' = [toMn EXCEPT ![c] = Tail(toMn[c])] /\ UNCHANGED <<pool, locked, requests, made>>
    BY DEF MnReceive
<1>5. PICK x \in CASE m.type = "dsa" -> Dsa(Mn, c)
                   [] m.type = "dsi" -> Dsi(Mn, c, m.entry)
                   [] m.type = "dss" -> Dss(Mn, m.sig) :
             /\ mn' = x.pool /\ toClient' = x.net /\ mixed' = x.mixed
             /\ sessions' = IF x.pool.sessionID \in {0, mn.sessionID} THEN sessions ELSE sessions + 1
    <2>1. \E x \in CASE Head(toMn[c]).type = "dsa" -> Dsa(Mn, c)
                     [] Head(toMn[c]).type = "dsi" -> Dsi(Mn, c, Head(toMn[c]).entry)
                     [] Head(toMn[c]).type = "dss" -> Dss(Mn, Head(toMn[c]).sig) :
             /\ mn' = x.pool /\ toClient' = x.net /\ mixed' = x.mixed
             /\ sessions' = IF x.pool.sessionID \in {0, mn.sessionID} THEN sessions ELSE sessions + 1
        BY Zenon DEF MnReceive
    <2> HIDE DEF m
    <2> QED BY <1>2, <2>1
<1>6. m.type \in {"dsa", "dsi", "dss"}
    BY <1>2 DEF ToMn
<1>7. MnInv(x.pool) /\ MnTakes(Mn, x, c, m)
    <2>1. CASE m.type = "dsa"
        <3>1. x \in Dsa(Mn, c)
            BY <1>5, <2>1
        <3>2. Mn.pool.sessionID # 0 => Mn.pool.sessionUsers # 0
            BY <1>w DEF IInv, SessionInv
        <3>3. MnInv(Mn.pool)
            BY <1>t, <1>w
        <3>4. sessions \in Nat /\ Mn \in World(sessions)
            BY <1>w
        <3>5. x.mixed = Mn.mixed /\ MnInv(x.pool) /\ (DsaAnswered(Mn, x, c) \/ DsaOpens(Mn, x, c, sessions + 1))
            BY ONLY c \in Client, <3>1, <3>2, <3>3, <3>4, DsaOutcome
        <3> QED BY <2>1, <3>5 DEF MnTakes
    <2>2. CASE m.type = "dsi"
        <3>1. x \in Dsi(Mn, c, m.entry) /\ m.entry \in Entry
            BY <1>2, <1>5, <2>2 DEF ToMn
        <3>2. MnInv(Mn.pool)
            BY <1>t, <1>w
        <3>3. /\ x.mixed = Mn.mixed /\ MnInv(x.pool)
              /\ DsiRefused(Mn, x, c) \/ DsiTaken(Mn, x, c, m.entry) \/ DsiSeals(Mn, x, c, m.entry)
            BY <1>w, <3>1, <3>2, DsiOutcome
        <3> QED BY <2>2, <3>3 DEF MnTakes
    <2>3. CASE m.type = "dss"
        <3>1. x \in Dss(Mn, m.sig)
            BY <1>5, <2>3
        <3>2. m.sig \in Signature /\ Fits(Mn.pool, m.sig)
            BY <1>t, <1>w, <1>3, <2>3, HeadFits
        <3>3. MnInv(Mn.pool)
            BY <1>t, <1>w
        <3>4. DssCounted(Mn, x, m.sig) \/ DssLast(Mn, x, m.sig)
            BY <1>w, <3>1, <3>2, <3>3, DssEnds
        <3>5. MnInv(x.pool)
            BY <3>4, NulledInv DEF DssCounted, DssLast
        <3> QED BY <2>3, <3>4, <3>5 DEF MnTakes
    <2> QED BY <1>6, <2>1, <2>2, <2>3
<1>8. sessions' \in {sessions, sessions + 1}
    BY <1>5
<1> QED BY <1>1, <1>2, <1>3, <1>4, <1>5, <1>7, <1>8

LEMMA ToldRelayed ==
    ASSUME NEW w, NEW x, NEW c \in Client, NEW R, NEW a, Told(w, x, c, R, a)
    PROVE  \A d \in Client : Relayed(w.net[d], x.net[d], R \cup {a})
<1>1. ASSUME NEW d \in Client PROVE Relayed(w.net[d], x.net[d], R \cup {a})
    <2>1. CASE d = c
        BY <2>1 DEF Told, Answered, Relayed
    <2>2. CASE d # c
        BY <2>2 DEF Told, Relayed
    <2> QED BY <2>1, <2>2
<1> QED BY <1>1

\* A step of the primenode that sends messages of R.
LEMMA MnStepFits ==
    ASSUME Typed, Typed', FitInv, MnInv(mn'), EntriesGo, UNCHANGED <<pool, made>>, NEW R,
           \A d \in Client : Suffix(toMn[d], toMn'[d]),
           \A d \in Client : Relayed(toClient[d], toClient'[d], R),
           \A m \in R : m.type = "dsf" => mn'.state \in Sealed /\ m.tx = mn'.entries
    PROVE  FitInv'
<1>1. ASSUME NEW d \in Client, NEW i \in 1..Len(toClient'[d]), toClient'[d][i].type = "dsf"
      PROVE  \/ \E j \in 1..Len(toClient[d]) : toClient'[d][i] = toClient[d][j]
             \/ mn'.state \in Sealed /\ toClient'[d][i].tx = mn'.entries
    <2>1. Len(toClient[d]) \in Nat
        BY TypedMessages
    <2>2. Relayed(toClient[d], toClient'[d], R)
        OBVIOUS
    <2>3. CASE i \in 1..Len(toClient[d])
        <3>1. toClient'[d][i] = toClient[d][i]
            BY <2>2, <2>3 DEF Relayed
        <3> QED BY <2>3, <3>1
    <2>4. CASE i \notin 1..Len(toClient[d])
        <3>1. i \in (Len(toClient[d]) + 1)..Len(toClient'[d])
            BY <2>1, <2>4
        <3>2. toClient'[d][i] \in R
            BY <2>2, <3>1 DEF Relayed
        <3> QED BY <1>1, <3>2
    <2> QED BY <2>3, <2>4
<1>2. made' = made /\ \A d \in Client : pool'[d].entries = pool[d].entries
    OBVIOUS
<1> QED BY <1>1, <1>2, MnKeepsFit

LEMMA StatusTypes ==
    /\ \A id, s : Status(id, s).type = "dssu" /\ Status(id, s).accepted = -1
                  /\ Status(id, s).id = id /\ Status(id, s).state = s
    /\ \A id, s, a : Answer(id, s, a).type = "dssu" /\ Answer(id, s, a).accepted = a
                     /\ Answer(id, s, a).id = id /\ Answer(id, s, a).state = s
  BY DEF Status, Answer

\* How the entries change with a message, and what of it is a transaction.
LEMMA TakesEntries ==
    ASSUME MnInv(mn), Mn.pool = mn, Mn.net = toClient, NEW c \in Client, toMn[c] # <<>>,
           toMn' = [toMn EXCEPT ![c] = Tail(toMn[c])], DOMAIN toMn = Client,
           NEW x, mn' = x.pool, toClient' = x.net, MnTakes(Mn, x, c, toMn[c][1])
    PROVE  /\ EntriesGo
           /\ \E R : /\ \A d \in Client : Relayed(toClient[d], toClient'[d], R)
                     /\ \A m \in R : m.type = "dsf" => mn'.state \in Sealed /\ m.tx = mn'.entries
<1> DEFINE m == toMn[c][1]
           Goal(R) == /\ \A d \in Client : Relayed(toClient[d], toClient'[d], R)
                      /\ \A h \in R : h.type = "dsf" => mn'.state \in Sealed /\ h.tx = mn'.entries
<1>0. toMn'[c] = Tail(toMn[c])
    OBVIOUS
<1> HIDE DEF Goal
<1>1. ASSUME NEW R, NEW a, Told(Mn, x, c, R, a), NEW S, S = R \cup {a}
      PROVE  \A d \in Client : Relayed(toClient[d], toClient'[d], S)
    <2>1. \A d \in Client : Relayed(Mn.net[d], x.net[d], R \cup {a})
        BY <1>1, ToldRelayed
    <2> QED BY <1>1, <2>1
<1>9. \A id, s : Status(id, s).type # "dsf"
    BY StatusTypes
<1>10. \A id, s, a : Answer(id, s, a).type # "dsf"
    BY StatusTypes
<1>2. CASE DsaAnswered(Mn, x, c)
    <2>1. PICK a \in {0, 1} : Told(Mn, x, c, {}, Answer(mn.sessionID, mn.state, a))
        BY <1>2 DEF DsaAnswered
    <2> DEFINE S == {} \cup {Answer(mn.sessionID, mn.state, a)}
    <2>5. \A h \in S : h.type # "dsf"
        BY <1>9, <1>10
    <2>6. S = {} \cup {Answer(mn.sessionID, mn.state, a)}
        OBVIOUS
    <2> HIDE DEF S
    <2>7. \A d \in Client : Relayed(toClient[d], toClient'[d], S)
        BY <1>1, <2>1, <2>6
    <2>2. Goal(S)
        BY <2>5, <2>7 DEF Goal
    <2>3. EntriesGo
        BY <1>2 DEF DsaAnswered, Same, EntriesGo
    <2> QED BY <2>2, <2>3 DEF Goal
<1>3. CASE DsaOpens(Mn, x, c, sessions + 1)
    <2>1. Told(Mn, x, c, {Status(sessions + 1, mn.state)}, Answer(sessions + 1, "QUEUE", 1))
        BY <1>3 DEF DsaOpens
    <2> DEFINE S == {Status(sessions + 1, mn.state)} \cup {Answer(sessions + 1, "QUEUE", 1)}
    <2>5. \A h \in S : h.type # "dsf"
        BY <1>9, <1>10
    <2>6. S = {Status(sessions + 1, mn.state)} \cup {Answer(sessions + 1, "QUEUE", 1)}
        OBVIOUS
    <2> HIDE DEF S
    <2>7. \A d \in Client : Relayed(toClient[d], toClient'[d], S)
        BY <1>1, <2>1, <2>6
    <2>2. Goal(S)
        BY <2>5, <2>7 DEF Goal
    <2>3. EntriesGo
        BY <1>3 DEF DsaOpens, EntriesGo
    <2> QED BY <2>2, <2>3 DEF Goal
<1>4. CASE DsiRefused(Mn, x, c)
    <2>1. Told(Mn, x, c, {}, Answer(mn.sessionID, mn.state, 0))
        BY <1>4 DEF DsiRefused
    <2> DEFINE S == {} \cup {Answer(mn.sessionID, mn.state, 0)}
    <2>5. \A h \in S : h.type # "dsf"
        BY <1>9, <1>10
    <2>6. S = {} \cup {Answer(mn.sessionID, mn.state, 0)}
        OBVIOUS
    <2> HIDE DEF S
    <2>7. \A d \in Client : Relayed(toClient[d], toClient'[d], S)
        BY <1>1, <2>1, <2>6
    <2>2. Goal(S)
        BY <2>5, <2>7 DEF Goal
    <2>3. EntriesGo
        BY <1>4 DEF DsiRefused, Same, EntriesGo
    <2> QED BY <2>2, <2>3 DEF Goal
<1>5. CASE m.type = "dsi" /\ DsiTaken(Mn, x, c, m.entry)
    <2>1. Told(Mn, x, c, {Status(mn.sessionID, mn.state)}, Answer(mn.sessionID, mn.state, 1))
        BY <1>5 DEF DsiTaken
    <2> DEFINE S == {Status(mn.sessionID, mn.state)} \cup {Answer(mn.sessionID, mn.state, 1)}
    <2>5. \A h \in S : h.type # "dsf"
        BY <1>9, <1>10
    <2>6. S = {Status(mn.sessionID, mn.state)} \cup {Answer(mn.sessionID, mn.state, 1)}
        OBVIOUS
    <2> HIDE DEF S
    <2>7. \A d \in Client : Relayed(toClient[d], toClient'[d], S)
        BY <1>1, <2>1, <2>6
    <2>2. Goal(S)
        BY <2>5, <2>7 DEF Goal
    <2>3. mn.state \notin Sealed /\ mn'.entries = mn.entries \cup {m.entry}
        BY <1>5 DEF DsiTaken, Collecting, Sealed
    <2>4. EntriesGo
        BY <1>0, <1>5, <2>3 DEF EntriesGo
    <2> QED BY <2>2, <2>4 DEF Goal
<1>6. CASE m.type = "dsi" /\ DsiSeals(Mn, x, c, m.entry)
    <2> DEFINE es == mn.entries \cup {m.entry}
               a == Answer(mn.sessionID, "ACCEPTING_ENTRIES", 1)
    <2>1. Told(Mn, x, c, Sealing(mn.sessionID, es), a)
        BY <1>6 DEF DsiSeals
    <2>2. mn.state \notin Sealed /\ mn'.entries = es /\ mn'.state \in Sealed
        BY <1>6 DEF DsiSeals, Sealed
    <2>3. \A h \in Sealing(mn.sessionID, es) \cup {a} : h.type = "dsf" => h.tx = es
        BY StatusTypes DEF Sealing
    <2> DEFINE S == Sealing(mn.sessionID, es) \cup {a}
    <2>6. S = Sealing(mn.sessionID, es) \cup {a} /\ \A h \in S : h.type = "dsf" => h.tx = es
        BY <2>3
    <2> HIDE DEF S, a
    <2>7. \A d \in Client : Relayed(toClient[d], toClient'[d], S)
        BY <1>1, <2>1, <2>6
    <2>4. Goal(S)
        BY <2>2, <2>6, <2>7 DEF Goal
    <2>5. EntriesGo
        BY <1>0, <1>6, <2>2 DEF EntriesGo
    <2> QED BY <2>4, <2>5 DEF Goal
<1>7. CASE DssCounted(Mn, x, m.sig)
    <2>3. \A d \in Client : Relayed(toClient[d], toClient'[d], {Status(mn.sessionID, mn.state)})
        BY <1>7 DEF DssCounted
    <2> DEFINE S == {Status(mn.sessionID, mn.state)}
    <2>4. \A h \in S : h.type # "dsf"
        BY <1>9
    <2>5. \A d \in Client : Relayed(toClient[d], toClient'[d], S)
        BY <2>3
    <2> HIDE DEF S
    <2>1. Goal(S)
        BY <2>4, <2>5 DEF Goal
    <2>2. EntriesGo
        BY <1>7 DEF DssCounted, Same, EntriesGo
    <2> QED BY <2>1, <2>2 DEF Goal
<1>8. CASE DssLast(Mn, x, m.sig)
    <2>1. CASE /\ Nulled(x.pool)
               /\ \A d \in Client : Relayed(Mn.net[d], x.net[d], Over(mn.sessionID))
        <3>1. \A h \in Over(mn.sessionID) : h.type # "dsf"
            BY StatusTypes DEF Over
        <3> DEFINE S == Over(mn.sessionID)
        <3>4. (\A h \in S : h.type # "dsf") /\ \A d \in Client : Relayed(toClient[d], toClient'[d], S)
            BY <2>1, <3>1
        <3> HIDE DEF S
        <3>2. Goal(S)
            BY <3>4 DEF Goal
        <3>3. EntriesGo
            BY <2>1 DEF Nulled, EntriesGo
        <3> QED BY <3>2, <3>3 DEF Goal
    <2>2. CASE /\ x.pool.state = "TRANSMISSION" /\ x.pool.entries = mn.entries
               /\ \A d \in Client : Relayed(Mn.net[d], x.net[d], {Status(mn.sessionID, s) : s \in Sealed})
        <3> DEFINE R == {Status(mn.sessionID, s) : s \in Sealed}
        <3>1. \A h \in R : h.type # "dsf"
            BY StatusTypes
        <3>4. \A d \in Client : Relayed(toClient[d], toClient'[d], R)
            BY <2>2
        <3> HIDE DEF R
        <3>2. Goal(R)
            BY <3>1, <3>4 DEF Goal
        <3>3. EntriesGo
            BY <2>2 DEF Sealed, EntriesGo
        <3> QED BY <3>2, <3>3 DEF Goal
    <2> QED BY <1>8, <2>1, <2>2 DEF DssLast
<1> QED BY <1>2, <1>3, <1>4, <1>5, <1>6, <1>7, <1>8 DEF MnTakes, Goal

LEMMA SuffixAll ==
    ASSUME Typed, NEW c \in Client, toMn[c] # <<>>,
           toMn' = [toMn EXCEPT ![c] = Tail(toMn[c])] \/ toMn' = [toMn EXCEPT ![c] = <<>>] \/ toMn' = toMn
    PROVE  \A d \in Client : Suffix(toMn[d], toMn'[d])
<1>1. \A d \in Client : toMn[d] \in Seq(ToMn)
    BY DEF Typed
<1>2. ASSUME NEW d \in Client PROVE Suffix(toMn[d], toMn'[d])
    <2>1. \/ toMn'[d] = toMn[d]
          \/ toMn'[d] = <<>>
          \/ toMn[d] # <<>> /\ toMn'[d] = Tail(toMn[d])
        BY DEF Typed
    <2> QED BY <1>1, <2>1, SuffixFacts
<1> QED BY <1>2

LEMMA MnReceiveFits ==
    ASSUME IInv, Typed', FitInv, NEW c \in Client, MnReceive(c)
    PROVE  FitInv'
<1>1. Typed /\ MnInv(mn) /\ Mn.pool = mn /\ Mn.net = toClient /\ DOMAIN toMn = Client
    BY MnWorld DEF IInv, FitInv, Typed
<1>2. /\ toMn[c] # <<>> /\ toMn' = [toMn EXCEPT ![c] = Tail(toMn[c])] /\ UNCHANGED <<pool, made>>
    BY MnReceiveOutcome
<1>3. PICK x : /\ mn' = x.pool /\ toClient' = x.net /\ MnInv(mn') /\ MnTakes(Mn, x, c, toMn[c][1])
    BY MnReceiveOutcome
<1>4. /\ EntriesGo
      /\ \E R : /\ \A d \in Client : Relayed(toClient[d], toClient'[d], R)
                /\ \A m \in R : m.type = "dsf" => mn'.state \in Sealed /\ m.tx = mn'.entries
    BY <1>1, <1>2, <1>3, TakesEntries
<1>5. PICK R : /\ \A d \in Client : Relayed(toClient[d], toClient'[d], R)
               /\ \A m \in R : m.type = "dsf" => mn'.state \in Sealed /\ m.tx = mn'.entries
    BY <1>4
<1>6. \A d \in Client : Suffix(toMn[d], toMn'[d])
    BY <1>1, <1>2, SuffixAll
<1> QED BY <1>1, <1>2, <1>3, <1>4, <1>5, <1>6, MnStepFits

\* A timer of the primenode, which takes no message and sends no transaction.
LEMMA MnTimerFits ==
    ASSUME Typed, Typed', FitInv, MnInv(mn'), EntriesGo, UNCHANGED <<toMn, pool, made>>, NEW R,
           \A d \in Client : Relayed(toClient[d], toClient'[d], R), \A m \in R : m.type # "dsf"
    PROVE  FitInv'
<1>1. ASSUME NEW d \in Client PROVE Suffix(toMn[d], toMn'[d])
    <2>1. toMn[d] \in Seq(ToMn) /\ toMn'[d] = toMn[d]
        BY DEF Typed
    <2> QED BY <2>1, SuffixFacts
<1>2. \A m \in R : m.type = "dsf" => mn'.state \in Sealed /\ m.tx = mn'.entries
    OBVIOUS
<1> QED BY <1>1, <1>2, MnStepFits

LEMMA CheckForCompleteQueueFits ==
    ASSUME IInv, Typed', FitInv, CheckForCompleteQueue
    PROVE  FitInv'
<1> DEFINE x == Relay(UpdateState(Mn, "ACCEPTING_ENTRIES"), [type |-> "dsq"])
           R == {Status(mn.sessionID, "QUEUE"), [type |-> "dsq"]}
<1>1. /\ Typed /\ MnInv(mn) /\ sessions \in Nat /\ Mn \in World(sessions)
      /\ Mn.pool = mn /\ Mn.net = toClient
    BY MnWorld DEF IInv, FitInv
<1>2. mn.state = "QUEUE" /\ mn' = x.pool /\ toClient' = x.net /\ UNCHANGED <<toMn, pool, made>>
    BY DEF CheckForCompleteQueue
<1>3. \A m \in R : m.type # "dsf"
    BY DEF Status
<1> HIDE DEF x
<1>4. /\ MnInv(x.pool) /\ x.pool.entries = Mn.pool.entries
      /\ \A d \in Client : Relayed(Mn.net[d], x.net[d], {Status(Mn.pool.sessionID, "QUEUE"), [type |-> "dsq"]})
    BY <1>1, <1>2, CompleteQueueOutcome DEF x
<1> HIDE DEF R
<1>5. \A d \in Client : Relayed(toClient[d], toClient'[d], R)
    BY <1>1, <1>2, <1>4 DEF R
<1>6. EntriesGo
    BY <1>1, <1>2, <1>4 DEF EntriesGo, Sealed
<1>7. MnInv(mn')
    BY <1>2, <1>4
<1> QED BY <1>1, <1>2, <1>3, <1>5, <1>6, <1>7, MnTimerFits

LEMMA MnTimeoutFits ==
    ASSUME IInv, Typed', FitInv, MnTimeout
    PROVE  FitInv'
<1>1. /\ Typed /\ MnInv(mn) /\ sessions \in Nat /\ Mn \in World(sessions)
    BY MnWorld DEF IInv, FitInv
<1>2. mn' = NullMn /\ toClient' = toClient /\ UNCHANGED <<toMn, pool, made>>
    BY <1>1, SetNullTyped DEF MnTimeout
<1>3. MnInv(mn') /\ EntriesGo
    BY <1>2, NullMnFields, NulledInv DEF EntriesGo
<1>4. ASSUME NEW d \in Client PROVE Relayed(toClient[d], toClient'[d], {})
    <2>1. toClient[d] \in Seq(FromMn(sessions)) /\ toClient'[d] = toClient[d]
        BY <1>1, <1>2 DEF Typed
    <2> QED BY <2>1, RelayedNothing
<1>5. \A m \in {} : m.type # "dsf"
    OBVIOUS
<1> QED BY <1>1, <1>2, <1>3, <1>4, <1>5, MnTimerFits

LEMMA MnExpireEntryFits ==
    ASSUME IInv, Typed', FitInv, MnExpireEntry
    PROVE  FitInv'
<1>1. /\ Typed /\ MnInv(mn) /\ sessions \in Nat /\ Mn \in World(sessions)
      /\ Mn.pool = mn /\ Mn.net = toClient
    BY MnWorld DEF IInv, FitInv
<1>2. PICK e \in mn.entries : mn' = Erase(Mn, e).pool /\ toClient' = Erase(Mn, e).net
    BY DEF MnExpireEntry
<1>3. mn.state \in Collecting /\ mn.state \notin Sealed /\ UNCHANGED <<toMn, pool, made>>
    BY DEF MnExpireEntry, Collecting, Sealed
<1> DEFINE x == Erase(Mn, e)
<1>4. mn' = x.pool /\ toClient' = x.net
    BY <1>2
<1>5. /\ MnInv(x.pool)
      /\ \/ Nulled(x.pool) /\ \A d \in Client : Relayed(Mn.net[d], x.net[d], {Status(0, "IDLE")})
         \/ /\ x.pool.entries = Mn.pool.entries \ {e}
            /\ \A d \in Client : Relayed(Mn.net[d], x.net[d], {Status(Mn.pool.sessionID, Mn.pool.state)})
    BY <1>1, <1>3, EraseOutcome
<1> HIDE DEF x
<1>6. MnInv(mn')
    BY <1>4, <1>5
<1>7. mn'.entries \subseteq mn.entries
    BY <1>1, <1>4, <1>5 DEF Nulled
<1>8. EntriesGo
    BY <1>3, <1>7 DEF EntriesGo
<1> DEFINE R == {Status(0, "IDLE"), Status(mn.sessionID, mn.state)}
<1>9. \A m \in R : m.type # "dsf"
    BY DEF Status
<1>10. /\ {Status(0, "IDLE")} \subseteq R /\ {Status(Mn.pool.sessionID, Mn.pool.state)} \subseteq R
    BY <1>1
<1> HIDE DEF R
<1>11. \A d \in Client : Relayed(toClient[d], toClient'[d], R)
    BY <1>1, <1>4, <1>5, <1>10 DEF Relayed
<1> QED BY <1>1, <1>3, <1>6, <1>8, <1>9, <1>11, MnTimerFits

LEMMA DisconnectFits ==
    ASSUME IInv, Typed', FitInv, NEW c \in Client, Disconnect(c)
    PROVE  FitInv'
<1>1. Typed /\ \A d \in Client : toMn[d] \in Seq(ToMn) /\ toClient[d] \in Seq(FromMn(sessions))
    BY DEF IInv, Typed
<1>2. /\ toMn' = [toMn EXCEPT ![c] = <<>>] /\ toClient' = [toClient EXCEPT ![c] = <<>>]
      /\ UNCHANGED <<mn, pool, made>>
    BY DEF Disconnect
<1>3. \A d \in Client : toMn'[d] \in {toMn[d], <<>>} /\ toClient'[d] \in {toClient[d], <<>>}
    BY <1>1, <1>2 DEF Typed
<1>4. ASSUME NEW d \in Client PROVE Suffix(toMn[d], toMn'[d])
    BY <1>1, <1>3, SuffixFacts
<1>5. ASSUME NEW d \in Client, NEW i \in 1..Len(toClient'[d])
      PROVE  \E j \in 1..Len(toClient[d]) : toClient'[d][i] = toClient[d][j]
    <2>1. CASE toClient'[d] = <<>>
        BY <1>5, <2>1, EmptySeq
    <2> QED BY <1>3, <1>5, <2>1
<1>6. MnInv(mn') /\ EntriesGo
    BY <1>2 DEF FitInv, EntriesGo
<1>7. \A d \in Client : pool'[d].entries = pool[d].entries
    BY <1>2
<1>8. made' = made
    BY <1>2
<1> QED BY <1>1, <1>4, <1>5, <1>6, <1>7, <1>8, MnKeepsFit

LEMMA TickFits ==
    ASSUME IInv, Typed', FitInv, Tick
    PROVE  FitInv'
<1>1. Typed /\ MnInv(mn) /\ mn \in MnPool(sessions)
    BY DEF IInv, FitInv, Typed
<1>2. /\ mn'.state = mn.state /\ mn'.sessionID = mn.sessionID /\ mn'.sessionUsers = mn.sessionUsers
      /\ mn'.entries = mn.entries /\ mn'.sev = mn.sev /\ mn'.tx = mn.tx /\ mn'.txSigs = mn.txSigs
    BY <1>1 DEF Tick, MnPool
<1>3. MnInv(mn') /\ EntriesGo
    BY <1>1, <1>2 DEF MnInv, EntriesGo
<1>4. ASSUME NEW d \in Client PROVE pool'[d].entries = pool[d].entries
    <2>1. pool[d] \in ClientPool(sessions) /\ pool'[d] = [pool[d] EXCEPT !.age = @ + 1]
        BY <1>1 DEF Tick, Typed
    <2> QED BY <2>1 DEF ClientPool
<1>5. toMn' = toMn /\ toClient' = toClient /\ made' = made
    BY DEF Tick
<1>6. ASSUME NEW d \in Client PROVE Suffix(toMn[d], toMn'[d])
    <2>1. toMn[d] \in Seq(ToMn)
        BY <1>1 DEF Typed
    <2> QED BY <1>5, <2>1, SuffixFacts
<1>7. \A d \in Client : \A i \in 1..Len(toClient'[d]) : \E j \in 1..Len(toClient[d]) : toClient'[d][i] = toClient[d][j]
    BY <1>5
<1> QED BY <1>1, <1>3, <1>4, <1>5, <1>6, <1>7, MnKeepsFit

LEMMA InitFits == Init => FitInv
<1> SUFFICES ASSUME Init PROVE FitInv
    OBVIOUS
<1>1. mn = NullMn /\ \A c \in Client : toMn[c] = <<>> /\ toClient[c] = <<>> /\ pool[c].entries = {}
    BY DEF Init
<1>2. MnInv(mn) /\ mn.entries = {}
    BY <1>1, NullMnFields, NulledInv
<1>3. \A c \in Client : 1..Len(toMn[c]) = {} /\ 1..Len(toClient[c]) = {}
    <2>1. 1..0 = {}
        OBVIOUS
    <2> QED BY <1>1, <2>1, EmptySeq
<1> QED BY <1>1, <1>2, <1>3 DEF FitInv, EntriesInv, ClientInv, DsiInv, DssInv, DsfInv

LEMMA NextFits == ASSUME IInv, FitInv, [Next]_vars PROVE FitInv'
<1>1. IInv /\ Typed /\ Typed'
    BY NextInv DEF IInv
<1>2. ASSUME NEW c \in Client, MnReceive(c) PROVE FitInv'
    BY <1>1, <1>2, MnReceiveFits
<1>3. ASSUME NEW c \in Client, ClientReceive(c) PROVE FitInv'
    BY <1>1, <1>3, ClientReceiveFits
<1>4. ASSUME NEW c \in Client, StartMixing(c) \/ ClientTimeout(c) \/ ClientExpireEntry(c) PROVE FitInv'
    BY <1>1, <1>4, ClientTimerFits
<1>5. ASSUME NEW c \in Client, Disconnect(c) PROVE FitInv'
    BY <1>1, <1>5, DisconnectFits
<1>6. CheckForCompleteQueue => FitInv'
    BY <1>1, CheckForCompleteQueueFits
<1>7. MnTimeout => FitInv'
    BY <1>1, MnTimeoutFits
<1>8. MnExpireEntry => FitInv'
    BY <1>1, MnExpireEntryFits
<1>9. Tick => FitInv'
    BY <1>1, TickFits
<1>10. ASSUME UNCHANGED vars PROVE FitInv'
    <2>1. mn' = mn /\ toMn' = toMn /\ toClient' = toClient /\ pool' = pool /\ made' = made
        BY <1>10 DEF vars
    <2>2. ASSUME NEW e PROVE Before(e)' <=> Before(e)
        BY <2>1 DEF Before
    <2>3. ASSUME NEW tx PROVE Past(tx)' <=> Past(tx)
        BY <2>1, <2>2 DEF Past
    <2>4. ASSUME NEW c, NEW i, NEW e PROVE After(c, i, e)' <=> After(c, i, e)
        BY <2>1 DEF After
    <2>5. MnInv(mn') /\ EntriesInv'
        BY <2>1, <2>2 DEF FitInv, EntriesInv
    <2>6. ClientInv' /\ DsiInv'
        BY <2>1 DEF FitInv, ClientInv, DsiInv
    <2>7. DssInv' /\ DsfInv'
        BY <2>1, <2>3, <2>4 DEF FitInv, DssInv, DsfInv
    <2> QED BY <2>5, <2>6, <2>7 DEF FitInv
<1> QED BY <1>2, <1>3, <1>4, <1>5, <1>6, <1>7, <1>8, <1>9, <1>10 DEF Next

LEMMA FitInvariant == Spec => [](IInv /\ FitInv)
<1>1. Init => IInv /\ FitInv
    BY InitInv, InitFits
<1>2. IInv /\ FitInv /\ [Next]_vars => (IInv /\ FitInv)'
    BY NextInv, NextFits
<1> QED BY <1>1, <1>2, PTL DEF Spec

-----------------------------------------------------------------------------
(* Why the coins of a mix are locked.  Who never asks with an answer under  *)
(* way has one question under way at most: an answer is to the last one.    *)
(* When it signs it has heard that the transaction is made, what is under   *)
(* way says no less, and its clock is behind the primenode's.               *)

Late == {"FINALIZE_TRANSACTION", "SIGNING", "TRANSMISSION"}

\* A question (dsa, dsi) or an answer.
Dialog(m) == m.type \in {"dsa", "dsi"} \/ (m.type = "dssu" /\ m.accepted # -1)

Silent(s) == \A i \in 1..Len(s) : ~ Dialog(s[i])

Idle(q, t) == Silent(q) /\ Silent(t)

\* One question under way, or one answer, or none.
Single(q, t) ==
    /\ \A i, j \in 1..Len(q) : Dialog(q[i]) /\ Dialog(q[j]) => i = j
    /\ \A i, j \in 1..Len(t) : Dialog(t[i]) /\ Dialog(t[j]) => i = j
    /\ Silent(q) \/ Silent(t)

\* A participant with pool k has been refused, or will be.
Refused(k, t) == k.state \in Ended \/ \E i \in 1..Len(t) : Dialog(t[i]) /\ t[i].accepted = 0

\* What is under way between the primenode, whose entries are es, and a participant.
Asked(q, t, k, es) ==
    /\ Single(q, t)
    /\ k.found = TRUE /\ k.entries = {} => Idle(q, t)
    /\ k.entries # {} =>
         /\ k.submitted = TRUE
         /\ \A i \in 1..Len(q) : Dialog(q[i]) => q[i].type = "dsi" /\ q[i].entry \in k.entries
    /\ Refused(k, t) => k.entries \cap es = {} /\ (k.entries = {} \/ Silent(q))

\* What a message says that the primenode, with pool p now, has sent.
StatusOk(m, p) ==
    /\ m.state \notin Ended
    /\ m.accepted = 1 => m.state \in Collecting /\ m.id # 0
    /\ m.state \in Late => m.id # 0 /\ (m.id = p.sessionID => p.state \in Sealed)
MsgOk(m, p) ==
    /\ m.type = "dssu" => StatusOk(m, p)
    /\ m.type = "dsf" => /\ m.id # 0 /\ (m.id = p.sessionID => p.state \in Sealed /\ m.tx = p.entries)
                         /\ m.tx \cap p.entries # {} => m.id = p.sessionID
    /\ m.type = "dsc" /\ m.id # 0 => m.id # p.sessionID

\* A participant that knows of the transaction is right, and its clock is not ahead.
LateOk(k, p) ==
    k.state \in Late /\ k.sessionID = p.sessionID /\ p.sessionID # 0 =>
        p.state \in Sealed /\ (p.state = "SIGNING" => k.age <= p.age)

\* A status that leaves a participant of session id in a late state.
KeepsLate(m, id) ==
    m.type = "dssu" => m.accepted # 1 /\ (m.accepted = -1 /\ m.id = id => m.state \in Late)

\* A participant has heard of the transaction, or will before the dsf.
Ready(t, k, p) ==
    /\ \A i \in 1..Len(t) : KeepsLate(t[i], p.sessionID)
    /\ k.sessionID = p.sessionID /\ k.entries \cap p.entries # {} => k.state \in Late
Awaits(t, p) ==
    \E l \in 1..Len(t) :
        /\ t[l].type = "dssu" /\ t[l].accepted = -1 /\ t[l].id = p.sessionID /\ t[l].state \in Late
        /\ \A i \in l..Len(t) : KeepsLate(t[i], p.sessionID)
        /\ \A i \in 1..l : ~ (t[i].type = "dsf" /\ t[i].id = p.sessionID)
ReadyOk(t, k, p) ==
    (\E i \in 1..Len(t) : t[i].type = "dsf" /\ t[i].id = p.sessionID) => Ready(t, k, p) \/ Awaits(t, p)

\* g is a signature of c for the transaction of p, counted or under way.
Signs(c, q, p, g) ==
    \/ g \in p.sev /\ Owner[g.coin] = c
    \/ g.tx = p.entries /\ \E i \in 1..Len(q) : q[i].type = "dss" /\ q[i].sig = g
\* Who has signed has its entry still.
Holds(q, t, k, p, g) ==
    /\ Ready(t, k, p) /\ Idle(q, t) /\ k.sessionID = p.sessionID
    /\ \E e \in k.entries \cap p.entries : e.coin = g.coin
SignedOk(c, q, t, k, p) == \A g \in Signature : Signs(c, q, p, g) => Holds(q, t, k, p, g)

\* All of it for participant c.
Knows(c, q, t, k, p) ==
    /\ Asked(q, t, k, p.entries) /\ (\A i \in 1..Len(t) : MsgOk(t[i], p)) /\ LateOk(k, p)
    /\ p.state = "SIGNING" => ReadyOk(t, k, p) /\ SignedOk(c, q, t, k, p)

KnowInv ==
    /\ mn.state = "SIGNING" => mn.age <= QueueTimeout /\ mn.age <= SigningTimeout
    /\ \A c \in Client \ overlapped : Knows(c, toMn[c], toClient[c], pool[c], mn)

\* All questions and answers of t are from s, and as far from each other.
Fewer(s, t) ==
    \E a \in Nat : \A i \in 1..Len(t) : Dialog(t[i]) => \E l \in 1..Len(s) : l = i + a /\ t[i] = s[l]

LEMMA FewerSuffix ==
    ASSUME NEW s, NEW t, Len(s) \in Nat, Len(t) \in Nat, Suffix(s, t)
    PROVE  Fewer(s, t)
<1>1. PICK a \in Nat : Len(s) = Len(t) + a /\ \A i \in 1..Len(t) : t[i] = s[i + a]
    BY DEF Suffix
<1>2. ASSUME NEW i \in 1..Len(t) PROVE \E l \in 1..Len(s) : l = i + a /\ t[i] = s[l]
    <2>1. i + a \in 1..Len(s)
        BY <1>1
    <2>2. t[i] = s[i + a]
        BY <1>1
    <2> QED BY <2>1, <2>2
<1> QED BY <1>2 DEF Fewer

LEMMA FewerRelayed ==
    ASSUME NEW s, NEW t, NEW R, Len(s) \in Nat, Len(t) \in Nat, Relayed(s, t, R), \A m \in R : ~ Dialog(m)
    PROVE  Fewer(s, t)
<1>1. ASSUME NEW i \in 1..Len(t), Dialog(t[i]) PROVE \E l \in 1..Len(s) : l = i + 0 /\ t[i] = s[l]
    <2>1. CASE i \in 1..Len(s)
        <3>1. i = i + 0 /\ t[i] = s[i]
            BY <2>1 DEF Relayed
        <3> QED BY <2>1, <3>1
    <2>2. CASE i \notin 1..Len(s)
        <3>1. i \in (Len(s) + 1)..Len(t)
            BY <2>2
        <3> QED BY <1>1, <3>1 DEF Relayed
    <2> QED BY <2>1, <2>2
<1> QED BY <1>1 DEF Fewer

LEMMA FewerAppend ==
    ASSUME NEW X, NEW s \in Seq(X), NEW m \in X, ~ Dialog(m)
    PROVE  Fewer(s, Append(s, m))
<1> DEFINE t == Append(s, m)
<1>1. Len(s) \in Nat /\ Len(t) = Len(s) + 1 /\ t[Len(s) + 1] = m /\ \A i \in 1..Len(s) : t[i] = s[i]
    BY AppendFacts
<1> HIDE DEF t
<1>2. ASSUME NEW i \in 1..Len(t), Dialog(t[i]) PROVE \E l \in 1..Len(s) : l = i + 0 /\ t[i] = s[l]
    <2>1. i # Len(s) + 1
        BY <1>1, <1>2
    <2>2. i \in 1..Len(s) /\ i = i + 0
        BY <1>1, <2>1
    <2> QED BY <1>1, <2>2
<1>3. Fewer(s, t)
    BY <1>2 DEF Fewer
<1> QED BY <1>3 DEF t

LEMMA FewerSilent ==
    ASSUME NEW s, NEW t, Fewer(s, t), Silent(s)
    PROVE  Silent(t)
  BY DEF Fewer, Silent

LEMMA FewerOnce ==
    ASSUME NEW s, NEW t, Fewer(s, t), \A i, j \in 1..Len(s) : Dialog(s[i]) /\ Dialog(s[j]) => i = j
    PROVE  \A i, j \in 1..Len(t) : Dialog(t[i]) /\ Dialog(t[j]) => i = j
<1>1. PICK a \in Nat : \A i \in 1..Len(t) : Dialog(t[i]) => \E l \in 1..Len(s) : l = i + a /\ t[i] = s[l]
    BY DEF Fewer
<1>2. ASSUME NEW i \in 1..Len(t), NEW j \in 1..Len(t), Dialog(t[i]), Dialog(t[j]) PROVE i = j
    <2>1. PICK k \in 1..Len(s) : k = i + a /\ t[i] = s[k]
        BY <1>1, <1>2
    <2>2. PICK l \in 1..Len(s) : l = j + a /\ t[j] = s[l]
        BY <1>1, <1>2
    <2>3. k = l
        BY <1>2, <2>1, <2>2
    <2>4. i \in Int /\ j \in Int
        OBVIOUS
    <2> QED BY ONLY <2>1, <2>2, <2>3, <2>4, a \in Nat
<1> QED BY <1>2

LEMMA FewerSingle ==
    ASSUME NEW q, NEW t, NEW r, NEW u, Single(q, t), Fewer(q, r), Fewer(t, u)
    PROVE  Single(r, u)
<1>1. /\ \A i, j \in 1..Len(r) : Dialog(r[i]) /\ Dialog(r[j]) => i = j
      /\ \A i, j \in 1..Len(u) : Dialog(u[i]) /\ Dialog(u[j]) => i = j
    BY FewerOnce DEF Single
<1>2. Silent(r) \/ Silent(u)
    BY FewerSilent DEF Single
<1> QED BY <1>1, <1>2 DEF Single

\* A question when nothing is under way.
LEMMA QuestionSent ==
    ASSUME NEW X, NEW q \in Seq(X), NEW m \in X, Silent(q), NEW t, Silent(t), NEW r, r = Append(q, m)
    PROVE  /\ Single(r, t) /\ \A i \in 1..Len(r) : Dialog(r[i]) => r[i] = m
<1>1. Len(q) \in Nat /\ Len(r) = Len(q) + 1 /\ r[Len(q) + 1] = m /\ \A i \in 1..Len(q) : r[i] = q[i]
    BY AppendFacts
<1>2. ASSUME NEW i \in 1..Len(r), Dialog(r[i]) PROVE i = Len(q) + 1
    <2>1. i \notin 1..Len(q)
        BY <1>1, <1>2 DEF Silent
    <2> QED BY <1>1, <2>1
<1>3. \A i, j \in 1..Len(t) : ~ Dialog(t[i])
    BY DEF Silent
<1> QED BY <1>1, <1>2, <1>3 DEF Single

\* The question under way is taken, and answered with a.
LEMMA QuestionAnswered ==
    ASSUME NEW X, NEW q \in Seq(X), q # <<>>, Dialog(q[1]), NEW t, NEW u, Len(t) \in Nat, Len(u) \in Nat,
           Single(q, t), NEW R, NEW a, Answered(t, u, R, a), \A m \in R : ~ Dialog(m)
    PROVE  /\ Silent(Tail(q)) /\ Silent(t) /\ Single(Tail(q), u)
           /\ \A i \in 1..Len(u) : Dialog(u[i]) => u[i] = a
<1> DEFINE r == Tail(q)
<1>1. Len(q) \in Nat /\ 1 \in 1..Len(q) /\ Len(r) = Len(q) - 1 /\ \A i \in 1..Len(r) : r[i] = q[i + 1]
    <2>1. Len(q) \in Nat /\ Len(q) # 0
        BY LenProperties, EmptySeq
    <2> QED BY <2>1, HeadTailProperties
<1> HIDE DEF r
<1>2. ASSUME NEW i \in 1..Len(r) PROVE ~ Dialog(r[i])
    <2>1. PICK l \in 1..Len(q) : l = i + 1
        BY <1>1
    <2>2. r[i] = q[l] /\ l # 1
        BY <1>1, <2>1
    <2>3. ~ Dialog(q[l])
        BY <1>1, <2>2 DEF Single
    <2> QED BY <2>2, <2>3
<1>3. Silent(r) /\ Silent(t)
    BY <1>1, <1>2 DEF Silent, Single
<1>4. PICK k \in (Len(t) + 1)..Len(u) :
           u[k] = a /\ \A i \in (Len(t) + 1)..Len(u) : i # k => u[i] \in R
    BY DEF Answered
<1>5. ASSUME NEW i \in 1..Len(u), Dialog(u[i]) PROVE i = k
    <2>1. CASE i \in 1..Len(t)
        <3>1. u[i] = t[i]
            BY <2>1 DEF Answered
        <3> QED BY <1>3, <1>5, <2>1, <3>1 DEF Silent
    <2>2. CASE i \notin 1..Len(t)
        <3>1. i \in (Len(t) + 1)..Len(u)
            BY <2>2
        <3> QED BY <1>4, <1>5, <3>1
    <2> QED BY <2>1, <2>2
<1>6. \A i, j \in 1..Len(u) : Dialog(u[i]) /\ Dialog(u[j]) => i = j
    BY <1>5
<1>7. Single(r, u)
    BY <1>3, <1>6 DEF Single, Silent
<1>8. \A i \in 1..Len(u) : Dialog(u[i]) => u[i] = a
    BY <1>4, <1>5
<1> QED BY <1>3, <1>7, <1>8 DEF r

\* The answer under way is taken.
LEMMA AnswerTaken ==
    ASSUME NEW X, NEW t \in Seq(X), t # <<>>, Dialog(t[1]), NEW q, Single(q, t)
    PROVE  Silent(q) /\ Silent(Tail(t))
<1> DEFINE u == Tail(t)
<1>1. Len(t) \in Nat /\ 1 \in 1..Len(t) /\ Len(u) = Len(t) - 1 /\ \A i \in 1..Len(u) : u[i] = t[i + 1]
    <2>1. Len(t) \in Nat /\ Len(t) # 0
        BY LenProperties, EmptySeq
    <2> QED BY <2>1, HeadTailProperties
<1> HIDE DEF u
<1>2. ASSUME NEW i \in 1..Len(u) PROVE ~ Dialog(u[i])
    <2>1. PICK l \in 1..Len(t) : l = i + 1
        BY <1>1
    <2>2. u[i] = t[l] /\ l # 1
        BY <1>1, <2>1
    <2>3. ~ Dialog(t[l])
        BY <1>1, <2>2 DEF Single
    <2> QED BY <2>2, <2>3
<1>3. Silent(u)
    BY <1>2 DEF Silent
<1>4. Silent(q)
    BY <1>1 DEF Single, Silent
<1> QED BY <1>3, <1>4 DEF u

\* Nothing new is asked, and no entry of the participant comes to the primenode.
LEMMA AskedKept ==
    ASSUME NEW q, NEW t, NEW k, NEW es, Asked(q, t, k, es), NEW r, NEW u, Fewer(q, r), Fewer(t, u),
           NEW j, j.entries = k.entries, j.found = k.found, k.submitted = TRUE => j.submitted = TRUE,
           j.state \in Ended => Refused(k, t), NEW fs, k.entries \cap fs \subseteq es
    PROVE  Asked(r, u, j, fs)
<1>1. Single(r, u)
    BY FewerSingle DEF Asked
<1>2. j.found = TRUE /\ j.entries = {} => Idle(r, u)
    BY FewerSilent DEF Asked, Idle
<1>3. ASSUME j.entries # {}
      PROVE  /\ j.submitted = TRUE
             /\ \A i \in 1..Len(r) : Dialog(r[i]) => r[i].type = "dsi" /\ r[i].entry \in j.entries
    <2>1. /\ k.submitted = TRUE
          /\ \A i \in 1..Len(q) : Dialog(q[i]) => q[i].type = "dsi" /\ q[i].entry \in k.entries
        BY <1>3 DEF Asked
    <2>2. j.submitted = TRUE
        BY <2>1
    <2>3. \A i \in 1..Len(r) : Dialog(r[i]) => \E l \in 1..Len(q) : r[i] = q[l]
        BY DEF Fewer
    <2> QED BY <2>1, <2>2, <2>3
<1>4. ASSUME Refused(j, u) PROVE j.entries \cap fs = {} /\ (j.entries = {} \/ Silent(r))
    <2>1. \A i \in 1..Len(u) : Dialog(u[i]) => \E l \in 1..Len(t) : u[i] = t[l]
        BY DEF Fewer
    <2>2. Refused(k, t)
        BY <1>4, <2>1 DEF Refused
    <2>3. k.entries \cap es = {} /\ (k.entries = {} \/ Silent(q))
        BY <2>2 DEF Asked
    <2> QED BY <2>3, FewerSilent
<1> QED BY <1>1, <1>2, <1>3, <1>4 DEF Asked

LEMMA AskedLeft ==
    ASSUME NEW r, NEW u, Single(r, u), NEW j, j.entries = {}, j.found = FALSE, NEW es
    PROVE  Asked(r, u, j, es)
  BY DEF Asked

\* A participant takes message m.
LEMMA AskedTakes ==
    ASSUME NEW n \in Nat, NEW c \in Client, NEW q \in Seq(ToMn), NEW t \in Seq(FromMn(n)), t # <<>>,
           NEW k, k.sent = <<>>, NEW j, NEW m, m = t[1], MessageTaken(c, k, m, j), Heeds(k, j),
           NEW p, MsgOk(m, p), NEW es, Asked(q, t, k.pool, es),
           NEW r, j.sent = <<>> => r = q, \A x \in ToMn : j.sent = <<x>> => r = Append(q, x),
           j.pool.submitted \in {k.pool.submitted, TRUE},
           \A e \in Entry : Owner[e.coin] = c /\ e.out = made[c] + 1 => e \notin es
    PROVE  Asked(r, Tail(t), j.pool, es)
<1> DEFINE u == Tail(t)
<1>1. Len(q) \in Nat /\ Len(t) \in Nat /\ Len(u) \in Nat /\ 1 \in 1..Len(t) /\ Suffix(t, u)
    <2>1. Len(t) \in Nat \ {0} /\ Suffix(t, u) /\ u \in Seq(FromMn(n))
        BY SuffixFacts, HeadTailProperties
    <2> QED BY <2>1, LenProperties
<1>2. u = Tail(t)
    OBVIOUS
<1> HIDE DEF u
<1>3. Fewer(t, u) /\ Fewer(q, q)
    <2>1. Suffix(q, q)
        BY SuffixFacts
    <2> QED BY <1>1, <2>1, FewerSuffix
<1>4. Single(q, t) /\ Single(q, u)
    BY <1>3, FewerSingle DEF Asked
<1>5. CASE j = k
    <2>1. j.pool = k.pool /\ r = q /\ (k.pool.state \in Ended => Refused(k.pool, t))
        BY <1>5 DEF Refused
    <2>2. Asked(q, u, k.pool, es)
        BY <1>3, <2>1, AskedKept
    <2> QED BY <1>2, <2>1, <2>2
<1>6. CASE Left(j)
    <2>1. Asked(r, u, j.pool, es)
        BY <1>4, <1>6, AskedLeft DEF Left
    <2> QED BY <1>2, <2>1
<1>7. CASE Dialog(m) /\ Requests(j)
    <2> DEFINE x == [type |-> "dsa"]
    <2>1. x \in ToMn /\ j.sent = <<x>>
        BY <1>7 DEF ToMn, Requests
    <2> HIDE DEF x
    <2>2. r = Append(q, x)
        BY <2>1
    <2>3. Silent(q) /\ Silent(u)
        BY <1>2, <1>4, <1>7, AnswerTaken
    <2>4. Single(r, u)
        BY <2>1, <2>2, <2>3, QuestionSent
    <2>5. Asked(r, u, j.pool, es)
        BY <1>7, <2>4, AskedLeft DEF Requests
    <2> QED BY <1>2, <2>5
<1>8. CASE Kept(k, j) /\ (j.pool.state \in Ended => Refused(k.pool, t))
    <2>1. r = q /\ j.pool.entries = k.pool.entries /\ j.pool.found = k.pool.found
        BY <1>8 DEF Kept
    <2>2. k.pool.submitted = TRUE => j.pool.submitted = TRUE
        OBVIOUS
    <2>3. Asked(q, u, j.pool, es)
        BY <1>3, <1>8, <2>1, <2>2, AskedKept
    <2> QED BY <1>2, <2>1, <2>3
<1>9. CASE m.type = "dssu" /\ StatusTaken(k, m, j)
    <2>1. CASE m.accepted = -1 /\ Kept(k, j) /\ Enters(k, j, m.state)
        <3>1. j.pool.state \notin Ended
            BY <1>9, <2>1 DEF Enters, MsgOk, StatusOk
        <3> QED BY <1>8, <2>1, <3>1
    <2>2. CASE m.accepted = 0
        <3>1. Dialog(m)
            BY <1>9, <2>2 DEF Dialog
        <3>2. Refused(k.pool, t)
            BY <1>1, <2>2, <3>1 DEF Refused
        <3> QED BY <1>5, <1>6, <1>7, <1>8, <1>9, <2>2, <3>1, <3>2 DEF StatusTaken
    <2>3. CASE /\ m.accepted = 1 /\ j.pool.entries = k.pool.entries /\ j.sent = <<>>
               /\ m.id # 0 => /\ j.pool.sessionID = m.id /\ j.pool.found = TRUE
                              /\ j.pool.state \in {m.state, "QUEUE"}
        <3>1. j.pool.state \notin Ended
            BY <1>9, <2>3 DEF MsgOk, StatusOk, Collecting, Ended
        <3>2. Silent(q) /\ Silent(u)
            <4>1. Dialog(m)
                BY <1>9, <2>3 DEF Dialog
            <4> QED BY <1>2, <1>4, <4>1, AnswerTaken
        <3>3. r = q /\ ~ Refused(j.pool, u)
            BY <2>3, <3>1, <3>2 DEF Refused, Silent
        <3>4. j.pool.entries # {} => j.pool.submitted = TRUE
            BY <2>3 DEF Asked
        <3>5. Asked(q, u, j.pool, es)
            BY <1>4, <3>2, <3>3, <3>4 DEF Asked, Idle, Silent
        <3> QED BY <1>2, <3>3, <3>5
    <2> QED BY <1>5, <1>9, <2>1, <2>2, <2>3 DEF StatusTaken
<1>10. CASE \E e \in Entry : /\ Owner[e.coin] = c /\ e.out = made[c] + 1 /\ j.pool.entries = {e}
                             /\ j.sent = <<[type |-> "dsi", entry |-> e]>>
                             /\ k.pool.entries = {} /\ k.pool.found = TRUE /\ j.pool.state = "ACCEPTING_ENTRIES"
    <2>1. PICK e \in Entry : /\ Owner[e.coin] = c /\ e.out = made[c] + 1 /\ j.pool.entries = {e}
                             /\ j.sent = <<[type |-> "dsi", entry |-> e]>>
                             /\ k.pool.entries = {} /\ k.pool.found = TRUE /\ j.pool.state = "ACCEPTING_ENTRIES"
        BY <1>10
    <2> DEFINE x == [type |-> "dsi", entry |-> e]
    <2>2. x \in ToMn /\ j.sent = <<x>> /\ x.type = "dsi" /\ x.entry = e
        BY <2>1 DEF ToMn
    <2> HIDE DEF x
    <2>3. Silent(q) /\ Silent(t) /\ Silent(u)
        BY <1>3, <2>1, FewerSilent DEF Asked, Idle
    <2>4. r = Append(q, x)
        BY <2>2
    <2>5. Single(r, u) /\ \A i \in 1..Len(r) : Dialog(r[i]) => r[i] = x
        <3>1. Single(r, u)
            BY <2>2, <2>3, <2>4, QuestionSent
        <3>2. \A i \in 1..Len(r) : Dialog(r[i]) => r[i] = x
            BY ONLY <2>2, <2>3, <2>4, q \in Seq(ToMn), QuestionSent
        <3> QED BY <3>1, <3>2
    <2>6. j.pool.submitted = TRUE
        BY <2>1 DEF Heeds
    <2>7. j.pool.entries \cap es = {} /\ j.pool.entries # {} /\ ~ Refused(j.pool, u)
        BY <2>1, <2>3 DEF Refused, Silent, Ended
    <2>8. Asked(r, u, j.pool, es)
        BY <2>1, <2>2, <2>5, <2>6, <2>7 DEF Asked
    <2> QED BY <1>2, <2>8
<1>11. CASE m.type = "dsq" /\ DsqTaken(c, k, j)
    BY <1>5, <1>6, <1>10, <1>11 DEF DsqTaken
<1>12. CASE m.type = "dsf" /\ DsfTaken(k, m, j)
    <2>1. CASE /\ j.pool = k.pool
               /\ \E e \in k.pool.entries :
                    e \in m.tx /\ j.sent = <<[type |-> "dss", sig |-> [coin |-> e.coin, tx |-> m.tx]]>>
        <3>1. PICK e \in k.pool.entries :
                 e \in m.tx /\ j.sent = <<[type |-> "dss", sig |-> [coin |-> e.coin, tx |-> m.tx]]>>
            BY <2>1
        <3> DEFINE g == [coin |-> e.coin, tx |-> m.tx]
                   x == [type |-> "dss", sig |-> g]
        <3>2. m \in FromMn(n)
            BY <1>1, ElementOfSeq
        <3>3. m.tx \subseteq Entry
            BY <1>12, <3>2 DEF FromMn
        <3>4. e.coin \in Coin
            BY <3>1, <3>3, EntryFacts
        <3>5. g \in Signature
            BY <3>3, <3>4 DEF Signature
        <3>6. j.sent = <<x>>
            BY <3>1
        <3> HIDE DEF g
        <3>7. x \in ToMn /\ ~ Dialog(x)
            BY <3>5 DEF ToMn, Dialog
        <3> HIDE DEF x
        <3>8. r = Append(q, x)
            BY <3>6, <3>7
        <3>9. Fewer(q, r)
            BY <3>7, <3>8, FewerAppend
        <3>10. j.pool = k.pool /\ (k.pool.state \in Ended => Refused(k.pool, t))
            BY <2>1 DEF Refused
        <3>11. Asked(r, u, k.pool, es)
            BY <1>3, <3>9, <3>10, AskedKept
        <3> QED BY <1>2, <3>10, <3>11
    <2> QED BY <1>5, <1>6, <1>12, <2>1 DEF DsfTaken
<1> QED BY <1>5, <1>6, <1>9, <1>11, <1>12 DEF MessageTaken

\* The primenode answers a question.
LEMMA AskedAnswered ==
    ASSUME NEW q \in Seq(ToMn), q # <<>>, Dialog(q[1]), NEW t, NEW u, Len(t) \in Nat, Len(u) \in Nat,
           NEW k, \A e \in k.entries : k.entries = {e}, NEW es, Asked(q, t, k, es),
           NEW R, NEW a, Answered(t, u, R, a), \A m \in R : ~ Dialog(m),
           NEW fs, a.accepted = 0 => fs \subseteq es /\ (q[1].type = "dsi" => q[1].entry \notin es)
    PROVE  Asked(Tail(q), u, k, fs)
<1>1. Silent(Tail(q)) /\ Silent(t) /\ Single(Tail(q), u)
    BY QuestionAnswered DEF Asked
<1>2. \A i \in 1..Len(u) : Dialog(u[i]) => u[i] = a
    BY QuestionAnswered DEF Asked
<1>3. Len(q) \in Nat /\ 1 \in 1..Len(q) /\ ~ Silent(q)
    <2>1. Len(q) \in Nat \ {0}
        BY SuffixFacts
    <2> QED BY <2>1 DEF Silent
<1>4. ~ (k.found = TRUE /\ k.entries = {})
    BY <1>3 DEF Asked, Idle
<1>5. k.entries # {} => k.submitted = TRUE
    BY DEF Asked
<1>6. \A i \in 1..Len(Tail(q)) : ~ Dialog(Tail(q)[i])
    BY <1>1 DEF Silent
<1>7. ASSUME Refused(k, u) PROVE k.entries \cap fs = {}
    <2>1. CASE k.state \in Ended
        <3>1. k.entries = {}
            BY <1>3, <2>1 DEF Asked, Refused
        <3> QED BY <3>1
    <2>2. CASE k.state \notin Ended
        <3>1. a.accepted = 0
            BY <1>2, <1>7, <2>2 DEF Refused
        <3>2. k.entries # {} => q[1].type = "dsi" /\ q[1].entry \in k.entries
            BY <1>3 DEF Asked
        <3> QED BY <3>1, <3>2
    <2> QED BY <2>1, <2>2
<1> QED BY <1>1, <1>4, <1>5, <1>6, <1>7 DEF Asked

\* How the primenode's session changes, when there were n so far.
SessionMoves(p, r, n) ==
    \/ /\ r.sessionID = p.sessionID
       /\ p.state \in Sealed => r.state \in Sealed /\ r.entries = p.entries
    \/ r.sessionID = 0 /\ r.entries = {}
    \/ p.sessionID = 0 /\ r.sessionID = n + 1 /\ r.entries = {}

\* Who signs was signing, or begins.
SigningMoves(p, r) ==
    r.state = "SIGNING" =>
        /\ r.sessionID = p.sessionID
        /\ \/ p.state = "SIGNING" /\ r.age = p.age /\ r.entries = p.entries
           \/ p.state \notin Sealed /\ r.age = 0

LEMMA MsgKept ==
    ASSUME NEW n \in Nat, NEW p, NEW r, SessionMoves(p, r, n), NEW m \in FromMn(n), MsgOk(m, p),
           m.type = "dsf" /\ m.tx \cap r.entries # {} => m.tx \cap p.entries # {} /\ p.state \in Sealed
    PROVE  MsgOk(m, r)
<1>1. CASE m.type = "dssu"
    <2>1. m.id \in 0..n /\ StatusOk(m, p)
        BY <1>1 DEF FromMn, MsgOk
    <2>2. StatusOk(m, r)
        BY <2>1 DEF StatusOk, SessionMoves
    <2> QED BY <1>1, <2>2 DEF MsgOk
<1>2. CASE m.type = "dsf"
    <2>1. m.id \in 0..n /\ m.id # 0 /\ (m.id = p.sessionID => p.state \in Sealed /\ m.tx = p.entries)
          /\ (m.tx \cap p.entries # {} => m.id = p.sessionID)
        BY <1>2 DEF FromMn, MsgOk
    <2>2. (m.id = r.sessionID => r.state \in Sealed /\ m.tx = r.entries)
          /\ (m.tx \cap r.entries # {} => m.id = r.sessionID)
        BY <1>2, <2>1 DEF SessionMoves
    <2> QED BY <1>2, <2>1, <2>2 DEF MsgOk
<1>3. CASE m.type = "dsc"
    <2>1. m.id \in 0..n /\ (m.id # 0 => m.id # p.sessionID)
        BY <1>3 DEF FromMn, MsgOk
    <2>2. m.id # 0 => m.id # r.sessionID
        BY <2>1 DEF SessionMoves
    <2> QED BY <1>3, <2>2 DEF MsgOk
<1>4. CASE m.type \notin {"dssu", "dsf", "dsc"}
    BY <1>4 DEF MsgOk
<1> QED BY <1>1, <1>2, <1>3, <1>4

LEMMA LateKept ==
    ASSUME NEW n \in Nat, NEW p, NEW r, SessionMoves(p, r, n), SigningMoves(p, r),
           NEW k, k.sessionID \in 0..n, LateOk(k, p)
    PROVE  LateOk(k, r)
<1> SUFFICES ASSUME k.state \in Late, k.sessionID = r.sessionID, r.sessionID # 0
             PROVE  r.state \in Sealed /\ (r.state = "SIGNING" => k.age <= r.age)
    BY DEF LateOk
<1>1. r.sessionID = p.sessionID /\ (p.state \in Sealed => r.state \in Sealed)
    BY DEF SessionMoves
<1>2. p.state \in Sealed /\ (p.state = "SIGNING" => k.age <= p.age)
    BY <1>1 DEF LateOk
<1>3. r.state = "SIGNING" => p.state = "SIGNING" /\ r.age = p.age
    BY <1>2 DEF SigningMoves
<1> QED BY <1>1, <1>2, <1>3

LEMMA ReadyKept ==
    ASSUME NEW t, NEW u, NEW k, NEW p, NEW r, r.sessionID = p.sessionID, r.entries = p.entries, Ready(t, k, p),
           \A i \in 1..Len(u) : KeepsLate(u[i], p.sessionID) \/ \E l \in 1..Len(t) : u[i] = t[l]
    PROVE  Ready(u, k, r)
  BY DEF Ready

\* What is heard, and goes behind t.
LEMMA RelayedFrom ==
    ASSUME NEW t, NEW u, Len(t) \in Nat, Len(u) \in Nat, NEW R, Relayed(t, u, R), NEW i \in 1..Len(u)
    PROVE  (i \in 1..Len(t) /\ u[i] = t[i]) \/ (i \in (Len(t) + 1)..Len(u) /\ u[i] \in R)
<1>1. CASE i \in 1..Len(t)
    BY <1>1 DEF Relayed
<1>2. CASE i \notin 1..Len(t)
    <2>1. i \in (Len(t) + 1)..Len(u)
        BY <1>2
    <2> QED BY <2>1 DEF Relayed
<1> QED BY <1>1, <1>2

LEMMA AwaitsKept ==
    ASSUME NEW t, NEW u, Len(t) \in Nat, Len(u) \in Nat, NEW R, Relayed(t, u, R),
           NEW p, NEW r, r.sessionID = p.sessionID, Awaits(t, p), \A m \in R : KeepsLate(m, p.sessionID)
    PROVE  Awaits(u, r)
<1>1. PICK l \in 1..Len(t) :
        /\ t[l].type = "dssu" /\ t[l].accepted = -1 /\ t[l].id = p.sessionID /\ t[l].state \in Late
        /\ \A i \in l..Len(t) : KeepsLate(t[i], p.sessionID)
        /\ \A i \in 1..l : ~ (t[i].type = "dsf" /\ t[i].id = p.sessionID)
    BY DEF Awaits
<1>2. l \in 1..Len(u) /\ \A i \in 1..Len(t) : u[i] = t[i]
    BY DEF Relayed
<1>3. \A i \in 1..l : i \in 1..Len(t)
    OBVIOUS
<1>4. ASSUME NEW i \in l..Len(u) PROVE KeepsLate(u[i], p.sessionID)
    <2>1. i \in 1..Len(u)
        OBVIOUS
    <2>2. CASE i \in 1..Len(t)
        <3>1. i \in l..Len(t)
            BY <2>2
        <3> QED BY <1>1, <1>2, <2>2, <3>1
    <2>3. CASE i \notin 1..Len(t)
        <3>1. u[i] \in R
            BY <2>1, <2>3, RelayedFrom
        <3> QED BY <3>1
    <2> QED BY <2>2, <2>3
<1>5. /\ u[l].type = "dssu" /\ u[l].accepted = -1 /\ u[l].id = r.sessionID /\ u[l].state \in Late
      /\ \A i \in l..Len(u) : KeepsLate(u[i], r.sessionID)
      /\ \A i \in 1..l : ~ (u[i].type = "dsf" /\ u[i].id = r.sessionID)
    BY <1>1, <1>2, <1>3, <1>4
<1> QED BY <1>2, <1>5 DEF Awaits

\* A participant d keeps what it knows when the primenode goes from p to r.
LEMMA KnowsKept ==
    ASSUME NEW n \in Nat, NEW d, NEW q, NEW t \in Seq(FromMn(n)), NEW k, NEW p, Knows(d, q, t, k, p),
           NEW r, SessionMoves(p, r, n), SigningMoves(p, r), k.sessionID \in 0..n,
           NEW w, NEW u, Len(u) \in Nat, Asked(w, u, k, r.entries),
           NEW R, Relayed(t, u, R), \A m \in R : MsgOk(m, r),
           \A i \in 1..Len(t) : t[i].type = "dsf" /\ t[i].tx \cap r.entries # {} =>
                t[i].tx \cap p.entries # {} /\ p.state \in Sealed,
           p.state = "SIGNING" /\ r.state = "SIGNING" =>
             /\ \A m \in R : KeepsLate(m, r.sessionID) /\ m.type # "dsf"
             /\ \A g \in Signature : Signs(d, w, r, g) => Signs(d, q, p, g)
             /\ Idle(q, t) => Idle(w, u),
           p.state \notin Sealed /\ r.state = "SIGNING" => Awaits(u, r) /\ \A g \in Signature : ~ Signs(d, w, r, g)
    PROVE  Knows(d, w, u, k, r)
<1>1. Len(t) \in Nat /\ \A i \in 1..Len(t) : t[i] \in FromMn(n)
    BY LenProperties, ElementOfSeq
<1>2. ASSUME NEW i \in 1..Len(u) PROVE MsgOk(u[i], r)
    <2>1. CASE i \in 1..Len(t) /\ u[i] = t[i]
        <3>1. MsgOk(t[i], p) /\ t[i] \in FromMn(n)
            BY <1>1, <2>1 DEF Knows
        <3>2. MsgOk(t[i], r)
            BY <2>1, <3>1, MsgKept
        <3> QED BY <2>1, <3>2
    <2> QED BY <1>1, <2>1, RelayedFrom
<1>3. LateOk(k, r)
    BY LateKept DEF Knows
<1>4. ASSUME p.state = "SIGNING", r.state = "SIGNING" PROVE ReadyOk(u, k, r) /\ SignedOk(d, w, u, k, r)
    <2>1. /\ \A m \in R : KeepsLate(m, r.sessionID) /\ m.type # "dsf"
          /\ \A g \in Signature : Signs(d, w, r, g) => Signs(d, q, p, g)
          /\ Idle(q, t) => Idle(w, u)
        BY <1>4
    <2>2. r.sessionID = p.sessionID /\ r.entries = p.entries
        BY <1>4 DEF SigningMoves, Sealed
    <2>3. ReadyOk(t, k, p) /\ SignedOk(d, q, t, k, p)
        BY <1>4 DEF Knows
    <2>4. Ready(t, k, p) => Ready(u, k, r)
        <3>1. \A i \in 1..Len(u) : KeepsLate(u[i], p.sessionID) \/ \E l \in 1..Len(t) : u[i] = t[l]
            BY <1>1, <2>1, <2>2, RelayedFrom
        <3> QED BY <2>2, <3>1, ReadyKept
    <2>5. Awaits(t, p) => Awaits(u, r)
        BY <1>1, <2>1, <2>2, AwaitsKept
    <2>6. (\E i \in 1..Len(u) : u[i].type = "dsf" /\ u[i].id = r.sessionID) =>
             \E i \in 1..Len(t) : t[i].type = "dsf" /\ t[i].id = p.sessionID
        BY <1>1, <2>1, <2>2, RelayedFrom
    <2>7. ReadyOk(u, k, r)
        BY <2>3, <2>4, <2>5, <2>6 DEF ReadyOk
    <2>8. \A g \in Signature : Signs(d, w, r, g) => Holds(w, u, k, r, g)
        BY <2>1, <2>2, <2>3, <2>4 DEF SignedOk, Holds
    <2> QED BY <2>7, <2>8 DEF SignedOk
<1>5. ASSUME p.state \notin Sealed, r.state = "SIGNING" PROVE ReadyOk(u, k, r) /\ SignedOk(d, w, u, k, r)
    BY <1>5 DEF ReadyOk, SignedOk
<1>6. r.state = "SIGNING" => p.state = "SIGNING" \/ p.state \notin Sealed
    BY DEF SigningMoves
<1> QED BY <1>2, <1>3, <1>4, <1>5, <1>6 DEF Knows

\* Message m is true once the primenode has gone from p to r, and signing goes on.
Honest(m, p, r) ==
    /\ MsgOk(m, r)
    /\ p.state = "SIGNING" /\ r.state = "SIGNING" => KeepsLate(m, r.sessionID) /\ m.type # "dsf"

LEMMA HonestAnswer ==
    ASSUME NEW p, NEW r, NEW id, NEW s, s \notin Ended, NEW a \in {-1, 0, 1},
           a = 1 => s \in Collecting /\ id # 0,
           s \in Late => id # 0 /\ (id = r.sessionID => r.state \in Sealed),
           p.state = "SIGNING" /\ r.state = "SIGNING" => a # 1 /\ (a = -1 => s \in Late)
    PROVE  /\ Honest(Answer(id, s, a), p, r) /\ Answer(id, s, a).accepted = a
           /\ Dialog(Answer(id, s, a)) <=> a # -1
  BY DEF Answer, Honest, MsgOk, StatusOk, KeepsLate, Dialog

\* The answer of a primenode that takes a request or an entry.
LEMMA HonestYes ==
    ASSUME NEW p, NEW r, NEW id, id # 0, NEW s, s \notin Ended, s \in Collecting, s \notin Late, p.state # "SIGNING"
    PROVE  Honest(Answer(id, s, 1), p, r) /\ Answer(id, s, 1).accepted = 1
  BY HonestAnswer

LEMMA HonestStatus ==
    ASSUME NEW p, NEW r, NEW id, NEW s, s \notin Ended,
           s \in Late => id # 0 /\ (id = r.sessionID => r.state \in Sealed),
           p.state = "SIGNING" /\ r.state = "SIGNING" => s \in Late
    PROVE  Honest(Status(id, s), p, r) /\ ~ Dialog(Status(id, s))
  BY DEF Status, Honest, MsgOk, StatusOk, KeepsLate, Dialog

\* The primenode goes from p to r, and says to everyone what is in R.
Moves(p, r, n) == SessionMoves(p, r, n) /\ SigningMoves(p, r)
Says(R, p, r) == \A m \in R : ~ Dialog(m) /\ Honest(m, p, r)

LEMMA SameMoves ==
    ASSUME NEW p, NEW r, Same(p, r), MnInv(p), NEW n
    PROVE  Moves(p, r, n) /\ Says({Status(p.sessionID, p.state)}, p, r)
<1>1. /\ r.state = p.state /\ r.sessionID = p.sessionID /\ r.entries = p.entries
      /\ r.age = p.age \/ p.state \in Collecting
    BY DEF Same
<1>2. /\ p.state \notin Ended /\ (p.state \in Late => p.state \in Sealed /\ p.sessionID # 0)
      /\ p.state = "SIGNING" => p.state \in Late
    BY DEF MnInv, Late, Sealed, Collecting, Ended
<1>3. Moves(p, r, n)
    BY <1>1 DEF Moves, SessionMoves, SigningMoves, Collecting
<1>4. Honest(Status(p.sessionID, p.state), p, r) /\ ~ Dialog(Status(p.sessionID, p.state))
    BY <1>1, <1>2, HonestStatus
<1> QED BY <1>3, <1>4 DEF Says

\* What the primenode does with a question of c.
Answers(w, x, c, R, a, n) ==
    LET p == w.pool   r == x.pool
    IN  /\ Told(w, x, c, R, a) /\ Moves(p, r, n) /\ Says(R, p, r) /\ Honest(a, p, r)
        /\ a.accepted = 0 => r.entries \subseteq p.entries
        /\ p.state = "SIGNING" /\ r.state = "SIGNING" => r.sev = p.sev

LEMMA SameAnswers ==
    ASSUME NEW w, NEW x, Same(w.pool, x.pool), MnInv(w.pool), x.pool.sev = w.pool.sev, NEW n, NEW c,
           NEW a \in {0, 1}, a = 1 => w.pool.state \in Collecting /\ w.pool.sessionID # 0,
           Told(w, x, c, {}, Answer(w.pool.sessionID, w.pool.state, a))
    PROVE  Answers(w, x, c, {}, Answer(w.pool.sessionID, w.pool.state, a), n)
<1> DEFINE p == w.pool
           r == x.pool
<1>1. r.state = p.state /\ r.sessionID = p.sessionID /\ r.entries = p.entries
    BY DEF Same
<1>2. /\ p.state \notin Ended /\ (p.state \in Late => p.state \in Sealed /\ p.sessionID # 0)
      /\ p.state = "SIGNING" => p.state \notin Collecting
    BY DEF MnInv, Late, Sealed, Collecting, Ended
<1>3. Moves(p, r, n) /\ Says({}, p, r)
    BY SameMoves DEF Says
<1>4. a \in {-1, 0, 1} /\ a # -1
    OBVIOUS
<1>5. Honest(Answer(p.sessionID, p.state, a), p, r)
    BY <1>1, <1>2, <1>4, HonestAnswer
<1> QED BY <1>1, <1>3, <1>5 DEF Answers

LEMMA OpensAnswers ==
    ASSUME NEW w, NEW x, NEW c, MnInv(w.pool), DsaOpens(w, x, c, sessions + 1), sessions \in Nat
    PROVE  Answers(w, x, c, {Status(sessions + 1, w.pool.state)}, Answer(sessions + 1, "QUEUE", 1), sessions)
<1> DEFINE p == w.pool
           r == x.pool
           id == sessions + 1
           a == Answer(id, "QUEUE", 1)
<1>1. /\ p.sessionID = 0 /\ r.sessionID = id /\ r.state = "QUEUE" /\ r.entries = {}
      /\ p.state \in {"IDLE", "ACCEPTING_ENTRIES"} /\ Told(w, x, c, {Status(id, p.state)}, a)
    BY DEF DsaOpens
<1>2. id # 0
    OBVIOUS
<1>3. id = sessions + 1
    OBVIOUS
<1> HIDE DEF id
<1>4. Moves(p, r, sessions)
    BY <1>1, <1>3 DEF Moves, SessionMoves, SigningMoves
<1>5. "QUEUE" \notin Ended /\ "QUEUE" \in Collecting /\ "QUEUE" \notin Late /\ 1 \in {-1, 0, 1}
      /\ p.state \notin Ended /\ p.state \notin Late /\ p.state # "SIGNING"
    BY <1>1 DEF Ended, Collecting, Late
<1>6. Honest(a, p, r) /\ a.accepted = 1
    BY ONLY <1>2, <1>5, HonestYes
<1>7. Honest(Status(id, p.state), p, r) /\ ~ Dialog(Status(id, p.state))
    BY <1>5, HonestStatus
<1>8. Says({Status(id, p.state)}, p, r)
    BY <1>7 DEF Says
<1> HIDE DEF a
<1>9. Answers(w, x, c, {Status(id, p.state)}, a, sessions)
    BY <1>1, <1>4, <1>5, <1>6, <1>8 DEF Answers
<1> QED BY <1>9 DEF id, a

LEMMA TakenAnswers ==
    ASSUME NEW w, NEW x, NEW c, MnInv(w.pool), NEW e, DsiTaken(w, x, c, e), NEW n
    PROVE  Answers(w, x, c, {Status(w.pool.sessionID, w.pool.state)}, Answer(w.pool.sessionID, w.pool.state, 1), n)
<1> DEFINE p == w.pool
           r == x.pool
           a == Answer(p.sessionID, p.state, 1)
<1>1. /\ p.sessionID # 0 /\ p.state \in Collecting /\ r.sessionID = p.sessionID /\ r.state = p.state
      /\ Told(w, x, c, {Status(p.sessionID, p.state)}, a)
    BY DEF DsiTaken
<1>2. /\ p.state \notin Ended /\ p.state \notin Late /\ p.state # "SIGNING" /\ p.state \notin Sealed
      /\ 1 \in {-1, 0, 1}
    BY <1>1 DEF Ended, Collecting, Late, Sealed
<1>3. Moves(p, r, n)
    <2>1. r.sessionID = p.sessionID /\ p.state \notin Sealed /\ r.state # "SIGNING"
        BY <1>1, <1>2
    <2>2. SessionMoves(p, r, n) /\ SigningMoves(p, r)
        BY ONLY <2>1 DEF SessionMoves, SigningMoves
    <2> QED BY <2>2 DEF Moves
<1>4. Honest(a, p, r) /\ a.accepted = 1
    BY ONLY <1>1, <1>2, HonestYes
<1>5. Honest(Status(p.sessionID, p.state), p, r) /\ ~ Dialog(Status(p.sessionID, p.state))
    BY <1>2, HonestStatus
<1>6. Says({Status(p.sessionID, p.state)}, p, r)
    BY <1>5 DEF Says
<1> HIDE DEF a
<1>7. Answers(w, x, c, {Status(p.sessionID, p.state)}, a, n)
    BY <1>1, <1>2, <1>3, <1>4, <1>6 DEF Answers
<1> QED BY <1>7 DEF a

LEMMA SealsAnswers ==
    ASSUME NEW w, NEW x, NEW c, MnInv(w.pool), NEW e, DsiSeals(w, x, c, e), NEW n,
           NEW es, es = w.pool.entries \cup {e}
    PROVE  Answers(w, x, c, Sealing(w.pool.sessionID, es), Answer(w.pool.sessionID, "ACCEPTING_ENTRIES", 1), n)
<1> DEFINE p == w.pool
           r == x.pool
           id == p.sessionID
           a == Answer(id, "ACCEPTING_ENTRIES", 1)
           D == [type |-> "dsf", id |-> id, tx |-> es]
<1>1. /\ id # 0 /\ p.state = "ACCEPTING_ENTRIES" /\ r.sessionID = id /\ r.state = "SIGNING" /\ r.entries = es
      /\ r.age = 0 /\ Told(w, x, c, Sealing(id, es), a)
    BY DEF DsiSeals
<1>2. /\ p.state \notin Ended /\ p.state \notin Late /\ p.state # "SIGNING" /\ p.state \notin Sealed
      /\ r.state \in Sealed /\ 1 \in {-1, 0, 1} /\ p.state \in Collecting
      /\ "FINALIZE_TRANSACTION" \notin Ended /\ "SIGNING" \notin Ended
    BY <1>1 DEF Ended, Collecting, Late, Sealed
<1>3. Moves(p, r, n)
    BY <1>1, <1>2 DEF Moves, SessionMoves, SigningMoves
<1>4. Honest(a, p, r) /\ a.accepted = 1
    <2>1. "ACCEPTING_ENTRIES" \notin Ended /\ "ACCEPTING_ENTRIES" \in Collecting /\ "ACCEPTING_ENTRIES" \notin Late
        BY DEF Ended, Collecting, Late
    <2>2. id # 0 /\ p.state # "SIGNING" /\ 1 \in {-1, 0, 1} /\ 1 # -1
        BY <1>1, <1>2
    <2>3. Honest(Answer(id, "ACCEPTING_ENTRIES", 1), p, r) /\ Answer(id, "ACCEPTING_ENTRIES", 1).accepted = 1
        BY ONLY <2>1, <2>2, HonestAnswer
    <2> QED BY <2>3
<1>5. \A s \in {"ACCEPTING_ENTRIES", "FINALIZE_TRANSACTION", "SIGNING"} :
          Honest(Status(id, s), p, r) /\ ~ Dialog(Status(id, s))
    BY <1>1, <1>2, HonestStatus
<1>6. Honest(D, p, r) /\ ~ Dialog(D)
    BY <1>1, <1>2 DEF Honest, MsgOk, Dialog
<1>7. Says(Sealing(id, es), p, r)
    BY <1>5, <1>6 DEF Says, Sealing
<1> HIDE DEF a
<1>8. Answers(w, x, c, Sealing(id, es), a, n)
    BY <1>1, <1>2, <1>3, <1>4, <1>7 DEF Answers
<1> QED BY <1>8 DEF a

LEMMA CollectingMoves ==
    ASSUME NEW p, NEW r, p.state \in Collecting, r.sessionID = p.sessionID, r.state \in Collecting, NEW n
    PROVE  Moves(p, r, n) /\ r.state # "SIGNING"
<1>1. p.state \notin Sealed /\ r.state # "SIGNING"
    BY DEF Collecting, Sealed
<1>2. SessionMoves(p, r, n) /\ SigningMoves(p, r)
    BY ONLY <1>1, r.sessionID = p.sessionID DEF SessionMoves, SigningMoves
<1> QED BY <1>1, <1>2 DEF Moves

LEMMA NulledMoves ==
    ASSUME NEW p, NEW r, Nulled(r), NEW n
    PROVE  Moves(p, r, n) /\ r.state # "SIGNING" /\ Says({Status(0, "IDLE")}, p, r)
<1>1. r.sessionID = 0 /\ r.entries = {} /\ r.state # "SIGNING"
    BY DEF Nulled
<1>2. SessionMoves(p, r, n) /\ SigningMoves(p, r)
    BY ONLY <1>1 DEF SessionMoves, SigningMoves
<1>3. "IDLE" \notin Ended /\ "IDLE" \notin Late
    BY DEF Ended, Late
<1>4. Honest(Status(0, "IDLE"), p, r) /\ ~ Dialog(Status(0, "IDLE"))
    BY ONLY <1>1, <1>3, HonestStatus
<1> QED BY <1>1, <1>2, <1>4 DEF Moves, Says

\* The last signature ends the session, or its transaction is not announced.
LEMMA LastMoves ==
    ASSUME NEW w, NEW x, NEW g, MnInv(w.pool), DssLast(w, x, g), NEW n
    PROVE  /\ Moves(w.pool, x.pool, n) /\ x.pool.state # "SIGNING"
           /\ \E R : Says(R, w.pool, x.pool) /\ \A d \in Client : Relayed(w.net[d], x.net[d], R)
<1> DEFINE p == w.pool
           r == x.pool
           id == p.sessionID
<1>1. p.state = "SIGNING" /\ id # 0
    BY DEF DssLast, MnInv
<1>2. CASE Nulled(r) /\ \A d \in Client : Relayed(w.net[d], x.net[d], Over(id))
    <2>1. r.sessionID = 0 /\ r.state # "SIGNING"
        BY <1>2 DEF Nulled
    <2>2. /\ "SIGNING" \notin Ended /\ "IDLE" \notin Ended /\ "ACCEPTING_ENTRIES" \notin Ended
          /\ "IDLE" \notin Late /\ "ACCEPTING_ENTRIES" \notin Late
        BY DEF Ended, Late
    <2>3. Honest(Status(id, "SIGNING"), p, r) /\ ~ Dialog(Status(id, "SIGNING"))
        BY ONLY <1>1, <2>1, <2>2, HonestStatus
    <2>4. Honest(Status(0, "IDLE"), p, r) /\ ~ Dialog(Status(0, "IDLE"))
        BY ONLY <2>1, <2>2, HonestStatus
    <2>5. Honest(Status(0, "ACCEPTING_ENTRIES"), p, r) /\ ~ Dialog(Status(0, "ACCEPTING_ENTRIES"))
        BY ONLY <2>1, <2>2, HonestStatus
    <2>6. \A i \in {id, 0} : Honest([type |-> "dsc", id |-> i], p, r) /\ ~ Dialog([type |-> "dsc", id |-> i])
        BY <2>1 DEF Honest, MsgOk, Dialog
    <2>7. Says(Over(id), p, r)
        BY <2>3, <2>4, <2>5, <2>6 DEF Says, Over
    <2>8. Moves(p, r, n)
        BY <1>2, NulledMoves
    <2> QED BY <1>2, <2>1, <2>7, <2>8
<1>3. CASE /\ r.sessionID = id /\ r.state = "TRANSMISSION" /\ r.entries = p.entries
           /\ \A d \in Client : Relayed(w.net[d], x.net[d], {Status(id, s) : s \in Sealed})
    <2>1. r.state \in Sealed /\ r.state # "SIGNING"
        BY <1>3 DEF Sealed
    <2>2. SessionMoves(p, r, n) /\ SigningMoves(p, r)
        BY <1>3, <2>1 DEF SessionMoves, SigningMoves
    <2>3. Moves(p, r, n)
        BY <2>2 DEF Moves
    <2>4. ASSUME NEW s \in Sealed PROVE Honest(Status(id, s), p, r) /\ ~ Dialog(Status(id, s))
        <3>1. s \notin Ended
            BY DEF Sealed, Ended
        <3> QED BY <1>1, <2>1, <3>1, HonestStatus
    <2>5. Says({Status(id, s) : s \in Sealed}, p, r)
        BY <2>4 DEF Says
    <2> QED BY <1>3, <2>1, <2>3, <2>5
<1> QED BY <1>2, <1>3 DEF DssLast

\* The entry that comes next is not one of those that came before.
LEMMA HeadNew ==
    ASSUME Typed, FitInv, NEW c \in Client, 1 \in 1..Len(toMn[c]), toMn[c][1].type = "dsi", NEW e, Before(e)
    PROVE  e # toMn[c][1].entry
<1> SUFFICES ASSUME e = toMn[c][1].entry PROVE FALSE
    OBVIOUS
<1>1. e \in Entry
    BY TypedMessages
<1>2. DsiInv
    BY DEF FitInv
<1>3. Owner[e.coin] = c
    BY <1>2 DEF DsiInv
<1>4. e.out < e.out /\ e.out \in Nat
    BY <1>1, <1>3, EntryFacts DEF Before
<1> QED BY <1>4

\* A transaction made before has no entry that comes now.
LEMMA OldEntries ==
    ASSUME Typed, FitInv, EntriesGo, NEW tx, Past(tx), tx \cap mn'.entries # {}
    PROVE  tx \cap mn.entries # {} /\ mn.state \in Sealed
<1>1. PICK e \in tx : e \in mn'.entries
    OBVIOUS
<1>2. Before(e) /\ (e \in mn.entries => mn.state \in Sealed)
    BY DEF Past
<1>3. ASSUME NEW c \in Client, toMn[c] # <<>>, toMn[c][1].type = "dsi",
             mn'.entries = mn.entries \cup {toMn[c][1].entry}
      PROVE  e \in mn.entries
    <2>1. toMn[c] \in Seq(ToMn)
        BY DEF Typed
    <2>2. 1 \in 1..Len(toMn[c])
        BY <1>3, <2>1, SuffixFacts
    <2>3. e # toMn[c][1].entry
        BY <1>2, <1>3, <2>2, HeadNew
    <2> QED BY <1>1, <1>3, <2>3
<1>4. e \in mn.entries
    BY <1>1, <1>3 DEF EntriesGo
<1> QED BY <1>2, <1>4

\* An entry of participant d comes only in a message of d.
LEMMA OwnEntries ==
    ASSUME Typed, FitInv, EntriesGo, NEW d \in Client, toMn'[d] = toMn[d] \/ toMn[d][1].type # "dsi"
    PROVE  pool[d].entries \cap mn'.entries \subseteq mn.entries
<1> SUFFICES ASSUME NEW e \in pool[d].entries, e \in mn'.entries, e \notin mn.entries PROVE FALSE
    OBVIOUS
<1>1. PICK c \in Client : /\ toMn[c] # <<>> /\ toMn[c][1].type = "dsi" /\ toMn'[c] = Tail(toMn[c])
                          /\ e = toMn[c][1].entry
    BY DEF EntriesGo
<1>2. toMn[c] \in Seq(ToMn)
    BY DEF Typed
<1>3. 1 \in 1..Len(toMn[c]) /\ toMn'[c] # toMn[c]
    <2>1. Len(toMn[c]) \in Nat \ {0} /\ Len(toMn'[c]) = Len(toMn[c]) - 1
        BY <1>1, <1>2, SuffixFacts, HeadTailProperties
    <2>2. 1 \in 1..Len(toMn[c]) /\ Len(toMn'[c]) # Len(toMn[c])
        BY <2>1
    <2> QED BY <2>2
<1>4. DsiInv /\ ClientInv
    BY DEF FitInv
<1>5. Owner[e.coin] = c
    BY <1>1, <1>3, <1>4 DEF DsiInv
<1>6. Owner[e.coin] = d
    BY <1>4 DEF ClientInv
<1> QED BY <1>1, <1>3, <1>5, <1>6

\* What participant d knows after a step of the primenode that says to it what is in R.
LEMMA MnStepKnows ==
    ASSUME IInv, FitInv, KnowInv, EntriesGo, Moves(mn, mn', sessions), NEW d \in Client \ overlapped, Len(toClient'[d]) \in Nat,
           NEW R, Relayed(toClient[d], toClient'[d], R), \A m \in R : Honest(m, mn, mn'),
           Asked(toMn'[d], toClient'[d], pool[d], mn'.entries),
           mn.state = "SIGNING" /\ mn'.state = "SIGNING" =>
             /\ \A g \in Signature : Signs(d, toMn'[d], mn', g) => Signs(d, toMn[d], mn, g)
             /\ Idle(toMn[d], toClient[d]) => Idle(toMn'[d], toClient'[d]),
           mn.state \notin Sealed /\ mn'.state = "SIGNING" =>
             Awaits(toClient'[d], mn') /\ \A g \in Signature : ~ Signs(d, toMn'[d], mn', g)
    PROVE  Knows(d, toMn'[d], toClient'[d], pool[d], mn')
<1>1. Typed /\ sessions \in Nat /\ toClient[d] \in Seq(FromMn(sessions))
    BY DEF IInv, Typed
<1>2. pool[d] \in ClientPool(sessions)
    BY DEF IInv, Typed
<1>3. pool[d].sessionID \in 0..sessions
    BY <1>2 DEF ClientPool
<1>4. Knows(d, toMn[d], toClient[d], pool[d], mn)
    BY DEF KnowInv
<1>5. SessionMoves(mn, mn', sessions) /\ SigningMoves(mn, mn')
    BY DEF Moves
<1>6. \A m \in R : MsgOk(m, mn')
    BY DEF Honest
<1>7. ASSUME NEW i \in 1..Len(toClient[d]), toClient[d][i].type = "dsf", toClient[d][i].tx \cap mn'.entries # {}
      PROVE  toClient[d][i].tx \cap mn.entries # {} /\ mn.state \in Sealed
    <2>1. Past(toClient[d][i].tx)
        BY <1>7 DEF FitInv, DsfInv
    <2> QED BY <1>1, <1>7, <2>1, OldEntries
<1>8. \A i \in 1..Len(toClient[d]) :
          toClient[d][i].type = "dsf" /\ toClient[d][i].tx \cap mn'.entries # {} =>
            toClient[d][i].tx \cap mn.entries # {} /\ mn.state \in Sealed
    BY <1>7
<1>9. mn.state = "SIGNING" /\ mn'.state = "SIGNING" =>
        /\ \A m \in R : KeepsLate(m, mn'.sessionID) /\ m.type # "dsf"
        /\ \A g \in Signature : Signs(d, toMn'[d], mn', g) => Signs(d, toMn[d], mn, g)
        /\ Idle(toMn[d], toClient[d]) => Idle(toMn'[d], toClient'[d])
    BY DEF Honest
<1> DEFINE r == mn'
           w == toMn'[d]
           u == toClient'[d]
           q == toMn[d]
           t == toClient[d]
           k == pool[d]
<1>10. /\ SessionMoves(mn, r, sessions) /\ SigningMoves(mn, r) /\ Len(u) \in Nat /\ Asked(w, u, k, r.entries)
       /\ Relayed(t, u, R) /\ Knows(d, q, t, k, mn) /\ t \in Seq(FromMn(sessions)) /\ k.sessionID \in 0..sessions
    BY <1>1, <1>3, <1>4, <1>5
<1>11. \A m \in R : MsgOk(m, r)
    BY <1>6
<1>12. \A i \in 1..Len(t) : t[i].type = "dsf" /\ t[i].tx \cap r.entries # {} => t[i].tx \cap mn.entries # {} /\ mn.state \in Sealed
    BY <1>8
<1>13. mn.state = "SIGNING" /\ r.state = "SIGNING" =>
        /\ \A m \in R : KeepsLate(m, r.sessionID) /\ m.type # "dsf"
        /\ \A g \in Signature : Signs(d, w, r, g) => Signs(d, q, mn, g)
        /\ Idle(q, t) => Idle(w, u)
    BY <1>9
<1>14. mn.state \notin Sealed /\ r.state = "SIGNING" => Awaits(u, r) /\ \A g \in Signature : ~ Signs(d, w, r, g)
    OBVIOUS
<1> HIDE DEF r, w, u, q, t, k
<1>15. Knows(d, w, u, k, r)
    BY ONLY <1>1, <1>10, <1>11, <1>12, <1>13, <1>14, KnowsKept
<1> QED BY <1>15 DEF r, w, u, k

\* Signatures of d are not more, when those counted are the same or one that came.
LEMMA SignsKept ==
    ASSUME Typed, FitInv, NEW d \in Client, Suffix(toMn[d], toMn'[d]), Len(toMn'[d]) \in Nat,
           NEW r, r.entries = mn.entries,
           \/ r.sev \subseteq mn.sev
           \/ \E c \in Client : /\ 1 \in 1..Len(toMn[c]) /\ toMn[c][1].type = "dss" /\ toMn[c][1].sig.tx = mn.entries
                                /\ r.sev \subseteq mn.sev \cup {toMn[c][1].sig},
           NEW g \in Signature, Signs(d, toMn'[d], r, g)
    PROVE  Signs(d, toMn[d], mn, g)
<1>1. CASE g.tx = r.entries /\ \E i \in 1..Len(toMn'[d]) : toMn'[d][i].type = "dss" /\ toMn'[d][i].sig = g
    <2>1. PICK i \in 1..Len(toMn'[d]) : toMn'[d][i].type = "dss" /\ toMn'[d][i].sig = g
        BY <1>1
    <2>2. PICK k \in Nat : Len(toMn[d]) = Len(toMn'[d]) + k /\ \A l \in 1..Len(toMn'[d]) : toMn'[d][l] = toMn[d][l + k]
        BY DEF Suffix
    <2>3. i + k \in 1..Len(toMn[d]) /\ toMn'[d][i] = toMn[d][i + k]
        BY <2>2
    <2> QED BY <1>1, <2>1, <2>3 DEF Signs
<1>2. CASE g \in r.sev /\ Owner[g.coin] = d
    <2>1. CASE g \in mn.sev
        BY <1>2, <2>1 DEF Signs
    <2>2. CASE g \notin mn.sev
        <3>1. PICK c \in Client : /\ 1 \in 1..Len(toMn[c]) /\ toMn[c][1].type = "dss" /\ g.tx = mn.entries
                                  /\ g = toMn[c][1].sig
            BY <1>2, <2>2
        <3>2. Owner[g.coin] = c
            BY <3>1, HeadFits
        <3> QED BY <1>2, <3>1, <3>2 DEF Signs
    <2> QED BY <2>1, <2>2
<1> QED BY <1>1, <1>2 DEF Signs

\* A participant whose question is not the one that comes.
LEMMA BystanderKnows ==
    ASSUME IInv, FitInv, KnowInv, EntriesGo, Moves(mn, mn', sessions), NEW d \in Client \ overlapped,
           Suffix(toMn[d], toMn'[d]), Len(toMn'[d]) \in Nat, Len(toClient'[d]) \in Nat,
           toMn'[d] = toMn[d] \/ toMn[d][1].type # "dsi",
           NEW R, Relayed(toClient[d], toClient'[d], R), Says(R, mn, mn'),
           mn.state = "SIGNING" /\ mn'.state = "SIGNING" =>
             \A g \in Signature : Signs(d, toMn'[d], mn', g) => Signs(d, toMn[d], mn, g),
           mn.state \notin Sealed /\ mn'.state = "SIGNING" =>
             Awaits(toClient'[d], mn') /\ \A g \in Signature : ~ Signs(d, toMn'[d], mn', g)
    PROVE  Knows(d, toMn'[d], toClient'[d], pool[d], mn')
<1>1. Typed /\ Len(toMn[d]) \in Nat /\ Len(toClient[d]) \in Nat
    BY TypedMessages DEF IInv
<1>2. /\ \A m \in R : ~ Dialog(m)
      /\ \A m \in R : Honest(m, mn, mn')
    BY DEF Says
<1> DEFINE w == toMn'[d]
           u == toClient'[d]
           q == toMn[d]
           t == toClient[d]
           k == pool[d]
           fs == mn'.entries
<1>3. Suffix(q, w) /\ Len(w) \in Nat /\ Len(u) \in Nat /\ Relayed(t, u, R) /\ Len(q) \in Nat /\ Len(t) \in Nat
    BY <1>1
<1>4. k.entries \cap fs \subseteq mn.entries
    BY <1>1, OwnEntries
<1>5. Asked(q, t, k, mn.entries)
    BY DEF KnowInv, Knows
<1> HIDE DEF w, u, q, t, k, fs
<1>6. Fewer(q, w) /\ Fewer(t, u)
    BY <1>2, <1>3, FewerSuffix, FewerRelayed
<1>7. k.state \in Ended => Refused(k, t)
    BY DEF Refused
<1>8. Asked(w, u, k, fs)
    BY ONLY <1>4, <1>5, <1>6, <1>7, AskedKept
<1>9. Idle(q, t) => Idle(w, u)
    BY <1>6, FewerSilent DEF Idle
<1> QED BY <1>2, <1>8, <1>9, MnStepKnows DEF w, u, q, t, k, fs

\* The participant whose question comes.
LEMMA AskerKnows ==
    ASSUME IInv, FitInv, KnowInv, EntriesGo, Moves(mn, mn', sessions), NEW c \in Client \ overlapped, Len(toClient'[c]) \in Nat,
           1 \in 1..Len(toMn[c]), toMn[c] # <<>>, Dialog(toMn[c][1]), toMn'[c] = Tail(toMn[c]),
           NEW R, NEW a, Answered(toClient[c], toClient'[c], R, a), Says(R, mn, mn'), Honest(a, mn, mn'),
           a.accepted = 0 => mn'.entries \subseteq mn.entries,
           mn.state = "SIGNING" /\ mn'.state = "SIGNING" =>
             \A g \in Signature : Signs(c, toMn'[c], mn', g) => Signs(c, toMn[c], mn, g),
           mn.state \notin Sealed /\ mn'.state = "SIGNING" =>
             Awaits(toClient'[c], mn') /\ \A g \in Signature : ~ Signs(c, toMn'[c], mn', g)
    PROVE  Knows(c, toMn'[c], toClient'[c], pool[c], mn')
<1>1. Typed /\ Len(toClient[c]) \in Nat /\ toMn[c] \in Seq(ToMn)
    BY TypedMessages DEF IInv, Typed
<1>2. /\ \A m \in R : ~ Dialog(m)
      /\ \A m \in R \cup {a} : Honest(m, mn, mn')
    BY DEF Says
<1>3. Asked(toMn[c], toClient[c], pool[c], mn.entries)
    BY DEF KnowInv, Knows
<1>4. \A e \in pool[c].entries : pool[c].entries = {e}
    BY DEF FitInv, ClientInv
<1>5. toMn[c][1].type = "dsi" => toMn[c][1].entry \notin mn.entries
    <2>1. ASSUME toMn[c][1].type = "dsi", toMn[c][1].entry \in mn.entries PROVE FALSE
        <3>1. Before(toMn[c][1].entry)
            BY <2>1 DEF FitInv, EntriesInv
        <3> QED BY <1>1, <2>1, <3>1, HeadNew
    <2> QED BY <2>1
<1>6. Relayed(toClient[c], toClient'[c], R \cup {a})
    BY DEF Answered, Relayed
<1>7. ~ Idle(toMn[c], toClient[c])
    BY DEF Idle, Silent
<1> DEFINE u == toClient'[c]
           q == toMn[c]
           t == toClient[c]
           k == pool[c]
           es == mn.entries
           fs == mn'.entries
<1>8. /\ q \in Seq(ToMn) /\ q # <<>> /\ Dialog(q[1]) /\ Len(t) \in Nat /\ Len(u) \in Nat
      /\ \A e \in k.entries : k.entries = {e}
      /\ Asked(q, t, k, es) /\ Answered(t, u, R, a)
      /\ a.accepted = 0 => fs \subseteq es /\ (q[1].type = "dsi" => q[1].entry \notin es)
    BY <1>1, <1>3, <1>4, <1>5
<1> HIDE DEF u, q, t, k, es, fs
<1>9. Asked(Tail(q), u, k, fs)
    BY ONLY <1>2, <1>8, AskedAnswered
<1>10. Asked(toMn'[c], toClient'[c], pool[c], mn'.entries)
    BY <1>9 DEF u, q, k, fs
<1> QED BY <1>2, <1>6, <1>7, <1>10, MnStepKnows

\* A question comes.
LEMMA QuestionKnows ==
    ASSUME IInv, FitInv, KnowInv, Typed', EntriesGo, NEW c \in Client, toMn[c] # <<>>, Dialog(toMn[c][1]),
           toMn' = [toMn EXCEPT ![c] = Tail(toMn[c])],
           NEW x, mn' = x.pool, toClient' = x.net, NEW R, NEW a, Answers(Mn, x, c, R, a, sessions),
           NEW d \in Client \ overlapped,
           mn.state \notin Sealed /\ mn'.state = "SIGNING" =>
             Awaits(toClient'[d], mn') /\ \A g \in Signature : ~ Signs(d, toMn'[d], mn', g)
    PROVE  Knows(d, toMn'[d], toClient'[d], pool[d], mn')
<1>1. Typed /\ toMn[c] \in Seq(ToMn) /\ toMn[d] \in Seq(ToMn) /\ Mn.pool = mn /\ Mn.net = toClient
    BY MnWorld DEF IInv, Typed
<1>2. Len(toMn'[d]) \in Nat /\ Len(toClient'[d]) \in Nat
    <2>1. toMn'[d] \in Seq(ToMn) /\ toClient'[d] \in Seq(FromMn(sessions'))
        BY DEF Typed
    <2> QED BY <2>1, LenProperties
<1>3. /\ Told(Mn, x, c, R, a) /\ Moves(mn, mn', sessions) /\ Says(R, mn, mn') /\ Honest(a, mn, mn')
      /\ a.accepted = 0 => mn'.entries \subseteq mn.entries
      /\ mn.state = "SIGNING" /\ mn'.state = "SIGNING" => mn'.sev = mn.sev
    BY <1>1 DEF Answers
<1>4. Answered(toClient[c], toClient'[c], R, a) /\ (d # c => Relayed(toClient[d], toClient'[d], R))
    BY <1>1, <1>3 DEF Told
<1>5. 1 \in 1..Len(toMn[c]) /\ Suffix(toMn[d], toMn'[d])
    BY <1>1, SuffixFacts, SuffixAll
<1>6. toMn'[c] = Tail(toMn[c]) /\ (d # c => toMn'[d] = toMn[d])
    BY <1>1 DEF Typed
<1>7. ASSUME mn.state = "SIGNING", mn'.state = "SIGNING", NEW g \in Signature, Signs(d, toMn'[d], mn', g)
      PROVE  Signs(d, toMn[d], mn, g)
    <2>1. mn'.entries = mn.entries /\ mn'.sev \subseteq mn.sev
        BY <1>3, <1>7 DEF Moves, SigningMoves, Sealed
    <2> QED BY <1>1, <1>2, <1>5, <1>7, <2>1, SignsKept
<1>8. mn.state = "SIGNING" /\ mn'.state = "SIGNING" =>
        \A g \in Signature : Signs(d, toMn'[d], mn', g) => Signs(d, toMn[d], mn, g)
    BY <1>7
<1>9. mn.state \notin Sealed /\ mn'.state = "SIGNING" =>
        Awaits(toClient'[d], mn') /\ \A g \in Signature : ~ Signs(d, toMn'[d], mn', g)
    OBVIOUS
<1>10. CASE d = c
    <2>1. Knows(c, toMn'[c], toClient'[c], pool[c], mn')
        BY <1>2, <1>3, <1>4, <1>5, <1>6, <1>8, <1>9, <1>10, AskerKnows
    <2> QED BY <1>10, <2>1
<1>11. CASE d # c
    BY <1>2, <1>3, <1>4, <1>5, <1>6, <1>8, <1>9, <1>11, BystanderKnows
<1> QED BY <1>10, <1>11

\* When the transaction is made everyone hears of it before the dsf, and no one has
\* signed it.
LEMMA SealsAwaits ==
    ASSUME IInv, FitInv, KnowInv, NEW c \in Client, NEW e, NEW x, mn' = x.pool, toClient' = x.net,
           DsiSeals(Mn, x, c, e), NEW d \in Client \ overlapped, Len(toClient'[d]) \in Nat
    PROVE  Awaits(toClient'[d], mn')
<1>1. Typed /\ Mn.pool = mn /\ Mn.net = toClient /\ Len(toClient[d]) \in Nat
    BY MnWorld, TypedMessages DEF IInv
<1> DEFINE id == mn.sessionID
           es == mn.entries \cup {e}
           t == toClient[d]
           u == toClient'[d]
           A == {Answer(id, "ACCEPTING_ENTRIES", 1), Status(id, "ACCEPTING_ENTRIES")}
           F == Status(id, "FINALIZE_TRANSACTION")
           T == {[type |-> "dsf", id |-> id, tx |-> es], Status(id, "SIGNING")}
<1>2. id # 0 /\ mn.state = "ACCEPTING_ENTRIES" /\ mn'.sessionID = id /\ Staged(t, u, A, F, T)
    BY <1>1 DEF DsiSeals
<1>3. \A i \in 1..Len(t) : t[i].type = "dsf" => t[i].id # id
    <2>1. Knows(d, toMn[d], t, pool[d], mn)
        BY DEF KnowInv
    <2>2. mn.state \notin Sealed
        BY <1>2 DEF Sealed
    <2> QED BY <2>1, <2>2 DEF Knows, MsgOk
<1>4. \A m \in A : m.type # "dsf"
    BY DEF Answer, Status
<1>5. F.type = "dssu" /\ F.accepted = -1 /\ F.id = id /\ F.state \in Late /\ KeepsLate(F, id)
    BY DEF Status, Late, KeepsLate
<1>6. \A m \in T : KeepsLate(m, id)
    BY DEF Status, Late, KeepsLate
<1>7. Len(t) \in Nat /\ Len(u) \in Nat
    BY <1>1
<1> HIDE DEF id, es, t, u, A, F, T
<1>8. PICK k \in (Len(t) + 1)..Len(u) : /\ u[k] = F
                                        /\ \A i \in (Len(t) + 1)..(k - 1) : u[i] \in A
                                        /\ \A i \in (k + 1)..Len(u) : u[i] \in T
    BY <1>2 DEF Staged
<1>9. \A i \in 1..Len(t) : u[i] = t[i]
    BY <1>2 DEF Staged
<1>10. k \in 1..Len(u)
    BY <1>7
<1>11. ASSUME NEW i \in k..Len(u) PROVE KeepsLate(u[i], id)
    <2>1. CASE i = k
        BY <1>5, <1>8, <2>1
    <2>2. CASE i # k
        <3>1. i \in (k + 1)..Len(u)
            BY <1>7, <2>2
        <3> QED BY <1>6, <1>8, <3>1
    <2> QED BY <2>1, <2>2
<1>12. ASSUME NEW i \in 1..k PROVE ~ (u[i].type = "dsf" /\ u[i].id = id)
    <2>1. CASE i \in 1..Len(t)
        BY <1>3, <1>9, <2>1
    <2>2. CASE i = k
        BY <1>5, <1>8, <2>2
    <2>3. CASE i \notin 1..Len(t) /\ i # k
        <3>1. i \in (Len(t) + 1)..(k - 1)
            BY <1>7, <2>3
        <3> QED BY <1>4, <1>8, <3>1
    <2> QED BY <2>1, <2>2, <2>3
<1>13. /\ u[k].type = "dssu" /\ u[k].accepted = -1 /\ u[k].id = mn'.sessionID /\ u[k].state \in Late
       /\ \A i \in k..Len(u) : KeepsLate(u[i], mn'.sessionID)
       /\ \A i \in 1..k : ~ (u[i].type = "dsf" /\ u[i].id = mn'.sessionID)
    BY <1>2, <1>5, <1>8, <1>11, <1>12
<1>14. Awaits(u, mn')
    BY <1>10, <1>13 DEF Awaits
<1> QED BY <1>14 DEF u

LEMMA SealsUnsigned ==
    ASSUME IInv, FitInv, EntriesGo, NEW c \in Client, NEW e, NEW x, mn' = x.pool,
           DsiSeals(Mn, x, c, e), NEW d \in Client, Suffix(toMn[d], toMn'[d]), Len(toMn'[d]) \in Nat, NEW g \in Signature
    PROVE  ~ Signs(d, toMn'[d], mn', g)
<1>1. Typed /\ Mn.pool = mn
    BY MnWorld DEF IInv
<1>2. mn.state \notin Sealed /\ mn'.sev = {} /\ mn'.entries # {}
    BY <1>1 DEF DsiSeals, Sealed
<1>3. ASSUME g.tx = mn'.entries, NEW i \in 1..Len(toMn'[d]), toMn'[d][i].type = "dss", toMn'[d][i].sig = g
      PROVE  FALSE
    <2>1. PICK k \in Nat : Len(toMn[d]) = Len(toMn'[d]) + k /\ \A l \in 1..Len(toMn'[d]) : toMn'[d][l] = toMn[d][l + k]
        BY DEF Suffix
    <2>2. i + k \in 1..Len(toMn[d]) /\ toMn'[d][i] = toMn[d][i + k]
        BY <2>1
    <2>3. Past(g.tx)
        BY <1>3, <2>2 DEF FitInv, DssInv
    <2>4. mn.state \in Sealed
        BY <1>1, <1>2, <1>3, <2>3, OldEntries
    <2> QED BY <1>2, <2>4
<1> QED BY <1>2, <1>3 DEF Signs

\* What answers a request or an entry that comes.
LEMMA DialogAnswered ==
    ASSUME IInv, FitInv, NEW c \in Client, toMn[c][1].type \in {"dsa", "dsi"},
           NEW x, MnTakes(Mn, x, c, toMn[c][1])
    PROVE  \E R, a : /\ Answers(Mn, x, c, R, a, sessions)
                     /\ mn.state \notin Sealed /\ x.pool.state = "SIGNING" => DsiSeals(Mn, x, c, toMn[c][1].entry)
<1>1. Mn.pool = mn /\ MnInv(Mn.pool) /\ sessions \in Nat
    BY MnWorld DEF IInv, FitInv, Typed
<1>2. CASE DsaAnswered(Mn, x, c)
    <2>1. PICK a \in {0, 1} : /\ a = 1 => Mn.pool.state \in Collecting /\ Mn.pool.sessionID # 0
                              /\ Told(Mn, x, c, {}, Answer(Mn.pool.sessionID, Mn.pool.state, a))
        BY <1>2 DEF DsaAnswered
    <2>2. Same(Mn.pool, x.pool) /\ x.pool.sev = Mn.pool.sev
        BY <1>2 DEF DsaAnswered
    <2>3. Answers(Mn, x, c, {}, Answer(Mn.pool.sessionID, Mn.pool.state, a), sessions)
        BY <1>1, <2>1, <2>2, SameAnswers
    <2>4. x.pool.state = "SIGNING" => mn.state \in Sealed
        BY <1>1, <2>2 DEF Same, Sealed
    <2> QED BY <2>3, <2>4
<1>3. CASE DsaOpens(Mn, x, c, sessions + 1)
    <2>1. Answers(Mn, x, c, {Status(sessions + 1, Mn.pool.state)}, Answer(sessions + 1, "QUEUE", 1), sessions)
        BY <1>1, <1>3, OpensAnswers
    <2>2. x.pool.state # "SIGNING"
        BY <1>3 DEF DsaOpens
    <2> QED BY <2>1, <2>2
<1>4. CASE DsiRefused(Mn, x, c)
    <2>1. /\ Same(Mn.pool, x.pool) /\ x.pool.sev = Mn.pool.sev
          /\ Told(Mn, x, c, {}, Answer(Mn.pool.sessionID, Mn.pool.state, 0))
        BY <1>4 DEF DsiRefused
    <2>2. 0 \in {0, 1} /\ 0 # 1
        OBVIOUS
    <2>3. Answers(Mn, x, c, {}, Answer(Mn.pool.sessionID, Mn.pool.state, 0), sessions)
        BY <1>1, <2>1, <2>2, SameAnswers
    <2>4. x.pool.state = "SIGNING" => mn.state \in Sealed
        BY <1>1, <2>1 DEF Same, Sealed
    <2> QED BY <2>3, <2>4
<1>5. CASE DsiTaken(Mn, x, c, toMn[c][1].entry)
    <2>1. Answers(Mn, x, c, {Status(Mn.pool.sessionID, Mn.pool.state)}, Answer(Mn.pool.sessionID, Mn.pool.state, 1), sessions)
        BY <1>1, <1>5, TakenAnswers
    <2>2. x.pool.state # "SIGNING"
        BY <1>5 DEF DsiTaken, Collecting
    <2> QED BY <2>1, <2>2
<1>6. CASE DsiSeals(Mn, x, c, toMn[c][1].entry)
    <2> DEFINE es == Mn.pool.entries \cup {toMn[c][1].entry}
    <2>1. Answers(Mn, x, c, Sealing(Mn.pool.sessionID, es), Answer(Mn.pool.sessionID, "ACCEPTING_ENTRIES", 1), sessions)
        BY <1>1, <1>6, SealsAnswers
    <2> HIDE DEF es
    <2> QED BY <1>6, <2>1
<1> QED BY <1>2, <1>3, <1>4, <1>5, <1>6 DEF MnTakes

\* A request or an entry comes.
LEMMA DialogKnows ==
    ASSUME IInv, FitInv, KnowInv, Typed', EntriesGo, NEW c \in Client, toMn[c] # <<>>, toMn[c][1].type \in {"dsa", "dsi"},
           toMn' = [toMn EXCEPT ![c] = Tail(toMn[c])],
           NEW x, mn' = x.pool, toClient' = x.net, MnTakes(Mn, x, c, toMn[c][1])
    PROVE  Moves(mn, mn', sessions) /\ \A d \in Client \ overlapped : Knows(d, toMn'[d], toClient'[d], pool[d], mn')
<1>1. Typed /\ Mn.pool = mn /\ Dialog(toMn[c][1])
    BY MnWorld DEF IInv, Dialog
<1>2. PICK R, a : /\ Answers(Mn, x, c, R, a, sessions)
                  /\ mn.state \notin Sealed /\ x.pool.state = "SIGNING" => DsiSeals(Mn, x, c, toMn[c][1].entry)
    BY DialogAnswered
<1>3. Moves(mn, mn', sessions)
    BY <1>1, <1>2 DEF Answers
<1>4. ASSUME NEW d \in Client \ overlapped
      PROVE  Knows(d, toMn'[d], toClient'[d], pool[d], mn')
    <2>1. toMn'[d] \in Seq(ToMn) /\ toClient'[d] \in Seq(FromMn(sessions'))
        BY DEF Typed
    <2>2. Len(toMn'[d]) \in Nat /\ Len(toClient'[d]) \in Nat
        BY <2>1, LenProperties
    <2>3. Suffix(toMn[d], toMn'[d])
        BY <1>1, SuffixAll
    <2>4. ASSUME mn.state \notin Sealed, mn'.state = "SIGNING"
          PROVE  Awaits(toClient'[d], mn') /\ \A g \in Signature : ~ Signs(d, toMn'[d], mn', g)
        <3>1. DsiSeals(Mn, x, c, toMn[c][1].entry)
            BY <1>2, <2>4
        <3>2. Awaits(toClient'[d], mn')
            BY <2>2, <3>1, SealsAwaits
        <3>3. \A g \in Signature : ~ Signs(d, toMn'[d], mn', g)
            BY <2>2, <2>3, <3>1, SealsUnsigned
        <3> QED BY <3>2, <3>3
    <2> QED BY <1>1, <1>2, <2>4, QuestionKnows
<1> QED BY <1>3, <1>4

\* A signature comes.
LEMMA SignatureKnows ==
    ASSUME IInv, FitInv, KnowInv, Typed', EntriesGo, NEW c \in Client, toMn[c] # <<>>, toMn[c][1].type = "dss",
           toMn' = [toMn EXCEPT ![c] = Tail(toMn[c])],
           NEW x, mn' = x.pool, toClient' = x.net, MnTakes(Mn, x, c, toMn[c][1])
    PROVE  Moves(mn, mn', sessions) /\ \A d \in Client \ overlapped : Knows(d, toMn'[d], toClient'[d], pool[d], mn')
<1>1. Typed /\ Mn.pool = mn /\ Mn.net = toClient /\ MnInv(Mn.pool) /\ toMn[c] \in Seq(ToMn)
    BY MnWorld DEF IInv, FitInv, Typed
<1> DEFINE g == toMn[c][1].sig
<1>2. ASSUME NEW d \in Client
      PROVE  /\ Len(toMn'[d]) \in Nat /\ Len(toClient'[d]) \in Nat /\ Suffix(toMn[d], toMn'[d])
             /\ toMn'[d] = toMn[d] \/ toMn[d][1].type # "dsi"
    <2>1. toMn'[d] \in Seq(ToMn) /\ toClient'[d] \in Seq(FromMn(sessions'))
        BY DEF Typed
    <2>2. Suffix(toMn[d], toMn'[d])
        BY <1>1, SuffixAll
    <2>3. toMn'[d] = toMn[d] \/ toMn[d][1].type # "dsi"
        BY <1>1 DEF Typed
    <2> QED BY <2>1, <2>2, <2>3, LenProperties
<1>3. 1 \in 1..Len(toMn[c])
    <2>1. Len(toMn[c]) \in Nat \ {0}
        BY <1>1, SuffixFacts
    <2> QED BY <2>1
<1>4. CASE DssCounted(Mn, x, g)
    <2>1. /\ Same(Mn.pool, x.pool)
          /\ x.pool.sev = Mn.pool.sev \/ (g.tx = Mn.pool.entries /\ x.pool.sev = Mn.pool.sev \cup {g})
          /\ \A d \in Client : Relayed(Mn.net[d], x.net[d], {Status(Mn.pool.sessionID, Mn.pool.state)})
        BY <1>4 DEF DssCounted
    <2>2. Moves(Mn.pool, x.pool, sessions) /\ Says({Status(Mn.pool.sessionID, Mn.pool.state)}, Mn.pool, x.pool)
        BY <1>1, <2>1, SameMoves
    <2>3. mn'.entries = mn.entries /\ mn'.state = mn.state
        BY <1>1, <2>1 DEF Same
    <2>4. \/ mn'.sev \subseteq mn.sev
          \/ toMn[c][1].sig.tx = mn.entries /\ mn'.sev \subseteq mn.sev \cup {toMn[c][1].sig}
        BY <1>1, <2>1
    <2>5. ASSUME NEW d \in Client, NEW h \in Signature, Signs(d, toMn'[d], mn', h) PROVE Signs(d, toMn[d], mn, h)
        BY <1>1, <1>2, <1>3, <2>3, <2>4, <2>5, SignsKept
    <2>6. mn'.state = "SIGNING" => mn.state \in Sealed
        BY <2>3 DEF Sealed
    <2> DEFINE R == {Status(mn.sessionID, mn.state)}
    <2>7. (\A d \in Client : Relayed(toClient[d], toClient'[d], R)) /\ Says(R, mn, mn') /\ Moves(mn, mn', sessions)
        BY <1>1, <2>1, <2>2
    <2> HIDE DEF R
    <2>8. ASSUME NEW d \in Client \ overlapped PROVE Knows(d, toMn'[d], toClient'[d], pool[d], mn')
        BY <1>2, <2>5, <2>6, <2>7, BystanderKnows
    <2> QED BY <2>7, <2>8
<1>5. CASE DssLast(Mn, x, g)
    <2>1. /\ Moves(Mn.pool, x.pool, sessions) /\ x.pool.state # "SIGNING"
          /\ \E R : Says(R, Mn.pool, x.pool) /\ \A d \in Client : Relayed(Mn.net[d], x.net[d], R)
        BY <1>1, <1>5, LastMoves
    <2>2. PICK R : Says(R, mn, mn') /\ \A d \in Client : Relayed(toClient[d], toClient'[d], R)
        BY <1>1, <2>1
    <2>3. Moves(mn, mn', sessions) /\ mn'.state # "SIGNING"
        BY <1>1, <2>1
    <2>4. ASSUME NEW d \in Client \ overlapped PROVE Knows(d, toMn'[d], toClient'[d], pool[d], mn')
        BY <1>2, <2>2, <2>3, BystanderKnows
    <2> QED BY <2>3, <2>4
<1> QED BY <1>4, <1>5 DEF MnTakes

\* What they know, and how old the session is that it signs.
LEMMA AllKnow ==
    ASSUME KnowInv, Moves(mn, mn', sessions), pool' = pool, overlapped' = overlapped,
           \A d \in Client \ overlapped : Knows(d, toMn'[d], toClient'[d], pool[d], mn')
    PROVE  KnowInv'
<1>1. ASSUME mn'.state = "SIGNING" PROVE mn'.age <= QueueTimeout /\ mn'.age <= SigningTimeout
    <2>1. \/ mn.state = "SIGNING" /\ mn'.age = mn.age
          \/ mn'.age = 0
        BY <1>1 DEF Moves, SigningMoves
    <2>2. QueueTimeout \in Nat /\ SigningTimeout \in Nat
        BY DarksendAssumption
    <2> QED BY <2>1, <2>2 DEF KnowInv
<1>2. \A d \in Client \ overlapped' : Knows(d, toMn'[d], toClient'[d], pool'[d], mn')
    OBVIOUS
<1> QED BY <1>1, <1>2 DEF KnowInv, Knows, Asked, Single, Silent, Idle, Refused, MsgOk, StatusOk, LateOk, ReadyOk, SignedOk,
                          Ready, Awaits, Holds, Signs, KeepsLate

LEMMA MnReceiveKnows ==
    ASSUME IInv, FitInv, KnowInv, Typed', NEW c \in Client, MnReceive(c)
    PROVE  KnowInv'
<1>1. Typed /\ MnInv(mn) /\ Mn.pool = mn /\ Mn.net = toClient /\ DOMAIN toMn = Client
    BY MnWorld DEF IInv, FitInv, Typed
<1>2. /\ toMn[c] # <<>> /\ toMn[c][1] \in ToMn
      /\ toMn' = [toMn EXCEPT ![c] = Tail(toMn[c])]
      /\ pool' = pool
      /\ \E x : /\ mn' = x.pool /\ toClient' = x.net
                /\ MnTakes(Mn, x, c, toMn[c][1])
    BY MnReceiveOutcome
<1>3. PICK x : mn' = x.pool /\ toClient' = x.net /\ MnTakes(Mn, x, c, toMn[c][1])
    BY <1>2
<1>4. EntriesGo
    BY <1>1, <1>2, <1>3, TakesEntries
<1>5. toMn[c][1].type \in {"dsa", "dsi"} \/ toMn[c][1].type = "dss"
    BY <1>2 DEF ToMn
<1>6. Moves(mn, mn', sessions) /\ \A d \in Client \ overlapped : Knows(d, toMn'[d], toClient'[d], pool[d], mn')
    BY <1>2, <1>3, <1>4, <1>5, DialogKnows, SignatureKnows
<1>7. overlapped' = overlapped
    BY DEF MnReceive
<1> QED BY <1>2, <1>6, <1>7, AllKnow

\* A timer of the primenode, after which it does not sign.
LEMMA MnTimerKnows ==
    ASSUME IInv, FitInv, KnowInv, Typed', EntriesGo, toMn' = toMn, pool' = pool, overlapped' = overlapped,
           Moves(mn, mn', sessions), mn'.state # "SIGNING",
           NEW R, \A d \in Client : Relayed(toClient[d], toClient'[d], R), Says(R, mn, mn')
    PROVE  KnowInv'
<1>1. ASSUME NEW d \in Client \ overlapped PROVE Knows(d, toMn'[d], toClient'[d], pool[d], mn')
    <2>1. toMn'[d] \in Seq(ToMn) /\ toClient'[d] \in Seq(FromMn(sessions')) /\ toMn[d] \in Seq(ToMn)
        BY DEF Typed, IInv
    <2>2. Len(toMn'[d]) \in Nat /\ Len(toClient'[d]) \in Nat /\ Suffix(toMn[d], toMn'[d])
        BY <2>1, LenProperties, SuffixFacts
    <2> QED BY <2>2, BystanderKnows
<1> QED BY <1>1, AllKnow

LEMMA CheckForCompleteQueueKnows ==
    ASSUME IInv, FitInv, KnowInv, Typed', CheckForCompleteQueue
    PROVE  KnowInv'
<1>1. Typed /\ Mn.pool = mn /\ Mn.net = toClient /\ Mn \in World(sessions) /\ sessions \in Nat /\ MnInv(Mn.pool)
    BY MnWorld DEF IInv, FitInv
<1>2. /\ Mn.pool.state = "QUEUE" /\ toMn' = toMn /\ pool' = pool /\ overlapped' = overlapped
    BY <1>1 DEF CheckForCompleteQueue
<1> DEFINE x == Relay(UpdateState(Mn, "ACCEPTING_ENTRIES"), [type |-> "dsq"])
<1>3. mn' = x.pool /\ toClient' = x.net
    BY DEF CheckForCompleteQueue
<1>4. /\ x.pool.sessionID = Mn.pool.sessionID /\ x.pool.state = "ACCEPTING_ENTRIES" /\ x.pool.entries = Mn.pool.entries
      /\ \A d \in Client : Relayed(Mn.net[d], x.net[d], {Status(Mn.pool.sessionID, "QUEUE"), [type |-> "dsq"]})
    BY <1>1, <1>2, CompleteQueueOutcome
<1> HIDE DEF x
<1>5. mn.state \in Collecting /\ mn.state \notin Sealed /\ mn'.state \in Collecting
    BY <1>1, <1>2, <1>3, <1>4 DEF Collecting, Sealed
<1>6. Moves(mn, mn', sessions) /\ mn'.state # "SIGNING"
    BY <1>1, <1>3, <1>4, <1>5, CollectingMoves
<1>7. EntriesGo
    BY <1>1, <1>3, <1>4, <1>5 DEF EntriesGo
<1> DEFINE R == {Status(mn.sessionID, "QUEUE"), [type |-> "dsq"]}
<1>8. "QUEUE" \notin Ended /\ "QUEUE" \notin Late
    BY DEF Ended, Late
<1>9. Honest(Status(mn.sessionID, "QUEUE"), mn, mn') /\ ~ Dialog(Status(mn.sessionID, "QUEUE"))
    BY <1>6, <1>8, HonestStatus
<1>10. Honest([type |-> "dsq"], mn, mn') /\ ~ Dialog([type |-> "dsq"])
    BY <1>6 DEF Honest, MsgOk, Dialog
<1>11. Says(R, mn, mn')
    BY <1>9, <1>10 DEF Says
<1>12. \A d \in Client : Relayed(toClient[d], toClient'[d], R)
    BY <1>1, <1>3, <1>4
<1> HIDE DEF R
<1> QED BY <1>2, <1>6, <1>7, <1>11, <1>12, MnTimerKnows

LEMMA MnTimeoutKnows ==
    ASSUME IInv, FitInv, KnowInv, Typed', MnTimeout
    PROVE  KnowInv'
<1>1. mn' = NullMn /\ Nulled(NullMn) /\ NullMn.entries = {} /\ toMn' = toMn /\ pool' = pool /\ toClient' = toClient
      /\ overlapped' = overlapped
    <2>1. Typed /\ sessions \in Nat /\ Mn \in World(sessions)
        BY MnWorld DEF IInv
    <2>2. mn' = NullMn
        BY <2>1, SetNullTyped DEF MnTimeout
    <2> QED BY <2>2, NullMnFields DEF MnTimeout
<1>2. Moves(mn, mn', sessions) /\ mn'.state # "SIGNING"
    BY <1>1, NulledMoves
<1>3. EntriesGo
    BY <1>1 DEF EntriesGo
<1>4. ASSUME NEW d \in Client PROVE Relayed(toClient[d], toClient'[d], {})
    <2>1. toClient[d] \in Seq(FromMn(sessions))
        BY DEF IInv, Typed
    <2> QED BY <1>1, <2>1, RelayedNothing
<1>5. Says({}, mn, mn')
    BY DEF Says
<1> QED BY <1>1, <1>2, <1>3, <1>4, <1>5, MnTimerKnows

LEMMA MnExpireEntryKnows ==
    ASSUME IInv, FitInv, KnowInv, Typed', MnExpireEntry
    PROVE  KnowInv'
<1>1. Typed /\ Mn.pool = mn /\ Mn.net = toClient /\ Mn \in World(sessions) /\ sessions \in Nat /\ MnInv(Mn.pool)
    BY MnWorld DEF IInv, FitInv
<1>2. PICK e \in mn.entries : mn' = Erase(Mn, e).pool /\ toClient' = Erase(Mn, e).net
    BY DEF MnExpireEntry
<1>3. mn.state \in Collecting /\ mn.state \notin Sealed /\ toMn' = toMn /\ pool' = pool /\ overlapped' = overlapped
    BY DEF MnExpireEntry, Collecting, Sealed
<1> DEFINE x == Erase(Mn, e)
<1>4. mn' = x.pool /\ toClient' = x.net
    BY <1>2
<1>5. \/ Nulled(x.pool) /\ \A d \in Client : Relayed(Mn.net[d], x.net[d], {Status(0, "IDLE")})
      \/ /\ x.pool.sessionID = Mn.pool.sessionID /\ x.pool.state = Mn.pool.state /\ x.pool.entries = Mn.pool.entries \ {e}
         /\ \A d \in Client : Relayed(Mn.net[d], x.net[d], {Status(Mn.pool.sessionID, Mn.pool.state)})
    BY <1>1, <1>3, EraseOutcome
<1> HIDE DEF x
<1>6. mn'.entries \subseteq mn.entries
    BY <1>1, <1>4, <1>5 DEF Nulled
<1>7. EntriesGo
    BY <1>3, <1>6 DEF EntriesGo
<1>8. CASE Nulled(x.pool) /\ \A d \in Client : Relayed(Mn.net[d], x.net[d], {Status(0, "IDLE")})
    <2> DEFINE R == {Status(0, "IDLE")}
    <2>1. Moves(mn, mn', sessions) /\ mn'.state # "SIGNING" /\ Says(R, mn, mn')
        BY <1>4, <1>8, NulledMoves
    <2>2. \A d \in Client : Relayed(toClient[d], toClient'[d], R)
        BY <1>1, <1>4, <1>8
    <2> HIDE DEF R
    <2> QED BY <1>3, <1>7, <2>1, <2>2, MnTimerKnows
<1>9. CASE /\ x.pool.sessionID = Mn.pool.sessionID /\ x.pool.state = Mn.pool.state
           /\ \A d \in Client : Relayed(Mn.net[d], x.net[d], {Status(Mn.pool.sessionID, Mn.pool.state)})
    <2> DEFINE R == {Status(mn.sessionID, mn.state)}
    <2>1. mn.state \notin Ended /\ mn.state \notin Late
        BY <1>3 DEF Collecting, Ended, Late
    <2>2. Moves(mn, mn', sessions) /\ mn'.state # "SIGNING"
        BY <1>1, <1>3, <1>4, <1>9, CollectingMoves
    <2>3. Honest(Status(mn.sessionID, mn.state), mn, mn') /\ ~ Dialog(Status(mn.sessionID, mn.state))
        BY <2>1, <2>2, HonestStatus
    <2>4. Says(R, mn, mn')
        BY <2>3 DEF Says
    <2>5. \A d \in Client : Relayed(toClient[d], toClient'[d], R)
        BY <1>1, <1>4, <1>9
    <2> HIDE DEF R
    <2> QED BY <1>3, <1>7, <2>2, <2>4, <2>5, MnTimerKnows
<1> QED BY <1>5, <1>8, <1>9

\* Nothing is under way any more.
LEMMA KnowsAlone ==
    ASSUME NEW c, NEW q, NEW t, NEW k, NEW p, Knows(c, q, t, k, p), NEW w, 1..Len(w) = {}
    PROVE  Knows(c, w, w, k, p)
<1>1. 1..Len(w) = {}
    OBVIOUS
<1>2. Silent(w) /\ Idle(w, w) /\ Single(w, w)
    BY <1>1 DEF Silent, Idle, Single
<1>3. Asked(w, w, k, p.entries)
    <2>1. Asked(q, t, k, p.entries)
        BY DEF Knows
    <2>2. Refused(k, w) => Refused(k, t)
        BY <1>1 DEF Refused
    <2>3. k.entries # {} => k.submitted = TRUE
        BY <2>1 DEF Asked
    <2>4. Refused(k, w) => k.entries \cap p.entries = {}
        BY <2>1, <2>2 DEF Asked
    <2> QED BY <1>1, <1>2, <2>3, <2>4 DEF Asked
<1>4. ReadyOk(w, k, p)
    BY <1>1 DEF ReadyOk
<1>5. ASSUME p.state = "SIGNING", NEW g \in Signature, Signs(c, w, p, g) PROVE Holds(w, w, k, p, g)
    <2>1. Signs(c, q, p, g)
        BY <1>1, <1>5 DEF Signs
    <2>2. Holds(q, t, k, p, g)
        BY <1>5, <2>1 DEF Knows, SignedOk
    <2>3. Ready(w, k, p)
        BY <1>1, <2>2 DEF Holds, Ready
    <2> QED BY <1>2, <2>2, <2>3 DEF Holds
<1>6. LateOk(k, p)
    BY DEF Knows
<1> QED BY <1>1, <1>3, <1>4, <1>5, <1>6 DEF Knows, SignedOk

LEMMA DisconnectKnows ==
    ASSUME IInv, KnowInv, NEW c \in Client, Disconnect(c)
    PROVE  KnowInv'
<1>1. /\ toMn' = [toMn EXCEPT ![c] = <<>>] /\ toClient' = [toClient EXCEPT ![c] = <<>>]
      /\ mn' = mn /\ pool' = pool /\ overlapped' = overlapped
    BY DEF Disconnect
<1>2. DOMAIN toMn = Client /\ DOMAIN toClient = Client
    BY DEF IInv, Typed
<1>3. ASSUME NEW d \in Client \ overlapped PROVE Knows(d, toMn'[d], toClient'[d], pool[d], mn')
    <2>1. Knows(d, toMn[d], toClient[d], pool[d], mn)
        BY DEF KnowInv
    <2>2. CASE d = c
        <3>1. toMn'[d] = <<>> /\ toClient'[d] = <<>>
            BY <1>1, <1>2, <2>2
        <3>2. 1..Len(toMn'[d]) = {}
            BY <3>1, EmptySeq
        <3> QED BY <1>1, <2>1, <3>1, <3>2, KnowsAlone
    <2>3. CASE d # c
        <3>1. toMn'[d] = toMn[d] /\ toClient'[d] = toClient[d]
            BY <1>1, <1>2, <2>3
        <3> QED BY <1>1, <2>1, <3>1
    <2> QED BY <2>2, <2>3
<1>4. Moves(mn, mn', sessions)
    <2>1. SessionMoves(mn, mn, sessions)
        BY DEF SessionMoves
    <2>2. SigningMoves(mn, mn)
        BY DEF SigningMoves
    <2> QED BY <1>1, <2>1, <2>2 DEF Moves
<1> QED BY <1>1, <1>3, <1>4, AllKnow

\* The ages say only which is the greater.
LEMMA KnowsAged ==
    ASSUME NEW c, NEW q, NEW t, NEW k, NEW p, Knows(c, q, t, k, p), NEW j, NEW r, LateOk(j, r),
           j.state = k.state, j.sessionID = k.sessionID, j.found = k.found, j.entries = k.entries,
           j.submitted = k.submitted,
           r.state = p.state, r.sessionID = p.sessionID, r.entries = p.entries, r.sev = p.sev
    PROVE  Knows(c, q, t, j, r)
<1>1. Refused(j, t) => Refused(k, t)
    BY DEF Refused
<1>2. Asked(q, t, j, r.entries)
    BY <1>1 DEF Knows, Asked
<1>3. ASSUME NEW i \in 1..Len(t) PROVE MsgOk(t[i], r)
    <2>1. MsgOk(t[i], p)
        BY DEF Knows
    <2> QED BY <2>1 DEF MsgOk, StatusOk
<1>4. Ready(t, k, p) => Ready(t, j, r)
    BY DEF Ready
<1>5. Awaits(t, p) => Awaits(t, r)
    BY DEF Awaits
<1>6. r.state = "SIGNING" => ReadyOk(t, j, r)
    BY <1>4, <1>5 DEF Knows, ReadyOk
<1>7. ASSUME r.state = "SIGNING", NEW g \in Signature, Signs(c, q, r, g) PROVE Holds(q, t, j, r, g)
    <2>1. Signs(c, q, p, g)
        BY <1>7 DEF Signs
    <2>2. Holds(q, t, k, p, g)
        BY <1>7, <2>1 DEF Knows, SignedOk
    <2> QED BY <1>4, <2>2 DEF Holds
<1> QED BY <1>2, <1>3, <1>6, <1>7 DEF Knows, SignedOk

LEMMA TickKnows ==
    ASSUME IInv, KnowInv, Tick
    PROVE  KnowInv'
<1>1. mn \in MnPool(sessions) /\ mn.age \in Nat /\ toMn' = toMn /\ toClient' = toClient /\ overlapped' = overlapped
    BY DEF IInv, Typed, Tick, MnPool
<1>2. /\ mn'.state = mn.state /\ mn'.sessionID = mn.sessionID /\ mn'.entries = mn.entries /\ mn'.sev = mn.sev
      /\ mn.state # "IDLE" => mn'.age = mn.age + 1
    BY <1>1 DEF Tick, MnPool
<1>3. ASSUME NEW c \in Client \ overlapped
      PROVE  Knows(c, toMn'[c], toClient'[c], pool'[c], mn')
    <2>1. pool[c] \in ClientPool(sessions) /\ pool'[c] = [pool[c] EXCEPT !.age = @ + 1]
        BY DEF IInv, Typed, Tick
    <2>2. /\ pool'[c].state = pool[c].state /\ pool'[c].sessionID = pool[c].sessionID /\ pool'[c].found = pool[c].found
          /\ pool'[c].entries = pool[c].entries /\ pool'[c].submitted = pool[c].submitted
          /\ pool'[c].age = pool[c].age + 1 /\ pool[c].age \in Nat
        BY <2>1 DEF ClientPool
    <2>3. Knows(c, toMn[c], toClient[c], pool[c], mn)
        BY DEF KnowInv
    <2>4. LateOk(pool[c], mn)
        BY <2>3 DEF Knows
    <2>5. LateOk(pool'[c], mn')
        BY <1>1, <1>2, <2>2, <2>4 DEF LateOk
    <2> DEFINE j == pool'[c]
               r == mn'
               k == pool[c]
    <2>6. /\ Knows(c, toMn[c], toClient[c], k, mn) /\ LateOk(j, r)
          /\ j.state = k.state /\ j.sessionID = k.sessionID /\ j.found = k.found /\ j.entries = k.entries
          /\ j.submitted = k.submitted
          /\ r.state = mn.state /\ r.sessionID = mn.sessionID /\ r.entries = mn.entries /\ r.sev = mn.sev
        BY <1>2, <2>2, <2>3, <2>5
    <2> HIDE DEF j, r, k
    <2>7. Knows(c, toMn[c], toClient[c], j, r)
        BY ONLY <2>6, KnowsAged
    <2> QED BY <1>1, <2>7 DEF j, r
<1>4. ASSUME mn'.state = "SIGNING" PROVE mn'.age <= QueueTimeout /\ mn'.age <= SigningTimeout
    <2>1. QueueTimeout \in Nat /\ SigningTimeout \in Nat
        BY DarksendAssumption
    <2>2. ~ (mn.age >= QueueTimeout) /\ ~ (mn.age >= SigningTimeout)
        BY <1>2, <1>4 DEF Tick, MnDue
    <2> QED BY <1>1, <1>2, <1>4, <2>1, <2>2
<1>5. \A c \in Client \ overlapped' : Knows(c, toMn'[c], toClient'[c], pool'[c], mn')
    BY <1>1, <1>3
<1> QED BY <1>4, <1>5 DEF KnowInv, Knows, Asked, Single, Silent, Idle, Refused, MsgOk, StatusOk, LateOk, ReadyOk, SignedOk,
                          Ready, Awaits, Holds, Signs, KeepsLate

LEMMA InitKnows == Init => KnowInv
<1> SUFFICES ASSUME Init PROVE KnowInv
    OBVIOUS
<1>1. mn = NullMn /\ NullMn.state = "IDLE" /\ NullMn.sessionID = 0
    BY NullMnFields DEF Init
<1>2. ASSUME NEW c \in Client PROVE Knows(c, toMn[c], toClient[c], pool[c], mn)
    <2>1. toMn[c] = <<>> /\ toClient[c] = <<>> /\ pool[c].state = "IDLE" /\ pool[c].entries = {}
        BY DEF Init
    <2>2. 1..Len(toMn[c]) = {} /\ 1..Len(toClient[c]) = {}
        BY <2>1, EmptySeq
    <2>3. Silent(toMn[c]) /\ Silent(toClient[c]) /\ Single(toMn[c], toClient[c])
        BY <2>2 DEF Silent, Single
    <2>4. Asked(toMn[c], toClient[c], pool[c], mn.entries)
        BY <2>1, <2>3 DEF Asked, Idle
    <2>5. LateOk(pool[c], mn)
        BY <2>1 DEF LateOk, Late
    <2> QED BY <1>1, <2>2, <2>4, <2>5 DEF Knows
<1> QED BY <1>1, <1>2 DEF KnowInv

\* A participant takes message m, and is right about the transaction.
LEMMA LateTakes ==
    ASSUME NEW c, NEW k, NEW m, NEW j, MessageTaken(c, k, m, j), NEW p, MsgOk(m, p), p.age \in Nat, LateOk(k.pool, p)
    PROVE  LateOk(j.pool, p)
<1> SUFFICES ASSUME j.pool.state \in Late, j.pool.sessionID = p.sessionID, p.sessionID # 0
             PROVE  p.state \in Sealed /\ (p.state = "SIGNING" => j.pool.age <= p.age)
    BY DEF LateOk
<1>1. CASE j.pool = k.pool
    BY <1>1 DEF LateOk
<1>2. CASE Left(j) \/ Requests(j)
    BY <1>2 DEF Left, Requests
<1>3. CASE m.type = "dssu" /\ StatusTaken(k, m, j)
    <2>1. StatusOk(m, p)
        BY <1>3 DEF MsgOk
    <2>2. CASE m.accepted = -1 /\ m.id = k.pool.sessionID /\ Kept(k, j) /\ Enters(k, j, m.state)
        <3>1. j.pool.state = m.state /\ j.pool.sessionID = m.id /\ k.pool.sessionID = m.id
            BY <2>2 DEF Kept, Enters
        <3>2. p.state \in Sealed
            BY <2>1, <3>1 DEF StatusOk
        <3>3. CASE k.pool.state # m.state
            <4>1. j.pool.age = 0
                BY <2>2, <3>3 DEF Enters
            <4> QED BY <3>2, <4>1
        <3>4. CASE k.pool.state = m.state
            <4>1. j.pool.age = k.pool.age
                BY <2>2, <3>4 DEF Enters
            <4> QED BY <3>1, <3>4, <4>1 DEF LateOk
        <3> QED BY <3>3, <3>4
    <2>3. CASE m.accepted = 0 /\ Kept(k, j) /\ j.pool.state \in {"ERROR", "ACCEPTING_ENTRIES"}
        BY <2>3 DEF Late
    <2>4. CASE m.accepted = 1 /\ (m.id # 0 => j.pool.state \in {m.state, "QUEUE"})
        <3>1. j.pool.state \in {m.state, "QUEUE"} /\ m.state \in Collecting
            BY <2>1, <2>4 DEF StatusOk
        <3> QED BY <3>1 DEF Collecting, Late
    <2> QED BY <1>1, <1>2, <1>3, <2>2, <2>3, <2>4 DEF StatusTaken
<1>4. CASE m.type = "dsq" /\ DsqTaken(c, k, j)
    BY <1>1, <1>2, <1>4 DEF DsqTaken, Late
<1>5. CASE m.type = "dsf" /\ DsfTaken(k, m, j)
    BY <1>1, <1>2, <1>5 DEF DsfTaken
<1> QED BY <1>1, <1>2, <1>3, <1>4, <1>5 DEF MessageTaken

\* A participant with an entry in the transaction has heard of it.
Aware(k, p) == k.sessionID = p.sessionID /\ k.entries \cap p.entries # {} => k.state \in Late
\* The status by which it hears of it.
Tells(m, p) == m.type = "dssu" /\ m.accepted = -1 /\ m.id = p.sessionID /\ m.state \in Late

\* The next entry that c makes is none of es; and what is sent goes behind q.
NextNew(c, es) == \A e \in Entry : Owner[e.coin] = c /\ e.out = made[c] + 1 => e \notin es
Queued(q, j, w) == (j.sent = <<>> => w = q) /\ \A x \in ToMn : j.sent = <<x>> => w = Append(q, x)

LEMMA AwareTakes ==
    ASSUME NEW c, NEW k, NEW m, NEW j, MessageTaken(c, k, m, j), NEW p, NEW q, NEW t, 1 \in 1..Len(t), m = t[1],
           Asked(q, t, k.pool, p.entries), KeepsLate(m, p.sessionID), Aware(k.pool, p) \/ Tells(m, p),
           NextNew(c, p.entries)
    PROVE  Aware(j.pool, p)
<1> SUFFICES ASSUME j.pool.sessionID = p.sessionID, j.pool.entries \cap p.entries # {} PROVE j.pool.state \in Late
    BY DEF Aware
<1>1. ASSUME j.pool = k.pool, Aware(k.pool, p) \/ k.pool.state \in Ended \/ k.pool.submitted = FALSE PROVE j.pool.state \in Late
    <2>1. CASE Aware(k.pool, p)
        BY <1>1, <2>1 DEF Aware
    <2>2. CASE k.pool.state \in Ended
        BY <1>1, <2>2 DEF Asked, Refused
    <2>3. CASE k.pool.submitted = FALSE
        BY <1>1, <2>3 DEF Asked
    <2> QED BY <1>1, <2>1, <2>2, <2>3
<1>2. CASE Left(j) \/ Requests(j)
    BY <1>2 DEF Left, Requests
<1>3. CASE k.pool.submitted = FALSE /\ j = k
    BY <1>1, <1>3
<1>4. CASE m.type = "dssu" /\ StatusTaken(k, m, j)
    <2>1. m.accepted # 1 /\ (m.accepted = -1 /\ m.id = p.sessionID => m.state \in Late)
        BY <1>4 DEF KeepsLate
    <2>2. CASE j = k /\ ((m.accepted = -1 /\ k.pool.sessionID # m.id) \/ k.pool.state \in Ended)
        <3>1. ~ Tells(m, p) \/ k.pool.state \in Ended
            BY <2>2 DEF Tells
        <3> QED BY <1>1, <2>2, <3>1
    <2>3. CASE m.accepted = -1 /\ m.id = k.pool.sessionID /\ Kept(k, j) /\ Enters(k, j, m.state)
        BY <2>1, <2>3 DEF Kept, Enters
    <2>4. CASE m.accepted = 0 /\ Kept(k, j)
        <3>1. Dialog(t[1]) /\ t[1].accepted = 0
            BY <1>4, <2>4 DEF Dialog
        <3>2. k.pool.entries \cap p.entries = {}
            BY <3>1 DEF Asked, Refused
        <3> QED BY <2>4, <3>2 DEF Kept
    <2> QED BY <1>2, <1>4, <2>1, <2>2, <2>3, <2>4 DEF StatusTaken
<1>5. CASE m.type # "dssu"
    <2>1. Aware(k.pool, p)
        BY <1>5 DEF Tells
    <2>2. CASE m.type = "dsq" /\ DsqTaken(c, k, j)
        <3>1. CASE j = k
            BY <1>1, <2>1, <3>1
        <3>2. ASSUME NEW e \in Entry, Owner[e.coin] = c, e.out = made[c] + 1, j.pool.entries = {e} PROVE FALSE
            <4>1. e \notin p.entries
                BY <3>2 DEF NextNew
            <4> QED BY <3>2, <4>1
        <3> QED BY <1>2, <2>2, <3>1, <3>2 DEF DsqTaken
    <2>3. CASE m.type = "dsf" /\ DsfTaken(k, m, j)
        BY <1>1, <1>2, <2>1, <2>3 DEF DsfTaken
    <2> QED BY <1>1, <1>2, <1>3, <1>5, <2>1, <2>2, <2>3 DEF MessageTaken
<1> QED BY <1>2, <1>3, <1>4, <1>5 DEF MessageTaken

\* What is left of what is under way.
LEMMA ReadyTakes ==
    ASSUME NEW c, NEW k, NEW j, NEW p, NEW q, NEW t, NEW u, NEW n \in Nat, t \in Seq(FromMn(n)), t # <<>>, u = Tail(t),
           MessageTaken(c, k, t[1], j),
           Asked(q, t, k.pool, p.entries), ReadyOk(t, k.pool, p),
           NextNew(c, p.entries)
    PROVE  /\ Ready(t, k.pool, p) => Ready(u, j.pool, p)
           /\ ReadyOk(u, j.pool, p)
<1>1. /\ Len(t) \in Nat \ {0} /\ Len(u) = Len(t) - 1 /\ \A i \in 1..Len(u) : u[i] = t[i + 1]
    BY SuffixFacts, HeadTailProperties
<1>2. 1 \in 1..Len(t) /\ \A i \in 1..Len(u) : i + 1 \in 1..Len(t) /\ u[i] = t[i + 1]
    BY <1>1
<1>3. ASSUME \A i \in 1..Len(t) : KeepsLate(t[i], p.sessionID), Aware(k.pool, p) \/ Tells(t[1], p)
      PROVE  Ready(u, j.pool, p)
    <2>1. KeepsLate(t[1], p.sessionID)
        BY <1>2, <1>3
    <2>2. Aware(j.pool, p)
        BY <1>2, <1>3, <2>1, AwareTakes
    <2>3. \A i \in 1..Len(u) : KeepsLate(u[i], p.sessionID)
        BY <1>2, <1>3
    <2> QED BY <2>2, <2>3 DEF Ready, Aware
<1>4. Ready(t, k.pool, p) => Ready(u, j.pool, p)
    BY <1>3 DEF Ready, Aware
<1>5. ASSUME Awaits(t, p) PROVE Ready(u, j.pool, p) \/ Awaits(u, p)
    <2>1. PICK l \in 1..Len(t) : /\ Tells(t[l], p)
                                 /\ \A i \in l..Len(t) : KeepsLate(t[i], p.sessionID)
                                 /\ \A i \in 1..l : ~ (t[i].type = "dsf" /\ t[i].id = p.sessionID)
        BY <1>5 DEF Awaits, Tells
    <2>2. CASE l = 1
        BY <1>3, <2>1, <2>2
    <2>3. CASE l # 1
        <3>1. PICK h \in 1..Len(u) : h + 1 = l
            <4>1. l - 1 \in 1..Len(u) /\ (l - 1) + 1 = l
                BY <1>1, <2>3
            <4> QED BY <4>1
        <3>2. Tells(u[h], p)
            BY <1>2, <2>1, <3>1
        <3>3. ASSUME NEW i \in h..Len(u) PROVE KeepsLate(u[i], p.sessionID)
            <4>1. i \in 1..Len(u) /\ i + 1 \in l..Len(t)
                BY <1>1, <3>1
            <4> QED BY <1>2, <2>1, <4>1
        <3>4. ASSUME NEW i \in 1..h PROVE ~ (u[i].type = "dsf" /\ u[i].id = p.sessionID)
            <4>1. i \in 1..Len(u) /\ i + 1 \in 1..l
                BY <1>1, <3>1
            <4> QED BY <1>2, <2>1, <4>1
        <3> QED BY <3>2, <3>3, <3>4 DEF Awaits, Tells
    <2> QED BY <2>2, <2>3
<1>6. (\E i \in 1..Len(u) : u[i].type = "dsf" /\ u[i].id = p.sessionID) =>
         \E i \in 1..Len(t) : t[i].type = "dsf" /\ t[i].id = p.sessionID
    BY <1>2
<1>7. ReadyOk(u, j.pool, p)
    BY <1>4, <1>5, <1>6 DEF ReadyOk
<1> QED BY <1>4, <1>7

\* A participant with messages t under way takes the first, and what it sends is queued.
Taking(n, c, q, t, u, k, j, p, w) ==
    /\ n \in Nat /\ q \in Seq(ToMn) /\ t \in Seq(FromMn(n)) /\ t # <<>> /\ u = Tail(t) /\ k.sent = <<>>
    /\ MessageTaken(c, k, t[1], j) /\ MsgOk(t[1], p) /\ p.sessionID # 0
    /\ \A e \in k.pool.entries : k.pool.entries = {e}
    /\ Queued(q, j, w)

\* Who has signed and takes a message keeps its entry, and asks nothing.
LEMMA HoldsTakes ==
    ASSUME NEW n, NEW c, NEW q, NEW t, NEW u, NEW k, NEW j, NEW p, NEW w, Taking(n, c, q, t, u, k, j, p, w),
           Ready(u, j.pool, p), NEW g, Holds(q, t, k.pool, p, g)
    PROVE  Holds(w, u, j.pool, p, g)
<1> SUFFICES ASSUME n \in Nat, q \in Seq(ToMn), t \in Seq(FromMn(n)), t # <<>>, u = Tail(t), k.sent = <<>>,
                    MessageTaken(c, k, t[1], j), MsgOk(t[1], p), p.sessionID # 0,
                    \A e \in k.pool.entries : k.pool.entries = {e}, Queued(q, j, w)
             PROVE  Holds(w, u, j.pool, p, g)
    BY DEF Taking
<1> DEFINE m == t[1]
<1>1. Silent(q) /\ Silent(t) /\ k.pool.sessionID = p.sessionID
    BY DEF Holds, Idle
<1>2. PICK e \in k.pool.entries : e \in p.entries /\ e.coin = g.coin
    BY DEF Holds
<1>3. k.pool.state \in Late
    BY <1>1, <1>2 DEF Holds, Ready
<1>4. Len(t) \in Nat /\ 1 \in 1..Len(t) /\ Suffix(t, u) /\ Len(u) \in Nat /\ m \in FromMn(n)
    <2>1. Len(t) \in Nat \ {0} /\ Suffix(t, u) /\ u \in Seq(FromMn(n))
        BY SuffixFacts, HeadTailProperties
    <2>2. 1 \in 1..Len(t)
        BY <2>1
    <2>3. m \in FromMn(n)
        BY <2>2, ElementOfSeq
    <2> QED BY <2>1, <2>2, <2>3, LenProperties
<1>5. ~ Dialog(m)
    BY <1>1, <1>4 DEF Silent
<1> DEFINE Goal == /\ j.pool.entries = k.pool.entries /\ j.pool.sessionID = k.pool.sessionID
                   /\ w = q \/ \E x \in ToMn : ~ Dialog(x) /\ w = Append(q, x)
<1>6. ASSUME j = k PROVE Goal
    BY <1>6 DEF Queued
<1>7. ASSUME m.type = "dssu" /\ StatusTaken(k, m, j) PROVE Goal
    <2>1. m.accepted = -1
        BY <1>5, <1>7 DEF Dialog
    <2>2. j = k \/ Kept(k, j)
        BY <1>7, <2>1 DEF StatusTaken
    <2> QED BY <1>6, <2>2 DEF Kept, Queued
<1>8. ASSUME m.type = "dsq" /\ DsqTaken(c, k, j) PROVE Goal
    BY <1>3, <1>6, <1>8 DEF DsqTaken, Late
<1>9. ASSUME m.type = "dsf" /\ DsfTaken(k, m, j) PROVE Goal
    <2>1. CASE k.pool.sessionID = m.id /\ \E f \in k.pool.entries : f \notin m.tx
        <3>1. m.tx = p.entries
            BY <1>1, <1>9, <2>1 DEF MsgOk
        <3>2. PICK f \in k.pool.entries : f \notin m.tx
            BY <2>1
        <3>3. f = e
            BY <1>2
        <3> QED BY <1>2, <3>1, <3>2, <3>3
    <2>2. CASE j.pool = k.pool /\ \E f \in k.pool.entries :
                 f \in m.tx /\ j.sent = <<[type |-> "dss", sig |-> [coin |-> f.coin, tx |-> m.tx]]>>
        <3>1. PICK x : x.type = "dss" /\ j.sent = <<x>> /\ \E f \in k.pool.entries :
                         f \in m.tx /\ x = [type |-> "dss", sig |-> [coin |-> f.coin, tx |-> m.tx]]
            BY <2>2
        <3>2. m.tx \subseteq Entry
            BY <1>4, <1>9 DEF FromMn
        <3>3. x \in ToMn /\ ~ Dialog(x)
            BY <3>1, <3>2, EntryFacts DEF ToMn, Signature, Dialog
        <3> QED BY <2>2, <3>1, <3>3 DEF Queued
    <2> QED BY <1>6, <1>9, <2>1, <2>2 DEF DsfTaken
<1>10. ASSUME m.type = "dsc" /\ k.pool.sessionID = m.id PROVE Goal
    BY <1>1, <1>10 DEF MsgOk
<1>11. Goal
    BY <1>6, <1>7, <1>8, <1>9, <1>10 DEF MessageTaken
<1>12. Silent(w)
    <2>1. ASSUME NEW x \in ToMn, ~ Dialog(x), w = Append(q, x) PROVE Silent(w)
        <3>1. Fewer(q, w)
            BY <2>1, FewerAppend
        <3> QED BY <1>1, <3>1, FewerSilent
    <2> QED BY <1>1, <1>11, <2>1
<1>13. Silent(u)
    <2>1. Fewer(t, u)
        BY <1>4, FewerSuffix
    <2> QED BY <1>1, <2>1, FewerSilent
<1> QED BY <1>1, <1>2, <1>11, <1>12, <1>13 DEF Holds, Idle

\* Who signs now has its entry in the transaction, has heard of it, and waits for no answer.
LEMMA HoldsNow ==
    ASSUME NEW n \in Nat, NEW q \in Seq(ToMn), NEW t \in Seq(FromMn(n)), t # <<>>,
           NEW k, NEW p, Asked(q, t, k, p.entries), ReadyOk(t, k, p), MsgOk(t[1], p), t[1].type = "dsf", k.sessionID = t[1].id,
           NEW e \in k.entries, k.entries = {e}, e \in t[1].tx, t[1].tx = p.entries,
           \A i \in 1..Len(q) : q[i].type = "dsi" => q[i].entry \notin p.entries,
           NEW g, g.coin = e.coin
    PROVE  Holds(q, t, k, p, g)
<1>1. Len(t) \in Nat /\ 1 \in 1..Len(t) /\ \A i \in 1..Len(t) : t[i] \in FromMn(n)
    <2>1. Len(t) \in Nat \ {0}
        BY SuffixFacts
    <2> QED BY <2>1, ElementOfSeq
<1>2. t[1].id = p.sessionID
    BY DEF MsgOk
<1>3. ~ Awaits(t, p)
    <2>1. ASSUME NEW l \in 1..Len(t) PROVE 1 \in 1..l
        BY <1>1
    <2> QED BY <1>2, <2>1 DEF Awaits
<1>4. Ready(t, k, p)
    BY <1>1, <1>2, <1>3 DEF ReadyOk
<1>5. Silent(q)
    <2>1. ASSUME NEW i \in 1..Len(q), Dialog(q[i]) PROVE FALSE
        <3>1. q[i].type = "dsi" /\ q[i].entry \in k.entries
            BY <2>1 DEF Asked
        <3> QED BY <3>1
    <2> QED BY <2>1 DEF Silent
<1>6. Silent(t)
    <2>1. ASSUME NEW i \in 1..Len(t), Dialog(t[i]) PROVE FALSE
        <3>1. t[i] \in FromMn(n)
            BY <1>1
        <3>2. t[i].type = "dssu" /\ t[i].accepted \in {0, 1}
            BY <2>1, <3>1 DEF Dialog, FromMn
        <3>3. t[i].accepted # 1
            BY <1>4, <3>2 DEF Ready, KeepsLate
        <3>4. Refused(k, t)
            BY <2>1, <3>2, <3>3 DEF Refused
        <3> QED BY <3>4 DEF Asked
    <2> QED BY <2>1 DEF Silent
<1> QED BY <1>2, <1>4, <1>5, <1>6 DEF Holds, Idle

\* What is sent when message m is taken: nothing, a question, or a signature.
Sends(k, m, j) ==
    \/ j.sent = <<>>
    \/ \E x \in ToMn : x.type # "dss" /\ j.sent = <<x>>
    \/ /\ m.type = "dsf" /\ k.pool.sessionID = m.id
       /\ \E e \in k.pool.entries :
            /\ e \in m.tx /\ [type |-> "dss", sig |-> [coin |-> e.coin, tx |-> m.tx]] \in ToMn
            /\ j.sent = <<[type |-> "dss", sig |-> [coin |-> e.coin, tx |-> m.tx]]>>

LEMMA MessageSends ==
    ASSUME NEW n \in Nat, NEW c, NEW k, k.sent = <<>>, NEW j, NEW m \in FromMn(n), MessageTaken(c, k, m, j)
    PROVE  Sends(k, m, j)
<1> DEFINE Goal == \/ j.sent = <<>>
                   \/ \E x \in ToMn : x.type # "dss" /\ j.sent = <<x>>
<1>1. ASSUME j = k \/ Left(j) \/ Kept(k, j) PROVE Goal
    BY <1>1 DEF Left, Kept
<1>2. ASSUME Requests(j) PROVE Goal
    <2>1. [type |-> "dsa"] \in ToMn /\ [type |-> "dsa"].type # "dss"
        BY DEF ToMn
    <2> QED BY <1>2, <2>1 DEF Requests
<1>3. ASSUME StatusTaken(k, m, j) PROVE Goal
    BY <1>1, <1>2, <1>3 DEF StatusTaken
<1>4. ASSUME DsqTaken(c, k, j) PROVE Goal
    <2>1. ASSUME NEW e \in Entry, j.sent = <<[type |-> "dsi", entry |-> e]>> PROVE Goal
        <3>1. [type |-> "dsi", entry |-> e] \in ToMn /\ [type |-> "dsi", entry |-> e].type # "dss"
            BY DEF ToMn
        <3> QED BY <2>1, <3>1
    <2> QED BY <1>1, <1>4, <2>1 DEF DsqTaken
<1>5. ASSUME m.type = "dsf", DsfTaken(k, m, j), ~ Goal
      PROVE  /\ k.pool.sessionID = m.id
             /\ \E e \in k.pool.entries : e \in m.tx /\ [type |-> "dss", sig |-> [coin |-> e.coin, tx |-> m.tx]] \in ToMn
                                          /\ j.sent = <<[type |-> "dss", sig |-> [coin |-> e.coin, tx |-> m.tx]]>>
    <2>1. /\ k.pool.sessionID = m.id
          /\ \E e \in k.pool.entries :
               e \in m.tx /\ j.sent = <<[type |-> "dss", sig |-> [coin |-> e.coin, tx |-> m.tx]]>>
        BY <1>1, <1>5 DEF DsfTaken
    <2>2. PICK e \in k.pool.entries : e \in m.tx /\ j.sent = <<[type |-> "dss", sig |-> [coin |-> e.coin, tx |-> m.tx]]>>
        BY <2>1
    <2>3. m.tx \subseteq Entry
        BY <1>5 DEF FromMn
    <2>4. e.coin \in Coin
        BY <2>2, <2>3, EntryFacts
    <2>5. [coin |-> e.coin, tx |-> m.tx] \in Signature
        BY <2>3, <2>4 DEF Signature
    <2>6. [type |-> "dss", sig |-> [coin |-> e.coin, tx |-> m.tx]] \in ToMn
        BY <2>5 DEF ToMn
    <2> QED BY <2>1, <2>2, <2>6
<1> HIDE DEF Goal
<1>6. Goal \/ (m.type = "dsf" /\ DsfTaken(k, m, j))
    BY <1>1, <1>3, <1>4 DEF MessageTaken
<1> QED BY <1>5, <1>6 DEF Goal, Sends

LEMMA SignedTakes ==
    ASSUME NEW n \in Nat, NEW c, NEW q \in Seq(ToMn), NEW t \in Seq(FromMn(n)), t # <<>>, NEW u, u = Tail(t),
           NEW k, k.sent = <<>>, NEW j, MessageTaken(c, k, t[1], j), NEW p, MsgOk(t[1], p), p.sessionID # 0,
           \A e \in k.pool.entries : k.pool.entries = {e},
           Asked(q, t, k.pool, p.entries), ReadyOk(t, k.pool, p), SignedOk(c, q, t, k.pool, p),
           NextNew(c, p.entries),
           \A i \in 1..Len(q) : q[i].type = "dsi" => q[i].entry \notin p.entries,
           NEW w, Queued(q, j, w)
    PROVE  SignedOk(c, w, u, j.pool, p)
<1> SUFFICES ASSUME NEW g \in Signature, Signs(c, w, p, g) PROVE Holds(w, u, j.pool, p, g)
    BY DEF SignedOk
<1>1. t[1] \in FromMn(n)
    <2>1. Len(t) \in Nat \ {0}
        BY SuffixFacts
    <2>2. 1 \in 1..Len(t)
        BY <2>1
    <2> QED BY <2>2, ElementOfSeq
<1>2. Holds(q, t, k.pool, p, g)
    <2>1. CASE Signs(c, q, p, g)
        BY <2>1 DEF SignedOk
    <2>2. CASE ~ Signs(c, q, p, g)
        <3>1. PICK i \in 1..Len(w) : g.tx = p.entries /\ w[i].type = "dss" /\ w[i].sig = g
            BY <2>2 DEF Signs
        <3>2. ASSUME NEW x \in ToMn, w = Append(q, x) PROVE x.type = "dss" /\ x.sig = g
            <4>1. /\ Len(q) \in Nat /\ Len(w) = Len(q) + 1 /\ w[Len(q) + 1] = x /\ \A l \in 1..Len(q) : w[l] = q[l]
                BY <3>2, AppendFacts
            <4>2. CASE i \in 1..Len(q)
                BY <2>2, <3>1, <4>1, <4>2 DEF Signs
            <4>3. CASE i \notin 1..Len(q)
                <5>1. i = Len(q) + 1
                    BY <4>1, <4>3
                <5> QED BY <3>1, <4>1, <5>1
            <4> QED BY <4>2, <4>3
        <3>3. w # q
            BY <2>2, <3>1 DEF Signs
        <3>4. /\ t[1].type = "dsf" /\ k.pool.sessionID = t[1].id
              /\ \E e \in k.pool.entries : e \in t[1].tx /\ [type |-> "dss", sig |-> [coin |-> e.coin, tx |-> t[1].tx]] \in ToMn
                                           /\ j.sent = <<[type |-> "dss", sig |-> [coin |-> e.coin, tx |-> t[1].tx]]>>
            <4>1. Sends(k, t[1], j)
                BY <1>1, MessageSends
            <4>2. j.sent # <<>>
                BY <3>3 DEF Queued
            <4>3. ~ \E x \in ToMn : x.type # "dss" /\ j.sent = <<x>>
                BY <3>2 DEF Queued
            <4> QED BY ONLY <4>1, <4>2, <4>3 DEF Sends
        <3>5. PICK e \in k.pool.entries :
                e \in t[1].tx /\ \E x \in ToMn : j.sent = <<x>> /\ x.sig = [coin |-> e.coin, tx |-> t[1].tx]
            BY <3>4
        <3>6. g = [coin |-> e.coin, tx |-> t[1].tx]
            BY <3>2, <3>5 DEF Queued
        <3>7. g.coin = e.coin /\ t[1].tx = p.entries
            BY <3>1, <3>6
        <3>8. k.pool.entries = {e} /\ e \in t[1].tx
            BY <3>5
        <3> QED BY <3>4, <3>7, <3>8, HoldsNow
    <2> QED BY <2>1, <2>2
<1>3. Ready(u, j.pool, p)
    <2>1. Ready(t, k.pool, p)
        BY ONLY <1>2 DEF Holds
    <2>2. Ready(t, k.pool, p) => Ready(u, j.pool, p)
        BY ReadyTakes
    <2> QED BY ONLY <2>1, <2>2
<1>4. Taking(n, c, q, t, u, k, j, p, w)
    BY DEF Taking
<1> QED BY ONLY <1>2, <1>3, <1>4, HoldsTakes

LEMMA KnowsTakes ==
    ASSUME NEW n \in Nat, NEW c \in Client, NEW q \in Seq(ToMn), NEW t \in Seq(FromMn(n)), t # <<>>, NEW u, u = Tail(t),
           NEW k, k.sent = <<>>, NEW j, MessageTaken(c, k, t[1], j), Heeds(k, j),
           j.pool.submitted \in {k.pool.submitted, TRUE},
           NEW p, MnInv(p), p.age \in Nat, Knows(c, q, t, k.pool, p),
           \A e \in k.pool.entries : k.pool.entries = {e}, NextNew(c, p.entries),
           \A i \in 1..Len(q) : q[i].type = "dsi" => q[i].entry \notin p.entries,
           NEW w, Queued(q, j, w)
    PROVE  Knows(c, w, u, j.pool, p)
<1>1. Len(t) \in Nat /\ 1 \in 1..Len(t) /\ \A i \in 1..Len(u) : i + 1 \in 1..Len(t) /\ u[i] = t[i + 1]
    <2>1. Len(t) \in Nat \ {0} /\ Len(u) = Len(t) - 1 /\ \A i \in 1..Len(u) : u[i] = t[i + 1]
        BY SuffixFacts, HeadTailProperties
    <2> QED BY <2>1
<1>2. /\ Asked(q, t, k.pool, p.entries) /\ (\A i \in 1..Len(t) : MsgOk(t[i], p)) /\ LateOk(k.pool, p)
      /\ p.state = "SIGNING" => ReadyOk(t, k.pool, p) /\ SignedOk(c, q, t, k.pool, p)
    BY DEF Knows
<1>3. MsgOk(t[1], p)
    BY <1>1, <1>2
<1>4. Asked(w, u, j.pool, p.entries)
    <2>1. \A e \in Entry : Owner[e.coin] = c /\ e.out = made[c] + 1 => e \notin p.entries
        BY DEF NextNew
    <2>2. (j.sent = <<>> => w = q) /\ \A x \in ToMn : j.sent = <<x>> => w = Append(q, x)
        BY DEF Queued
    <2> DEFINE m == t[1]
               es == p.entries
    <2>3. m = t[1] /\ MessageTaken(c, k, m, j) /\ MsgOk(m, p) /\ Asked(q, t, k.pool, es)
          /\ \A e \in Entry : Owner[e.coin] = c /\ e.out = made[c] + 1 => e \notin es
        BY <1>2, <1>3, <2>1
    <2> HIDE DEF m, es
    <2>4. Asked(w, Tail(t), j.pool, es)
        BY <2>2, <2>3, AskedTakes
    <2> QED BY <2>4 DEF es
<1>5. LateOk(j.pool, p)
    BY <1>2, <1>3, LateTakes
<1>6. \A i \in 1..Len(u) : MsgOk(u[i], p)
    BY <1>1, <1>2
<1>7. ASSUME p.state = "SIGNING" PROVE ReadyOk(u, j.pool, p) /\ SignedOk(c, w, u, j.pool, p)
    <2>1. p.sessionID # 0 /\ ReadyOk(t, k.pool, p) /\ SignedOk(c, q, t, k.pool, p) /\ Asked(q, t, k.pool, p.entries)
        BY <1>2, <1>7 DEF MnInv
    <2>2. /\ n \in Nat /\ q \in Seq(ToMn) /\ t \in Seq(FromMn(n)) /\ t # <<>> /\ u = Tail(t) /\ k.sent = <<>>
          /\ MessageTaken(c, k, t[1], j) /\ MsgOk(t[1], p) /\ Queued(q, j, w) /\ NextNew(c, p.entries)
        BY <1>3
    <2>3. /\ \A e \in k.pool.entries : k.pool.entries = {e}
          /\ \A i \in 1..Len(q) : q[i].type = "dsi" => q[i].entry \notin p.entries
        OBVIOUS
    <2>4. ReadyOk(u, j.pool, p)
        BY ONLY <2>1, <2>2, ReadyTakes
    <2>5. SignedOk(c, w, u, j.pool, p)
        BY ONLY <2>1, <2>2, <2>3, SignedTakes
    <2> QED BY <2>4, <2>5
<1> QED BY <1>4, <1>5, <1>6, <1>7 DEF Knows

\* What a step of participant c does to the others: nothing.
LEMMA OthersKnow ==
    ASSUME Typed, KnowInv, NEW c \in Client, NEW j, Becomes(c, j), NEW d \in Client \ overlapped, d # c, toClient'[d] = toClient[d]
    PROVE  Knows(d, toMn'[d], toClient'[d], pool'[d], mn')
<1>1. mn' = mn /\ toMn'[d] = toMn[d] /\ pool'[d] = pool[d]
    BY BecomesWhole
<1> QED BY <1>1 DEF KnowInv

\* When c knows, or has overlapped, all know who should.
LEMMA ClientKnows ==
    ASSUME Typed, KnowInv, NEW c \in Client, NEW j, Becomes(c, j), \A d \in Client : d # c => toClient'[d] = toClient[d],
           overlapped \subseteq overlapped',
           c \notin overlapped' => Knows(c, toMn'[c], toClient'[c], j.pool, mn)
    PROVE  KnowInv'
<1>1. mn' = mn /\ pool'[c] = j.pool
    BY BecomesWhole
<1>2. ASSUME NEW d \in Client \ overlapped' PROVE Knows(d, toMn'[d], toClient'[d], pool'[d], mn')
    <2>1. CASE d = c
        BY <1>1, <2>1
    <2>2. CASE d # c
        BY <2>2, OthersKnow
    <2> QED BY <2>1, <2>2
<1>3. mn'.state = "SIGNING" => mn'.age <= QueueTimeout /\ mn'.age <= SigningTimeout
    BY <1>1 DEF KnowInv
<1> QED BY <1>2, <1>3 DEF KnowInv, Knows, Asked, Single, Silent, Idle, Refused, MsgOk, StatusOk, LateOk, ReadyOk, SignedOk,
                          Ready, Awaits, Holds, Signs, KeepsLate

\* What FitInv says of participant c and of what it makes next.
LEMMA OwnFacts ==
    ASSUME Typed, FitInv, NEW c \in Client
    PROVE  /\ \A e \in pool[c].entries : pool[c].entries = {e}
           /\ NextNew(c, mn.entries)
           /\ \A i \in 1..Len(toMn[c]) : toMn[c][i].type = "dsi" => toMn[c][i].entry \notin mn.entries
<1>1. EntriesInv /\ ClientInv /\ DsiInv
    BY DEF FitInv
<1>2. \A e \in pool[c].entries : pool[c].entries = {e}
    BY <1>1 DEF ClientInv
<1>3. ASSUME NEW e \in mn.entries, e \in Entry, Owner[e.coin] = c, e.out = made[c] + 1 PROVE FALSE
    <2>1. e.out <= made[c]
        BY <1>1, <1>3 DEF EntriesInv, Before
    <2>2. made[c] \in Nat
        BY DEF Typed
    <2> QED BY <1>3, <2>1, <2>2
<1>4. ASSUME NEW i \in 1..Len(toMn[c]), toMn[c][i].type = "dsi", toMn[c][i].entry \in mn.entries PROVE FALSE
    <2> DEFINE e == toMn[c][i].entry
    <2>1. Owner[e.coin] = c /\ e \in Entry
        BY <1>1, <1>4, TypedMessages DEF DsiInv
    <2>2. Before(e)
        BY <1>1, <1>4 DEF EntriesInv
    <2>3. e.out < e.out /\ e.out \in Nat
        BY <1>4, <2>1, <2>2, EntryFacts DEF Before
    <2> QED BY <2>3
<1> QED BY <1>2, <1>3, <1>4 DEF NextNew

LEMMA ClientReceiveKnows ==
    ASSUME IInv, FitInv, KnowInv, NEW c \in Client, ClientReceive(c)
    PROVE  KnowInv'
<1>1. Typed /\ MnInv(mn) /\ mn \in MnPool(sessions)
    BY DEF IInv, FitInv, Typed
<1>2. /\ 1 \in 1..Len(toClient[c])
      /\ toClient' = [toClient EXCEPT ![c] = Tail(toClient[c])]
      /\ \E j : /\ Becomes(c, j) /\ j.pool.submitted \in {pool[c].submitted, TRUE}
                /\ MessageTaken(c, Participant(c), toClient[c][1], j)
                /\ Heeds(Participant(c), j)
    BY <1>1, ClientReceiveOutcome
<1>3. PICK j : /\ Becomes(c, j) /\ j.pool.submitted \in {pool[c].submitted, TRUE}
               /\ MessageTaken(c, Participant(c), toClient[c][1], j)
               /\ Heeds(Participant(c), j)
    BY <1>2
<1> DEFINE k == Participant(c)
           q == toMn[c]
           t == toClient[c]
           u == toClient'[c]
           w == toMn'[c]
           n == sessions
<1>4. k.pool = pool[c] /\ k.sent = <<>>
    BY <1>1, ParticipantWhole
<1>5. /\ n \in Nat /\ q \in Seq(ToMn) /\ t \in Seq(FromMn(n)) /\ t # <<>> /\ u = Tail(t)
    <2>1. n \in Nat /\ q \in Seq(ToMn) /\ t \in Seq(FromMn(n)) /\ u = Tail(t)
        BY <1>1, <1>2 DEF Typed
    <2>2. t # <<>>
        BY <1>2, EmptySeq
    <2> QED BY <2>1, <2>2
<1>6. Queued(q, j, w)
    BY <1>1, <1>3, BecomesWhole DEF Queued
<1>7. mn.age \in Nat
    BY <1>1 DEF MnPool
<1>8. c \notin overlapped => Knows(c, q, t, k.pool, mn)
    BY <1>4 DEF KnowInv
<1>9. /\ \A e \in k.pool.entries : k.pool.entries = {e}
      /\ NextNew(c, mn.entries)
      /\ \A i \in 1..Len(q) : q[i].type = "dsi" => q[i].entry \notin mn.entries
    BY <1>1, <1>4, OwnFacts
<1>10. MessageTaken(c, k, t[1], j) /\ Heeds(k, j) /\ j.pool.submitted \in {k.pool.submitted, TRUE}
    BY <1>3, <1>4
<1> HIDE DEF k, q, t, u, w, n
<1>11. c \notin overlapped => Knows(c, w, u, j.pool, mn)
    BY ONLY c \in Client, <1>1, <1>4, <1>5, <1>6, <1>7, <1>8, <1>9, <1>10, KnowsTakes
<1>12. \A d \in Client : d # c => toClient'[d] = toClient[d]
    BY <1>1, <1>2 DEF Typed
<1>13. overlapped' = overlapped
    BY DEF ClientReceive
<1> QED BY <1>1, <1>3, <1>11, <1>12, <1>13, ClientKnows DEF w, u

\* A participant that has not signed may leave.
LEMMA LeftKnows ==
    ASSUME NEW c, NEW q, NEW t, NEW k, NEW p, Knows(c, q, t, k, p),
           NEW j, j.entries = {}, j.sessionID = 0, j.found = FALSE, NEW w, Single(w, t),
           p.state = "SIGNING" => \A g \in Signature : ~ Signs(c, w, p, g)
    PROVE  Knows(c, w, t, j, p)
<1>1. Asked(w, t, j, p.entries)
    BY AskedLeft
<1>2. LateOk(j, p)
    BY DEF LateOk
<1>3. Ready(t, k, p) => Ready(t, j, p)
    BY DEF Ready
<1>4. p.state = "SIGNING" => ReadyOk(t, j, p) /\ SignedOk(c, w, t, j, p)
    BY <1>3 DEF Knows, ReadyOk, SignedOk
<1>5. \A i \in 1..Len(t) : MsgOk(t[i], p)
    BY DEF Knows
<1> QED BY <1>1, <1>2, <1>4, <1>5 DEF Knows

\* No answer is under way.
LEMMA NothingUnderWay ==
    ASSUME Typed, NEW c \in Client, ~ AnswerUnderWay(c)
    PROVE  Idle(toMn[c], toClient[c])
<1>1. toMn[c] \in Seq(ToMn) /\ toClient[c] \in Seq(FromMn(sessions))
    BY DEF Typed
<1>2. DOMAIN toMn[c] = 1..Len(toMn[c]) /\ DOMAIN toClient[c] = 1..Len(toClient[c])
    BY <1>1, LenProperties
<1>3. ASSUME NEW i \in 1..Len(toMn[c]) PROVE ~ Dialog(toMn[c][i])
    <2>1. toMn[c][i].type \in {"dsa", "dsi", "dss"}
        BY TypedMessages
    <2>2. toMn[c][i].type \notin {"dsa", "dsi"}
        BY <1>2 DEF AnswerUnderWay
    <2> QED BY <2>1, <2>2 DEF Dialog
<1>4. ASSUME NEW i \in 1..Len(toClient[c]) PROVE ~ Dialog(toClient[c][i])
    <2>1. toClient[c][i] \in FromMn(sessions)
        BY TypedMessages
    <2>2. toClient[c][i].type \notin {"dsa", "dsi"}
        BY <2>1 DEF FromMn
    <2>3. ~ (toClient[c][i].type = "dssu" /\ toClient[c][i].accepted # -1)
        BY <1>2 DEF AnswerUnderWay
    <2> QED BY <2>2, <2>3 DEF Dialog
<1> QED BY <1>3, <1>4 DEF Idle, Silent

\* A request says nothing of what is signed.
LEMMA RequestSigns ==
    ASSUME NEW c, NEW q \in Seq(ToMn), NEW p, NEW w, w = Append(q, [type |-> "dsa"]), NEW g, Signs(c, w, p, g)
    PROVE  Signs(c, q, p, g)
<1> DEFINE x == [type |-> "dsa"]
<1>1. x \in ToMn /\ x.type = "dsa"
    BY DEF ToMn
<1> HIDE DEF x
<1>2. w = Append(q, x)
    BY DEF x
<1>3. Len(q) \in Nat /\ Len(w) = Len(q) + 1 /\ w[Len(q) + 1] = x /\ \A i \in 1..Len(q) : w[i] = q[i]
    BY <1>1, <1>2, AppendFacts
<1>4. ASSUME NEW i \in 1..Len(w), w[i].type = "dss" PROVE i \in 1..Len(q) /\ w[i] = q[i]
    <2>1. i # Len(q) + 1
        BY <1>1, <1>3, <1>4
    <2> QED BY <1>3, <2>1
<1> QED BY <1>4 DEF Signs

\* Who has signed is not due, and has no entry that may expire.
LEMMA SignedStays ==
    ASSUME IInv, FitInv, KnowInv, NEW c \in Client \ overlapped, mn.state = "SIGNING", NEW g \in Signature,
           Signs(c, toMn[c], mn, g)
    PROVE  pool[c].entries # {} /\ pool[c].state \in Late /\ ~ ClientDue(c)
<1>1. Knows(c, toMn[c], toClient[c], pool[c], mn) /\ MnInv(mn)
    BY DEF KnowInv, FitInv
<1>2. Holds(toMn[c], toClient[c], pool[c], mn, g)
    BY <1>1 DEF Knows, SignedOk
<1>3. pool[c].entries # {} /\ pool[c].state \in Late /\ pool[c].sessionID = mn.sessionID
    BY <1>2 DEF Holds, Ready
<1>4. mn.sessionID # 0
    BY <1>1 DEF MnInv
<1>5. pool[c].age <= mn.age
    BY <1>1, <1>3, <1>4 DEF Knows, LateOk
<1>6. mn.age <= QueueTimeout /\ mn.age <= SigningTimeout
    BY DEF KnowInv
<1>7. pool[c].age \in Nat /\ mn.age \in Nat
    <2>1. pool[c] \in ClientPool(sessions) /\ mn \in MnPool(sessions)
        BY DEF IInv, Typed
    <2> QED BY <2>1 DEF ClientPool, MnPool
<1>8. QueueTimeout \in Nat /\ SigningTimeout \in Nat /\ AddLagTime \in Nat /\ AddLagTime # 0
    BY DarksendAssumption
<1>9. ~ (pool[c].age >= QueueTimeout + AddLagTime) /\ ~ (pool[c].age >= SigningTimeout + AddLagTime)
    BY <1>5, <1>6, <1>7, <1>8
<1>10. pool[c].state \notin Ended
    BY <1>3 DEF Late, Ended
<1> QED BY <1>3, <1>9, <1>10 DEF ClientDue

LEMMA ClientTimerKnows ==
    ASSUME IInv, FitInv, KnowInv, NEW c \in Client, StartMixing(c) \/ ClientTimeout(c) \/ ClientExpireEntry(c)
    PROVE  KnowInv'
<1>1. Typed /\ toMn[c] \in Seq(ToMn)
    BY DEF IInv, Typed
<1>2. /\ toClient' = toClient /\ overlapped \subseteq overlapped'
      /\ \E j : /\ Becomes(c, j)
                /\ \/ /\ StartMixing(c) /\ pool[c].entries = {}
                      /\ Left(j) \/ (Requests(j) /\ (c \in overlapped' \/ ~ AnswerUnderWay(c)))
                   \/ ClientTimeout(c) /\ Left(j)
                   \/ ClientExpireEntry(c) /\ Left(j)
    BY <1>1, ClientTimerOutcome
<1>3. PICK j : /\ Becomes(c, j)
               /\ \/ /\ StartMixing(c) /\ pool[c].entries = {}
                     /\ Left(j) \/ (Requests(j) /\ (c \in overlapped' \/ ~ AnswerUnderWay(c)))
                  \/ ClientTimeout(c) /\ Left(j)
                  \/ ClientExpireEntry(c) /\ Left(j)
    BY <1>2
<1>4. SUFFICES ASSUME c \notin overlapped' PROVE Knows(c, toMn'[c], toClient[c], j.pool, mn)
    BY <1>1, <1>2, <1>3, ClientKnows
<1>5. c \notin overlapped /\ Knows(c, toMn[c], toClient[c], pool[c], mn)
    BY <1>2, <1>4 DEF KnowInv
<1>6. Single(toMn[c], toClient[c])
    BY <1>5 DEF Knows, Asked
<1>7. ASSUME mn.state = "SIGNING", NEW g \in Signature PROVE ~ Signs(c, toMn[c], mn, g)
    <2>1. SUFFICES ASSUME Signs(c, toMn[c], mn, g) PROVE FALSE
        OBVIOUS
    <2>2. pool[c].entries # {} /\ pool[c].state \in Late /\ ~ ClientDue(c)
        BY <1>5, <1>7, <2>1, SignedStays
    <2>3. ~ ClientTimeout(c) /\ ~ ClientExpireEntry(c)
        BY <2>2 DEF ClientTimeout, ClientExpireEntry, Late, Collecting
    <2> QED BY <1>3, <2>2, <2>3
<1>8. CASE Left(j)
    <2>1. toMn'[c] = toMn[c] /\ j.pool.entries = {} /\ j.pool.sessionID = 0 /\ j.pool.found = FALSE
        BY <1>1, <1>3, <1>8, BecomesWhole DEF Left
    <2> QED BY <1>5, <1>6, <1>7, <2>1, LeftKnows
<1>9. CASE Requests(j) /\ ~ AnswerUnderWay(c)
    <2> DEFINE x == [type |-> "dsa"]
    <2>1. x \in ToMn /\ j.sent = <<x>>
        BY <1>9 DEF ToMn, Requests
    <2>2. j.pool.entries = {} /\ j.pool.sessionID = 0 /\ j.pool.found = FALSE
        BY <1>9 DEF Requests
    <2> HIDE DEF x
    <2>3. toMn'[c] = Append(toMn[c], x)
        BY <1>1, <1>3, <2>1, BecomesWhole
    <2>4. Idle(toMn[c], toClient[c])
        BY <1>1, <1>9, NothingUnderWay
    <2> DEFINE w == toMn'[c]
    <2>5. w = Append(toMn[c], x)
        BY <2>3
    <2> HIDE DEF w
    <2>6. Single(w, toClient[c])
        BY <1>1, <2>1, <2>4, <2>5, QuestionSent DEF Idle
    <2>7. ASSUME mn.state = "SIGNING", NEW g \in Signature PROVE ~ Signs(c, w, mn, g)
        BY <1>1, <1>7, <2>5, <2>7, RequestSigns DEF x
    <2>8. Knows(c, w, toClient[c], j.pool, mn)
        BY <1>5, <2>2, <2>6, <2>7, LeftKnows
    <2> QED BY <2>8 DEF w
<1> QED BY <1>3, <1>4, <1>8, <1>9

LEMMA NextKnows == ASSUME IInv, FitInv, KnowInv, [Next]_vars PROVE KnowInv'
<1>1. IInv /\ Typed /\ Typed'
    BY NextInv DEF IInv
<1>2. ASSUME NEW c \in Client, MnReceive(c) PROVE KnowInv'
    BY <1>1, <1>2, MnReceiveKnows
<1>3. ASSUME NEW c \in Client, ClientReceive(c) PROVE KnowInv'
    BY <1>1, <1>3, ClientReceiveKnows
<1>4. ASSUME NEW c \in Client, StartMixing(c) \/ ClientTimeout(c) \/ ClientExpireEntry(c) PROVE KnowInv'
    BY <1>1, <1>4, ClientTimerKnows
<1>5. ASSUME NEW c \in Client, Disconnect(c) PROVE KnowInv'
    BY <1>1, <1>5, DisconnectKnows
<1>6. CheckForCompleteQueue => KnowInv'
    BY <1>1, CheckForCompleteQueueKnows
<1>7. MnTimeout => KnowInv'
    BY <1>1, MnTimeoutKnows
<1>8. MnExpireEntry => KnowInv'
    BY <1>1, MnExpireEntryKnows
<1>9. Tick => KnowInv'
    BY <1>1, TickKnows
<1>10. ASSUME UNCHANGED vars PROVE KnowInv'
    <2>1. mn' = mn /\ toMn' = toMn /\ toClient' = toClient /\ pool' = pool /\ overlapped' = overlapped
        BY <1>10 DEF vars
    <2> QED BY <2>1 DEF KnowInv
<1> QED BY <1>2, <1>3, <1>4, <1>5, <1>6, <1>7, <1>8, <1>9, <1>10 DEF Next

LEMMA KnowInvariant == Spec => [](IInv /\ FitInv /\ KnowInv)
<1>1. Init => IInv /\ FitInv /\ KnowInv
    BY InitInv, InitFits, InitKnows
<1>2. IInv /\ FitInv /\ KnowInv /\ [Next]_vars => (IInv /\ FitInv /\ KnowInv)'
    BY NextInv, NextFits, NextKnows
<1> QED BY <1>1, <1>2, PTL DEF Spec

\* Only a last signature adds to what is mixed.
LEMMA MixedBySignature ==
    ASSUME IInv, FitInv, [Next]_vars, mixed' # mixed
    PROVE  \E c \in Client : \E x : /\ 1 \in 1..Len(toMn[c]) /\ toMn[c][1].type = "dss" /\ mixed' = x.mixed
                                    /\ DssLast(Mn, x, toMn[c][1].sig)
<1>1. ASSUME NEW c \in Client, ClientReceive(c) \/ StartMixing(c) \/ ClientTimeout(c) \/ ClientExpireEntry(c) PROVE FALSE
    BY <1>1 DEF ClientReceive, StartMixing, ClientTimeout, ClientExpireEntry, Becomes
<1>2. ASSUME NEW c \in Client, Disconnect(c) PROVE FALSE
    BY <1>2 DEF Disconnect
<1>3. ~ CheckForCompleteQueue /\ ~ MnTimeout /\ ~ MnExpireEntry /\ ~ Tick
    BY DEF CheckForCompleteQueue, MnTimeout, MnExpireEntry, Tick
<1>4. ~ UNCHANGED vars
    BY DEF vars
<1>5. PICK c \in Client : MnReceive(c)
    BY <1>1, <1>2, <1>3, <1>4 DEF Next
<1>6. /\ 1 \in 1..Len(toMn[c])
      /\ \E x : mixed' = x.mixed /\ MnTakes(Mn, x, c, toMn[c][1])
    BY <1>5, MnReceiveOutcome
<1>7. PICK x : mixed' = x.mixed /\ MnTakes(Mn, x, c, toMn[c][1])
    BY <1>6
<1>8. x.mixed # Mn.mixed
    BY <1>7 DEF Mn
<1>9. toMn[c][1].type = "dss" /\ DssLast(Mn, x, toMn[c][1].sig)
    BY <1>7, <1>8 DEF MnTakes, DssCounted
<1> QED BY <1>6, <1>7, <1>9

\* Who signed has the coin locked.
LEMMA SignedLocked ==
    ASSUME IInv, KnowInv, mn.state = "SIGNING", NEW o \in Client \ overlapped, NEW g \in Signature, Signs(o, toMn[o], mn, g)
    PROVE  g.coin \in locked[o]
<1>1. Holds(toMn[o], toClient[o], pool[o], mn, g)
    BY DEF KnowInv, Knows, SignedOk
<1>2. PICK e \in pool[o].entries : e.coin = g.coin
    BY <1>1 DEF Holds
<1>3. Coins(pool[o].entries) \subseteq pool[o].lockedCoins /\ pool[o].lockedCoins \subseteq locked[o]
    BY DEF IInv, Typed
<1> QED BY <1>2, <1>3 DEF Coins

LEMMA MixedStep ==
    ASSUME IInv, FitInv, KnowInv, [Next]_vars, NEW e \in mixed' \ mixed, Owner[e.coin] \notin overlapped
    PROVE  e.coin \in locked[Owner[e.coin]]
<1>1. Typed /\ Mn.pool = mn /\ Mn.mixed = mixed /\ mn \in MnPool(sessions)
    BY MnWorld DEF IInv, Typed
<1>2. PICK c \in Client : \E x : /\ 1 \in 1..Len(toMn[c]) /\ toMn[c][1].type = "dss" /\ mixed' = x.mixed
                                 /\ DssLast(Mn, x, toMn[c][1].sig)
    BY MixedBySignature
<1> DEFINE g == toMn[c][1].sig
<1>3. /\ mn.state = "SIGNING" /\ g.tx = mn.entries /\ Coins(mn.entries) \subseteq Coins(mn.sev \cup {g})
      /\ mixed' \subseteq mixed \cup mn.entries
    BY <1>1, <1>2 DEF DssLast
<1>4. e \in mn.entries /\ e.coin \in Coins(mn.entries)
    BY <1>3 DEF Coins
<1>5. PICK h \in mn.sev \cup {g} : h.coin = e.coin
    BY <1>3, <1>4 DEF Coins
<1>6. g \in Signature /\ Owner[g.coin] = c
    BY <1>1, <1>2, HeadFits
<1>7. h \in Signature /\ Owner[h.coin] \in Client
    <2>1. h \in Signature
        BY <1>1, <1>6 DEF MnPool
    <2> QED BY <2>1, DarksendAssumption DEF Signature
<1>8. Signs(Owner[h.coin], toMn[Owner[h.coin]], mn, h)
    <2>1. CASE h \in mn.sev
        BY <2>1 DEF Signs
    <2>2. CASE h = g
        <3>1. g.tx = mn.entries /\ \E i \in 1..Len(toMn[c]) : toMn[c][i].type = "dss" /\ toMn[c][i].sig = g
            BY <1>2, <1>3
        <3>2. Signs(c, toMn[c], mn, g)
            BY <3>1 DEF Signs
        <3> QED BY <1>6, <2>2, <3>2
    <2> QED BY <2>1, <2>2
<1>9. h.coin \in locked[Owner[h.coin]]
    BY <1>3, <1>5, <1>7, <1>8, SignedLocked
<1> QED BY <1>5, <1>9

\* Only participants overlap.
OverlapTyped == overlapped \subseteq Client

LEMMA OverlappedTyped == Spec => []OverlapTyped
<1>1. Init => OverlapTyped
    BY DEF Init, OverlapTyped
<1>2. OverlapTyped /\ [Next]_vars => OverlapTyped'
    <2> SUFFICES ASSUME overlapped \subseteq Client, [Next]_vars PROVE overlapped' \subseteq Client
        BY DEF OverlapTyped
    <2>1. ASSUME NEW c \in Client, MnReceive(c) \/ ClientReceive(c) \/ ClientTimeout(c) \/ ClientExpireEntry(c) \/ Disconnect(c)
          PROVE  overlapped' = overlapped
        BY <2>1 DEF MnReceive, ClientReceive, ClientTimeout, ClientExpireEntry, Disconnect
    <2>2. ASSUME NEW c \in Client, StartMixing(c) PROVE overlapped' \subseteq overlapped \cup {c}
        BY <2>2 DEF StartMixing
    <2>3. CheckForCompleteQueue \/ MnTimeout \/ MnExpireEntry \/ Tick \/ UNCHANGED vars => overlapped' = overlapped
        BY DEF CheckForCompleteQueue, MnTimeout, MnExpireEntry, Tick, vars
    <2> QED BY <2>1, <2>2, <2>3 DEF Next
<1> QED BY <1>1, <1>2, PTL DEF Spec

-----------------------------------------------------------------------------
(* Theorems. *)

\* Whatever arrives at the primenode and at a participant, in whatever order and
\* however late, sessionUsers stays between none and MaxPoolTransactions, no session
\* id is ahead of the last one opened, and a participant's entry is of coins its pool
\* remembers in lockedCoins and its wallet has locked (LockCoin and UnlockCoins).
THEOREM TypeCorrect == Spec => []TypeOK
<1>1. IInv /\ OverlapTyped => TypeOK
    <2> SUFFICES ASSUME IInv, overlapped \subseteq Client PROVE TypeOK
        BY DEF OverlapTyped
    <2>1. Typed /\ mn \in MnPool(sessions)
        BY DEF IInv, Typed
    <2>2. \A c \in Client : pool[c] \in ClientPool(sessions)
        BY <2>1 DEF Typed
    <2> QED BY <2>1, <2>2 DEF TypeOK, Typed, MnPool, ClientPool
<1> QED BY <1>1, InductiveInvariant, OverlappedTyped, PTL

\* While a session lasts no dsa opens another in its place: AddEntry's refusals lower
\* sessionUsers (dsi), but only of a session that is full, so it does not come to the
\* zero at which IsCompatibleWithSession takes a new session id.
THEOREM SessionStays == Spec => SessionNotReplaced
<1>1. IInv /\ [Next]_vars => [mn.sessionID # 0 /\ mn'.sessionID # mn.sessionID => mn'.sessionID = 0]_vars
    BY NextInv DEF SessionStep
<1> QED BY <1>1, InductiveInvariant, PTL DEF Spec, SessionNotReplaced

\* Whatever a participant signs, and however late its signature is, AddScriptSig counts
\* for an entry only one over the transaction that Finalize made of the entries the pool
\* has, and finalTransaction has the same signatures as the entries: a signature comes
\* after the entry it is for, so one for an earlier transaction finds its entry gone.
THEOREM SignaturesAlwaysFit == Spec => []SignaturesFit
<1>1. FitInv => SignaturesFit
    BY DEF FitInv, MnInv, SignaturesFit, Sealed
<1> QED BY <1>1, FitInvariant, PTL

\* A participant that has sent no request with an answer under way lets go of no coin
\* before its transaction is out, however late, lost or expired anything is: its timeouts
\* are those of the primenode and a few seconds more (CheckTimeout), its clock began after
\* the primenode's, and no status, refusal or dsc that would make it Release is under way
\* once it has signed.
THEOREM MixedCoinsStayLocked == Spec => LockedUnlessOverlapped
<1>1. IInv /\ FitInv /\ KnowInv /\ [Next]_vars => [\A c \in Client \ overlapped : MixedAreLocked(c)]_vars
    BY MixedStep DEF MixedAreLocked
<1> QED BY <1>1, KnowInvariant, PTL DEF Spec, LockedUnlessOverlapped
===============================================================================
