-------------------------- MODULE DarksendSession --------------------------
(***************************************************************************)
(* One Darksend pool (darksend.cpp): a primenode takes the entries of      *)
(* several participants, joins them into one transaction, has it signed    *)
(* and sends it out.  The participants keep the coins locked meanwhile.    *)
(*                                                                         *)
(* Each node has a CDarksendPool, which its message handler and its timer  *)
(* change; a handler, or one call of the timer, is one step.  A connection *)
(* keeps the order of its messages and may take any time over them.        *)
(*                                                                         *)
(* Whether collateral, denominations, inputs and outputs please the other  *)
(* side is a choice at each test.  An entry has one coin and one output.   *)
(* Left out: collateral and fees, what the queue of announced pools offers *)
(* (there is one pool), Reset after an hour of sleep.                      *)
(***************************************************************************)
EXTENDS Integers, Sequences, FiniteSets

CONSTANTS
    Client,                 \* the participants
    Coin,                   \* denominated coins
    Owner,                  \* [Coin -> Client]
    MaxPoolTransactions,
    QueueTimeout,           \* DARKSEND_QUEUE_TIMEOUT, in ticks of the clock
    SigningTimeout,         \* DARKSEND_SIGNING_TIMEOUT
    AddLagTime,             \* what a participant adds to both
    ErrorTime,              \* how long Check leaves an error alone
    MaxSessions,            \* bound: sessions the primenode opens
    MaxRequests,            \* bound: [Client -> requests it sends]
    MaxEntries              \* bound: [Client -> entries it makes]

ASSUME DarksendAssumption ==
    /\ Owner \in [Coin -> Client]
    /\ MaxPoolTransactions \in Nat /\ MaxPoolTransactions > 1
    /\ {QueueTimeout, SigningTimeout, AddLagTime, ErrorTime} \subseteq Nat \ {0}
    /\ MaxSessions \in Nat
    /\ MaxRequests \in [Client -> Nat] /\ MaxEntries \in [Client -> Nat]

VARIABLES
    mn,          \* the primenode's pool
    sessions,    \* how many sessions it has opened
    mixed,       \* mapDarksendBroadcastTxes: the entries of its transactions
    toMn,        \* [Client -> messages under way to the primenode]
    toClient,    \* [Client -> messages under way from it]
    pool,        \* [Client -> the participant's pool]
    locked,      \* [Client -> coins locked in the wallet]
    requests, made,  \* [Client -> how many requests, entries]
    overlapped   \* history: who has sent a request with an answer under way

vars == <<mn, sessions, mixed, toMn, toClient, pool, locked, requests, made, overlapped>>

State == {"IDLE", "QUEUE", "ACCEPTING_ENTRIES", "FINALIZE_TRANSACTION", "SIGNING",
          "TRANSMISSION", "ERROR", "SUCCESS"}
Ended == {"ERROR", "SUCCESS"}
Collecting == {"ACCEPTING_ENTRIES", "QUEUE"}

\* An entry spends a coin to the out-th output its owner made.
Entry == [coin : Coin, out : Nat]
\* A signature for a coin, over all outputs of a transaction.
Signature == [coin : Coin, tx : SUBSET Entry]

Coins(es) == { e.coin : e \in es }

\* What SetNull makes of the primenode's pool: sev are the signatures its entries
\* have, tx and txSigs are finalTransaction, age is the time since lastTimeChanged.
NullMn == [state |-> "IDLE", sessionID |-> 0, sessionUsers |-> 0, entries |-> {}, sev |-> {},
           tx |-> {}, txSigs |-> {}, age |-> 0]

\* What SetNull makes of a participant's pool, which keeps lockedCoins and
\* whether it has submitted to the primenode.
NullPool(p) == [p EXCEPT !.state = "IDLE", !.sessionID = 0, !.found = FALSE, !.entries = {}, !.age = 0]

Init ==
    /\ mn = NullMn /\ sessions = 0 /\ mixed = {}
    /\ toMn = [c \in Client |-> <<>>] /\ toClient = [c \in Client |-> <<>>]
    /\ pool = [c \in Client |-> [state |-> "IDLE", sessionID |-> 0, found |-> FALSE, entries |-> {},
                                 lockedCoins |-> {}, submitted |-> FALSE, age |-> 0]]
    /\ locked = [c \in Client |-> {}]
    /\ requests = [c \in Client |-> 0] /\ made = [c \in Client |-> 0]
    /\ overlapped = {}

-----------------------------------------------------------------------------
(* The primenode: operators on [pool, net, mixed], its pool, what it sends  *)
(* and what it has mixed.                                                   *)

Mn == [pool |-> mn, net |-> toClient, mixed |-> mixed]

Dssu(p, accepted) ==
    [type |-> "dssu", id |-> p.sessionID, state |-> p.state, accepted |-> accepted]

Relay(w, m) == [w EXCEPT !.net = [c \in Client |-> Append(w.net[c], m)]]
Reply(w, c, accepted) == [w EXCEPT !.net[c] = Append(@, Dssu(w.pool, accepted))]
RelayStatus(w) == Relay(w, Dssu(w.pool, -1))

\* Wrong on purpose: the status is not relayed.
UpdateStateSilently(w, s) ==
    IF s \in Ended THEN w
    ELSE [w EXCEPT !.pool.state = s, !.pool.age = IF w.pool.state # s THEN 0 ELSE @]

\* UpdateState at the primenode: the status goes out before the state is set.
UpdateState(w, s) ==
    IF s \in Ended THEN w
    ELSE [(IF w.pool.state # s THEN RelayStatus([w EXCEPT !.pool.age = 0]) ELSE w)
            EXCEPT !.pool.state = s]

SetNull(w) == [w EXCEPT !.pool = NullMn]

\* CheckFinalTransaction: refused by the memory pool, or taken, and then announced
\* unless the primenode's key is bad.
CheckFinalTransaction(w) ==
    LET p == w.pool
        sent == [w EXCEPT !.mixed = @ \cup p.tx]
        valid == (\A g \in p.txSigs : g.tx = p.tx) /\ Coins(p.tx) \cap Coins(w.mixed) = {}
    IN  { Relay(UpdateState(SetNull(w), "ACCEPTING_ENTRIES"), [type |-> "dsc", id |-> 0]) }
        \cup IF valid
             THEN {RelayStatus(SetNull(Relay(sent, [type |-> "dsc", id |-> p.sessionID]))), sent}
             ELSE {}

Finalize(w) ==
    LET u == UpdateState(UpdateState(w, "FINALIZE_TRANSACTION"), "SIGNING")
        v == [u EXCEPT !.pool.tx = u.pool.entries, !.pool.txSigs = u.pool.sev]
    IN  Relay(v, [type |-> "dsf", id |-> v.pool.sessionID, tx |-> v.pool.tx])

SignaturesComplete(p) == Coins(p.entries) \subseteq Coins(p.sev)

\* Check at the primenode, whose state is never ERROR or SUCCESS.
Check(w) ==
    LET v == IF w.pool.state = "ACCEPTING_ENTRIES" /\ Cardinality(w.pool.entries) >= MaxPoolTransactions
             THEN Finalize(w) ELSE w
    IN  IF v.pool.state = "SIGNING" /\ SignaturesComplete(v.pool)
        THEN CheckFinalTransaction(UpdateState(v, "TRANSMISSION"))
        ELSE {v}

\* dsa: IsCompatibleWithSession, and its answer.
Dsa(w, c) ==
    LET p == w.pool
        opened == UpdateState([w EXCEPT !.pool.sessionID = sessions + 1, !.pool.sessionUsers = 1,
                                        !.pool.age = 0], "QUEUE")
        joined == [w EXCEPT !.pool.sessionUsers = @ + 1, !.pool.age = 0]
    IN  {Reply(w, c, 0)}
        \cup (IF p.sessionUsers = 0 /\ sessions < MaxSessions THEN {Reply(opened, c, 1)} ELSE {})
        \cup (IF p.sessionUsers \in 1..(MaxPoolTransactions - 1) /\ p.state \in Collecting
              THEN {Reply(joined, c, 1)} ELSE {})

\* Wrong on purpose: entries are looked at whether or not the session is ready.
AlwaysReady(p) == TRUE

IsSessionReady(p) == p.sessionUsers >= MaxPoolTransactions

\* dsi: AddEntry, and what follows.  An entry AddEntry refuses costs a place.
Dsi(w, c, e) ==
    LET p == w.pool
        added == Reply([w EXCEPT !.pool.entries = @ \cup {e}], c, 1)
    IN  {Reply(w, c, 0)}
        \cup (IF IsSessionReady(p) THEN {Reply([w EXCEPT !.pool.sessionUsers = @ - 1], c, 0)} ELSE {})
        \cup (IF /\ IsSessionReady(p)
                 /\ Cardinality(p.entries) < MaxPoolTransactions /\ e.coin \notin Coins(p.entries)
              THEN { RelayStatus(v) : v \in Check(added) } ELSE {})

\* AddScriptSig: finalTransaction takes any signature for its input, an entry the
\* first one.
AddScriptSig(p, g) ==
    IF g \in p.sev THEN p
    ELSE [p EXCEPT
            !.txSigs = IF g.coin \in Coins(p.tx) THEN { h \in @ : h.coin # g.coin } \cup {g} ELSE @,
            !.sev = IF g.coin \in Coins(p.entries) \ Coins(p.sev) THEN @ \cup {g} ELSE @]

Dss(w, g) ==
    LET v == [w EXCEPT !.pool = AddScriptSig(w.pool, g)]
    IN  IF v.pool.sev = w.pool.sev THEN {v} ELSE { RelayStatus(u) : u \in Check(v) }

\* The message handler takes the next message of c.
MnReceive(c) ==
    /\ toMn[c] # <<>>
    /\ LET m == Head(toMn[c])
       IN  \E w \in CASE m.type = "dsa" -> Dsa(Mn, c)
                      [] m.type = "dsi" -> Dsi(Mn, c, m.entry)
                      [] m.type = "dss" -> Dss(Mn, m.sig) :
             /\ mn' = w.pool /\ toClient' = w.net /\ mixed' = w.mixed
             /\ sessions' = IF w.pool.sessionID \in {0, mn.sessionID} THEN sessions ELSE sessions + 1
    /\ toMn' = [toMn EXCEPT ![c] = Tail(@)]
    /\ UNCHANGED <<pool, locked, requests, made, overlapped>>

\* CheckForCompleteQueue: all are there, and are told.
CheckForCompleteQueue ==
    /\ mn.state = "QUEUE" /\ mn.sessionUsers = MaxPoolTransactions
    /\ LET w == Relay(UpdateState(Mn, "ACCEPTING_ENTRIES"), [type |-> "dsq"])
       IN  mn' = w.pool /\ toClient' = w.net
    /\ UNCHANGED <<sessions, mixed, toMn, pool, locked, requests, made, overlapped>>

\* When CheckTimeout resets the primenode's pool.  An idle one is reset as well,
\* which changes nothing, so its age stays zero here.
MnDue ==
    \/ mn.age >= QueueTimeout
    \/ mn.state = "SIGNING" /\ mn.age >= SigningTimeout

MnTimeout ==
    /\ MnDue
    /\ mn' = SetNull(Mn).pool
    /\ UNCHANGED <<sessions, mixed, toMn, toClient, pool, locked, requests, made, overlapped>>

\* An expired entry goes, and with the last one the session.
Erase(w, e) ==
    LET left == w.pool.entries \ {e}
    IN  RelayStatus(IF left = {} THEN SetNull(w)
                    ELSE [w EXCEPT !.pool.entries = left, !.pool.sev = { g \in @ : g.coin # e.coin }])

\* Wrong on purpose: entries expire in every state.
MnExpireEntryAlways ==
    /\ \E e \in mn.entries : LET w == Erase(Mn, e) IN mn' = w.pool /\ toClient' = w.net
    /\ UNCHANGED <<sessions, mixed, toMn, pool, locked, requests, made, overlapped>>

\* CheckTimeout finds an entry expired.  The ages of entries are left out: any may be.
MnExpireEntry ==
    /\ mn.state \in Collecting
    /\ \E e \in mn.entries : LET w == Erase(Mn, e) IN mn' = w.pool /\ toClient' = w.net
    /\ UNCHANGED <<sessions, mixed, toMn, pool, locked, requests, made, overlapped>>

-----------------------------------------------------------------------------
(* A participant: operators on [pool, locked, sent], its pool, the wallet's *)
(* locked coins and the messages of this step.                              *)

Participant(c) == [pool |-> pool[c], locked |-> locked[c], sent |-> <<>>]

EnterState(k, s) ==
    [k EXCEPT !.pool.state = s, !.pool.age = IF k.pool.state # s THEN 0 ELSE @]

UnlockCoins(k) == [k EXCEPT !.locked = @ \ k.pool.lockedCoins, !.pool.lockedCoins = {}]

\* UnlockCoins and SetNull, which nearly always come together.
Release(k) == LET u == UnlockCoins(k) IN [u EXCEPT !.pool = NullPool(@)]

\* DoAutomaticDenominating, which may give up at several places: before anything
\* is done, after the pool is cleaned, or with a request to the primenode.
DoAutomaticDenominating(k) ==
    LET clean == EnterState(Release(k), "ACCEPTING_ENTRIES")
    IN  {k} \cup IF k.pool.state \in Ended \/ k.pool.entries # {} \/ k.pool.found THEN {}
                 ELSE {clean, [clean EXCEPT !.pool.submitted = TRUE, !.sent = <<[type |-> "dsa"]>>]}

\* StatusUpdate with the id test of the dssu handler, which answers do without.
StatusUpdate(k, m) ==
    LET taken == m.accepted = 1 /\ m.id # 0
        a == EnterState(k, m.state)
        b == IF m.accepted = 0 THEN EnterState(a, "ERROR")
             ELSE IF taken THEN [a EXCEPT !.pool.sessionID = m.id, !.pool.found = TRUE] ELSE a
        other == b.pool.sessionID = 0 /\ ~ b.pool.found
    IN  IF (m.accepted = -1 /\ k.pool.sessionID # m.id) \/ k.pool.state \in Ended THEN {k}
        ELSE CASE m.state = "ACCEPTING_ENTRIES" /\ m.accepted = 1 ->
                    {EnterState([b EXCEPT !.pool.found = TRUE], "QUEUE")}
               [] m.state = "ACCEPTING_ENTRIES" /\ m.accepted = 0 /\ other ->
                    DoAutomaticDenominating(EnterState(UnlockCoins(b), "ACCEPTING_ENTRIES"))
               [] OTHER -> {b}

\* Wrong on purpose: the coins are locked but not remembered.
SendDarksendDenominateForgets(k, e) ==
    {[EnterState(k, "ACCEPTING_ENTRIES") EXCEPT !.pool.entries = {e},
                                                !.sent = <<[type |-> "dsi", entry |-> e]>>]}

\* SendDarksendDenominate: the coin is locked already; the collateral may be bad.
SendDarksendDenominate(k, e) ==
    LET a == [k EXCEPT !.pool.lockedCoins = @ \cup {e.coin}]
        b == EnterState(a, "ACCEPTING_ENTRIES")
    IN  IF ~ a.pool.found THEN {Release(a)}
        ELSE {Release(b), [b EXCEPT !.pool.entries = {e}, !.sent = <<[type |-> "dsi", entry |-> e]>>]}

\* A ready dsq: both PrepareDarksendDenominate, which may find no coins.
DsqReady(c, k) ==
    {k} \cup
    IF k.pool.state # "QUEUE" \/ k.pool.entries # {} \/ made[c] >= MaxEntries[c] THEN {}
    ELSE UNION { SendDarksendDenominate([k EXCEPT !.locked = @ \cup {coin}],
                                        [coin |-> coin, out |-> made[c] + 1]) :
                 coin \in { x \in Coin : Owner[x] = c } \ k.locked }

\* dsf: SignFinalTransaction refuses what has its coin without its output.
Dsf(k, m) ==
    LET mine == { e \in k.pool.entries : e.coin \in Coins(m.tx) }
    IN  IF k.pool.sessionID # m.id \/ mine = {} THEN k
        ELSE IF ~ mine \subseteq m.tx THEN Release(k)
        ELSE [k EXCEPT !.sent = <<[type |-> "dss",
                                   sig |-> [coin |-> (CHOOSE e \in mine : TRUE).coin, tx |-> m.tx]]>>]

\* dsc: CompletedTransaction, whatever the outcome.
Dsc(k, m) == IF k.pool.sessionID = m.id THEN Release(k) ELSE k

\* The next message from the primenode.  One that finds no session submitted is
\* dropped, as is a dsq while DoAutomaticDenominating has cs_darksend.
Receive(c, k, m) ==
    IF ~ k.pool.submitted THEN {k}
    ELSE CASE m.type = "dssu" -> StatusUpdate(k, m)
           [] m.type = "dsq" -> DsqReady(c, k)
           [] m.type = "dsf" -> {Dsf(k, m)}
           [] m.type = "dsc" -> {Dsc(k, m)}

\* The step of participant c that ends with k.
Becomes(c, k) ==
    /\ pool' = [pool EXCEPT ![c] = k.pool] /\ locked' = [locked EXCEPT ![c] = k.locked]
    /\ toMn' = [toMn EXCEPT ![c] = @ \o k.sent]
    /\ LET Sent(type) == IF k.sent # <<>> /\ Head(k.sent).type = type THEN 1 ELSE 0
       IN  /\ requests' = [requests EXCEPT ![c] = @ + Sent("dsa")]
           /\ made' = [made EXCEPT ![c] = @ + Sent("dsi")]
    /\ requests'[c] <= MaxRequests[c]
    /\ UNCHANGED <<mn, sessions, mixed>>

ClientReceive(c) ==
    /\ toClient[c] # <<>>
    /\ \E k \in Receive(c, Participant(c), Head(toClient[c])) : Becomes(c, k)
    /\ toClient' = [toClient EXCEPT ![c] = Tail(@)]
    /\ UNCHANGED overlapped

\* A request or an entry of c that is not answered, or its answer.
AnswerUnderWay(c) ==
    \/ \E i \in DOMAIN toMn[c] : toMn[c][i].type \in {"dsa", "dsi"}
    \/ \E i \in DOMAIN toClient[c] : toClient[c][i].type = "dssu" /\ toClient[c][i].accepted # -1

\* ThreadCheckDarkSendPool starts something when the pool is idle.
StartMixing(c) ==
    /\ pool[c].state = "IDLE"
    /\ \E k \in DoAutomaticDenominating(Participant(c)) \ {Participant(c)} :
         /\ Becomes(c, k)
         /\ overlapped' = overlapped \cup IF k.sent # <<>> /\ AnswerUnderWay(c) THEN {c} ELSE {}
    /\ UNCHANGED toClient

ClientDue(c) ==
    LET p == pool[c]
    IN  \/ p.state \in Ended /\ p.age >= ErrorTime
        \/ p.age >= QueueTimeout + AddLagTime
        \/ p.state = "SIGNING" /\ p.age >= SigningTimeout + AddLagTime

\* CheckTimeout at a participant.
ClientTimeout(c) ==
    /\ ClientDue(c)
    /\ LET k == Release(Participant(c))
       IN  Becomes(c, IF pool[c].state \in Collecting \cup Ended THEN k ELSE EnterState(k, "ERROR"))
    /\ UNCHANGED <<toClient, overlapped>>

ClientExpireEntry(c) ==
    /\ pool[c].state \in Collecting /\ pool[c].entries # {}
    /\ Becomes(c, Release(Participant(c)))
    /\ UNCHANGED <<toClient, overlapped>>

-----------------------------------------------------------------------------
\* A connection breaks: what is under way is lost, and neither pool takes notice.
Disconnect(c) ==
    /\ toMn[c] # <<>> \/ toClient[c] # <<>>
    /\ toMn' = [toMn EXCEPT ![c] = <<>>] /\ toClient' = [toClient EXCEPT ![c] = <<>>]
    /\ UNCHANGED <<mn, sessions, mixed, pool, locked, requests, made, overlapped>>

\* The clock.  A timer comes once a second, much oftener than anything is due.
Tick ==
    /\ ~ MnDue /\ \A c \in Client : ~ ClientDue(c)
    /\ mn' = [mn EXCEPT !.age = IF mn.state = "IDLE" THEN 0 ELSE @ + 1]
    /\ pool' = [c \in Client |-> [pool[c] EXCEPT !.age = @ + 1]]
    /\ UNCHANGED <<sessions, mixed, toMn, toClient, locked, requests, made, overlapped>>

Next ==
    \/ \E c \in Client : \/ MnReceive(c) \/ ClientReceive(c) \/ StartMixing(c)
                         \/ ClientTimeout(c) \/ ClientExpireEntry(c)
                         \/ Disconnect(c)
    \/ CheckForCompleteQueue \/ MnTimeout \/ MnExpireEntry
    \/ Tick

Spec == Init /\ [][Next]_vars

\* The clock goes on and the timers run; messages may be as late as they like.  It is
\* enough that one of them does what is due: the clock waits for all timers.
FairSpec == Spec /\ WF_vars(Tick \/ MnTimeout \/ \E c \in Client : ClientTimeout(c))

-----------------------------------------------------------------------------
(* Properties. *)

\* Every variable has its type.
TypeOK ==
    /\ mn.state \in State \ Ended /\ mn.sessionID \in 0..sessions /\ mn.sessionUsers \in 0..MaxPoolTransactions
    /\ mn.entries \subseteq Entry /\ mn.tx \subseteq Entry
    /\ mn.sev \subseteq Signature /\ mn.txSigs \subseteq Signature
    /\ mn.age \in Nat /\ sessions \in Nat /\ mixed \subseteq Entry
    /\ \A c \in Client :
         /\ pool[c].state \in State /\ pool[c].sessionID \in 0..sessions /\ pool[c].found \in BOOLEAN
         /\ pool[c].entries \subseteq Entry /\ pool[c].lockedCoins \subseteq locked[c]
         /\ pool[c].submitted \in BOOLEAN /\ pool[c].age \in Nat
         /\ Coins(pool[c].entries) \subseteq pool[c].lockedCoins
    /\ requests \in [Client -> Nat] /\ made \in [Client -> Nat]
    /\ overlapped \subseteq Client

\* A session is not replaced by another: refused entries cost places, but never so
\* many that a dsa would find sessionUsers at zero and open the next one.
SessionNotReplaced ==
    [][mn.sessionID # 0 /\ mn'.sessionID # mn.sessionID => mn'.sessionID = 0]_vars

\* While the primenode waits for signatures its transaction is what its entries say,
\* and every signature it counts is one over just that transaction.
SignaturesFit ==
    mn.state = "SIGNING" =>
        /\ mn.tx = mn.entries
        /\ mn.txSigs = mn.sev
        /\ \A g \in mn.sev : g.tx = mn.tx

MixedAreLocked(c) == \A e \in mixed' \ mixed : Owner[e.coin] = c => e.coin \in locked[c]

\* "if we're the client, give the server a few extra seconds before resetting"
\* (CheckTimeout): when the transaction is sent out, no participant has let go of the
\* coin it signed for.  The code does not keep this: an idle participant asks again
\* although it has not had the answer to what it asked before.
MixedCoinsAreLocked == [][\A c \in Client : MixedAreLocked(c)]_vars

\* That is the one way: whoever has never asked with an answer under way still has the
\* coin locked when the transaction is sent out, whatever is late, lost, refused or expires.
LockedUnlessOverlapped == [][\A c \in Client \ overlapped : MixedAreLocked(c)]_vars

\* Whatever becomes of a session, of its messages and of the primenode, no coin stays
\* locked for ever.
CoinsComeFree == \A x \in Coin : []<>(x \notin locked[Owner[x]])
=============================================================================
