------------------------------ MODULE InstantX ------------------------------
(***************************************************************************)
(* instantx.cpp at one node: requests to lock a transaction's inputs       *)
(* (txlreq), the votes of primenodes (txlvote), the locks that enough      *)
(* votes make, conflicts between locks, and the clean-up by time.          *)
(*                                                                         *)
(* Three threads meet in these maps, which no mutex guards: the message    *)
(* handler, the wallet's user and the timer of ThreadCheckDarkSendPool.    *)
(* A handler is one step, except that a request is two, because it waits   *)
(* for cs_main in its middle.                                              *)
(*                                                                         *)
(* Relaying, and mapUnknownVotes that limits it, are left out.             *)
(***************************************************************************)
EXTENDS Naturals, Sequences, FiniteSets

CONSTANTS
    Tx,          \* valid InstantX transactions (IsIXTXValid)
    Outpoint,
    Ins,         \* [Tx -> SUBSET Outpoint], the inputs
    Primenode,
    Height,      \* heights that votes name; 0 is none
    LockHeight,  \* [Tx -> Height], four above the height of the first input
    Quorum,      \* [Height -> SUBSET Primenode], rank at most INSTANTX_SIGNATURES_TOTAL
    Required,    \* INSTANTX_SIGNATURES_REQUIRED
    Votes,       \* the votes in the network: [vinPrimenode, txHash, nBlockHeight]
    Self,        \* this primenode, or None
    MaxReorgs,   \* bound: blocks that displace a transaction the node had
    None

ASSUME InstantXAssumption ==
    /\ Ins \in [Tx -> SUBSET Outpoint]
    /\ LockHeight \in [Tx -> Height]
    /\ Quorum \in [Height -> SUBSET Primenode]
    /\ Required \in Nat \ {0}
    /\ Votes \subseteq [vinPrimenode : Primenode, txHash : Tx, nBlockHeight : Height]
    /\ Self \in Primenode \cup {None}
    /\ MaxReorgs \in Nat
    /\ None \notin Tx \cup Primenode
    /\ Height \subseteq Nat \ {0}

VARIABLES
    mapTxLockReq,          \* requests accepted to the memory pool
    mapTxLockReqRejected,  \* requests the memory pool refused
    mapTxLockVote,         \* votes seen, by primenode and transaction
    mapTxLocks,            \* [some of Tx -> CTransactionLock]
    mapLockedInputs,       \* [Outpoint -> Tx or None]
    request,               \* the request the message handler is in, or None
    spentBy,               \* [Outpoint -> Tx or None], in the pool or the chain
    reorgs,                \* history: how often spentBy lost a transaction
    aborted                \* the process has died in CTxDB's assertion

lockVars == <<mapTxLockReq, mapTxLockReqRejected, mapTxLockVote, mapTxLocks, mapLockedInputs>>
vars     == <<lockVars, request, spentBy, reorgs, aborted>>

\* nExpiration against the clock: to come, this second (a conflict), gone.
Later == "later"
Now   == "now"
Past  == "past"

\* CTransactionLock; the votes come in the order they were added.
Lock == [nBlockHeight : Height \cup {0},
         vecConsensusVotes : Seq(Primenode \X Height),
         nExpiration : {Later, Now, Past}]

Init ==
    /\ mapTxLockReq = {} /\ mapTxLockReqRejected = {} /\ mapTxLockVote = {}
    /\ mapTxLocks = [t \in {} |-> None]
    /\ mapLockedInputs = [o \in Outpoint |-> None]
    /\ request = None
    /\ spentBy = [o \in Outpoint |-> None]
    /\ reorgs = 0 /\ aborted = FALSE

-----------------------------------------------------------------------------
(* Helpers. *)

NewLock(h) == [nBlockHeight |-> h, vecConsensusVotes |-> <<>>, nExpiration |-> Later]

\* Wrong on purpose: every vote counts, whatever height it names.
CountSignaturesOfAnyHeight(lock) ==
    IF lock.nBlockHeight = 0 THEN 0 ELSE Len(lock.vecConsensusVotes)

\* Votes for the height of the request; 0 (the code's -1) before there is one.
CountSignatures(lock) ==
    IF lock.nBlockHeight = 0 THEN 0
    ELSE Cardinality({ i \in DOMAIN lock.vecConsensusVotes :
                         lock.vecConsensusVotes[i][2] = lock.nBlockHeight })

Complete(t, locks) == t \in DOMAIN locks /\ CountSignatures(locks[t]) >= Required

\* Wrong on purpose: the height is counted up where the lock exists already.
CreateNewLockCounts(t) ==
    [u \in DOMAIN mapTxLocks \cup {t} |->
        IF u \notin DOMAIN mapTxLocks THEN NewLock(LockHeight[t])
        ELSE IF u = t THEN [mapTxLocks[u] EXCEPT !.nBlockHeight = @ + 1]
        ELSE mapTxLocks[u]]

\* CreateNewLock, unless an input is younger than nine blocks.
CreateNewLock(t) ==
    [u \in DOMAIN mapTxLocks \cup {t} |->
        IF u \notin DOMAIN mapTxLocks THEN NewLock(LockHeight[t])
        ELSE IF u = t THEN [mapTxLocks[u] EXCEPT !.nBlockHeight = LockHeight[t]]
        ELSE mapTxLocks[u]]

\* mapTxLocks with one more vote, in a new lock without height if there is none.
AddSignature(v) ==
    LET old == IF v.txHash \in DOMAIN mapTxLocks THEN mapTxLocks[v.txHash] ELSE NewLock(0)
    IN  [u \in DOMAIN mapTxLocks \cup {v.txHash} |->
            IF u = v.txHash
            THEN [old EXCEPT !.vecConsensusVotes = Append(@, <<v.vinPrimenode, v.nBlockHeight>>)]
            ELSE mapTxLocks[u]]

\* Wrong on purpose: only the first input is locked.
LockOneInput(t) ==
    LET first == CHOOSE o \in Ins[t] : TRUE
    IN  [o \in Outpoint |-> IF o = first /\ mapLockedInputs[o] = None THEN t ELSE mapLockedInputs[o]]

\* The inputs of t that nothing locks, locked for t.
LockInputs(t) ==
    [o \in Outpoint |-> IF o \in Ins[t] /\ mapLockedInputs[o] = None THEN t ELSE mapLockedInputs[o]]

\* CheckForConflictingLocks: the others that lock an input of t.
Conflicting(t, locked) == { locked[o] : o \in Ins[t] } \ {None, t}

\* Both of two conflicting locks expire within the second.
CancelBoth(t, u, locks) ==
    [w \in DOMAIN locks |-> IF w \in {t, u} THEN [locks[w] EXCEPT !.nExpiration = Now] ELSE locks[w]]

\* AcceptToMemoryPool, for what it looks at here: the transaction is not known, no
\* input is locked for another, none is spent in the pool or the chain.
Acceptable(t) ==
    \A o \in Ins[t] : mapLockedInputs[o] \in {None, t} /\ spentBy[o] = None

Spend(t) == [o \in Outpoint |-> IF o \in Ins[t] THEN t ELSE spentBy[o]]

-----------------------------------------------------------------------------
(* The message handler: requests. *)

\* txlreq up to AcceptToMemoryPool's lock of cs_main.
ReceiveRequest(t) ==
    /\ request = None
    /\ t \notin mapTxLockReq \cup mapTxLockReqRejected
    /\ \/ request' = [tx |-> t, nBlockHeight |-> LockHeight[t]] /\ mapTxLocks' = CreateNewLock(t)
       \/ request' = [tx |-> t, nBlockHeight |-> 0] /\ UNCHANGED mapTxLocks
    /\ UNCHANGED <<mapTxLockReq, mapTxLockReqRejected, mapTxLockVote, mapLockedInputs, spentBy, reorgs, aborted>>

\* DoConsensusVote: the node's own vote is noted, and not added to its lock.  A
\* request without height is ranked at the best block.
OwnVotes(t, h) ==
    IF Self = None THEN {{}}
    ELSE IF h = 0 THEN {{}, {<<Self, t>>}}
    ELSE {IF Self \in Quorum[h] THEN {<<Self, t>>} ELSE {}}

AcceptRequest ==
    /\ request # None /\ Acceptable(request.tx)
    /\ \E own \in OwnVotes(request.tx, request.nBlockHeight) : mapTxLockVote' = mapTxLockVote \cup own
    /\ mapTxLockReq' = mapTxLockReq \cup {request.tx}
    /\ spentBy' = Spend(request.tx)
    /\ request' = None
    /\ UNCHANGED <<mapTxLockReqRejected, mapTxLocks, mapLockedInputs, reorgs, aborted>>

\* A request may be refused in any state (fees, scripts, inputs the pool does not
\* know: IsIXTXValid lets those pass).  It locks what is free all the same.  With a complete lock and no
\* conflict it goes on to DisconnectBlock with an uninitialised pindex and to
\* DisconnectInputs on a read-only database: the process dies there.
RejectRequest ==
    /\ request # None
    /\ mapTxLockReqRejected' = mapTxLockReqRejected \cup {request.tx}
    /\ mapLockedInputs' = LockInputs(request.tx)
    /\ LET t == request.tx
           others == Conflicting(t, mapLockedInputs')
       IN  \/ ~ Complete(t, mapTxLocks) /\ UNCHANGED <<mapTxLocks, aborted>>
           \/ Complete(t, mapTxLocks) /\ others = {} /\ aborted' = TRUE /\ UNCHANGED mapTxLocks
           \/ /\ Complete(t, mapTxLocks)
              /\ \E u \in others : mapTxLocks' = CancelBoth(t, u, mapTxLocks)
              /\ UNCHANGED aborted
    /\ request' = None
    /\ UNCHANGED <<mapTxLockReq, mapTxLockVote, spentBy, reorgs>>

-----------------------------------------------------------------------------
(* The message handler: votes. *)

\* A vote not seen before; one of a primenode unknown here, of one outside the
\* quorum or with a signature that fails is noted and not counted.
IgnoreVote(v) ==
    /\ request = None
    /\ <<v.vinPrimenode, v.txHash>> \notin mapTxLockVote
    /\ mapTxLockVote' = mapTxLockVote \cup {<<v.vinPrimenode, v.txHash>>}
    /\ UNCHANGED <<mapTxLockReq, mapTxLockReqRejected, mapTxLocks, mapLockedInputs, request, spentBy, reorgs, aborted>>

\* Wrong on purpose: a vote is counted whether or not it was counted before.
CountVoteAgain(v) ==
    /\ request = None
    /\ v.vinPrimenode \in Quorum[v.nBlockHeight]
    /\ v.txHash \in DOMAIN mapTxLocks => Len(mapTxLocks[v.txHash].vecConsensusVotes) < Required
    /\ mapTxLockVote' = mapTxLockVote \cup {<<v.vinPrimenode, v.txHash>>}
    /\ mapTxLocks' = AddSignature(v)
    /\ UNCHANGED <<mapTxLockReq, mapTxLockReqRejected, mapLockedInputs, request, spentBy, reorgs, aborted>>

\* ProcessConsensusVote.  A complete lock whose request was refused ends as in
\* RejectRequest (mapTxLockReq[t] makes an empty transaction, with no conflict).  A
\* complete lock has a height, so its request was accepted or refused.
CountVote(v) ==
    /\ request = None
    /\ <<v.vinPrimenode, v.txHash>> \notin mapTxLockVote
    /\ v.vinPrimenode \in Quorum[v.nBlockHeight]
    /\ mapTxLockVote' = mapTxLockVote \cup {<<v.vinPrimenode, v.txHash>>}
    /\ LET t == v.txHash
           locks == AddSignature(v)
           others == Conflicting(t, mapLockedInputs)
       IN  \/ ~ Complete(t, locks) /\ mapTxLocks' = locks /\ UNCHANGED <<mapLockedInputs, aborted>>
           \/ /\ Complete(t, locks) /\ t \in mapTxLockReq /\ others = {}
              /\ mapTxLocks' = locks /\ mapLockedInputs' = LockInputs(t)
              /\ aborted' = (t \in mapTxLockReqRejected)
           \/ /\ Complete(t, locks) /\ t \in mapTxLockReq
              /\ \E u \in others : mapTxLocks' = CancelBoth(t, u, locks)
              /\ UNCHANGED <<mapLockedInputs, aborted>>
           \/ /\ Complete(t, locks) /\ t \in mapTxLockReqRejected \ mapTxLockReq
              /\ mapTxLocks' = locks
              /\ aborted' = TRUE
              /\ UNCHANGED mapLockedInputs
    /\ UNCHANGED <<mapTxLockReq, mapTxLockReqRejected, request, spentBy, reorgs>>

-----------------------------------------------------------------------------
(* The other threads. *)

\* The wallet sends a new transaction as a request: CommitTransaction accepts it to
\* the pool, RelayWalletTransaction makes the request and its lock.
SendRequest(t) ==
    /\ t \notin mapTxLockReq \cup mapTxLockReqRejected \cup DOMAIN mapTxLocks
    /\ \A p \in Primenode : <<p, t>> \notin mapTxLockVote
    /\ request # None => request.tx # t
    /\ Acceptable(t)
    /\ spentBy' = Spend(t)
    /\ mapTxLockReq' = mapTxLockReq \cup {t}
    /\ mapTxLocks' \in {mapTxLocks, CreateNewLock(t)}
    /\ UNCHANGED <<mapTxLockReqRejected, mapTxLockVote, mapLockedInputs, request, reorgs, aborted>>

\* A transaction that arrives as any other.
ReceiveTx(t) ==
    /\ Acceptable(t) /\ Ins[t] # {}
    /\ spentBy' = Spend(t)
    /\ UNCHANGED <<lockVars, request, reorgs, aborted>>

\* A block with t, which CheckBlock lets pass, takes the place of what the node had
\* in its pool or, after a reorganisation, in its chain.
ConnectTx(t) ==
    /\ reorgs < MaxReorgs
    /\ \A o \in Ins[t] : mapLockedInputs[o] \in {None, t}
    /\ \E o \in Ins[t] : spentBy[o] # t
    /\ reorgs' = reorgs + 1
    /\ LET displaced == { spentBy[o] : o \in Ins[t] } \ {None, t}
       IN  spentBy' = [o \in Outpoint |-> IF o \in Ins[t] THEN t
                                          ELSE IF spentBy[o] \in displaced THEN None ELSE spentBy[o]]
    /\ UNCHANGED <<lockVars, request, aborted>>

\* A reorganisation disconnects t or drops it from the pool, and it does not return.
LoseTx(t) ==
    /\ reorgs < MaxReorgs
    /\ \E o \in Ins[t] : spentBy[o] = t
    /\ reorgs' = reorgs + 1
    /\ spentBy' = [o \in Outpoint |-> IF spentBy[o] = t THEN None ELSE spentBy[o]]
    /\ UNCHANGED <<lockVars, request, aborted>>

\* The clock passes the expiration of a lock.
TimePasses(t) ==
    /\ t \in DOMAIN mapTxLocks /\ mapTxLocks[t].nExpiration # Past
    /\ mapTxLocks' = [mapTxLocks EXCEPT ![t].nExpiration = Past]
    /\ UNCHANGED <<mapTxLockReq, mapTxLockReqRejected, mapTxLockVote, mapLockedInputs, request, spentBy, reorgs, aborted>>

Expired == { t \in DOMAIN mapTxLocks : mapTxLocks[t].nExpiration = Past }

VotesIn(lock) == { lock.vecConsensusVotes[i][1] : i \in DOMAIN lock.vecConsensusVotes }

\* Wrong on purpose: the locks go first, and with them what says which votes, inputs
\* and requests are theirs.
CleanLocksOnly ==
    /\ Expired # {}
    /\ mapTxLocks' = [t \in DOMAIN mapTxLocks \ Expired |-> mapTxLocks[t]]
    /\ UNCHANGED <<mapTxLockReq, mapTxLockReqRejected, mapTxLockVote, mapLockedInputs, request, spentBy, reorgs, aborted>>

\* Wrong on purpose: a lock without an accepted request is passed over.
CleanRequestedOnly ==
    /\ Expired \cap mapTxLockReq # {}
    /\ LET done == Expired \cap mapTxLockReq
       IN  /\ mapLockedInputs' = [o \in Outpoint |-> IF \E t \in done : o \in Ins[t] THEN None ELSE mapLockedInputs[o]]
           /\ mapTxLockReq' = mapTxLockReq \ done
           /\ mapTxLockVote' = { pt \in mapTxLockVote : pt[2] \notin done }
           /\ mapTxLocks' = [t \in DOMAIN mapTxLocks \ done |-> mapTxLocks[t]]
    /\ UNCHANGED <<mapTxLockReqRejected, request, spentBy, reorgs, aborted>>

\* CleanTransactionLocksList: a lock without an accepted request takes nothing with
\* it but itself.
Clean ==
    /\ Expired # {}
    /\ LET done == Expired \cap mapTxLockReq
       IN  /\ mapLockedInputs' = [o \in Outpoint |-> IF \E t \in done : o \in Ins[t] THEN None ELSE mapLockedInputs[o]]
           /\ mapTxLockReq' = mapTxLockReq \ done
           /\ mapTxLockReqRejected' = mapTxLockReqRejected \ done
           /\ mapTxLockVote' = mapTxLockVote \ { pt \in mapTxLockVote : pt[2] \in done /\ pt[1] \in VotesIn(mapTxLocks[pt[2]]) }
           /\ mapTxLocks' = [t \in DOMAIN mapTxLocks \ Expired |-> mapTxLocks[t]]
    /\ UNCHANGED <<request, spentBy, reorgs, aborted>>

Next ==
    /\ ~ aborted
    /\ \/ \E t \in Tx : \/ ReceiveRequest(t) \/ SendRequest(t) \/ ReceiveTx(t) \/ ConnectTx(t)
                      \/ LoseTx(t) \/ TimePasses(t)
       \/ AcceptRequest \/ RejectRequest
       \/ \E v \in Votes : IgnoreVote(v) \/ CountVote(v)
       \/ Clean

Spec == Init /\ [][Next]_vars

\* The clock runs, and the timer thread calls CleanTransactionLocksList every minute.
FairSpec == Spec /\ \A t \in Tx : WF_vars(~ aborted /\ TimePasses(t)) /\ WF_vars(~ aborted /\ Clean)

-----------------------------------------------------------------------------
(* Properties. *)

\* Every variable has its type.
TypeOK ==
    /\ mapTxLockReq \subseteq Tx /\ mapTxLockReqRejected \subseteq Tx
    /\ mapTxLockVote \subseteq Primenode \X Tx
    /\ DOMAIN mapTxLocks \subseteq Tx
    /\ \A t \in DOMAIN mapTxLocks : mapTxLocks[t] \in Lock
    /\ mapLockedInputs \in [Outpoint -> Tx \cup {None}]
    /\ request \in [tx : Tx, nBlockHeight : Height \cup {0}] \cup {None}
    /\ spentBy \in [Outpoint -> Tx \cup {None}]
    /\ reorgs \in 0..MaxReorgs /\ aborted \in BOOLEAN

\* A primenode has one vote in a lock at most, however often its vote arrives and
\* whenever locks and votes are cleaned up.
VotesCountOnce ==
    \A t \in DOMAIN mapTxLocks :
        LET votes == mapTxLocks[t].vecConsensusVotes
        IN  \A i, j \in DOMAIN votes : votes[i][1] = votes[j][1] => i = j

\* The primenodes of the quorum of t's height that voted in its lock.
Voters(t, locks) ==
    { p \in Quorum[LockHeight[t]] :
        \E i \in DOMAIN locks[t].vecConsensusVotes : locks[t].vecConsensusVotes[i] = <<p, LockHeight[t]>> }

\* ProcessConsensusVote locks an input only for a request that enough distinct
\* primenodes of its own quorum voted for, whatever heights the votes name.
AcceptedLockByVotes ==
    [][\A o \in Outpoint :
         LET t == mapLockedInputs'[o]
         IN  t # mapLockedInputs[o] /\ t # None /\ t \notin mapTxLockReqRejected'
             => t \in DOMAIN mapTxLocks' /\ Cardinality(Voters(t, mapTxLocks')) >= Required]_vars

\* Every input locked for a request that was not refused has a request and a lock,
\* so that CleanTransactionLocksList releases it in time.
AcceptedLockExpires ==
    \A o \in Outpoint :
        mapLockedInputs[o] \notin mapTxLockReqRejected \cup {None}
        => mapLockedInputs[o] \in mapTxLockReq \cap DOMAIN mapTxLocks

\* Until a block takes a transaction away from the node, a request's inputs are
\* locked together and released together: no clean-up releases another's input.
LockedTogether ==
    reorgs = 0 => \A t \in mapTxLockReq : { o \in Ins[t] : mapLockedInputs[o] = t } \in {{}, Ins[t]}

\* No lock stays in mapTxLocks for ever.
LocksGoAway ==
    \A t \in Tx : t \in DOMAIN mapTxLocks ~> (t \notin DOMAIN mapTxLocks \/ aborted)

\* "Primenodes will sometimes propagate votes before the transaction is known to the
\* client" (txlvote): a complete lock of an accepted request holds its inputs.
CompleteLockHolds ==
    \A t \in mapTxLockReq :
        Complete(t, mapTxLocks) /\ mapTxLocks[t].nExpiration = Later
        => \A o \in Ins[t] : mapLockedInputs[o] = t
=============================================================================
