------------------------- MODULE MCDarksendSession -------------------------
(***************************************************************************)
(* Two participants and a pool for two.                                    *)
(***************************************************************************)
EXTENDS DarksendSession

MCOwner == [x \in Coin |-> IF x = "b1" THEN "b" ELSE "a"]

MCOne == [c \in Client |-> 1]
MCTwoOne == [c \in Client |-> IF c = "a" THEN 2 ELSE 1]
MCOneTwo == [c \in Client |-> IF c = "a" THEN 1 ELSE 2]
MCThreeTwo == [c \in Client |-> IF c = "a" THEN 3 ELSE 2]

\* Some of the behaviours: nobody gives up, or loses the connection, while the answer
\* to a request or an entry is under way.
PromptNext ==
    \/ \E c \in Client :
         \/ MnReceive(c) \/ ClientReceive(c) \/ StartMixing(c)
         \/ ~ AnswerUnderWay(c) /\ (ClientTimeout(c) \/ ClientExpireEntry(c) \/ Disconnect(c))
    \/ CheckForCompleteQueue \/ MnTimeout \/ MnExpireEntry
    \/ Tick

PromptSpec == Init /\ [][PromptNext]_vars
=============================================================================
