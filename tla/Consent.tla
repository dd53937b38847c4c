------------------------------ MODULE Consent ------------------------------
(***************************************************************************)
(* What eosio.msig promises.  A proposal collects the consent of           *)
(* permission levels.  A level's consent is its own to give, and to take   *)
(* back for one proposal or for all of them; a proposal is run at most     *)
(* once, and only while a quorum of its transaction consents.              *)
(***************************************************************************)
EXTENDS Integers, FiniteSets, Tables

CONSTANTS Proposal, Level, Account, LevelActor, Trx, Quorums, Time

VARIABLES
    open,       \* open proposals -> their transaction
    consent,    \* open proposals -> the levels that consent
    recalled,   \* accounts that took all their consent back -> when they did last
    running     \* proposals sent for execution -> their transaction

vars == <<open, consent, recalled, running>>

Init == /\ open \in UNION {[P -> Trx] : P \in SUBSET Proposal}
        /\ consent \in [DOMAIN open -> SUBSET Level]
        /\ recalled = NoRows
        /\ running = NoRows

Open(p, trx) ==
    /\ p \notin DOMAIN open
    /\ open' = Put(open, p, trx)
    /\ consent' = Put(consent, p, {})
    /\ UNCHANGED <<recalled, running>>

Give(p, level) ==
    /\ p \in DOMAIN open
    /\ consent' = [consent EXCEPT ![p] = @ \cup {level}]
    /\ UNCHANGED <<open, recalled, running>>

TakeBack(p, level) ==
    /\ p \in DOMAIN open
    /\ consent' = [consent EXCEPT ![p] = @ \ {level}]
    /\ UNCHANGED <<open, recalled, running>>

TakeAllBack(account, time) ==
    /\ recalled' = Put(recalled, account, time)
    /\ consent' = [p \in DOMAIN consent |->
                     {level \in consent[p] : LevelActor[level] # account}]
    /\ UNCHANGED <<open, running>>

Close(p) ==
    /\ p \in DOMAIN open
    /\ open' = Drop(open, p)
    /\ consent' = Drop(consent, p)
    /\ UNCHANGED recalled

Run(p) ==
    /\ Close(p)
    /\ \E quorum \in Quorums[open[p]] : quorum \subseteq consent[p]
    /\ p \notin DOMAIN running
    /\ running' = Put(running, p, open[p])

Finish(p) ==
    /\ p \in DOMAIN running
    /\ running' = Drop(running, p)
    /\ UNCHANGED <<open, consent, recalled>>

Next ==
    \/ \E p \in Proposal, trx \in Trx : Open(p, trx)
    \/ \E p \in Proposal, level \in Level : Give(p, level) \/ TakeBack(p, level)
    \/ \E account \in Account, time \in Time : TakeAllBack(account, time)
    \/ \E p \in Proposal : (Close(p) /\ UNCHANGED running) \/ Run(p) \/ Finish(p)

Spec == Init /\ [][Next]_vars
=============================================================================
