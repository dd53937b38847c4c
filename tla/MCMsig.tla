------------------------------- MODULE MCMsig -------------------------------
EXTENDS EosioMsig, TLC

CONSTANTS alice, bob, aliceActive, bobActive, joint, single

MCLevelActor == aliceActive :> alice @@ bobActive :> bob

\* joint needs both levels, single is bob's own.
MCQuorums == joint :> {{aliceActive, bobActive}} @@ single :> {{bobActive}}

MCExpiration == joint :> 1 @@ single :> 0
=============================================================================
