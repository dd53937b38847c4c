------------------------------ MODULE MCVoting ------------------------------
EXTENDS VotingWithStakes, TLC

CONSTANTS eosio, dyadmin, alice, bob, prod, queen, key

MCNameValue == eosio :> 1 @@ dyadmin :> 2 @@ alice :> 3 @@ bob :> 4 @@ prod :> 5 @@ queen :> 6

MCFirstSchedule == <<[producer_name |-> eosio, key |-> key]>>
=============================================================================
