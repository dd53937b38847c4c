----------------------------- MODULE MCElection -----------------------------
EXTENDS VotingWithStakes, TLC

CONSTANTS eosio, dyadmin, alice, prod, queen, rival, key

MCNameValue == eosio :> 1 @@ dyadmin :> 2 @@ alice :> 3 @@ prod :> 4 @@ queen :> 5 @@
               rival :> 6

\* Set by setprods before the system contract is installed.
MCFirstSchedule == <<[producer_name |-> eosio, key |-> key],
                     [producer_name |-> dyadmin, key |-> key]>>
=============================================================================
