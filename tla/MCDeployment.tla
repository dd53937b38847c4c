---------------------------- MODULE MCDeployment ----------------------------
EXTENDS Deployment, TLC

CONSTANTS eosio, dyadmin, records, shop, v1, v2, t1, t2, SYS, EOS

MCHash == [a \in Abi |-> <<"sha256", a>>]

MCMoney == {[amount |-> 1, symbol |-> SYS], [amount |-> 0, symbol |-> EOS]}

\* The second is too shallow for the system contract.
MCParams == {[max_authority_depth |-> 6], [max_authority_depth |-> 2]}

MCGenesisParams == [max_authority_depth |-> 6]

\* ABIs are alike, and so are the ids of transfers.
MCAlike == Permutations({v1, v2}) \cup Permutations({t1, t2})
=============================================================================
