----------------------------- MODULE MCStaking -----------------------------
EXTENDS EosioSystem, TLC

CONSTANTS eosio, dyadmin, token, stake, saving, alice, bob, key

MCNameValue == eosio :> 1 @@ dyadmin :> 2 @@ token :> 3 @@ stake :> 4 @@ saving :> 5 @@
               alice :> 6 @@ bob :> 7

MCSuffix == [n \in Name |-> n]

MCEndowment == [k \in Genesis \X Code |->
                  IF k[1] \in {alice, bob} THEN 1 ELSE 0]

MCMinted == [code : Code, prec : Precision]

MCMaxFee == [p \in {0, 4} |-> 1]

MCFirstSchedule == <<[producer_name |-> eosio, key |-> key]>>
=============================================================================
