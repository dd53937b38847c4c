------------------------------ MODULE MCSystem ------------------------------
EXTENDS EosioSystem, TLC

CONSTANTS eosio, dyadmin, token, stake, saving, alice, bob, key, SYS, EOS

MCNameValue == eosio :> 1 @@ dyadmin :> 2 @@ token :> 3 @@ stake :> 4 @@ saving :> 5 @@
               alice :> 6 @@ bob :> 7

\* Where bob is created, it stands for a name like "bob.alice".
MCSuffix == [n \in Name |-> IF n = bob THEN alice ELSE n]

MCEndowment == [k \in Genesis \X Code |-> IF k[1] = alice THEN 1 ELSE 0]

\* Both can stake, and one of them by halves.
MCStakers == [k \in Genesis \X Code |->
                CASE k[1] = alice -> 2 [] k[1] = bob -> 1 [] OTHER -> 0]

MCMinted == [code : Code, prec : Precision]

MCMaxFee == [p \in {0, 4} |-> 1]

\* The two tokens are alike.
MCCodes == Permutations({SYS, EOS})

MCFirstSchedule == <<[producer_name |-> eosio, key |-> key]>>
=============================================================================
