----------------------------- MODULE EosioToken -----------------------------
(***************************************************************************)
(* eosio.token: the actions create, issue, retire, transfer, open and      *)
(* close, and the tables stat (one row per symbol code) and accounts (one  *)
(* row per owner and symbol code).  An action of the contract runs to its  *)
(* end or is rolled back as a whole, so a handler is one step and a failed *)
(* check() is a step that is not taken.  auth is the set of accounts whose *)
(* permission the action carries.                                          *)
(***************************************************************************)
EXTENDS ChainAccounts

CONSTANTS
    TokenSelf,    \* get_self() of the token contract
    Code,         \* symbol codes
    Precision,    \* precisions a symbol can have
    MaxAmount     \* asset::max_amount, 2^62 - 1 on the chain

ASSUME TokenAssumption ==
    /\ TokenSelf \in Name
    /\ MaxAmount \in Nat \ {0}

VARIABLES
    stat,         \* stats table
    accounts      \* accounts tables of all owners

tokenVars == <<existing, stat, accounts>>

Symbol == [code : Code, prec : Precision]

\* Assets that pass asset::is_valid(): the amount may be zero or negative.
Asset == [amount : -MaxAmount .. MaxAmount, code : Code, prec : Precision]

StatRow == [supply : 0 .. MaxAmount, max_supply : 1 .. MaxAmount,
            prec : Precision, issuer : Name]

\* payer is the account billed for the row's RAM.
AccountRow == [amount : 0 .. MaxAmount, prec : Precision, payer : Name]

-----------------------------------------------------------------------------
\* Mutant: sub_balance without its overdrawn check.
SubBalanceOverdraws(t, owner, value) ==
    LET k == <<owner, value.code>> IN
    k \in DOMAIN t /\ t[k].prec = value.prec

\* sub_balance: its checks, and the accounts table it leaves.
SubBalanceOK(t, owner, value) ==
    LET k == <<owner, value.code>> IN
    /\ k \in DOMAIN t
    /\ t[k].amount >= value.amount
    /\ t[k].prec = value.prec

SubBalance(t, owner, value) ==
    LET k == <<owner, value.code>> IN
    Put(t, k, [amount |-> t[k].amount - value.amount, prec |-> t[k].prec, payer |-> owner])

\* add_balance: asset::operator+= checks the symbol and the range.
AddBalanceOK(t, owner, value) ==
    LET k == <<owner, value.code>> IN
    k \in DOMAIN t => /\ t[k].prec = value.prec
                      /\ t[k].amount + value.amount <= MaxAmount

AddBalance(t, owner, value, ram_payer) ==
    LET k == <<owner, value.code>> IN
    IF k \in DOMAIN t
    THEN Put(t, k, [amount |-> t[k].amount + value.amount, prec |-> t[k].prec,
                    payer |-> t[k].payer])
    ELSE Put(t, k, [amount |-> value.amount, prec |-> value.prec,
                    payer |-> ram_payer])

-----------------------------------------------------------------------------
\* Mutant: create does not ask whether the token exists.
CreateAgain(auth, issuer, maximum_supply) ==
    /\ TokenSelf \in auth
    /\ maximum_supply.amount > 0
    /\ stat' = Put(stat, maximum_supply.code,
                   [supply |-> 0, max_supply |-> maximum_supply.amount,
                    prec |-> maximum_supply.prec, issuer |-> issuer])
    /\ UNCHANGED <<existing, accounts>>

Create(auth, issuer, maximum_supply) ==
    /\ TokenSelf \in auth
    /\ maximum_supply.amount > 0
    /\ maximum_supply.code \notin DOMAIN stat
    /\ stat' = Put(stat, maximum_supply.code,
                   [supply |-> 0, max_supply |-> maximum_supply.amount,
                    prec |-> maximum_supply.prec, issuer |-> issuer])
    /\ UNCHANGED <<existing, accounts>>

\* Mutant: issue compares with the cap and forgets what was issued before.
AvailableAtFirst(c) == stat[c].max_supply

\* How much more of c can be issued.
Available(c) == stat[c].max_supply - stat[c].supply

Issue(auth, to, quantity) ==
    LET c == quantity.code IN
    /\ c \in DOMAIN stat
    /\ to = stat[c].issuer
    /\ stat[c].issuer \in auth
    /\ quantity.amount > 0
    /\ quantity.prec = stat[c].prec
    /\ quantity.amount <= Available(c)
    /\ stat' = Put(stat, c, [stat[c] EXCEPT !.supply = @ + quantity.amount])
    /\ AddBalanceOK(accounts, stat[c].issuer, quantity)
    /\ accounts' = AddBalance(accounts, stat[c].issuer, quantity, stat[c].issuer)
    /\ UNCHANGED existing

Retire(auth, quantity) ==
    LET c == quantity.code IN
    /\ c \in DOMAIN stat
    /\ stat[c].issuer \in auth
    /\ quantity.amount > 0
    /\ quantity.prec = stat[c].prec
    /\ stat' = Put(stat, c, [stat[c] EXCEPT !.supply = @ - quantity.amount])
    /\ SubBalanceOK(accounts, stat[c].issuer, quantity)
    /\ accounts' = SubBalance(accounts, stat[c].issuer, quantity)
    /\ UNCHANGED existing

\* Mutant: transfer does not require the sender's permission.
TransferUnsigned(auth, from, to, quantity) ==
    /\ from # to
    /\ to \in existing
    /\ quantity.code \in DOMAIN stat
    /\ quantity.amount > 0
    /\ quantity.prec = stat[quantity.code].prec
    /\ SubBalanceOK(accounts, from, quantity)
    /\ AddBalanceOK(accounts, to, quantity)

\* The checks of transfer, those of sub_balance and add_balance included.
TransferOK(auth, from, to, quantity) ==
    /\ from # to
    /\ from \in auth
    /\ to \in existing
    /\ quantity.code \in DOMAIN stat
    /\ quantity.amount > 0
    /\ quantity.prec = stat[quantity.code].prec
    /\ SubBalanceOK(accounts, from, quantity)
    /\ AddBalanceOK(accounts, to, quantity)

\* Mutant: transfer always bills the receiver.
ReceiverPays(auth, from, to) == to

\* Whom transfer bills for a row it opens for the receiver.
RowPayer(auth, from, to) == IF to \in auth THEN to ELSE from

Transfer(auth, from, to, quantity) ==
    /\ TransferOK(auth, from, to, quantity)
    /\ accounts' = AddBalance(SubBalance(accounts, from, quantity), to, quantity,
                              RowPayer(auth, from, to))
    /\ UNCHANGED <<existing, stat>>

\* Mutant: open does not compare the precision.
OpenAnyPrecision(auth, owner, symbol, ram_payer) ==
    /\ ram_payer \in auth
    /\ owner \in existing
    /\ symbol.code \in DOMAIN stat
    /\ accounts' = IF <<owner, symbol.code>> \in DOMAIN accounts
                   THEN accounts
                   ELSE Put(accounts, <<owner, symbol.code>>,
                            [amount |-> 0, prec |-> symbol.prec, payer |-> ram_payer])
    /\ UNCHANGED <<existing, stat>>

Open(auth, owner, symbol, ram_payer) ==
    /\ ram_payer \in auth
    /\ owner \in existing
    /\ symbol.code \in DOMAIN stat
    /\ stat[symbol.code].prec = symbol.prec
    /\ accounts' = IF <<owner, symbol.code>> \in DOMAIN accounts
                   THEN accounts
                   ELSE Put(accounts, <<owner, symbol.code>>,
                            [amount |-> 0, prec |-> symbol.prec, payer |-> ram_payer])
    /\ UNCHANGED <<existing, stat>>

\* Mutant: close does not ask for an empty balance.
CloseFunded(auth, owner, symbol) ==
    /\ owner \in auth
    /\ <<owner, symbol.code>> \in DOMAIN accounts
    /\ accounts' = Drop(accounts, <<owner, symbol.code>>)
    /\ UNCHANGED <<existing, stat>>

\* The row is found by the symbol's code alone: its precision is not checked.
Close(auth, owner, symbol) ==
    /\ owner \in auth
    /\ <<owner, symbol.code>> \in DOMAIN accounts
    /\ accounts[<<owner, symbol.code>>].amount = 0
    /\ accounts' = Drop(accounts, <<owner, symbol.code>>)
    /\ UNCHANGED <<existing, stat>>

-----------------------------------------------------------------------------
TokenInit == existing = {TokenSelf} /\ stat = NoRows /\ accounts = NoRows

\* The actions that carry the permissions of auth.
TokenStep(auth) ==
    \/ \E n \in Name, q \in Asset : Create(auth, n, q)
    \/ \E n \in Name, q \in Asset : Issue(auth, n, q)
    \/ \E q \in Asset : Retire(auth, q)
    \/ \E from, to \in Name, q \in Asset : Transfer(auth, from, to, q)
    \/ \E owner, payer \in Name, s \in Symbol : Open(auth, owner, s, payer)
    \/ \E owner \in Name, s \in Symbol : Close(auth, owner, s)

TokenNext ==
    \/ \E auth \in SUBSET existing : TokenStep(auth)
    \/ \E n \in Name : ChainNewAccount(n) /\ UNCHANGED <<stat, accounts>>

TokenSpec == TokenInit /\ [][TokenNext]_tokenVars

-----------------------------------------------------------------------------
\* The rows of both tables are well formed and keyed by known names and codes.
TokenTypeOK ==
    /\ existing \subseteq Name
    /\ IsTable(stat, Code, StatRow)
    /\ IsTable(accounts, Name \X Code, AccountRow)

\* What owner holds of c in the accounts tables t, a missing row counting as zero.
HeldIn(t, owner, c) ==
    IF <<owner, c>> \in DOMAIN t THEN t[<<owner, c>>].amount ELSE 0

TotalIn(t, c) == SumOver([owner \in Name |-> HeldIn(t, owner, c)])

Held(owner, c) == HeldIn(accounts, owner, c)

\* The balances of a token add up to its recorded supply, whatever mixture of
\* issue, retire, transfer, open and close led here (issue and retire write
\* the two tables separately), and no code without a stat row is held.
SupplyIsHeld ==
    \A c \in Code :
        TotalIn(accounts, c) = IF c \in DOMAIN stat THEN stat[c].supply ELSE 0

\* Every balance row is of a created token, in that token's precision, and
\* belongs to an account that exists: sub_balance and close look rows up by
\* symbol code only, so nothing else protects them from a second precision.
RowsMatchStat ==
    \A k \in DOMAIN accounts :
        /\ k[1] \in existing
        /\ k[2] \in DOMAIN stat
        /\ accounts[k].prec = stat[k[2]].prec

\* The supply never passes the maximum the token was created with.
SupplyCapped == \A c \in DOMAIN stat : stat[c].supply <= stat[c].max_supply

\* A balance never shrinks in a step that its owner did not sign: neither the
\* issuer, nor whoever pays for a row, nor a receiver can take tokens away.
DebitsSigned ==
    [][\A owner \in Name, c \in Code :
          Held(owner, c)' < Held(owner, c) =>
              \A auth \in SUBSET (existing \ {owner}) : ~TokenStep(auth)]_tokenVars

\* Nobody becomes the payer of a row's RAM in a step they did not sign.
Payer(k) == IF k \in DOMAIN accounts THEN {accounts[k].payer} ELSE {}

PayersSigned ==
    [][\A k \in DOMAIN accounts' :
          \A payer \in Payer(k)' \ Payer(k) :
              \A auth \in SUBSET (existing \ {payer}) : ~TokenStep(auth)]_tokenVars

\* The contract keeps the promise of TokenLedger.
Ledger == INSTANCE TokenLedger WITH
    tokens <- [c \in DOMAIN stat |-> [issuer |-> stat[c].issuer, cap |-> stat[c].max_supply]],
    issued <- [c \in DOMAIN stat |-> stat[c].supply],
    held <- [k \in Name \X Code |-> Held(k[1], k[2])]

ImplementsLedger == Ledger!Spec

=============================================================================
