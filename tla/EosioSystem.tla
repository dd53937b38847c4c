---------------------------- MODULE EosioSystem ----------------------------
(***************************************************************************)
(* The staking half of eosio.system on top of eosio.token and of voting:   *)
(* stakes (delband, userres), the CPU limits they buy, refunds of what was *)
(* unstaked, the deferred transactions that pay them, and new accounts.    *)
(*                                                                         *)
(* A stake is an asset of the core symbol, which init sets and may set     *)
(* again: rows of an earlier core symbol stay.  Time is counted in         *)
(* half-second slots; a refund row keeps whole seconds.                    *)
(***************************************************************************)
EXTENDS EosioToken, EosioVoting

CONSTANTS
    StakeAccount,     \* stake_account: holds all staked tokens
    SavingAccount,    \* saving_account: receives the account fees
    RefundDelay,      \* refund_delay_sec, three days
    Dotted,           \* names with a dot, or shorter than 12 characters
    Suffix,           \* name::suffix()
    MaxFee,           \* precision -> the largest account fee, 10 core tokens
    Genesis,          \* the accounts that exist when the contract is installed
    Minted,           \* the tokens that exist then, one symbol per code
    Endowment,        \* <<account, code>> -> what it holds then
    Actor,            \* bound: the accounts that act and that are staked for
    Candidate,        \* bound: the accounts that register and that ballots name
    MaxSlot           \* bound: the last slot

ASSUME SystemAssumption ==
    /\ {StakeAccount, SavingAccount} \subseteq Name
    /\ StakeAccount \notin {SavingAccount, SystemSelf, AdminAccount}
    /\ "" \notin Code                  \* the code of the default symbol is no token's
    /\ RefundDelay \in Nat
    /\ Dotted \subseteq Name /\ Suffix \in [Name -> Name]
    /\ MaxFee \in [Precision \cup {0} -> 0 .. MaxAmount]
    /\ {SystemSelf, AdminAccount, TokenSelf, StakeAccount, SavingAccount} \subseteq Genesis
    /\ Genesis \subseteq Name /\ Minted \subseteq Symbol /\ IsFiniteSet(Minted)
    /\ \A s, t \in Minted : s.code = t.code => s = t
    /\ Endowment \in [Genesis \X {s.code : s \in Minted} -> 0 .. MaxAmount]
    /\ \A s \in Minted : SumOver([n \in Genesis |-> Endowment[<<n, s.code>>]]) <= MaxAmount
    /\ Actor \cup Candidate \subseteq Name

VARIABLES
    core_symbol,      \* _gstate2.core_symbol
    delband,          \* delband tables: <<from, to>> -> cpu_weight
    userres,          \* userres tables: owner -> cpu_weight
    refunds,          \* refunds tables: owner -> request
    account_creation_fee,
    limits,           \* resource limits of the accounts (external)
    deferred,         \* refund transactions scheduled: owner -> slot due (external)
    now               \* slot of the current block (external)

stakeVars == <<delband, userres, refunds, limits, deferred>>
settingVars == <<core_symbol, account_creation_fee>>
systemVars == <<tokenVars, votingVars, stakeVars, settingVars, now>>

\* The symbol of the default constructor, which init replaces.
NoSymbol == [code |-> "", prec |-> 0]

SymbolOf(asset) == [code |-> asset.code, prec |-> asset.prec]

AssetOf(n, symbol) == [amount |-> n, code |-> symbol.code, prec |-> symbol.prec]

CoreAsset(n) == AssetOf(n, core_symbol)

\* The assets that stakes and fees can be given in.
Quantity == [amount : 1 .. MaxAmount, code : Code, prec : Precision]

Unlimited == -1

Limits == [ram : {Unlimited, 0}, net : {Unlimited, 0}, cpu : {Unlimited} \cup Nat]

RefundRow == [request_time : Nat, cpu_amount : Quantity]

\* Mutant: the request's time is rounded up.
SecondsUp(slot) == (slot + 1) \div 2

\* current_time_point(), as the time_point_sec of a refund row keeps it.
Seconds(slot) == slot \div 2

\* Mutant: amounts are added whatever their symbols.
AddsAnySymbol(t, k, delta) == RowOr(t, k, CoreAsset(0)).amount + delta \in 0 .. MaxAmount

\* Mutant: a total may never become zero.
AddsNotEmpty(t, k, delta) ==
    LET row == RowOr(t, k, CoreAsset(0)) IN
    SymbolOf(row) = core_symbol /\ row.amount + delta \in 1 .. MaxAmount

\* asset::operator+= of a stake to a row checks the symbols and the range, and
\* what is left may not be negative.
Adds(t, k, delta) ==
    LET row == RowOr(t, k, CoreAsset(0)) IN
    SymbolOf(row) = core_symbol /\ row.amount + delta \in 0 .. MaxAmount

\* Row k of a stake table once delta is added to it, in the row's symbol.
Added(t, k, delta) ==
    LET row == RowOr(t, k, CoreAsset(0)) IN AssetOf(row.amount + delta, SymbolOf(row))

\* Mutant: an empty row is not erased.
AddToKeepingEmpty(t, k, delta) == Put(t, k, Added(t, k, delta))

\* Mutant: the function given to modify() takes the row by value.
AddToByValue(t, k, delta) == IF k \in DOMAIN t THEN t ELSE Put(t, k, CoreAsset(delta))

\* The stake table once delta is added to its row k: an empty row is erased.
AddTo(t, k, delta) ==
    IF Added(t, k, delta).amount = 0 THEN Drop(t, k) ELSE Put(t, k, Added(t, k, delta))

-----------------------------------------------------------------------------
Schedule(owner) == deferred' = Put(deferred, owner, now + 2 * RefundDelay)
Cancel(owner) == deferred' = Drop(deferred, owner)

\* A refund request is open.  Staking more than it holds clears it, and the
\* excess is not paid for: cpu_balance becomes -r.cpu_amount after that was set
\* to 0.
UpdateRefund(from, delta) ==
    LET left == refunds[from].cpu_amount.amount - delta IN
    /\ SymbolOf(refunds[from].cpu_amount) = core_symbol
    /\ left <= MaxAmount
    /\ IF left <= 0
       THEN /\ refunds' = Drop(refunds, from)
            /\ Cancel(from)
       ELSE /\ refunds' = [refunds EXCEPT
                ![from].cpu_amount = CoreAsset(left),
                ![from].request_time = IF delta < 0 THEN Seconds(now) ELSE @]
            /\ Schedule(from)
    /\ UNCHANGED accounts

CreateRefund(from, amount) ==
    /\ refunds' = Put(refunds, from,
                      [request_time |-> Seconds(now), cpu_amount |-> CoreAsset(amount)])
    /\ Schedule(from)
    /\ UNCHANGED accounts

\* Mutant: the tokens come from whom the stake will belong to.
PayOwnStake(source, from, amount) ==
    /\ Cancel(from)
    /\ Transfer({from}, from, StakeAccount, CoreAsset(amount))
    /\ UNCHANGED refunds

\* Fresh tokens are staked.  A refund transaction of `from` is cancelled even
\* when its request stays open.
PayStake(source, from, amount) ==
    /\ Cancel(from)
    /\ Transfer({source}, source, StakeAccount, CoreAsset(amount))
    /\ UNCHANGED refunds

\* changebw: moves delta core tokens into (or out of) the stake of `from` for
\* receiver.
ChangeBw(auth, signer, receiver, delta, transfer) ==
    LET from   == IF transfer THEN receiver ELSE signer
        \* the refund of `from` is involved
        settle == delta < 0 \/ (~transfer /\ signer = receiver)
    IN
    /\ signer \in auth
    /\ delta # 0
    /\ Adds(delband, <<from, receiver>>, delta)
    /\ delband' = AddTo(delband, <<from, receiver>>, delta)
    /\ Adds(userres, receiver, delta)
    /\ receiver \in existing
    /\ limits' = Put(limits, receiver, [ram |-> Unlimited, net |-> Unlimited,
                                        cpu |-> Added(userres, receiver, delta).amount])
    /\ userres' = AddTo(userres, receiver, delta)
    /\ IF signer = StakeAccount
       THEN UNCHANGED <<refunds, deferred, accounts>>
       ELSE IF settle /\ from \in DOMAIN refunds
       THEN UpdateRefund(from, delta)
       ELSE IF delta < 0
       THEN CreateRefund(from, -delta)
       ELSE PayStake(signer, from, delta)
    /\ UpdateVotingPower(from, delta)
    /\ UNCHANGED <<existing, stat, settingVars, now>>

\* delegatebw and dlgtcpu.
DelegateBw(auth, from, receiver, quantity, transfer) ==
    /\ quantity.amount > 0 /\ SymbolOf(quantity) = core_symbol
    /\ transfer => from # receiver
    /\ ChangeBw(auth, from, receiver, quantity.amount, transfer)

\* undelegatebw and undlgtcpu.
UndelegateBw(auth, from, receiver, quantity) ==
    /\ quantity.amount > 0 /\ SymbolOf(quantity) = core_symbol
    /\ ChangeBw(auth, from, receiver, -quantity.amount, FALSE)

\* Mutant: refund does not look at the time of the request.
RefundAtOnceOK(auth, owner) ==
    /\ owner \in auth
    /\ owner \in DOMAIN refunds
    /\ TransferOK({StakeAccount, owner}, StakeAccount, owner, refunds[owner].cpu_amount)

\* Mutant: refund takes today's core token to be the one it pays.
RefundInCoreOK(auth, owner) ==
    /\ owner \in auth
    /\ owner \in DOMAIN refunds
    /\ 2 * (refunds[owner].request_time + RefundDelay) <= now
    /\ SymbolOf(refunds[owner].cpu_amount) = core_symbol
    /\ TransferOK({StakeAccount, owner}, StakeAccount, owner, refunds[owner].cpu_amount)

\* refund: its checks, those of the inline transfer included, and its effect.
RefundOK(auth, owner) ==
    /\ owner \in auth
    /\ owner \in DOMAIN refunds
    /\ 2 * (refunds[owner].request_time + RefundDelay) <= now
    /\ TransferOK({StakeAccount, owner}, StakeAccount, owner, refunds[owner].cpu_amount)

\* Mutant: the transfer action is built and never sent.
RepayUnsent(owner) ==
    /\ refunds' = Drop(refunds, owner)
    /\ UNCHANGED <<tokenVars, ballotVars, scheduleVars, delband, userres, limits,
                   settingVars, now>>

\* Mutant: refund does not erase the request.
RepayAgain(owner) ==
    /\ Transfer({StakeAccount, owner}, StakeAccount, owner, refunds[owner].cpu_amount)
    /\ UNCHANGED <<ballotVars, scheduleVars, delband, userres, refunds, limits,
                   settingVars, now>>

Repay(owner) ==
    /\ Transfer({StakeAccount, owner}, StakeAccount, owner, refunds[owner].cpu_amount)
    /\ refunds' = Drop(refunds, owner)
    /\ UNCHANGED <<ballotVars, scheduleVars, delband, userres, limits,
                   settingVars, now>>

Refund(auth, owner) ==
    /\ RefundOK(auth, owner)
    /\ Repay(owner)
    /\ UNCHANGED deferred

\* Mutant: setalimits of any account.
SetAnyLimits(auth, account, cpu) ==
    /\ SystemSelf \in auth
    /\ account \in existing
    /\ limits' = Put(limits, account, [ram |-> Unlimited, net |-> Unlimited, cpu |-> cpu])
    /\ UNCHANGED <<tokenVars, ballotVars, scheduleVars, delband, userres, refunds, deferred,
                   settingVars, now>>

\* setalimits: only of an account without a userres row.
SetALimits(auth, account, cpu) ==
    /\ SystemSelf \in auth
    /\ account \notin DOMAIN userres
    /\ account \in existing
    /\ limits' = Put(limits, account, [ram |-> Unlimited, net |-> Unlimited, cpu |-> cpu])
    /\ UNCHANGED <<tokenVars, ballotVars, scheduleVars, delband, userres, refunds, deferred,
                   settingVars, now>>

\* setacntfee.  Before init it takes a fee of the default symbol.
SetAcntFee(auth, fee) ==
    /\ SystemSelf \in auth
    /\ SymbolOf(fee) = core_symbol
    /\ 0 < fee.amount /\ fee.amount <= MaxFee[core_symbol.prec]
    /\ account_creation_fee' = fee
    /\ UNCHANGED <<tokenVars, votingVars, stakeVars, core_symbol, now>>

\* init, which may be called again with another token.
InitSystem(auth, core) ==
    /\ SystemSelf \in auth
    /\ core.code \in DOMAIN stat
    /\ stat[core.code].prec = core.prec
    /\ stat[core.code].supply > 0
    /\ core_symbol' = core
    /\ UNCHANGED <<tokenVars, votingVars, stakeVars, account_creation_fee, now>>

\* newaccount, called by the chain as it creates newact.
NewAccount(auth, creator, newact) ==
    /\ creator \in auth
    /\ ChainNewAccount(newact)
    /\ newact \notin DOMAIN userres
    /\ core_symbol # NoSymbol
    /\ IF creator = SystemSelf
       THEN UNCHANGED accounts
       ELSE LET fee == account_creation_fee IN
            /\ newact \in Dotted => Suffix[newact] # newact /\ creator = Suffix[newact]
            /\ fee.amount > 0
            /\ TransferOK({creator}, creator, SavingAccount, fee)
            /\ accounts' = AddBalance(SubBalance(accounts, creator, fee),
                                      SavingAccount, fee, creator)
    /\ userres' = Put(userres, newact, CoreAsset(0))
    /\ limits' = Put(limits, newact, [ram |-> 0, net |-> 0, cpu |-> 0])
    /\ UNCHANGED <<stat, ballotVars, scheduleVars, delband, refunds, deferred,
                   settingVars, now>>

-----------------------------------------------------------------------------
\* The chain runs a refund transaction that is due; one that fails is dropped.
ExecDeferred(owner) ==
    /\ owner \in DOMAIN deferred
    /\ deferred[owner] <= now
    /\ Cancel(owner)
    /\ \/ RefundOK({owner}, owner) /\ Repay(owner)
       \/ /\ ~RefundOK({owner}, owner)
          /\ UNCHANGED <<tokenVars, votingVars, delband, userres, refunds, limits,
                         settingVars, now>>

\* The chain drops a due transaction that no block had room for.
ExpireDeferred(owner) ==
    /\ owner \in DOMAIN deferred
    /\ deferred[owner] <= now
    /\ Cancel(owner)
    /\ UNCHANGED <<tokenVars, votingVars, delband, userres, refunds, limits,
                   settingVars, now>>

\* The block of the next slot, which runs onblock.
NextSlot(accepted) ==
    /\ now < MaxSlot
    /\ now' = now + 1
    /\ OnBlock(1, accepted)
    /\ UNCHANGED <<stat, accounts, stakeVars, settingVars>>

-----------------------------------------------------------------------------
SystemInit ==
    /\ existing = Genesis
    /\ stat = [c \in {s.code : s \in Minted} |->
                [supply |-> SumOver([n \in Genesis |-> Endowment[<<n, c>>]]),
                 max_supply |-> MaxAmount, issuer |-> SystemSelf,
                 prec |-> (CHOOSE s \in Minted : s.code = c).prec]]
    /\ accounts = [k \in {h \in DOMAIN Endowment : Endowment[h] > 0} |->
                    [amount |-> Endowment[k], prec |-> stat[k[2]].prec, payer |-> k[1]]]
    /\ VotingInit
    /\ delband = NoRows /\ userres = NoRows /\ refunds = NoRows
    /\ core_symbol = NoSymbol
    /\ account_creation_fee = AssetOf(0, NoSymbol)
    /\ limits = [n \in Genesis |-> [ram |-> Unlimited, net |-> Unlimited, cpu |-> Unlimited]]
    /\ deferred = NoRows
    /\ now = 0

StakeStep(n) ==
    \/ \E from, to \in Actor, q \in Quantity, transfer \in BOOLEAN :
         DelegateBw({n}, from, to, q, transfer)
    \/ \E from, to \in Actor, q \in Quantity : UndelegateBw({n}, from, to, q)
    \/ \E owner \in Actor : Refund({n}, owner)
    \/ \E core \in Symbol : InitSystem({n}, core)

PayStep(n) ==
    /\ \E from, to \in Actor, q \in Quantity : Transfer({n}, from, to, q)
    /\ UNCHANGED <<ballotVars, scheduleVars, stakeVars, settingVars, now>>

VoteStep(n) ==
    /\ \/ \E c \in Candidate, ballot \in SUBSET Candidate : VoterStep({n}, c, ballot)
       \/ \E c \in Candidate : RmvProducer({n}, c)
       \/ \E c, g \in VoteWeight : SetVWeight({n}, c, g)
       \/ \E a \in Actor, t \in Type : SetAcnType({n}, a, t)
    /\ UNCHANGED <<stat, accounts, stakeVars, settingVars, now>>

AccountStep(n) ==
    \/ \E m \in Name : NewAccount({n}, n, m)
    \/ \E fee \in Quantity \cup {AssetOf(1, NoSymbol)} : SetAcntFee({n}, fee)
    \/ \E m \in Actor : SetALimits({n}, m, MaxAmount)

ChainStep ==
    \/ \E owner \in DOMAIN deferred : ExecDeferred(owner) \/ ExpireDeferred(owner)
    \/ \E accepted \in BOOLEAN : NextSlot(accepted)

Signer == (Actor \cap existing) \cup {SystemSelf, AdminAccount}

Signed(n) == StakeStep(n) \/ PayStep(n) \/ VoteStep(n) \/ AccountStep(n)

SystemSpec == SystemInit /\ [][(\E n \in Signer : Signed(n)) \/ ChainStep]_systemVars

\* Parts of it: staking alone, with payments and new accounts, and with votes.
StakeSpec == SystemInit /\ [][(\E n \in Signer : StakeStep(n)) \/ ChainStep]_systemVars

FundsStep(n) == StakeStep(n) \/ PayStep(n) \/ AccountStep(n)

FundsSpec == SystemInit /\ [][(\E n \in Signer : FundsStep(n)) \/ ChainStep]_systemVars

StakeVoteSpec ==
    SystemInit /\ [][(\E n \in Signer : StakeStep(n) \/ VoteStep(n)) \/ ChainStep]_systemVars

-----------------------------------------------------------------------------
\* Rows of the staking tables are well formed: none is kept at zero except the
\* userres row newaccount makes, and a refund transaction is of an account.
StakeTypeOK ==
    /\ core_symbol \in Symbol \cup {NoSymbol}
    /\ IsTable(delband, Name \X Name, Quantity)
    /\ IsTable(userres, Name, [amount : 0 .. MaxAmount, code : Code, prec : Precision])
    /\ IsTable(refunds, Name, RefundRow)
    /\ \E n \in 0 .. MaxAmount, symbol \in Symbol \cup {NoSymbol} :
         account_creation_fee = AssetOf(n, symbol)
    /\ limits \in [existing -> Limits]
    /\ IsTable(deferred, Name, Nat)
    /\ now \in Nat

Delegated(from, to) == RowOr(delband, <<from, to>>, [amount |-> 0]).amount

\* Three tables count every stake, each on its own: what a voter votes with is
\* the sum of what it delegated, and an account's total is the sum of what was
\* delegated to it.  voters.staked is a bare number: after a second init it adds
\* up units of every token its owner has staked, one for one, and each stake
\* that is taken back takes its own units away again.
StakesAgree ==
    \A n \in Name :
        /\ RowOr(voters, n, [staked |-> 0]).staked = SumOver([to \in Name |-> Delegated(n, to)])
        /\ RowOr(userres, n, [amount |-> 0]).amount
               = SumOver([from \in Name |-> Delegated(from, n)])

\* A second init changes the core symbol under stakes and accounts of the first
\* one, and what is staked for one account has one total, in its userres row.
\* That total is of one token: every stake for the account is in the symbol of
\* the row.  (The votes of voters.staked have no symbol; see StakesAgree.)
TotalsOfOneSymbol ==
    /\ \A k \in DOMAIN delband : SymbolOf(delband[k]) = SymbolOf(userres[k[2]])
    /\ \A n \in DOMAIN userres : SymbolOf(userres[n]) \in Minted

\* Whatever others do, a stake in today's core symbol can be taken back, all of
\* it and at once: the totals, the voting power, the ballot and the refund that
\* changebw moves with it do not stand in the way.  (A refund still open in
\* another core symbol does, and so does one that would grow beyond MaxAmount.)
StakesWithdrawable ==
    \A k \in DOMAIN delband :
        LET open == RowOr(refunds, k[1], [cpu_amount |-> CoreAsset(0)]).cpu_amount IN
        /\ SymbolOf(delband[k]) = core_symbol
        /\ SymbolOf(open) = core_symbol
        /\ delband[k].amount + open.amount <= MaxAmount
        => ENABLED UndelegateBw({k[1]}, k[1], k[2], delband[k])

\* An account with a userres row has the CPU limit of that row: setalimits
\* cannot get between two stakes.
LimitsFollowStakes ==
    \A n \in DOMAIN userres : n \in existing /\ limits[n].cpu = userres[n].amount

\* A refund transaction that is still wanted does not run before the refund
\* can be paid: request_time is truncated to a second, resets with every
\* unstaking, and survives a partial re-stake.
NeverRunsEarly ==
    \A n \in DOMAIN deferred \cap DOMAIN refunds :
        2 * (refunds[n].request_time + RefundDelay) <= deferred[n]

\* What the stake account owes of token c and does not hold.
StakedOf(c, rows) ==
    SumOver([k \in {r \in rows : delband[r].code = c} |-> delband[k].amount])
RefundOf(c, n) ==
    IF n \in DOMAIN refunds THEN IF refunds[n].cpu_amount.code = c
    THEN refunds[n].cpu_amount.amount ELSE 0 ELSE 0

Uncovered(c) ==
    StakedOf(c, DOMAIN delband) + SumOver([n \in Name |-> RefundOf(c, n)])
        - Held(StakeAccount, c)

\* A refund that is due can be claimed, in whatever core symbol it was requested,
\* as long as the stake account holds what it owes in that token.  So a refund of
\* an earlier core symbol, which keeps its owner from unstaking anything of the
\* present one, can always be cleared.
RefundsClaimable ==
    \A n \in DOMAIN refunds :
        /\ 2 * (refunds[n].request_time + RefundDelay) <= now
        /\ Uncovered(refunds[n].cpu_amount.code) <= 0
        => RefundOK({n}, n)

\* A step that leaves the stake account owing more than before is a self-stake
\* beyond an open refund, and by that excess exactly.
ExcessOverRefund ==
    \A c \in Code :
        Uncovered(c)' > Uncovered(c) =>
            \E n \in DOMAIN refunds \ DOMAIN refunds' :
                Uncovered(c)' - Uncovered(c) =
                    Delegated(n, n)' - Delegated(n, n) - RefundOf(c, n)

OnlyExcessIsUncovered == [][ExcessOverRefund]_systemVars

\* Everything n owns of token c: tokens, stakes and the refund it waits for.
Wealth(n, c) ==
    Held(n, c) + StakedOf(c, {k \in DOMAIN delband : k[1] = n}) + RefundOf(c, n)

\* Nobody's tokens, stakes and refund shrink by a step of someone else, nor by
\* one of the chain.
WealthIsSafe ==
    [][\A n \in Actor \ {StakeAccount}, c \in Code :
          Wealth(n, c)' < Wealth(n, c) =>
              /\ \A m \in Signer \ {n} : ~Signed(m)
              /\ ~ChainStep]_systemVars

\* Tokens that are not staked leave an account by its own steps only: nobody can
\* make them a stake, not even one that will belong to the same account, and
\* neither a refund nor the fee of a new account takes them from a third one.
TokensAreSafe ==
    [][\A n \in Actor \ {StakeAccount}, c \in Code :
          Held(n, c)' < Held(n, c) =>
              /\ \A m \in Signer \ {n} : ~Signed(m)
              /\ ~ChainStep]_systemVars

\* The tokens of the stake account are everybody's: one step takes no more than
\* one refund, no earlier than the delay after its last request, and gives all of
\* it to whoever requested it.
ReserveOnlyRepays ==
    [][\A c \in Code :
          Held(StakeAccount, c)' < Held(StakeAccount, c) =>
              \E n \in DOMAIN refunds \ DOMAIN refunds' :
                  /\ 2 * (refunds[n].request_time + RefundDelay) <= now
                  /\ Held(StakeAccount, c) - Held(StakeAccount, c)' = RefundOf(c, n)
                  /\ Held(n, c)' - Held(n, c) = RefundOf(c, n)]_systemVars

\* Nobody but the stake account becomes the payer of a balance row in a step they
\* did not sign, unless it runs the refund transaction they have scheduled.
RowsAreSigned ==
    [][\A k \in DOMAIN accounts' :
          \A payer \in Payer(k)' \ (Payer(k) \cup {StakeAccount}) :
              /\ \A m \in Signer \ {payer} : ~Signed(m)
              /\ ChainStep => payer \in DOMAIN deferred \ DOMAIN deferred']_systemVars

-----------------------------------------------------------------------------
\* Every refund that was promised can be paid from the stake account.
RefundsPayable ==
    \A n \in DOMAIN refunds :
        refunds[n].cpu_amount.amount <= Held(StakeAccount, refunds[n].cpu_amount.code)

\* A change of stakes that leaves a refund open leaves it scheduled.
StaysScheduled ==
    \A n \in DOMAIN deferred \cap DOMAIN refunds' :
        delband' # delband => n \in DOMAIN deferred'

RefundsStayScheduled == [][StaysScheduled]_systemVars
=============================================================================
