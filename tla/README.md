# Specifications of ebos.contracts

TLA+ modules for the smart contracts of this repository, TLC configurations that
check them on small instances, and proofs that TLAPS checks for every instance.

## The system

Five contracts run on an EOSIO chain. A contract keeps its state in tables of the
chain, and its code runs only when an action is sent to it. An action runs to its
end or, when a `check()` fails, is rolled back as a whole with the actions it
sent inline. So a handler is one step of a specification, a failed check is a
step that is not taken, and what makes these contracts hard is not preemption but
the order in which accounts send actions, the deferred transactions that run
days later (or never), and several tables that count the same thing.

| component | state | operations | talks to |
| --- | --- | --- | --- |
| `eosio.token` | `stat` (supply, cap, issuer), `accounts` (balances, and who pays each row's RAM) | create, issue, retire, transfer, open, close | called inline by the system contract |
| `eosio.system`, staking | `delband`, `userres`, `refunds` | delegatebw/dlgtcpu, undelegatebw/undlgtcpu, refund, setalimits | token transfers to and from `eosio.stake`; deferred `refund` transactions; the chain's CPU limits; `update_voting_power` of voting |
| `eosio.system`, voting | `voters`, `producers`, `acntype`, `voteweight`, the schedule part of `global` | regproducer, unregprod, rmvproducer, voteproducer, setacntype, setvweight, onblock | `set_proposed_producers` of the chain |
| `eosio.system`, accounts | `core_symbol` and `account_creation_fee` of `global2`, rows of `userres` | init, newaccount (called by the chain), setacntfee | a token transfer to `eosio.saving`; the chain's limits |
| `eosio.system`, administration | other fields of `global`/`global2`, `cwl`, `abihash` | setparams, setpriv, setgrtdcpu, updtrevision, awlset, setcode, setabi | intrinsics of the chain; the chain's own setcode and setabi |
| `eosio.msig` | `proposal`, `approvals2`, `approvals` (old format), `invals` | propose, approve, unapprove, cancel, exec, invalidate | the chain's authorization check; deferred transactions |
| `transorderdebt` | `transrecords`, `orders`, `debts` | an upsert and an erase for each | nobody |
| `eosio.bios` | `abihash`, the same table as the system contract's | setabi; setparams, setpriv, setalimits and setprods forward to intrinsics | the chain; runs on the system account until `eosio.system` replaces it |

What has to hold, and where it is easy to lose:

* **Token.** Balances add up to the supply although issue and retire write two
  tables; balances are looked up by symbol code and never by precision; only the
  owner's signature takes tokens or RAM from an account.
* **Staking.** Every stake is counted three times (by staker and receiver, by
  receiver, and as voting power). The tokens behind all of it, and behind all open
  refunds, sit in one account. A refund row, its deferred transaction and the
  clock are three pieces of state that every re-stake and unstake moves. `init` may
  be called again with another token, under the stakes, accounts and refunds of
  the first one.
* **Voting.** Vote counts are kept by adding and subtracting differences, while
  stakes, ballots and registrations change independently. Totals are stale after
  a change of weights, and are products of int64. The election scan relies on the
  index order.
* **Multisig.** Approvals live in one of two tables, are withdrawn one by one or
  invalidated all at once by block time, and a name can be proposed again after it
  was executed or cancelled.
* **Administration.** Every action of the system contract loads its singletons at its
  start and writes them back at its end, on a chain whose parameters `eosio.bios` may
  have set before. The account with the contract is also the one whose code the
  chain has handle each setcode, setabi and newaccount.
* **Records.** Ids are kept distinct by a look-up only, keys are handed out again, and
  the records stay where the contract's account loses its code.

## Modules

| module | what it is |
| --- | --- |
| `Tables` | a multi_index table as a function from keys to rows: `Put` (emplace, modify), `Drop` (erase), `RowOr` (find or a default) |
| `Sums` | the sum of a function, as the cardinality of a set of units, so that it can be proved about |
| `ChainAccounts` | account names and the ones that exist |
| `EosioToken` | `eosio.token` |
| `TokenLedger` | what a token contract promises; `EosioToken` implements it (`Ledger`, `ImplementsLedger`) |
| `EosioVoting` | the voting half of `eosio.system` |
| `VotingWithStakes` | closes `EosioVoting` for checking: stakes change as changebw would change them; blocks, and fairness. `EosioSystem` implements it (`SystemRunsVoting`) |
| `EosioSystem` | staking, limits, refunds, new accounts and the core symbol, on top of `EosioToken` and `EosioVoting` |
| `EosioMsig` | `eosio.msig` |
| `Consent` | what a multisig promises; `EosioMsig` implements it (`Promise`, `KeepsPromise`) |
| `TransOrderDebt` | `transorderdebt` |
| `RecordBook` | what a table of records promises; `TransOrderDebt` implements it once per table (`TransBook`, `OrderBook`, `DebtBook`, `KeepBooks`) |
| `SystemAdmin` | administration of `eosio.system`, and `eosio.bios` |
| `Deployment` | composes `SystemAdmin` and `TransOrderDebt`: a chain from genesis, whose accounts get their contracts one after the other |
| `SumTheorems`, `TableTheorems` | theorems about `Sums`, lemmas about `Tables` |
| `EosioTokenProofs`, `EosioMsigProofs` | theorems about `EosioToken` and `EosioMsig` |
| `EosioVotingProofs` | lemmas about the actions of `EosioVoting`, for the two specifications that use them |
| `VotingWithStakesProofs` | theorems about `VotingWithStakes` |
| `EosioSystemProofs` | theorems about `EosioSystem`, with the token and voting inside it |
| `DeploymentProofs` | theorems about `Deployment`: administration and records |
| `MCToken`, `MCVoting`, `MCElection`, `MCStaking`, `MCSystem`, `MCMsig`, `MCDeployment` | constants of the instances TLC checks |

### How a module reads against the code

One action of a module is one action of the contract, with its name (`VoteProducer`
is `voteproducer`). Its first conjuncts are the checks, its primed variables the
table writes. Where a handler calls another contract inline, the callee's checks
are conjuncts of the caller (`TransferOK`), because a failed inline action rolls
the caller back. `auth` is the set of accounts that signed; `require_auth(a)` is
`a \in auth`. In `EosioMsig` the level, canceler or account that an action names
is the one that signed it, so its permission check has no conjunct.

Abstractions, all of data:

* Assets are an integer, a code and a precision; `core_symbol` is `NoSymbol` until the
  first `init`. `net_weight` is always zero in this contract and is left out. Memos,
  urls, locations, public-key contents and packed transactions are left out or
  stand for themselves as model values.
* A ballot is a set: `voteproducer` accepts only strictly sorted lists.
* A total weight is computed in int64 and wraps there (`AsInt64`, with `Int64Limit` for
  2^63). The code then keeps it as a double, exact up to 2^53: rounding is left out.
* A schedule may be in force when the contract is installed (`FirstSchedule`: of
  genesis, or of the `setprods` of `eosio.bios`).
* A table of records is a function from its keys to an id and a content. The key of a
  new row is one more than the last key there is (`AvailableKey`).
* Of the singletons that an action loads and saves, `SystemAdmin` keeps the chain
  parameters, the guaranteed CPU and the revision; the other modules have theirs as
  variables of their own. An action of staking or voting is `OtherAction` there.
* When the system account gets new code, the code it had or the code it gets may
  handle that very action (`SetCode`): both are allowed.
* Time is counted in half-second slots. A refund row keeps whole seconds
  (`Seconds`), and so does the expiration of a proposed transaction.
* `sinceUpdate` is the number of slots since the last schedule update. It
  stops at `Period`, where `onblock`'s comparison cannot tell more.
* `check_transaction_authorization` is the constant `Quorums`: the sets of levels
  that are enough for a transaction.

Outside the repository, modelled from how the contracts use it (external in
`PROJECT.json`): account creation, resource limits, deferred transactions
(a due one runs, fails and is dropped, or expires), `set_proposed_producers` (it
may refuse), privileges, chain parameters, code and ABIs of accounts, and the tables
themselves.

Operators whose comment starts with "Mutant:" are not part of the model. Each is
a slip the definition next to it could have had. A property is worth its run if
TLC refutes it once the slip takes the definition's place.

## Runs

| run | question | size of the instance |
| --- | --- | --- |
| `token` | do balances match the supply, in one precision, debited and billed only by signers; is the contract an implementation of `TokenLedger`? | 3 accounts, 1 code, 2 precisions, amounts up to 2 |
| `voting` | are vote counts the stakes behind them, totals explained by some weights, and is every proposed schedule the top of the ranking with current keys, in any order of actions? | 2 voters, 2 producers for 1 seat, stakes up to 2, weights 100 and 300, `Int64Limit` 1201: one more than the largest total |
| `election` | does the schedule keep catching up with the votes, without ever getting shorter, and does the scan of the ranking meet every active producer before the first inactive one? | 1 voter, 3 producers for 2 seats |
| `staking` | do the three counts of a stake agree; does a refund transaction ever run too early; what exactly can leave the stake account short, and what can take tokens out of it at all? | 2 stakers with a token each, amounts up to 3, 4 slots, delay of 1 second |
| `stake_votes` | do changes of stake made by the real changebw reach the vote counts; can a staker always unstake, whatever happened to its ballot, its type and its producers? | 2 actors with 2 tokens and 1, one of them a candidate; refunds that stay open |
| `funds` | can anybody else make one's tokens + stakes + refund shrink, in either token, or one's tokens alone, by staking them; who is billed for the balance rows that stakes, refunds and fees make; does the CPU limit follow the userres row when newaccount and setalimits interfere; do an account's total, its refund and its voting power survive a second `init` and a third: is the total of one token, can stakes of the present token be taken back and refunds of either be claimed, does each stake take away from `voters.staked` what it added? | 2 tokens, `init` with either at any time, amounts up to 1; 2 actors, one of them yet to be created under a dotted name; payments between stakes |
| `msig` | does eosio.msig implement `Consent`, with exactly one approvals row for a proposal and no level lost? | 2 levels of 2 accounts, lists up to 3 (so with duplicates), 2 transactions with different expirations and quorums, 4 slots |
| `deployment` | do the record tables implement `RecordBook`; are saved parameters and ABI hashes those in force across the change from `eosio.bios` to `eosio.system`; can the system contract get itself into a state in which it cannot load its singletons? | 4 names, one not created at first; 2 ids of transfers, keys 0 to 3, 1 id of orders and of debts; 2 ABIs, 2 sets of parameters, one of them too shallow for setparams |

Each bound is large enough for the case it is about: two precisions of one code;
a token for each staker, which the other's transfer can make two; more candidates than seats, with different weights; a delay of two slots, so that odd and even slots and
the truncation to seconds matter; a stake of 2 (from one's own tokens, or with the
other's) so that a refund can be reduced, met exactly and exceeded; a level that is listed twice; approval and invalidation
in one slot; weights whose largest total just fits the integers; a gap in the keys of a
record table, an erased last row, and an account that is named before it exists.
`MaxAmount`, `MaxSlot`, `MaxStake`, `MaxRequested`, `Actor`,
`Voter`, `Candidate`, `First`, `Party`, `CpuSettings` and `MaxKey` are the bounds; only
`MaxAmount` and `MaxKey` are also in the code (2^62 - 1 and 2^64 - 3). `Upgrades` bounds
the contracts an account may get: the system account goes from no code to
`eosio.bios` to `eosio.system` (again and again) and never back, since a system
account without its contract keeps neither ABI hashes nor a white list. The two
tokens of `funds`, the ABIs and the ids of transfers are symmetric: no action tells
them apart.

`staking` runs with `CHECK_DEADLOCK FALSE`, since no slot follows the last one and
an asset at `MaxAmount` takes no more. `deployment` does too: a system account that lost
its privilege under `eosio.bios` may get the system contract, whose constructor then
fails to read the chain's parameters, and with it every action (a hazard of
`eosio.system.cpp:38`). Under the system contract itself that cannot happen any more
(`NeverLocksOut`): each of its actions saves what the next one loads. The runs with votes or token actions have no clock (`MaxSlot` is 0), to
spend their states on the interplay: in `funds` a refund is due at once (that one is paid after any other delay, too, is
`RefundsAreClaimable`), in
`stake_votes`, which has one token and a delay longer than the run, it stays open. The clock is
what `staking` is about.

The composed runs use parts of one specification (`StakeSpec`, `StakeVoteSpec`,
`FundsSpec`): all of `EosioSystem` at once, `SystemSpec`, has too many states for
TLC. They leave out issuing and retiring tokens, and opening and closing balance rows
(`token` has them).

### Fairness

`election` assumes two things. Blocks keep coming: `onblock` is an implicit
transaction of every block, hence `WF(ABlock)`. And a chain that is offered a
schedule again and again does not refuse every time: `SF(Accepts)`, strong because
voters can make the top of the ranking unproposable in between. No account is ever
assumed to act. Without the second assumption the property fails, since
`set_proposed_producers` may refuse for ever.

### Where the code and its documents disagree

Four runs state what the documents say; TLC refutes each.

* `refund_payable` (a bug). `changebw` reads `r.cpu_amount` after setting it to 0, so
  the part of a self-stake that exceeds the open refund is staked and never paid
  (`delegate_bandwidth.cpp:107-112`). Stake of the same size can later be unstaked:
  the stake account then owes more than it holds. `OnlyExcessIsUncovered` of the run
  `staking` shows that nothing else can bring this about.
* `refund_scheduled`. Any stake that needs no refund transaction cancels the one
  there is, even one for another account's benefit. The owner must claim by hand.
* `vote_removal`, `new_voters`. A vote for a producer that unregistered cannot be
  taken back, and voters with a stake of zero can still vote for it.

More sentences of the documents that the modelled code does not follow, without a
run of their own: unstaking lowers the vote weight of `from`
(`delegate_bandwidth.cpp:151`), not of `receiver` as the Ricardian contract of
undelegatebw says; `exec` looks at the approvals given and at when
(`eosio.msig.cpp:161,179`), not at the ones still requested nor at mere presence
in `invals` as its comment in `eosio.msig.hpp` says; a receiver who also signs a
transfer pays for its own row (`eosio.token.cpp:97`), where the Ricardian contract
names the sender; three accounts may deploy code without being on the white list
(`eosio.system.cpp:165`), where `eosio.system/README.md` says that only accounts
added to it may.

What follows from a second `init`, as `funds` explores it, and is nowhere documented:

* Stakes in the earlier core symbol cannot be withdrawn until it is the core symbol
  again, and an account whose userres row was made under it can never be staked for in
  the new one. So the stakes for one account are all of one token (`TotalsOfOneSymbol`).
* What an account staked for *others* can be of two tokens, and `voters.staked`, a bare
  integer, adds them up one for one (`delegate_bandwidth.cpp:163-170`); so do the votes of
  the producers it backs. `StakesAgree` states that mixed sum. The code does not
  convert one token to another, and no property says that it should. What is checked
  is that each stake, when it is taken back, takes away what it added.
* An open refund in the earlier token blocks its owner's unstaking
  until it is claimed, and it can always be claimed once due, unless the stake account is
  short (`RefundsClaimable`). After that, whatever is staked in the present core
  symbol can be taken back (`StakesWithdrawable`; `init` is possible in every state
  of `funds`, so each token gets its turn).
* New accounts pay the fee in the token it was set in, though their userres row is of
  the new one. Nothing says which token it should be.

Nobody's tokens, stakes and refund of either token shrink by any of this (`WealthIsSafe`).

The first election compares with `last_producer_schedule_size`, which is 0 then, and not with
the schedule that `setprods` left: it may propose a shorter one. `SchedulesNeverShrink`
begins with the first elected schedule.

`TotalsExplained` needs all stake behind a producer, times the largest weight, to
stay below 2^63. The chain's assets reach 2^62, so a core token with a supply of
more than 2^63/1000 units would break it: with `Int64Limit` at 1200 the run `voting`
fails.

## Proofs

What a run shows on its instance, these theorems show for all values of the
constants: any number of accounts, tokens, amounts and slots. Each module's main
invariant is in one conjunction (`TokenInv`, `MsigInv`, `VotingInv`, `DeploymentInv`,
`SystemInv`), with one lemma for each action that can disturb it.

| module | theorem | what it establishes |
| --- | --- | --- |
| `EosioTokenProofs` | `TokenTypeCorrect`, `SupplyConserved`, `RowsAlwaysMatch`, `SupplyAlwaysCapped` | the invariants of the run `token` |
| | `DebitsAreSigned`, `PayersAreSigned` | only a signer loses tokens or is billed for a row |
| | `TokenImplementsLedger` | `TokenSpec` implements `TokenLedger` |
| `EosioMsigProofs` | `MsigTypeCorrect`, `ApprovalsRowUnique` | a proposal has exactly one approvals row, in one of the two tables |
| | `LevelsKept` | no requested level is lost or gained by approvals and their withdrawal |
| | `MsigImplementsConsent` | `MsigSpec` implements `Consent` |
| `VotingWithStakesProofs` | `VotingTypeCorrect`, `VotesStayStakes`, `BallotsStayCounted` | vote counts are the stakes behind them |
| | `SchedulesGrow` | a schedule is never replaced by a shorter one |
| | `TotalsStayRight`, `FairElections` | totals come from weights that were in force; the scan of the ranking stops at the right place (both assume `TotalsFit`) |
| `EosioSystemProofs` | `SystemAlwaysInv`, `PartsOfSystem` | `SystemInv` holds in `SystemSpec` and so in each part of it that a run checks |
| | `StakesTypeCorrect`, `StakesAlwaysAgree`, `TotalsStayOfOneSymbol`, `LimitsAlwaysFollow`, `RefundsNeverEarly`, `VotesFollowStakes` | the invariants of the runs `staking`, `funds` and `stake_votes` |
| | `WealthStaysSafe`, `TokensStaySafe` | nobody else makes one's tokens, stakes and refund shrink, nor one's tokens alone |
| | `ReserveStaysReserved` | tokens leave the stake account only as due refunds, one a step, in full and to their owner |
| | `RowsStaySigned` | nobody but the stake account is billed for a balance row unasked |
| | `SystemOnlyMoves` | to `TokenLedger`, every step of the system is a move of one amount between two holders, or nothing |
| | `OnlyExcessUncovers`, `RefundsPaidInFull` | the stake account falls short by the excess of self-stakes, and by nothing else |
| | `TokensStaySound`, `VotingStaysRight`, `SystemSchedulesGrow` | what was proved of the token and of voting alone still holds under the system contract |
| | `SystemTotalsExplained`, `SystemElectionsFair` | and so does what was proved of totals and elections, where the supply fits the integers and stakes are paid for |
| | `RefundsAreClaimable` | a refund that is due can be claimed, in whichever core symbol, unless the stake account is short of it |
| | `StakeComesBack` | whatever happened before, a stake in the core symbol can be taken back in full |
| | `SystemRunsVoting` | `SystemSpec` implements `VotingWithStakes` |
| `DeploymentProofs` | `AdminTypeCorrect`, `HashesStayCurrent`, `ParamsStayInForce` | saved hashes and parameters are those in force |
| | `SystemNeverLocksOut` | an action of the system contract leaves it able to load its state |
| | `RecordsTypeCorrect`, `BooksAreKept` | the record tables implement `RecordBook`, with distinct ids |

### What is assumed

Of the constants, what the `ASSUME`s of the modules say, which TLC evaluates on
each run. The ones that carry weight:

* `NameAssumption`: names are finitely many. They are 64-bit integers.
* `SystemAssumption`: the tokens at the start are finitely many, `eosio.stake` is neither `eosio.saving`, `eosio` nor
  `dyadmin` (names the code spells out), no token has the empty code (what
  `symbol::is_valid` refuses, and what tells an uninitialized `core_symbol` apart),
  and the balances the chain starts with add up to no more than `MaxAmount` for each
  token (`issue` refuses more).
* `AdminAssumption`: the two contracts of the system account are different code,
  and a hash tells ABIs apart.
* `MsigAssumption`: `MaxSlot` is at least 1, the slot the clock starts at (an approval
  carried over from the old table has the time 0, before all others).

Some theorems have a hypothesis:

* `TotalsFit` (`TotalsStayRight`, `FairElections`): all stakes, times the largest weight,
  stay below `Int64Limit`. Without it the product may wrap, and the properties fail (see
  above). `BoundAssumption` bounds a voter's stake by `MaxStake`.
* `SupplyFits` (`SystemTotalsExplained`, `SystemElectionsFair`) says the same of all the
  tokens the chain starts with: in the whole system nothing but tokens bounds the stakes.
* `StakeAccount \notin Actor` (`OnlyExcessUncovers`, `RefundsPaidInFull`,
  `ReserveStaysReserved`, and the two above): `eosio.stake`
  does not stake for itself. `changebw` transfers nothing then
  (`delegate_bandwidth.cpp:86`), so its stakes are backed by no tokens. The account
  belongs to the system.
* `[][WithinRefunds]_systemVars` (`RefundsPaidInFull`, `SystemTotalsExplained`,
  `SystemElectionsFair`): no self-stake exceeds its sender's open refund, the bug of
  `refund_payable`. Each stake that does is stake without tokens, and enough of them
  overflow the totals.
* `StakeComesBack` is about one step. Its hypotheses are the invariant, what `StakesWithdrawable`
  asks of a stake (it is in today's core symbol, and so is an open refund; the two together
  are an asset), and the next state, spelled out one variable at a time (`TakenBack`).

`RefundsPaidInFull` has the bug itself as its hypothesis: as long as no self-stake
exceeds its sender's open refund (`WithinRefunds`), every refund can be paid. It is the
complement of the run `refund_payable`, which shows that one that does exceed it
breaks this: so the excess is the only way.

### Why the invariants are what they are

*Token.* None of the four is inductive alone. That a balance stays within `MaxAmount`
after `retire` needs the supply to be the sum of the balances, and so does that the
supply does not become negative (the code subtracts from the supply first and
relies on the overdrawn check of the balance). That the sum is right after `issue`
needs the row's precision to match. A sum is the cardinality of a set of
units (`Sums`), since recursive operators are out of the prover's reach. `SumTheorems`
derives from the library's theorems on cardinality that a sum is a natural number,
bounds its terms, and moves with a single change (`SumOneChange`): everything below
that counts something comes back to that theorem. Comparing two counts takes more: sums
grow with their terms (`SumMonotone`), add up (`SumPlus`), and can be taken group by
group (`SumGrouped`).

*Multisig.* The type of an approvals row and the uniqueness of the row need each
other: `approve` looks into the new table first. Invalidation compares times
strictly, so that an approval of the current slot counts or not according to when the
invalidation came; `ApprovalsArePast` (no entry has a time later than now) is what makes
"invalidate takes back all that stands" true in the refinement.

*Voting.* `Recount` adds and subtracts differences, so each action lemma says which
voters' backing changed, and `BackedByChange` moves the sum. `KeysSet` (an active
producer has a key) is needed for the schedule's type, and `ScheduleInv` ties
`lastScheduleSize` to the schedule it counts: the code compares with the former only.
For the totals, `VotesBounded` shows that the votes of both kinds of a
producer come from different voters and so cannot exceed all the stake there is.

*Staking.* `changebw` writes five tables with one difference each. That the three
counts still agree rests on each row it touches being in the core symbol, on sums
being natural, and on rows of amount zero being erased, so `SystemInv` proves
these together. Three parts are not properties of a run: `StakesHaveOwners` (who
is staked for has a userres row: without it the sum over the rows misses
stakes), `StatMinted` (the tokens are those of the start, so that `core_symbol`
is one with a precision of its own) and `RequestsPast` (no refund was requested
in the future, from which `NeverRunsEarly` follows across a new request).
`OnlyExcessUncovers` follows one code at a time the balance of the stake account, the
sum of the stakes and the sum of the refunds through each action.

*Tokens under the system.* What a step may do to balances is decided by who signed it, so
`SignedKinds` and `ChainKinds` sort the steps into payments, stakes, fees and
refunds once, and `TokensStaySafe`, `ReserveStaysReserved`, `RowsStaySigned` and
`SystemOnlyMoves` each say what a transfer of that kind does. They rest on `SystemInv`: an
open refund is a positive amount of a token there is, the fee is not negative, and the stake
account is not the one that saves the fees.

*Claiming.* `RefundsAreClaimable` needs of a refund what no property of a run says: its
account exists and is not the stake account, and its symbol is a token of the chain
(`RefundsRequested`). The receiving balance cannot be at its limit because two accounts
never hold more than the supply (`TwoHold`), and its row has the right precision by
`RowsMatchStat`.

*Totals under the system.* In `VotingWithStakes` a bound keeps stakes small. Here the bound is
derived: votes are at most the stakes (`VotesAreStakes`), the stakes are what was
delegated (`SumGrouped`, from the pairs to their owners), what was delegated is in the stake
account as long as nothing is uncovered, and that account holds no more than the supply, which is
still the endowment since the system neither issues nor retires (`SupplyEndowed`).

*The system runs voting.* The refinement maps `existing` to all names. `VotingWithStakes`
has no account creation, and a voter or producer exists before it acts, so nothing it
does depends on when. `StandStakes` shows that `changebw` changes one stake by an amount that is not zero
and leaves it within the bound, and `StandVotes` that voting
itself carries over, action by action. Whatever is proved or checked of `VotingWithStakes` as a
safety property under every stake therefore holds of the system.

*Administration.* `ParamsAgree` speaks of a chain with `eosio.system` on it. It is
inductive only with `ContractsGoForward`: a system account under `eosio.bios` has no
`global` row yet, and one without code has no hashes, which is what makes the hashes
right when it gets its first contract.

*Records.* Ids are distinct because each upsert looks the id up first, and new keys are
fresh because `AvailableKey` is beyond the last key. The refinement maps a table to
the sequence of its rows in key order; `KeyPlaces` to `ListingStrike` prove that
this sequence exists and what an append, a replacement and an erase do to it.

`PartsOfSystem`: TLC checks parts of `SystemSpec`, since all of it has too many
states; the theorems are about all of it, and every behaviour of a part is one of
`SystemSpec`.

### Only model-checked

* `VotesReachSchedule` is a liveness property under fairness, which is beyond the prover.
* `StakesWithdrawable` says that an action is enabled, and ENABLED is beyond it too. Its
  content is proved: `StakeComesBack` gives the next state, one value for each variable,
  and shows that it is a step of undelegatebw. That such values make the action enabled is
  all that is left to TLC.
* Totals and elections of `SystemSpec` where a self-stake exceeds its refund: stakes then
  grow beyond the tokens there are and nothing bounds the totals.
* The properties of the runs that expect a violation, which are false.

## What is not modelled

* `setalimits` of `eosio.bios`, which hands its arguments to the chain, and `setprods`
  beyond the schedule it leaves behind (`FirstSchedule`).
* The empty native actions, and `claimrewards`, `onerror`, `buyram`,
  `buyrambytes` and `reqauth`, which fail or change nothing.
* RAM accounting beyond the payer of a balance row; rounding of vote weights to
  doubles; a system account whose contract is removed or replaced by `eosio.bios`.
* One specification with all of the system contract at once: `SystemAdmin` shares only
  the system account with staking and voting, and is composed with the records.

## Plan

In order. What is done: all of it.

1. `EosioToken` with `TokenLedger`; run `token`.
2. `EosioVoting`, `VotingWithStakes`; runs `voting`, `election`.
3. `EosioSystem` over both; runs `staking`, `stake_votes`, `funds`.
4. `EosioMsig` with `Consent`; run `msig`.
5. The findings above.
6. `TransOrderDebt` with `RecordBook`, `SystemAdmin`, `Deployment`; run `deployment`. `init`
   and assets of several symbols in `EosioSystem`.
7. Proofs of the safety invariants, the action properties and the three refinements.
8. `TokenInv` carried over to `EosioSystem`, and what is owed by the stake account when no
   self-stake exceeds a refund.
9. `StakesWithdrawable` in the form the prover can state, with the next state as
   a witness in place of ENABLED.
10. In `SystemSpec`: the moves of `TokenLedger`, whose signature moves tokens and bills rows,
    what may leave the stake account, and the totals, within refunds.
11. `EosioSystem` as an implementation of `VotingWithStakes`.
