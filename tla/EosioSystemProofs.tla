------------------------- MODULE EosioSystemProofs -------------------------
(***************************************************************************)
(* The staking half of eosio.system, in every reachable state.  changebw   *)
(* writes five tables with one difference each; that they still agree      *)
(* afterwards rests on every row it touches being of the core symbol, on   *)
(* the sums being natural, and on rows of amount zero being erased, so     *)
(* those facts are proved together.  On them rest what a step may do to    *)
(* tokens, rows and refunds, the totals of voting where stakes are paid    *)
(* for, and that the system implements VotingWithStakes.                   *)
(***************************************************************************)
EXTENDS EosioSystem, EosioTokenProofs, EosioVotingProofs

SystemNext == (\E n \in Signer : Signed(n)) \/ ChainStep

-----------------------------------------------------------------------------
(* Stake tables. *)

\* A row of a stake table, zero included.
StakeRow == [amount : 0 .. MaxAmount, code : Code, prec : Precision]

\* What a stake table counts at k.
Amount(t, k) == RowOr(t, k, [amount |-> 0]).amount

\* u is the stake table t after delta was added at k, in the core symbol.
Shifted(t, u, k, delta) ==
    /\ DOMAIN u \subseteq DOMAIN t \cup {k}
    /\ \A x \in DOMAIN t \ {k} : x \in DOMAIN u /\ u[x] = t[x]
    /\ Amount(u, k) = Amount(t, k) + delta
    /\ k \in DOMAIN u <=> Amount(u, k) > 0
    /\ k \in DOMAIN t => SymbolOf(t[k]) = core_symbol
    /\ k \in DOMAIN u => SymbolOf(u[k]) = core_symbol

\* add_to a stake table does that.
LEMMA AddToShifts ==
  ASSUME NEW K, NEW R, Quantity \subseteq R, R \subseteq StakeRow,
         NEW t, IsTable(t, K, R), NEW k \in K, NEW delta \in Int,
         core_symbol \in Symbol, Adds(t, k, delta)
  PROVE  /\ IsTable(AddTo(t, k, delta), K, R)
         /\ Shifted(t, AddTo(t, k, delta), k, delta)
         /\ Added(t, k, delta).amount = Amount(t, k) + delta
         /\ Amount(t, k) + delta \in 0 .. MaxAmount
<1> DEFINE u == AddTo(t, k, delta)
           r == Added(t, k, delta)
           n == Amount(t, k) + delta
<1>1. /\ RowOr(t, k, CoreAsset(0)).amount = Amount(t, k)
      /\ SymbolOf(RowOr(t, k, CoreAsset(0))) = core_symbol
      /\ Amount(t, k) \in Int
  <2>1. CASE k \in DOMAIN t
    <3>1. t[k] \in StakeRow
      BY <2>1 DEF IsTable
    <3> QED BY <2>1, <3>1, TokenAssumption DEF Adds, RowOr, Amount, StakeRow
  <2>2. CASE k \notin DOMAIN t
    BY <2>2 DEF Adds, RowOr, Amount, CoreAsset, AssetOf
  <2> QED BY <2>1, <2>2
<1>2. /\ r = [amount |-> n, code |-> core_symbol.code, prec |-> core_symbol.prec]
      /\ n \in 0 .. MaxAmount
  BY <1>1 DEF Added, AssetOf, Adds
<1>3. /\ r.amount = n /\ SymbolOf(r) = core_symbol
      /\ n # 0 => r \in Quantity
  BY <1>2, TokenAssumption DEF Quantity, SymbolOf, Symbol
<1>4. u = IF n = 0 THEN Drop(t, k) ELSE Put(t, k, r)
  BY <1>3 DEF AddTo
<1>5. k \in DOMAIN t => SymbolOf(t[k]) = core_symbol
  BY <1>1 DEF RowOr
<1>6. n \in Nat /\ Amount(t, k) + delta = n
  BY <1>2, TokenAssumption
<1> HIDE DEF r, n, u
<1>7. CASE n = 0
  <2>1. Removed(t, Drop(t, k), K, R, k)
    BY DropTable
  <2>2. u = Drop(t, k)
    BY <1>4, <1>7
  <2>3. Removed(t, u, K, R, k)
    BY <2>1, <2>2
  <2>4. k \notin DOMAIN u /\ Amount(u, k) = 0
    BY <2>3 DEF Removed, Amount, RowOr
  <2>5. Shifted(t, u, k, delta)
    BY <1>5, <1>6, <1>7, <2>3, <2>4 DEF Removed, Shifted
  <2> QED BY <1>2, <1>3, <2>3, <2>5 DEF Removed, u, r, n
<1>8. CASE n # 0
  <2>1. r \in R
    BY <1>3, <1>8
  <2>2. Written(t, Put(t, k, r), K, R, k, r)
    BY <2>1, PutTable
  <2>3. u = Put(t, k, r)
    BY <1>4, <1>8
  <2>4. Written(t, u, K, R, k, r)
    BY <2>2, <2>3
  <2>5. k \in DOMAIN u /\ u[k] = r /\ Amount(u, k) = n
    BY <1>3, <2>4 DEF Written, Amount, RowOr
  <2>6. Shifted(t, u, k, delta)
    BY <1>3, <1>5, <1>6, <1>8, <2>4, <2>5 DEF Written, Shifted
  <2> QED BY <1>2, <1>3, <2>4, <2>6 DEF Written, u, r, n
<1> QED BY <1>7, <1>8

\* A row elsewhere is untouched.
LEMMA ShiftedElsewhere ==
  ASSUME NEW t, NEW u, NEW k, NEW delta, Shifted(t, u, k, delta), NEW x, x # k
  PROVE  Amount(u, x) = Amount(t, x) /\ (x \in DOMAIN u <=> x \in DOMAIN t)
BY DEF Shifted, Amount, RowOr

\* Stakes are natural.
LEMMA AmountNat ==
  ASSUME NEW K, NEW R, R \subseteq StakeRow, NEW t, IsTable(t, K, R), NEW k
  PROVE  Amount(t, k) \in Nat
BY TokenAssumption DEF Amount, RowOr, IsTable, StakeRow

\* An asset that can be staked can also be transferred, and is a row of userres.
LEMMA QuantityIs == Quantity \subseteq StakeRow /\ Quantity \subseteq Asset /\ StakeRow \subseteq Asset
BY TokenAssumption DEF Quantity, StakeRow, Asset

\* The default symbol is no token's.
LEMMA NoSymbolIs == NoSymbol \notin Symbol
<1>1. NoSymbol.code = ""
  BY DEF NoSymbol
<1>2. \A s \in Symbol : s.code \in Code
  BY DEF Symbol
<1>3. "" \notin Code
  BY SystemAssumption
<1> QED BY <1>1, <1>2, <1>3

\* What n delegated, and what was delegated to n.
Given(t, n) == [to \in Name |-> Amount(t, <<n, to>>)]
Taken(t, n) == [from \in Name |-> Amount(t, <<from, n>>)]

\* A change of one stake changes one sum of each kind.
LEMMA SumsShift ==
  ASSUME NEW t, NEW u, IsTable(t, Name \X Name, Quantity), IsTable(u, Name \X Name, Quantity),
         NEW from \in Name, NEW to \in Name, NEW delta \in Int, Shifted(t, u, <<from, to>>, delta),
         NEW n \in Name
  PROVE  /\ SumOver(Given(t, n)) \in Nat /\ SumOver(Taken(t, n)) \in Nat
         /\ SumOver(Given(u, n)) = SumOver(Given(t, n)) + (IF n = from THEN delta ELSE 0)
         /\ SumOver(Taken(u, n)) = SumOver(Taken(t, n)) + (IF n = to THEN delta ELSE 0)
<1> DEFINE k == <<from, to>>
<1>1. /\ \A x : Amount(t, x) \in Nat /\ Amount(u, x) \in Nat
      /\ \A x : x # k => Amount(u, x) = Amount(t, x)
      /\ Amount(u, k) = Amount(t, k) + delta
  BY QuantityIs, AmountNat, ShiftedElsewhere DEF Shifted
<1> HIDE DEF k
<1>2. /\ Given(t, n) \in [Name -> Nat] /\ Given(u, n) \in [Name -> Nat]
      /\ Taken(t, n) \in [Name -> Nat] /\ Taken(u, n) \in [Name -> Nat]
  BY <1>1 DEF Given, Taken
<1>3. SumOver(Given(t, n)) \in Nat /\ SumOver(Taken(t, n)) \in Nat
  BY <1>2, NameAssumption, SumNat
<1>4. SumOver(Given(u, n)) = SumOver(Given(t, n)) + (IF n = from THEN delta ELSE 0)
  <2>1. \A x \in Name \ {to} : Given(u, n)[x] = Given(t, n)[x]
    BY <1>1 DEF Given, k
  <2>2. SumOver(Given(u, n)) = SumOver(Given(t, n)) - Given(t, n)[to] + Given(u, n)[to]
    BY <1>2, <2>1, NameAssumption, SumOneChange
  <2>3. Given(t, n)[to] = Amount(t, <<n, to>>) /\ Given(u, n)[to] = Amount(u, <<n, to>>)
    BY DEF Given
  <2>4. n = from => <<n, to>> = k
    BY DEF k
  <2>5. n # from => <<n, to>> # k
    BY DEF k
  <2> QED BY <1>1, <1>3, <2>2, <2>3, <2>4, <2>5
<1>5. SumOver(Taken(u, n)) = SumOver(Taken(t, n)) + (IF n = to THEN delta ELSE 0)
  <2>1. \A x \in Name \ {from} : Taken(u, n)[x] = Taken(t, n)[x]
    BY <1>1 DEF Taken, k
  <2>2. SumOver(Taken(u, n)) = SumOver(Taken(t, n)) - Taken(t, n)[from] + Taken(u, n)[from]
    BY <1>2, <2>1, NameAssumption, SumOneChange
  <2>3. Taken(t, n)[from] = Amount(t, <<from, n>>) /\ Taken(u, n)[from] = Amount(u, <<from, n>>)
    BY DEF Taken
  <2>4. n = to => <<from, n>> = k
    BY DEF k
  <2>5. n # to => <<from, n>> # k
    BY DEF k
  <2> QED BY <1>1, <1>3, <2>2, <2>3, <2>4, <2>5
<1> QED BY <1>3, <1>4, <1>5

-----------------------------------------------------------------------------
(* The invariant. *)

\* The tokens of the chain are the minted ones; no action of eosio.system
\* creates or issues one.
StatMinted ==
    /\ DOMAIN stat = {s.code : s \in Minted}
    /\ \A s \in Minted : stat[s.code].prec = s.prec

\* What voters are recorded to have staked.
Staked(n) == RowOr(voters, n, [staked |-> 0]).staked

\* Whoever has a stake has a userres row.
StakesHaveOwners == \A k \in DOMAIN delband : k[2] \in DOMAIN userres

\* No refund was requested later than now.
RequestsPast == \A n \in DOMAIN refunds : 2 * refunds[n].request_time <= now

SystemInv ==
    /\ existing \subseteq Name
    /\ AccountTable(accounts)
    /\ StatMinted
    /\ core_symbol \in Minted \cup {NoSymbol}
    /\ BallotInv
    /\ ScheduleInv
    /\ StakeTypeOK
    /\ StakesAgree
    /\ StakesHaveOwners
    /\ TotalsOfOneSymbol
    /\ LimitsFollowStakes
    /\ RequestsPast
    /\ NeverRunsEarly

\* StakesAgree, by sums of tables.
LEMMA StakesAre ==
  /\ StakesAgree <=> \A n \in Name : /\ Staked(n) = SumOver(Given(delband, n))
                                     /\ Amount(userres, n) = SumOver(Taken(delband, n))
  /\ StakesAgree' <=> \A n \in Name : /\ Staked(n)' = SumOver(Given(delband', n))
                                      /\ Amount(userres', n) = SumOver(Taken(delband', n))
BY DEF StakesAgree, Staked, Given, Taken, Delegated, Amount

-----------------------------------------------------------------------------
(* changebw. *)

\* A stake of `from` for `to` grows by delta, in the tables that count it.
Restaked(from, to, delta) ==
    /\ IsTable(delband', Name \X Name, Quantity)
    /\ Shifted(delband, delband', <<from, to>>, delta)
    /\ IsTable(userres', Name, StakeRow)
    /\ Shifted(userres, userres', to, delta)
    /\ to \in existing
    /\ limits' \in [existing -> Limits]
    /\ limits'[to].cpu = Amount(userres', to)
    /\ \A n \in existing \ {to} : limits'[n] = limits[n]
    /\ \A n \in Name : Staked(n)' = Staked(n) + (IF n = from THEN delta ELSE 0)
    /\ BallotInv'
    /\ UNCHANGED <<existing, stat, settingVars, scheduleVars, now>>

\* Whose stake changebw changes.
Owner(signer, receiver, transfer) == IF transfer THEN receiver ELSE signer

\* update_voting_power records the change of the stake.
LEMMA VotingPowerShifts ==
  ASSUME IsTable(voters, Name, VoterRow), NEW voter \in Name, NEW update \in Int,
         UpdateVotingPower(voter, update), NEW n \in Name
  PROVE  /\ Staked(n) \in Nat
         /\ Staked(n)' = Staked(n) + (IF n = voter THEN update ELSE 0)
<1> DEFINE row == RowOr(voters, voter, [staked |-> 0, producers |-> {}])
           new == [row EXCEPT !.staked = row.staked + update]
<1>1. voters' = Put(voters, voter, new)
  BY DEF UpdateVotingPower
<1>2. row \in VoterRow /\ row.staked = Staked(voter)
  BY DEF RowOr, IsTable, VoterRow, Staked
<1>3. new.staked = Staked(voter) + update
  BY <1>2 DEF VoterRow
<1>4. \A m : Staked(m) \in Nat
  BY DEF Staked, RowOr, IsTable, VoterRow
<1> HIDE DEF new
<1>5. Staked(n)' = RowOr(voters', n, [staked |-> 0]).staked
  BY DEF Staked
<1>6. CASE n = voter
  BY <1>1, <1>3, <1>4, <1>5, <1>6 DEF Put, RowOr
<1>7. CASE n # voter
  BY <1>1, <1>4, <1>5, <1>7 DEF Put, RowOr, Staked
<1> QED BY <1>6, <1>7

\* The tables that count stakes after changebw.
LEMMA ChangeBwRestakes ==
  ASSUME SystemInv, core_symbol \in Symbol, NEW auth, NEW signer \in Name, NEW receiver \in Name,
         NEW delta \in Int, NEW transfer \in BOOLEAN,
         ChangeBw(auth, signer, receiver, delta, transfer)
  PROVE  Restaked(Owner(signer, receiver, transfer), receiver, delta)
<1> DEFINE from == Owner(signer, receiver, transfer)
           k == <<from, receiver>>
           K == Name \X Name
           limit == [ram |-> Unlimited, net |-> Unlimited,
                     cpu |-> Added(userres, receiver, delta).amount]
<1>1. /\ Adds(delband, k, delta) /\ delband' = AddTo(delband, k, delta)
      /\ Adds(userres, receiver, delta) /\ userres' = AddTo(userres, receiver, delta)
      /\ receiver \in existing /\ limits' = Put(limits, receiver, limit)
      /\ UpdateVotingPower(from, delta)
      /\ UNCHANGED <<existing, stat, settingVars, now>>
  BY DEF ChangeBw, Owner
<1>2. from \in Name /\ k \in K
  BY DEF Owner
<1>3. /\ IsTable(delband, K, Quantity) /\ IsTable(userres, Name, StakeRow)
      /\ limits \in [existing -> Limits] /\ BallotInv /\ IsTable(voters, Name, VoterRow)
  BY DEF SystemInv, StakeTypeOK, StakeRow, BallotInv
<1> HIDE DEF K, k, from
<1>4. IsTable(delband', K, Quantity) /\ Shifted(delband, delband', k, delta)
  <2>1. /\ IsTable(AddTo(delband, k, delta), K, Quantity)
        /\ Shifted(delband, AddTo(delband, k, delta), k, delta)
    BY <1>1, <1>2, <1>3, QuantityIs, AddToShifts
  <2> QED BY <1>1, <2>1
<1>5. /\ IsTable(userres', Name, StakeRow) /\ Shifted(userres, userres', receiver, delta)
      /\ limit.cpu = Amount(userres', receiver) /\ limit.cpu \in Nat
  <2>1. /\ IsTable(AddTo(userres, receiver, delta), Name, StakeRow)
        /\ Shifted(userres, AddTo(userres, receiver, delta), receiver, delta)
        /\ Added(userres, receiver, delta).amount = Amount(userres, receiver) + delta
        /\ Amount(userres, receiver) + delta \in 0 .. MaxAmount
    BY <1>1, <1>3, QuantityIs, AddToShifts
  <2>2. Shifted(userres, userres', receiver, delta)
    BY <1>1, <2>1
  <2>3. Amount(userres', receiver) = Amount(userres, receiver) + delta
    BY <2>2 DEF Shifted
  <2> QED BY <1>1, <2>1, <2>2, <2>3, TokenAssumption
<1>6. limit \in Limits
  BY <1>5 DEF Limits
<1> HIDE DEF limit
<1>7. /\ limits' \in [existing -> Limits] /\ limits'[receiver] = limit
      /\ \A n \in existing \ {receiver} : limits'[n] = limits[n]
  BY <1>1, <1>3, <1>6 DEF Put
<1>8. \A n \in Name : Staked(n)' = Staked(n) + (IF n = from THEN delta ELSE 0)
  BY <1>1, <1>2, <1>3, VotingPowerShifts
<1>9. BallotInv'
  BY <1>1, <1>2, <1>3, StakeKeeps
<1>10. UNCHANGED scheduleVars
  BY <1>1 DEF UpdateVotingPower
<1>11. Restaked(from, receiver, delta)
  BY <1>1, <1>4, <1>5, <1>7, <1>8, <1>9, <1>10 DEF Restaked, K, k
<1> QED BY <1>11 DEF from

\* What a change of stakes keeps, whatever it is paid with.
LEMMA RestakedKeeps ==
  ASSUME SystemInv, core_symbol \in Symbol, NEW from \in Name, NEW to \in Name, NEW delta \in Int,
         Restaked(from, to, delta)
  PROVE  /\ StakesAgree' /\ StakesHaveOwners' /\ TotalsOfOneSymbol' /\ LimitsFollowStakes'
<1> DEFINE k == <<from, to>>
<1>1. /\ IsTable(delband, Name \X Name, Quantity) /\ IsTable(delband', Name \X Name, Quantity)
      /\ IsTable(userres, Name, StakeRow) /\ IsTable(userres', Name, StakeRow)
      /\ Shifted(delband, delband', <<from, to>>, delta) /\ Shifted(userres, userres', to, delta)
  BY DEF SystemInv, StakeTypeOK, StakeRow, Restaked
<1>2. StakesAgree'
  <2>1. ASSUME NEW n \in Name
        PROVE  /\ Staked(n)' = SumOver(Given(delband', n))
               /\ Amount(userres', n) = SumOver(Taken(delband', n))
    <3>1. Staked(n) = SumOver(Given(delband, n)) /\ Amount(userres, n) = SumOver(Taken(delband, n))
      BY StakesAre DEF SystemInv
    <3>2. /\ SumOver(Given(delband', n)) = SumOver(Given(delband, n)) + (IF n = from THEN delta ELSE 0)
          /\ SumOver(Taken(delband', n)) = SumOver(Taken(delband, n)) + (IF n = to THEN delta ELSE 0)
          /\ SumOver(Taken(delband, n)) \in Nat
      BY <1>1, SumsShift
    <3>3. Staked(n)' = Staked(n) + (IF n = from THEN delta ELSE 0)
      BY DEF Restaked
    <3>4. Amount(userres', n) = Amount(userres, n) + (IF n = to THEN delta ELSE 0)
      <4>1. CASE n = to
        BY <1>1, <4>1 DEF Shifted
      <4>2. CASE n # to
        BY <1>1, <3>1, <3>2, <4>2, ShiftedElsewhere
      <4> QED BY <4>1, <4>2
    <3> QED BY <3>1, <3>2, <3>3, <3>4
  <2> QED BY <2>1, StakesAre
\* A delegation within a table is part of the sum of its receiver.
<1>3. ASSUME NEW b \in DOMAIN delband'
      PROVE  b[2] \in DOMAIN userres'
  <2>1. /\ b = <<b[1], b[2]>> /\ b[1] \in Name /\ b[2] \in Name
        /\ delband'[b].amount > 0 /\ delband'[b].amount \in Nat
    BY <1>1, <1>3 DEF IsTable, Quantity
  <2>2. Taken(delband', b[2]) \in [Name -> Nat]
    BY <1>1, QuantityIs, AmountNat DEF Taken
  <2>3. Taken(delband', b[2])[b[1]] = delband'[b].amount
    BY <1>3, <2>1 DEF Taken, Amount, RowOr
  <2>4. SumOver(Taken(delband', b[2])) > 0
    <3>1. Taken(delband', b[2])[b[1]] <= SumOver(Taken(delband', b[2]))
      BY <2>1, <2>2, NameAssumption, SumBoundsTerm
    <3>2. SumOver(Taken(delband', b[2])) \in Nat
      BY <2>2, NameAssumption, SumNat
    <3> QED BY <2>1, <2>3, <3>1, <3>2
  <2>5. Amount(userres', b[2]) > 0
    BY <1>2, <2>1, <2>4, StakesAre
  <2> QED BY <2>5 DEF Amount, RowOr
<1>4. StakesHaveOwners'
  BY <1>3 DEF StakesHaveOwners
<1>5. TotalsOfOneSymbol'
  <2>1. ASSUME NEW b \in DOMAIN delband' PROVE SymbolOf(delband'[b]) = SymbolOf(userres'[b[2]])
    <3>1. b[2] \in DOMAIN userres'
      BY <1>3
    <3>2. CASE b = k
      BY <1>1, <3>1, <3>2 DEF Shifted
    <3>3. CASE b # k
      <4>1. b \in DOMAIN delband /\ delband'[b] = delband[b]
        BY <1>1, <3>3 DEF Shifted
      <4>2. b[2] \in DOMAIN userres /\ SymbolOf(delband[b]) = SymbolOf(userres[b[2]])
        BY <4>1 DEF SystemInv, StakesHaveOwners, TotalsOfOneSymbol
      <4>3. SymbolOf(userres'[b[2]]) = SymbolOf(userres[b[2]])
        BY <1>1, <3>1, <4>2 DEF Shifted
      <4> QED BY <4>1, <4>2, <4>3
    <3> QED BY <3>2, <3>3
  <2>2. core_symbol \in Minted
    BY NoSymbolIs DEF SystemInv
  <2>3. ASSUME NEW n \in DOMAIN userres' PROVE SymbolOf(userres'[n]) \in Minted
    BY <1>1, <2>2 DEF Shifted, SystemInv, TotalsOfOneSymbol
  <2> QED BY <2>1, <2>3 DEF TotalsOfOneSymbol
<1>6. LimitsFollowStakes'
  <2>1. ASSUME NEW n \in DOMAIN userres' PROVE n \in existing /\ limits'[n].cpu = userres'[n].amount
    <3>1. CASE n = to
      BY <2>1, <3>1 DEF Restaked, Amount, RowOr
    <3>2. CASE n # to
      <4>1. n \in DOMAIN userres /\ userres'[n] = userres[n]
        BY <1>1, <3>2 DEF Shifted
      <4>2. n \in existing /\ limits[n].cpu = userres[n].amount
        BY <4>1 DEF SystemInv, LimitsFollowStakes
      <4>3. limits'[n] = limits[n]
        BY <3>2, <4>2 DEF Restaked
      <4> QED BY <4>1, <4>2, <4>3
    <3> QED BY <3>1, <3>2
  <2>2. existing' = existing
    BY DEF Restaked
  <2> QED BY <2>1, <2>2 DEF LimitsFollowStakes
<1> QED BY <1>2, <1>4, <1>5, <1>6

\* What the refunds, their transactions and the balances keep.
RefundsKept ==
    /\ AccountTable(accounts')
    /\ IsTable(refunds', Name, RefundRow)
    /\ IsTable(deferred', Name, Nat)
    /\ RequestsPast'
    /\ NeverRunsEarly'

\* Whole seconds are not later than the slot they are of.
LEMMA SecondsPast ==
  ASSUME NEW slot \in Nat
  PROVE  Seconds(slot) \in Nat /\ 2 * Seconds(slot) <= slot
BY DEF Seconds

\* A transaction that is cancelled, or a request that is erased, takes nothing
\* from the others.
LEMMA CancelKeeps ==
  ASSUME SystemInv, NEW owner, AccountTable(accounts'), UNCHANGED now,
         UNCHANGED deferred \/ Cancel(owner),
         refunds' = refunds \/ refunds' = Drop(refunds, owner)
  PROVE  RefundsKept
<1>1. IsTable(refunds, Name, RefundRow) /\ IsTable(deferred, Name, Nat)
  BY DEF SystemInv, StakeTypeOK
<1>2. Removed(deferred, Drop(deferred, owner), Name, Nat, owner)
  BY <1>1, DropTable
<1>3. /\ IsTable(deferred', Name, Nat)
      /\ \A n \in DOMAIN deferred' : n \in DOMAIN deferred /\ deferred'[n] = deferred[n]
  BY <1>1, <1>2 DEF Cancel, Removed
<1>4. Removed(refunds, Drop(refunds, owner), Name, RefundRow, owner)
  BY <1>1, DropTable
<1>5. /\ IsTable(refunds', Name, RefundRow)
      /\ \A n \in DOMAIN refunds' : n \in DOMAIN refunds /\ refunds'[n] = refunds[n]
  BY <1>1, <1>4 DEF Removed
<1>6. RequestsPast'
  BY <1>5 DEF SystemInv, RequestsPast
<1>7. NeverRunsEarly'
  BY <1>3, <1>5 DEF SystemInv, NeverRunsEarly
<1> QED BY <1>3, <1>5, <1>6, <1>7 DEF RefundsKept

\* A request that is written now, with an earlier or today's time, is scheduled
\* for after its delay.
LEMMA ScheduleKeeps ==
  ASSUME SystemInv, NEW owner \in Name, NEW r \in RefundRow, 2 * r.request_time <= now,
         refunds' = Put(refunds, owner, r), Schedule(owner), UNCHANGED <<accounts, now>>
  PROVE  RefundsKept
<1> DEFINE due == now + 2 * RefundDelay
<1>1. IsTable(refunds, Name, RefundRow) /\ IsTable(deferred, Name, Nat) /\ AccountTable(accounts)
  BY DEF SystemInv, StakeTypeOK
<1>2. now \in Nat /\ RefundDelay \in Nat /\ r.request_time \in Nat
  BY SystemAssumption DEF SystemInv, StakeTypeOK, RefundRow
<1>3. due \in Nat /\ 2 * (r.request_time + RefundDelay) <= due
  BY <1>2
<1>4. deferred' = Put(deferred, owner, due)
  BY DEF Schedule
<1> HIDE DEF due
<1>5. Written(deferred, Put(deferred, owner, due), Name, Nat, owner, due)
  BY <1>1, <1>3, PutTable
<1>6. Written(refunds, Put(refunds, owner, r), Name, RefundRow, owner, r)
  BY <1>1, PutTable
<1>7. Written(deferred, deferred', Name, Nat, owner, due)
  BY <1>4, <1>5
<1>8. Written(refunds, refunds', Name, RefundRow, owner, r)
  BY <1>6
<1>9. RequestsPast'
  <2>1. ASSUME NEW n \in DOMAIN refunds' PROVE 2 * refunds'[n].request_time <= now
    BY <1>8 DEF SystemInv, RequestsPast, Written
  <2> QED BY <2>1 DEF RequestsPast
<1>10. NeverRunsEarly'
  <2>1. ASSUME NEW n \in DOMAIN deferred' \cap DOMAIN refunds'
        PROVE  2 * (refunds'[n].request_time + RefundDelay) <= deferred'[n]
    <3>1. CASE n = owner
      BY <1>3, <1>7, <1>8, <3>1 DEF Written
    <3>2. CASE n # owner
      BY <1>7, <1>8, <3>2 DEF Written, SystemInv, NeverRunsEarly
    <3> QED BY <3>1, <3>2
  <2> QED BY <2>1 DEF NeverRunsEarly
<1> QED BY <1>1, <1>7, <1>8, <1>9, <1>10 DEF Written, RefundsKept

\* A transfer keeps the table of balances well formed.
LEMMA TransferTable ==
  ASSUME AccountTable(accounts), NEW auth, NEW from \in Name, NEW to \in Name, NEW q \in Asset,
         Transfer(auth, from, to, q)
  PROVE  AccountTable(accounts')
<1>1. Transferred(accounts, SubBalance(accounts, from, q), accounts', from, to, q,
                  RowPayer(auth, from, to))
  BY TransferEffect
<1> QED BY <1>1 DEF Transferred, Credited

\* An amount of the core symbol can be staked and transferred.
LEMMA CoreAssetIs ==
  ASSUME core_symbol \in Symbol, NEW n \in 1 .. MaxAmount
  PROVE  CoreAsset(n) \in Quantity /\ CoreAsset(n) \in Asset
<1>1. CoreAsset(n) \in Quantity
  BY TokenAssumption DEF CoreAsset, AssetOf, Quantity, Symbol
<1> QED BY <1>1, QuantityIs

\* What delegatebw and undelegatebw call changebw with.
Restake(signer, receiver, delta, transfer) ==
    /\ core_symbol \in Symbol
    /\ delta \in -MaxAmount .. MaxAmount /\ delta # 0
    /\ delta < 0 => ~transfer
    /\ ChangeBw({signer}, signer, receiver, delta, transfer)

\* changebw is paid for with refunds or with tokens.
LEMMA RestakeRefunds ==
  ASSUME SystemInv, NEW signer \in Name, NEW receiver \in Name, NEW delta \in Int,
         NEW transfer \in BOOLEAN, Restake(signer, receiver, delta, transfer)
  PROVE  RefundsKept
<1> DEFINE from == Owner(signer, receiver, transfer)
<1>1. /\ from \in Name /\ core_symbol \in Symbol /\ UNCHANGED now
      /\ now \in Nat /\ MaxAmount \in Nat /\ delta \in -MaxAmount .. MaxAmount /\ delta # 0
      /\ IsTable(refunds, Name, RefundRow) /\ AccountTable(accounts)
  BY TokenAssumption DEF Owner, Restake, ChangeBw, SystemInv, StakeTypeOK
<1>2. \/ UNCHANGED <<refunds, deferred, accounts>>
      \/ from \in DOMAIN refunds /\ UpdateRefund(from, delta)
      \/ delta < 0 /\ CreateRefund(from, -delta)
      \/ ~(delta < 0) /\ PayStake(signer, from, delta)
  BY DEF Restake, ChangeBw, Owner
<1> HIDE DEF from
<1>3. CASE UNCHANGED <<refunds, deferred, accounts>>
  BY <1>1, <1>3 DEF RefundsKept, SystemInv, StakeTypeOK, RequestsPast, NeverRunsEarly
<1>4. CASE from \in DOMAIN refunds /\ UpdateRefund(from, delta)
  <2> DEFINE left == refunds[from].cpu_amount.amount - delta
             r == [request_time |-> IF delta < 0 THEN Seconds(now) ELSE refunds[from].request_time,
                   cpu_amount |-> CoreAsset(left)]
  <2>1. refunds[from] \in RefundRow /\ 2 * refunds[from].request_time <= now
    BY <1>1, <1>4 DEF IsTable, SystemInv, RequestsPast
  <2>2. left \in Int
    BY <1>1, <2>1 DEF RefundRow, Quantity
  <2>3. CASE left <= 0
    <3>1. refunds' = Drop(refunds, from) /\ Cancel(from) /\ AccountTable(accounts')
      BY <1>1, <1>4, <2>3 DEF UpdateRefund
    <3> QED BY <1>1, <3>1, CancelKeeps
  <2>4. CASE ~(left <= 0)
    <3>1. /\ left \in 1 .. MaxAmount
          /\ refunds' = [refunds EXCEPT ![from].cpu_amount = CoreAsset(left),
                                        ![from].request_time = IF delta < 0 THEN Seconds(now) ELSE @]
          /\ Schedule(from) /\ UNCHANGED accounts
      BY <1>1, <1>4, <2>2, <2>4 DEF UpdateRefund
    <3>2. CoreAsset(left) \in Quantity
      BY <1>1, <3>1, CoreAssetIs
    <3> HIDE DEF left
    <3>3. r \in RefundRow /\ 2 * r.request_time <= now
      BY <1>1, <2>1, <3>2, SecondsPast DEF RefundRow
    <3>4. refunds' = Put(refunds, from, r)
      <4> DEFINE old == refunds[from]
                 time == IF delta < 0 THEN Seconds(now) ELSE old.request_time
                 amount == CoreAsset(left)
                 new == [[old EXCEPT !.cpu_amount = amount] EXCEPT !.request_time = time]
      <4>1. old \in [request_time : Nat, cpu_amount : Quantity]
        BY <2>1 DEF RefundRow
      <4>2. refunds' = [refunds EXCEPT ![from] = new]
        BY <1>4, <3>1
      <4>3. r = [request_time |-> time, cpu_amount |-> amount]
        OBVIOUS
      <4> HIDE DEF old, time, amount, r
      <4>4. new = r
        <5> DEFINE mid == [old EXCEPT !.cpu_amount = amount]
        <5>1. mid = [request_time |-> old.request_time, cpu_amount |-> amount]
          BY <4>1
        <5>2. new = [mid EXCEPT !.request_time = time]
          OBVIOUS
        <5> HIDE DEF mid, new
        <5> QED BY <4>3, <5>1, <5>2
      <4> HIDE DEF new
      <4> QED BY <1>4, <4>2, <4>4 DEF Put
    <3> HIDE DEF r
    <3> QED BY <1>1, <3>1, <3>3, <3>4, ScheduleKeeps
  <2> QED BY <2>3, <2>4
<1>5. CASE delta < 0 /\ CreateRefund(from, -delta)
  <2> DEFINE r == [request_time |-> Seconds(now), cpu_amount |-> CoreAsset(-delta)]
  <2>1. -delta \in 1 .. MaxAmount
    BY <1>1, <1>5
  <2>2. CoreAsset(-delta) \in Quantity
    BY <1>1, <2>1, CoreAssetIs
  <2>3. r \in RefundRow /\ 2 * r.request_time <= now
    BY <1>1, <2>2, SecondsPast DEF RefundRow
  <2>4. refunds' = Put(refunds, from, r) /\ Schedule(from) /\ UNCHANGED accounts
    BY <1>5 DEF CreateRefund
  <2> HIDE DEF r
  <2> QED BY <1>1, <2>3, <2>4, ScheduleKeeps
<1>6. CASE ~(delta < 0) /\ PayStake(signer, from, delta)
  <2>1. delta \in 1 .. MaxAmount
    BY <1>1, <1>6
  <2>2. CoreAsset(delta) \in Asset /\ StakeAccount \in Name
    BY <1>1, <2>1, CoreAssetIs, SystemAssumption
  <2>3. /\ Cancel(from) /\ UNCHANGED refunds
        /\ Transfer({signer}, signer, StakeAccount, CoreAsset(delta))
    BY <1>6 DEF PayStake
  <2>4. AccountTable(accounts')
    BY <1>1, <2>2, <2>3, TransferTable
  <2> QED BY <1>1, <2>3, <2>4, CancelKeeps
<1> QED BY <1>2, <1>3, <1>4, <1>5, <1>6

\* changebw keeps the invariant.
LEMMA RestakeInv ==
  ASSUME SystemInv, NEW signer \in Name, NEW receiver \in Name, NEW delta \in Int,
         NEW transfer \in BOOLEAN, Restake(signer, receiver, delta, transfer)
  PROVE  SystemInv'
<1> DEFINE from == Owner(signer, receiver, transfer)
<1>1. from \in Name /\ core_symbol \in Symbol
  BY DEF Owner, Restake
<1>2. Restaked(from, receiver, delta)
  BY <1>1, ChangeBwRestakes DEF Restake
<1> HIDE DEF from
<1>3. StakesAgree' /\ StakesHaveOwners' /\ TotalsOfOneSymbol' /\ LimitsFollowStakes'
  BY <1>1, <1>2, RestakedKeeps
<1>4. RefundsKept
  BY RestakeRefunds
<1>5. /\ IsTable(delband', Name \X Name, Quantity) /\ IsTable(userres', Name, StakeRow)
      /\ limits' \in [existing -> Limits] /\ BallotInv'
      /\ UNCHANGED <<existing, stat, core_symbol, account_creation_fee, now>>
      /\ UNCHANGED scheduleVars
  BY <1>2 DEF Restaked, settingVars
<1>6. StakeTypeOK'
  BY <1>4, <1>5 DEF StakeTypeOK, SystemInv, RefundsKept, StakeRow
<1>7. ScheduleInv'
  BY <1>5, ScheduleSame DEF SystemInv
<1>8. StatMinted'
  BY <1>5 DEF SystemInv, StatMinted
<1> QED BY <1>3, <1>4, <1>5, <1>6, <1>7, <1>8 DEF SystemInv, RefundsKept

-----------------------------------------------------------------------------
(* The other actions. *)

FeeOK ==
    \E n \in 0 .. MaxAmount, symbol \in Symbol \cup {NoSymbol} :
        account_creation_fee = AssetOf(n, symbol)

\* An action that changes no stake keeps what is said of stakes.
LEMMA QuietInv ==
  ASSUME SystemInv, BallotInv', ScheduleInv', RefundsKept, FeeOK',
         core_symbol' \in Minted \cup {NoSymbol}, now' \in Nat,
         UNCHANGED <<existing, stat, delband, userres>>,
         limits' \in [existing -> Limits], \A n \in DOMAIN userres : limits'[n] = limits[n],
         \A n \in Name : Staked(n)' = Staked(n)
  PROVE  SystemInv'
<1>1. StakesAgree'
  BY StakesAre DEF SystemInv
<1>2. StakesHaveOwners' /\ StatMinted'
  BY DEF SystemInv, StakesHaveOwners, StatMinted
<1>3. TotalsOfOneSymbol' /\ LimitsFollowStakes'
  BY DEF SystemInv, TotalsOfOneSymbol, LimitsFollowStakes
<1>4. core_symbol' \in Symbol \cup {NoSymbol}
  BY SystemAssumption
<1>5. StakeTypeOK'
  BY <1>4 DEF SystemInv, StakeTypeOK, RefundsKept, FeeOK
<1> QED BY <1>1, <1>2, <1>3, <1>5 DEF SystemInv, RefundsKept

\* What an action leaves alone stays right.
LEMMA UntouchedKept ==
  ASSUME SystemInv
  PROVE  /\ UNCHANGED ballotVars => BallotInv' /\ \A n \in Name : Staked(n)' = Staked(n)
         /\ UNCHANGED scheduleVars => ScheduleInv'
         /\ UNCHANGED account_creation_fee => FeeOK'
         /\ UNCHANGED core_symbol => core_symbol' \in Minted \cup {NoSymbol}
         /\ UNCHANGED <<existing, limits>>
               => limits' \in [existing -> Limits] /\ \A n \in DOMAIN userres : limits'[n] = limits[n]
         /\ UNCHANGED now => now' \in Nat
         /\ UNCHANGED <<accounts, refunds, deferred, now>> => RefundsKept
<1>1. UNCHANGED ballotVars => BallotInv' /\ \A n \in Name : Staked(n)' = Staked(n)
  BY BallotsSame DEF SystemInv, Staked, ballotVars
<1>2. UNCHANGED scheduleVars => ScheduleInv'
  BY ScheduleSame DEF SystemInv
<1>3. UNCHANGED <<accounts, refunds, deferred, now>> => RefundsKept
  BY DEF SystemInv, StakeTypeOK, RefundsKept, RequestsPast, NeverRunsEarly
<1> QED BY <1>1, <1>2, <1>3 DEF SystemInv, StakeTypeOK, FeeOK

\* refund, sent by its owner or run by the chain.
LEMMA RepayInv ==
  ASSUME SystemInv, NEW owner \in Name, owner \in DOMAIN refunds, Repay(owner),
         UNCHANGED deferred \/ Cancel(owner)
  PROVE  SystemInv'
<1>1. refunds[owner].cpu_amount \in Asset /\ StakeAccount \in Name /\ AccountTable(accounts)
  BY QuantityIs, SystemAssumption DEF SystemInv, StakeTypeOK, IsTable, RefundRow
<1>2. /\ Transfer({StakeAccount, owner}, StakeAccount, owner, refunds[owner].cpu_amount)
      /\ refunds' = Drop(refunds, owner)
      /\ UNCHANGED <<existing, stat, delband, userres, limits, core_symbol,
                     account_creation_fee, now>>
      /\ UNCHANGED ballotVars /\ UNCHANGED scheduleVars
  BY DEF Repay, Transfer, settingVars
<1>3. AccountTable(accounts')
  BY <1>1, <1>2, TransferTable
<1>4. RefundsKept
  BY <1>2, <1>3, CancelKeeps
<1> QED BY <1>2, <1>4, UntouchedKept, QuietInv

\* The chain drops a refund transaction.
LEMMA DroppedInv ==
  ASSUME SystemInv, NEW owner \in Name, Cancel(owner),
         UNCHANGED <<tokenVars, votingVars, delband, userres, refunds, limits, settingVars, now>>
  PROVE  SystemInv'
<1>1. /\ UNCHANGED <<existing, stat, accounts, delband, userres, refunds, limits, core_symbol,
                     account_creation_fee, now>>
      /\ UNCHANGED ballotVars /\ UNCHANGED scheduleVars
  BY DEF tokenVars, votingVars, settingVars
<1>2. RefundsKept
  BY <1>1, CancelKeeps DEF SystemInv
<1> QED BY <1>1, <1>2, UntouchedKept, QuietInv

\* init: the core symbol is that of a token.
LEMMA InitSystemInv ==
  ASSUME SystemInv, NEW auth, NEW core \in Symbol, InitSystem(auth, core)
  PROVE  SystemInv'
<1>1. /\ UNCHANGED <<existing, stat, accounts, delband, userres, refunds, deferred, limits,
                     account_creation_fee, now>>
      /\ UNCHANGED ballotVars /\ UNCHANGED scheduleVars
      /\ core_symbol' = core /\ core.code \in DOMAIN stat /\ stat[core.code].prec = core.prec
  BY DEF InitSystem, tokenVars, votingVars, stakeVars
<1>2. PICK s \in Minted : s.code = core.code
  BY <1>1 DEF SystemInv, StatMinted
<1>3. s \in Symbol /\ s.prec = core.prec
  BY <1>1, <1>2, SystemAssumption DEF SystemInv, StatMinted
<1>4. s = core
  BY <1>2, <1>3 DEF Symbol
<1> QED BY <1>1, <1>4, UntouchedKept, QuietInv

\* transfer of tokens between accounts.
LEMMA PayInv ==
  ASSUME SystemInv, NEW n, PayStep(n)
  PROVE  SystemInv'
<1>1. PICK from \in Actor, to \in Actor, q \in Quantity : Transfer({n}, from, to, q)
  BY DEF PayStep
<1>2. from \in Name /\ to \in Name /\ q \in Asset /\ AccountTable(accounts)
  BY QuantityIs, SystemAssumption DEF SystemInv
<1>3. AccountTable(accounts')
  BY <1>1, <1>2, TransferTable
<1>4. /\ UNCHANGED <<existing, stat, delband, userres, refunds, deferred, limits, core_symbol,
                     account_creation_fee, now>>
      /\ UNCHANGED ballotVars /\ UNCHANGED scheduleVars
  BY <1>1 DEF PayStep, Transfer, stakeVars, settingVars
<1>5. RefundsKept
  BY <1>3, <1>4 DEF SystemInv, StakeTypeOK, RefundsKept, RequestsPast, NeverRunsEarly
<1> QED BY <1>4, <1>5, UntouchedKept, QuietInv

\* Voting moves no stake.
LEMMA VoteStepInv ==
  ASSUME SystemInv, NEW n, VoteStep(n)
  PROVE  SystemInv'
<1>1. /\ UNCHANGED <<stat, accounts, delband, userres, refunds, deferred, limits, core_symbol,
                     account_creation_fee, now>>
  BY DEF VoteStep, stakeVars, settingVars
<1> DEFINE Kept == /\ BallotInv' /\ UNCHANGED existing /\ UNCHANGED scheduleVars
                   /\ \A m \in Name : Staked(m)' = Staked(m)
<1>2. BallotInv /\ IsTable(voters, Name, VoterRow) /\ Candidate \subseteq Name /\ Actor \subseteq Name
  BY SystemAssumption DEF SystemInv, BallotInv
<1>3. ASSUME NEW c \in Name, NEW k \in Key, RegProducer({n}, c, k) PROVE Kept
  BY <1>2, <1>3, RegisterKeeps DEF RegProducer, Staked
<1>4. ASSUME NEW c, Deactivate(c) PROVE Kept
  BY <1>2, <1>4, DeactivateKeeps DEF Deactivate, Staked
<1>5. ASSUME NEW v \in Name, NEW ballot \in SUBSET Name, VoteProducer({n}, v, ballot) PROVE Kept
  <2>1. BallotInv' /\ UNCHANGED existing /\ UNCHANGED scheduleVars
    BY <1>2, <1>5, VoteKeeps DEF VoteProducer
  <2>2. v \in DOMAIN voters /\ voters[v] \in VoterRow
        /\ voters' = [voters EXCEPT ![v].producers = ballot]
    BY <1>2, <1>5 DEF VoteProducer, VoteProducerOK, IsTable
  <2>3. /\ DOMAIN voters' = DOMAIN voters
        /\ voters'[v].staked = voters[v].staked
        /\ \A m \in DOMAIN voters \ {v} : voters'[m] = voters[m]
    BY <2>2 DEF VoterRow
  <2>4. \A m \in Name : Staked(m)' = Staked(m)
    BY <2>3 DEF Staked, RowOr
  <2> QED BY <2>1, <2>4
<1>6. ASSUME NEW c \in Candidate, NEW ballot \in SUBSET Candidate, VoterStep({n}, c, ballot) PROVE Kept
  BY <1>2, <1>3, <1>4, <1>5, <1>6 DEF VoterStep, UnregProd
<1>7. ASSUME NEW c \in VoteWeight, NEW g \in VoteWeight, SetVWeight({n}, c, g) PROVE Kept
  BY <1>2, <1>7, WeightKeeps DEF SetVWeight, Staked
<1>8. ASSUME NEW a \in Name, NEW t \in Type, SetAcnType({n}, a, t) PROVE Kept
  BY <1>2, <1>8, AcnTypeKeeps DEF SetAcnType, Staked
<1>9. Kept
  <2> HIDE DEF Kept
  <2> QED BY <1>2, <1>4, <1>6, <1>7, <1>8 DEF VoteStep, RmvProducer
<1> QED BY <1>1, <1>9, UntouchedKept, QuietInv

\* A fee that can be paid is an asset of a token.
LEMMA FeeIsAsset ==
  ASSUME SystemInv, account_creation_fee.code \in DOMAIN stat,
         account_creation_fee.prec = stat[account_creation_fee.code].prec
  PROVE  account_creation_fee \in Asset
<1>1. PICK n \in 0 .. MaxAmount, symbol \in Symbol \cup {NoSymbol} :
        account_creation_fee = AssetOf(n, symbol)
  BY DEF SystemInv, StakeTypeOK
<1>2. PICK s \in Minted : s.code = account_creation_fee.code
  BY DEF SystemInv, StatMinted
<1>3. s \in Symbol /\ account_creation_fee.prec = s.prec
  BY <1>2, SystemAssumption DEF SystemInv, StatMinted
<1>4. /\ account_creation_fee.code \in Code /\ account_creation_fee.prec \in Precision
  BY <1>2, <1>3 DEF Symbol
<1>5. account_creation_fee
        = [amount |-> n, code |-> account_creation_fee.code, prec |-> account_creation_fee.prec]
  BY <1>1 DEF AssetOf
<1> QED BY <1>4, <1>5, TokenAssumption DEF Asset

\* A new account has no stake; the fee of its creator moves between balances.
LEMMA NewAccountKeeps ==
  ASSUME SystemInv, NEW creator \in Name, NEW newact \in Name, NEW auth, NewAccount(auth, creator, newact)
  PROVE  SystemInv'
<1> DEFINE fee == account_creation_fee
           mid == SubBalance(accounts, creator, fee)
           limit == [ram |-> 0, net |-> 0, cpu |-> 0]
<1>1. /\ newact \notin existing /\ existing' = existing \cup {newact}
      /\ newact \notin DOMAIN userres /\ core_symbol # NoSymbol
      /\ userres' = Put(userres, newact, CoreAsset(0)) /\ limits' = Put(limits, newact, limit)
      /\ UNCHANGED <<stat, delband, refunds, deferred, core_symbol, account_creation_fee, now>>
      /\ UNCHANGED ballotVars /\ UNCHANGED scheduleVars
  BY DEF NewAccount, ChainNewAccount, settingVars
<1>2. /\ IsTable(delband, Name \X Name, Quantity) /\ IsTable(userres, Name, StakeRow)
      /\ limits \in [existing -> Limits] /\ AccountTable(accounts)
      /\ core_symbol \in Minted /\ core_symbol \in Symbol
  BY <1>1, SystemAssumption DEF SystemInv, StakeTypeOK, StakeRow
<1>3. CoreAsset(0) \in StakeRow /\ CoreAsset(0).amount = 0 /\ SymbolOf(CoreAsset(0)) = core_symbol
  BY <1>2, TokenAssumption DEF CoreAsset, AssetOf, StakeRow, Symbol, SymbolOf
<1>4. Written(userres, Put(userres, newact, CoreAsset(0)), Name, StakeRow, newact, CoreAsset(0))
  BY <1>2, <1>3, PutTable
<1>5. Written(userres, userres', Name, StakeRow, newact, CoreAsset(0))
  BY <1>1, <1>4
<1>6. AccountTable(accounts')
  <2>1. CASE UNCHANGED accounts
    BY <1>2, <2>1
  <2>2. CASE ~(UNCHANGED accounts)
    <3>1. /\ creator # SavingAccount /\ fee.amount > 0
          /\ SubBalanceOK(accounts, creator, fee) /\ AddBalanceOK(accounts, SavingAccount, fee)
          /\ fee.code \in DOMAIN stat /\ fee.prec = stat[fee.code].prec
          /\ accounts' = AddBalance(mid, SavingAccount, fee, creator)
      BY <2>2 DEF NewAccount, TransferOK
    <3>2. fee \in Asset /\ SavingAccount \in Name
      BY <3>1, FeeIsAsset, SystemAssumption
    <3> HIDE DEF fee, mid
    <3>3. Transferred(accounts, SubBalance(accounts, creator, fee),
                      AddBalance(SubBalance(accounts, creator, fee), SavingAccount, fee, creator),
                      creator, SavingAccount, fee, creator)
      BY <1>2, <3>1, <3>2, TransferTables
    <3> QED BY <3>1, <3>3 DEF Transferred, Credited, mid
  <2> QED BY <2>1, <2>2
<1>7. limit \in Limits
  BY DEF Limits
<1> HIDE DEF fee, mid, limit
<1>8. /\ limits' \in [existing' -> Limits] /\ limits'[newact].cpu = 0
      /\ \A n \in existing : limits'[n] = limits[n]
  <2>1. limit.cpu = 0
    BY DEF limit
  <2> QED BY <1>1, <1>2, <1>7, <2>1 DEF Put
<1>9. RefundsKept
  BY <1>1, <1>6 DEF SystemInv, StakeTypeOK, RefundsKept, RequestsPast, NeverRunsEarly
<1>10. StakeTypeOK'
  BY <1>1, <1>2, <1>5, <1>8, <1>9 DEF SystemInv, StakeTypeOK, RefundsKept, Written, StakeRow
<1>11. BallotInv' /\ ScheduleInv' /\ \A n \in Name : Staked(n)' = Staked(n)
  BY <1>1, UntouchedKept
<1>12. StakesAgree'
  <2>1. \A n \in Name : Amount(userres', n) = Amount(userres, n)
    BY <1>1, <1>3, <1>5 DEF Written, Amount, RowOr
  <2> QED BY <1>1, <1>11, <2>1, StakesAre DEF SystemInv
<1>13. StakesHaveOwners' /\ StatMinted'
  BY <1>1, <1>5 DEF SystemInv, StakesHaveOwners, StatMinted, Written
<1>14. TotalsOfOneSymbol'
  BY <1>1, <1>2, <1>3, <1>5 DEF SystemInv, TotalsOfOneSymbol, StakesHaveOwners, Written
<1>15. LimitsFollowStakes'
  BY <1>1, <1>3, <1>5, <1>8 DEF SystemInv, LimitsFollowStakes, Written
<1> QED BY <1>1, <1>6, <1>9, <1>10, <1>11, <1>12, <1>13, <1>14, <1>15 DEF SystemInv, RefundsKept

\* setacntfee: the fee is of the core symbol.
LEMMA SetAcntFeeInv ==
  ASSUME SystemInv, NEW auth, NEW fee \in Quantity \cup {AssetOf(1, NoSymbol)}, SetAcntFee(auth, fee)
  PROVE  SystemInv'
<1>1. /\ UNCHANGED <<existing, stat, accounts, delband, userres, refunds, deferred, limits,
                     core_symbol, now>>
      /\ UNCHANGED ballotVars /\ UNCHANGED scheduleVars
      /\ account_creation_fee' = fee /\ SymbolOf(fee) = core_symbol
  BY DEF SetAcntFee, tokenVars, votingVars, stakeVars
<1>2. core_symbol \in Symbol \cup {NoSymbol}
  BY DEF SystemInv, StakeTypeOK
<1>3. fee.amount \in 0 .. MaxAmount /\ fee = AssetOf(fee.amount, SymbolOf(fee))
  <2>1. CASE fee \in Quantity
    BY <2>1, TokenAssumption DEF Quantity, AssetOf, SymbolOf
  <2>2. CASE fee = AssetOf(1, NoSymbol)
    <3>1. fee = [amount |-> 1, code |-> NoSymbol.code, prec |-> NoSymbol.prec]
      BY <2>2 DEF AssetOf
    <3>2. fee.amount = 1 /\ SymbolOf(fee) = [code |-> NoSymbol.code, prec |-> NoSymbol.prec]
      BY <3>1 DEF SymbolOf
    <3>3. fee = AssetOf(fee.amount, SymbolOf(fee))
      BY <3>1, <3>2 DEF AssetOf
    <3> QED BY <3>2, <3>3, TokenAssumption
  <2> QED BY <2>1, <2>2
<1>4. FeeOK'
  BY <1>1, <1>2, <1>3 DEF FeeOK
<1> QED BY <1>1, <1>4, UntouchedKept, QuietInv

\* setalimits: of an account without a userres row.
LEMMA SetALimitsInv ==
  ASSUME SystemInv, NEW auth, NEW account, NEW cpu \in Nat, SetALimits(auth, account, cpu)
  PROVE  SystemInv'
<1> DEFINE limit == [ram |-> Unlimited, net |-> Unlimited, cpu |-> cpu]
<1>1. /\ UNCHANGED <<existing, stat, accounts, delband, userres, refunds, deferred,
                     core_symbol, account_creation_fee, now>>
      /\ UNCHANGED ballotVars /\ UNCHANGED scheduleVars
      /\ account \notin DOMAIN userres /\ account \in existing
      /\ limits' = Put(limits, account, limit)
  BY DEF SetALimits, tokenVars, settingVars
<1>2. limits \in [existing -> Limits] /\ DOMAIN userres \subseteq existing
  BY DEF SystemInv, StakeTypeOK, LimitsFollowStakes
<1>3. limit \in Limits
  BY DEF Limits
<1> HIDE DEF limit
<1>4. /\ limits' \in [existing -> Limits]
      /\ \A n \in DOMAIN userres : limits'[n] = limits[n]
  BY <1>1, <1>2, <1>3 DEF Put
<1> QED BY <1>1, <1>4, UntouchedKept, QuietInv

\* The next block.
LEMMA NextSlotInv ==
  ASSUME SystemInv, NEW accepted, NextSlot(accepted)
  PROVE  SystemInv'
<1>1. /\ UNCHANGED <<existing, stat, accounts, delband, userres, refunds, deferred, limits,
                     core_symbol, account_creation_fee>>
      /\ now' = now + 1 /\ OnBlock(1, accepted) /\ UNCHANGED ballotVars
  BY DEF NextSlot, OnBlock, stakeVars, settingVars
<1>2. BallotInv' /\ ScheduleInv'
  BY <1>1, BlockKeeps DEF SystemInv
<1>3. now \in Nat /\ now' \in Nat /\ now <= now'
  BY <1>1 DEF SystemInv, StakeTypeOK
<1>4. RequestsPast'
  <2>1. ASSUME NEW n \in DOMAIN refunds PROVE 2 * refunds[n].request_time <= now'
    <3>1. 2 * refunds[n].request_time <= now /\ refunds[n].request_time \in Nat
      BY DEF SystemInv, StakeTypeOK, RequestsPast, IsTable, RefundRow
    <3> QED BY <1>3, <3>1
  <2> QED BY <1>1, <2>1 DEF RequestsPast
<1>5. RefundsKept
  BY <1>1, <1>4 DEF SystemInv, StakeTypeOK, RefundsKept, NeverRunsEarly
<1> QED BY <1>1, <1>2, <1>3, <1>5, UntouchedKept, QuietInv

\* Everything that can happen: what delegatebw and undelegatebw do is changebw.
LEMMA StakeStepIs ==
  ASSUME SystemInv, NEW n \in Name, StakeStep(n)
  PROVE  \/ \E to \in Name, delta \in Int, transfer \in BOOLEAN : Restake(n, to, delta, transfer)
         \/ n \in DOMAIN refunds /\ RefundOK({n}, n) /\ Repay(n) /\ UNCHANGED deferred
         \/ \E core \in Symbol : InitSystem({n}, core)
<1>1. \A q \in Quantity : /\ q.amount \in 1 .. MaxAmount /\ q.amount \in Int
                          /\ SymbolOf(q) \in Symbol /\ -q.amount \in -MaxAmount .. MaxAmount
  BY TokenAssumption DEF Quantity, SymbolOf, Symbol
<1>2. \A m \in Actor : m \in Name
  BY SystemAssumption
<1>3. ASSUME NEW from \in Actor, NEW to \in Actor, NEW q \in Quantity, NEW transfer \in BOOLEAN,
             DelegateBw({n}, from, to, q, transfer)
      PROVE  Restake(n, to, q.amount, transfer)
  <2>1. ChangeBw({n}, from, to, q.amount, transfer) /\ SymbolOf(q) = core_symbol
    BY <1>3 DEF DelegateBw
  <2>2. from = n
    BY <2>1 DEF ChangeBw
  <2>3. core_symbol \in Symbol /\ q.amount \in -MaxAmount .. MaxAmount /\ q.amount > 0
    BY <1>1, <2>1, TokenAssumption
  <2> QED BY <2>1, <2>2, <2>3 DEF Restake
<1>4. ASSUME NEW from \in Actor, NEW to \in Actor, NEW q \in Quantity, UndelegateBw({n}, from, to, q)
      PROVE  Restake(n, to, -q.amount, FALSE)
  <2>1. ChangeBw({n}, from, to, -q.amount, FALSE) /\ SymbolOf(q) = core_symbol
    BY <1>4 DEF UndelegateBw
  <2>2. from = n
    BY <2>1 DEF ChangeBw
  <2>3. core_symbol \in Symbol /\ -q.amount \in -MaxAmount .. MaxAmount /\ -q.amount # 0
    BY <1>1, <2>1
  <2> QED BY <2>1, <2>2, <2>3 DEF Restake
<1>5. ASSUME NEW owner \in Actor, Refund({n}, owner)
      PROVE  n \in DOMAIN refunds /\ RefundOK({n}, n) /\ Repay(n) /\ UNCHANGED deferred
  <2>1. owner = n
    BY <1>5 DEF Refund, RefundOK
  <2> QED BY <1>5, <2>1 DEF Refund, RefundOK
<1>6. CASE \E from, to \in Actor, q \in Quantity, transfer \in BOOLEAN :
             DelegateBw({n}, from, to, q, transfer)
  <2>1. PICK from \in Actor, to \in Actor, q \in Quantity, transfer \in BOOLEAN :
          DelegateBw({n}, from, to, q, transfer)
    BY <1>6
  <2>2. Restake(n, to, q.amount, transfer) /\ to \in Name /\ q.amount \in Int
    BY <1>1, <1>2, <1>3, <2>1
  <2> QED BY <2>2
<1>7. CASE \E from, to \in Actor, q \in Quantity : UndelegateBw({n}, from, to, q)
  <2>1. PICK from \in Actor, to \in Actor, q \in Quantity : UndelegateBw({n}, from, to, q)
    BY <1>7
  <2>2. to \in Name /\ -q.amount \in Int
    BY <1>1, <1>2
  <2>3. Restake(n, to, -q.amount, FALSE)
    BY <1>4, <2>1
  <2> QED BY <2>2, <2>3
<1> QED BY <1>5, <1>6, <1>7 DEF StakeStep

\* Signed steps keep the invariant.
LEMMA SignedInv ==
  ASSUME SystemInv, NEW n \in Signer, Signed(n)
  PROVE  SystemInv'
<1>1. n \in Name
  BY SystemAssumption, VotingAssumption DEF Signer
<1>2. CASE StakeStep(n)
  BY <1>1, <1>2, StakeStepIs, RestakeInv, RepayInv, InitSystemInv
<1>3. CASE PayStep(n)
  BY <1>3, PayInv
<1>4. CASE VoteStep(n)
  BY <1>4, VoteStepInv
<1>5. CASE AccountStep(n)
  <2>1. MaxAmount \in Nat
    BY TokenAssumption
  <2> QED BY <1>1, <1>5, <2>1, NewAccountKeeps, SetAcntFeeInv, SetALimitsInv DEF AccountStep
<1> QED BY <1>2, <1>3, <1>4, <1>5 DEF Signed

\* So do the steps of the chain.
LEMMA ChainInv ==
  ASSUME SystemInv, ChainStep
  PROVE  SystemInv'
<1>1. ASSUME NEW owner \in DOMAIN deferred, ExecDeferred(owner) \/ ExpireDeferred(owner)
      PROVE  SystemInv'
  <2>1. owner \in Name
    BY DEF SystemInv, StakeTypeOK, IsTable
  <2>2. /\ Cancel(owner)
        /\ \/ owner \in DOMAIN refunds /\ Repay(owner)
           \/ UNCHANGED <<tokenVars, votingVars, delband, userres, refunds, limits, settingVars, now>>
    BY <1>1 DEF ExecDeferred, ExpireDeferred, RefundOK
  <2> QED BY <2>1, <2>2, RepayInv, DroppedInv
<1> QED BY <1>1, NextSlotInv DEF ChainStep

\* Every step keeps the invariant.
LEMMA SystemNextInv == SystemInv /\ [SystemNext]_systemVars => SystemInv'
<1> SUFFICES ASSUME SystemInv, [SystemNext]_systemVars PROVE SystemInv'
  OBVIOUS
<1>1. CASE SystemNext
  BY <1>1, SignedInv, ChainInv DEF SystemNext
<1>2. CASE UNCHANGED systemVars
  <2>1. /\ UNCHANGED <<existing, stat, accounts, delband, userres, refunds, deferred, limits,
                       core_symbol, account_creation_fee, now>>
        /\ UNCHANGED ballotVars /\ UNCHANGED scheduleVars
    BY <1>2 DEF systemVars, tokenVars, votingVars, stakeVars, settingVars
  <2> QED BY <2>1, UntouchedKept, QuietInv
<1> QED BY <1>1, <1>2

\* The invariant holds when the contract is installed.
LEMMA SystemInitInv == SystemInit => SystemInv
<1> SUFFICES ASSUME SystemInit PROVE SystemInv
  OBVIOUS
<1> DEFINE codes == {s.code : s \in Minted}
<1>1. BallotInv /\ ScheduleInv /\ voters = NoRows
  BY VotingInitKeeps DEF SystemInit, VotingInit
<1>2. /\ delband = NoRows /\ userres = NoRows /\ refunds = NoRows /\ deferred = NoRows
      /\ existing = Genesis /\ Genesis \subseteq Name /\ now = 0
      /\ core_symbol = NoSymbol /\ account_creation_fee = AssetOf(0, NoSymbol)
      /\ limits = [n \in Genesis |-> [ram |-> Unlimited, net |-> Unlimited, cpu |-> Unlimited]]
  BY SystemAssumption DEF SystemInit
<1>3. DOMAIN NoRows = {} /\ \A K, R : IsTable(NoRows, K, R)
  BY NoRowsTable
<1>4. StatMinted
  <2>1. /\ DOMAIN stat = codes
        /\ \A c \in codes : stat[c].prec = (CHOOSE s \in Minted : s.code = c).prec
    BY DEF SystemInit
  <2>2. \A s \in Minted : (CHOOSE t \in Minted : t.code = s.code) = s
    BY SystemAssumption
  <2> QED BY <2>1, <2>2 DEF StatMinted
<1>5. AccountTable(accounts)
  <2> DEFINE held == {h \in DOMAIN Endowment : Endowment[h] > 0}
             row(k) == [amount |-> Endowment[k], prec |-> stat[k[2]].prec, payer |-> k[1]]
  <2>1. accounts = [k \in held |-> row(k)]
    BY DEF SystemInit
  <2>2. ASSUME NEW k \in held
        PROVE  k \in Name \X Code /\ row(k) \in AccountRow
    <3>1. k \in Genesis \X codes /\ Endowment[k] \in 0 .. MaxAmount
      BY SystemAssumption
    <3>2. PICK s \in Minted : s.code = k[2]
      BY <3>1
    <3>3. s \in Symbol /\ stat[k[2]].prec = s.prec
      BY <1>4, <3>2, SystemAssumption DEF StatMinted
    <3>4. k[2] \in Code /\ stat[k[2]].prec \in Precision
      BY <3>2, <3>3 DEF Symbol
    <3> QED BY <1>2, <3>1, <3>4 DEF AccountRow
  <2> HIDE DEF held, row
  <2>3. DOMAIN accounts = held /\ \A k \in held : accounts[k] = row(k)
    BY <2>1
  <2>4. DOMAIN accounts \subseteq Name \X Code /\ \A k \in DOMAIN accounts : accounts[k] \in AccountRow
    BY <2>2, <2>3
  <2> QED BY <2>1, <2>4 DEF AccountTable, IsTable
<1>6. StakesAgree
  <2>1. ASSUME NEW n \in Name
        PROVE  Staked(n) = SumOver(Given(delband, n)) /\ Amount(userres, n) = SumOver(Taken(delband, n))
    <3>1. Staked(n) = 0 /\ Amount(userres, n) = 0
      BY <1>1, <1>2, <1>3 DEF Staked, Amount, RowOr
    <3>2. /\ Given(delband, n) \in [Name -> Nat] /\ Taken(delband, n) \in [Name -> Nat]
          /\ \A m \in Name : Given(delband, n)[m] = 0 /\ Taken(delband, n)[m] = 0
      BY <1>2, <1>3 DEF Given, Taken, Amount, RowOr
    <3> QED BY <3>1, <3>2, SumOfZeros
  <2> QED BY <2>1, StakesAre
<1>7. StakeTypeOK
  <2>1. limits \in [existing -> Limits]
    BY <1>2 DEF Limits
  <2>2. \E n \in 0 .. MaxAmount, symbol \in Symbol \cup {NoSymbol} :
          account_creation_fee = AssetOf(n, symbol)
    BY <1>2, TokenAssumption
  <2> QED BY <1>2, <1>3, <2>1, <2>2 DEF StakeTypeOK
<1>8. /\ StakesHaveOwners /\ TotalsOfOneSymbol /\ LimitsFollowStakes /\ RequestsPast /\ NeverRunsEarly
  BY <1>2, <1>3 DEF StakesHaveOwners, TotalsOfOneSymbol, LimitsFollowStakes, RequestsPast, NeverRunsEarly
<1> QED BY <1>1, <1>2, <1>4, <1>5, <1>6, <1>7, <1>8 DEF SystemInv

\* The invariant holds in every reachable state.
THEOREM SystemAlwaysInv == SystemSpec => []SystemInv
<1>1. SystemInv /\ [SystemNext]_systemVars => SystemInv'
  BY SystemNextInv
<1> QED BY <1>1, SystemInitInv, PTL DEF SystemSpec, SystemNext


-----------------------------------------------------------------------------
(* What stays right in every reachable state. *)

\* The runs check parts of the system: each part's behaviours are the system's.
THEOREM PartsOfSystem ==
  /\ StakeSpec => SystemSpec
  /\ FundsSpec => SystemSpec
  /\ StakeVoteSpec => SystemSpec
<1> DEFINE Step == (\E n \in Signer : Signed(n)) \/ ChainStep
<1>1. [(\E n \in Signer : StakeStep(n)) \/ ChainStep]_systemVars => [Step]_systemVars
  BY DEF Signed
<1>2. [(\E n \in Signer : FundsStep(n)) \/ ChainStep]_systemVars => [Step]_systemVars
  BY DEF Signed, FundsStep
<1>3. [(\E n \in Signer : StakeStep(n) \/ VoteStep(n)) \/ ChainStep]_systemVars => [Step]_systemVars
  BY DEF Signed
<1> QED BY <1>1, <1>2, <1>3, PTL DEF StakeSpec, FundsSpec, StakeVoteSpec, SystemSpec

\* Staking tables stay well formed: no row at zero, no stake or refund negative.
THEOREM StakesTypeCorrect == SystemSpec => []StakeTypeOK
<1>1. SystemInv => StakeTypeOK
  BY DEF SystemInv
<1> QED BY <1>1, SystemAlwaysInv, PTL

\* The three tables that count stakes always agree, whatever changebw, voting and
\* newaccount do in between.
THEOREM StakesAlwaysAgree == SystemSpec => []StakesAgree
<1>1. SystemInv => StakesAgree
  BY DEF SystemInv
<1> QED BY <1>1, SystemAlwaysInv, PTL

\* However often init is called, an account's userres row is of one token, a
\* token of the chain, and so is every stake for that account.
THEOREM TotalsStayOfOneSymbol == SystemSpec => []TotalsOfOneSymbol
<1>1. SystemInv => TotalsOfOneSymbol
  BY DEF SystemInv
<1> QED BY <1>1, SystemAlwaysInv, PTL

\* An account's CPU limit is always that of its userres row.
THEOREM LimitsAlwaysFollow == SystemSpec => []LimitsFollowStakes
<1>1. SystemInv => LimitsFollowStakes
  BY DEF SystemInv
<1> QED BY <1>1, SystemAlwaysInv, PTL

\* A refund transaction that is still wanted is never due before its refund.
THEOREM RefundsNeverEarly == SystemSpec => []NeverRunsEarly
<1>1. SystemInv => NeverRunsEarly
  BY DEF SystemInv
<1> QED BY <1>1, SystemAlwaysInv, PTL

\* Votes are the stakes behind a producer, with real staking moving the stakes.
THEOREM VotesFollowStakes == SystemSpec => []VotesAreStakes
<1>1. SystemInv => VotesAreStakes
  BY DEF SystemInv, BallotInv
<1> QED BY <1>1, SystemAlwaysInv, PTL

-----------------------------------------------------------------------------
(* Where tokens, stakes and refunds go. *)

\* x tokens of code c move, and no other balance changes.
Moved(from, to, c, x) ==
    /\ from # to /\ x \in Nat
    /\ Held(from, c)' = Held(from, c) - x
    /\ Held(to, c)' = Held(to, c) + x
    /\ \A n \in Name, d \in Code :
          <<n, d>> # <<from, c>> /\ <<n, d>> # <<to, c>> => Held(n, d)' = Held(n, d)

\* The two halves of a transfer do that.
LEMMA TransferredMoves ==
  ASSUME AccountTable(accounts), NEW mid, NEW from \in Name, NEW to \in Name, NEW q \in Asset,
         NEW payer, Transferred(accounts, mid, accounts', from, to, q, payer)
  PROVE  Moved(from, to, q.code, q.amount)
<1> DEFINE c == q.code
           x == q.amount
<1>1. /\ from # to /\ x \in Nat /\ c \in Code /\ x > 0
  BY TokenAssumption DEF Transferred, Asset
<1>2. /\ HeldIn(mid, from, c) = HeldIn(accounts, from, c) - x
      /\ \A n \in Name, d \in Code :
           <<n, d>> # <<from, c>> => HeldIn(mid, n, d) = HeldIn(accounts, n, d)
  BY DEF Transferred, Debited
<1>3. /\ HeldIn(accounts', to, c) = HeldIn(mid, to, c) + x
      /\ \A n \in Name, d \in Code :
           <<n, d>> # <<to, c>> => HeldIn(accounts', n, d) = HeldIn(mid, n, d)
  BY DEF Transferred, Credited
<1>4. \A n, d : Held(n, d) = HeldIn(accounts, n, d) /\ Held(n, d)' = HeldIn(accounts', n, d)
  BY DEF Held
<1> HIDE DEF c, x
<1>5. HeldIn(accounts', from, c) = HeldIn(mid, from, c)
  BY <1>1, <1>3
<1>6. HeldIn(mid, to, c) = HeldIn(accounts, to, c)
  BY <1>1, <1>2
<1>7. Moved(from, to, c, x)
  BY <1>1, <1>2, <1>3, <1>4, <1>5, <1>6 DEF Moved
<1> QED BY <1>7 DEF c, x

\* What a new account costs is a transfer to saving_account, made as the account
\* comes into being.
LEMMA FeeTransferred ==
  ASSUME SystemInv, NEW creator \in Name, NEW m \in Name, NewAccount({creator}, creator, m),
         ~(UNCHANGED accounts)
  PROVE  \E fee \in Asset :
           /\ fee.code \in Code /\ fee.amount \in 1 .. MaxAmount
           /\ fee.code \in DOMAIN stat /\ fee.prec = stat[fee.code].prec
           /\ SavingAccount \in existing
           /\ Transferred(accounts, SubBalance(accounts, creator, fee), accounts',
                          creator, SavingAccount, fee, creator)
<1>1. /\ creator # SavingAccount /\ account_creation_fee.amount > 0
      /\ account_creation_fee.code \in DOMAIN stat
      /\ account_creation_fee.prec = stat[account_creation_fee.code].prec
      /\ SubBalanceOK(accounts, creator, account_creation_fee)
      /\ AddBalanceOK(accounts, SavingAccount, account_creation_fee)
      /\ accounts' = AddBalance(SubBalance(accounts, creator, account_creation_fee),
                                SavingAccount, account_creation_fee, creator)
      /\ SavingAccount \in existing
  BY DEF NewAccount, TransferOK
<1>2. PICK fee \in Asset : fee = account_creation_fee
  BY <1>1, FeeIsAsset
<1> DEFINE mid == SubBalance(accounts, creator, fee)
<1>3. SavingAccount \in Name
  BY SystemAssumption
<1>4. AccountTable(accounts)
  BY DEF SystemInv
<1>5. Transferred(accounts, mid, AddBalance(mid, SavingAccount, fee, creator),
                  creator, SavingAccount, fee, creator)
  BY <1>1, <1>2, <1>3, <1>4, TransferTables
<1>6. Transferred(accounts, mid, accounts', creator, SavingAccount, fee, creator)
  BY <1>1, <1>2, <1>5
<1>7. fee.code \in Code /\ fee.amount \in 1 .. MaxAmount
  BY <1>1, <1>2, TokenAssumption DEF Asset
<1>8. fee.code \in DOMAIN stat /\ fee.prec = stat[fee.code].prec
  BY <1>1, <1>2
<1> QED BY <1>1, <1>6, <1>7, <1>8

\* Balances are natural.
LEMMA HeldNat ==
  ASSUME SystemInv, NEW n \in Name, NEW c \in Code
  PROVE  Held(n, c) \in Nat
BY HeldInType DEF SystemInv, Held

\* The stakes of token c that owners have, row by row.
Part(t, c, owners) ==
    [k \in Name \X Name |->
        IF k \in DOMAIN t /\ k[1] \in owners
        THEN IF t[k].code = c THEN t[k].amount ELSE 0 ELSE 0]

\* StakedOf, of a given table.
StakesIn(t, c, rows) == SumOver([k \in {r \in rows : t[r].code = c} |-> t[k].amount])

\* Stakes are natural, and their sum is that of all rows.
LEMMA StakesInIs ==
  ASSUME NEW c, NEW owners, NEW t, IsTable(t, Name \X Name, Quantity)
  PROVE  /\ Part(t, c, owners) \in [Name \X Name -> Nat]
         /\ SumOver(Part(t, c, owners)) \in Nat
         /\ StakesIn(t, c, {k \in DOMAIN t : k[1] \in owners}) = SumOver(Part(t, c, owners))
<1> DEFINE S == {r \in {k \in DOMAIN t : k[1] \in owners} : t[r].code = c}
           K == Name \X Name
           f == [k \in S |-> t[k].amount]
           g == Part(t, c, owners)
<1>1. DOMAIN t \subseteq K /\ \A k \in DOMAIN t : t[k].amount \in Nat
  BY TokenAssumption DEF IsTable, Quantity
<1>2. S \subseteq K /\ f \in [S -> Nat] /\ g \in [K -> Nat]
  BY <1>1 DEF Part
<1>3. (\A k \in S : g[k] = f[k]) /\ (\A k \in K \ S : g[k] = 0)
  BY <1>1 DEF Part
<1>4. IsFiniteSet(K)
  BY NameAssumption, FS_Product
<1>5. StakesIn(t, c, {k \in DOMAIN t : k[1] \in owners}) = SumOver(f)
  BY DEF StakesIn
<1> HIDE DEF S, K, f, g
<1>6. SumOver(g) = SumOver(f) /\ SumOver(g) \in Nat
  BY <1>2, <1>3, <1>4, SumExtended, SumNat
<1> QED BY <1>2, <1>5, <1>6 DEF g, K

\* A change of one stake changes the sum for its owner and its token.
LEMMA PartShifts ==
  ASSUME core_symbol \in Symbol, NEW from \in Name, NEW to \in Name, NEW delta \in Int,
         IsTable(delband, Name \X Name, Quantity), IsTable(delband', Name \X Name, Quantity),
         Shifted(delband, delband', <<from, to>>, delta), NEW c, NEW owners
  PROVE  SumOver(Part(delband', c, owners)) =
            SumOver(Part(delband, c, owners))
               + (IF from \in owners /\ c = core_symbol.code THEN delta ELSE 0)
<1> DEFINE k == <<from, to>>
           K == Name \X Name
           f == Part(delband, c, owners)
           g == Part(delband', c, owners)
           counted == from \in owners /\ c = core_symbol.code
<1>1. /\ \A x : Amount(delband, x) \in Nat /\ Amount(delband', x) \in Nat
      /\ Amount(delband', k) = Amount(delband, k) + delta
  BY QuantityIs, AmountNat DEF Shifted
<1>2. f \in [K -> Nat] /\ g \in [K -> Nat]
  BY TokenAssumption DEF Part, IsTable, Quantity
<1>3. IsFiniteSet(K) /\ k \in K
  BY NameAssumption, FS_Product
<1>4. \A x \in K \ {k} : g[x] = f[x]
  BY DEF Part, Shifted
<1>5. f[k] = (IF counted THEN Amount(delband, k) ELSE 0)
  <2>1. k \in DOMAIN delband => delband[k].code = core_symbol.code
    BY DEF Shifted, SymbolOf
  <2>2. k[1] = from
    OBVIOUS
  <2> QED BY <1>3, <2>1, <2>2 DEF Part, Amount, RowOr
<1>6. g[k] = (IF counted THEN Amount(delband', k) ELSE 0)
  <2>1. k \in DOMAIN delband' => delband'[k].code = core_symbol.code
    BY DEF Shifted, SymbolOf
  <2>2. k[1] = from
    OBVIOUS
  <2> QED BY <1>3, <2>1, <2>2 DEF Part, Amount, RowOr
<1> HIDE DEF k, K, f, g, counted
<1>7. SumOver(g) = SumOver(f) - f[k] + g[k] /\ SumOver(f) \in Nat
  BY <1>2, <1>3, <1>4, SumOneChange, SumNat
<1>8. SumOver(g) = SumOver(f) + (IF counted THEN delta ELSE 0)
  BY <1>1, <1>5, <1>6, <1>7
<1> QED BY <1>8 DEF f, g, counted

\* One account's refund in one token changes.
OnlyRefund(from, code) ==
    \A m \in Name, c \in Code : <<m, c>> # <<from, code>> => RefundOf(c, m)' = RefundOf(c, m)

\* A stake is paid for by its owner's refund, or an unstaked one becomes part of
\* it.  A refund that is too small for it is gone.
FromRefund(code, from, to, delta) ==
    /\ UNCHANGED accounts
    /\ OnlyRefund(from, code)
    /\ \/ RefundOf(code, from)' = RefundOf(code, from) - delta
       \/ /\ delta > 0 /\ from = to
          /\ from \in DOMAIN refunds \ DOMAIN refunds'
          /\ refunds[from].cpu_amount.code = code
          /\ RefundOf(code, from)' = 0

\* A stake is paid for by the tokens of whoever signed.
FromTokens(code, signer, delta) ==
    /\ delta > 0
    /\ UNCHANGED refunds
    /\ Moved(signer, StakeAccount, code, delta)

\* Refunds are natural.
LEMMA RefundNat ==
  ASSUME IsTable(refunds, Name, RefundRow), NEW c, NEW n
  PROVE  RefundOf(c, n) \in Nat
<1>1. \A m \in DOMAIN refunds : refunds[m].cpu_amount.amount \in Nat
  BY TokenAssumption DEF IsTable, RefundRow, Quantity
<1> QED BY <1>1 DEF RefundOf

\* What an erased request was worth is gone.
LEMMA RefundDropped ==
  ASSUME NEW owner, owner \in DOMAIN refunds, refunds' = Drop(refunds, owner), NEW c, NEW n
  PROVE  /\ n # owner => RefundOf(c, n)' = RefundOf(c, n)
         /\ RefundOf(c, owner)' = 0
         /\ owner \notin DOMAIN refunds'
         /\ RefundOf(c, owner) = IF refunds[owner].cpu_amount.code = c
                                 THEN refunds[owner].cpu_amount.amount ELSE 0
BY DEF Drop, RefundOf

\* A request that is written replaces what the account had.
LEMMA RefundWritten ==
  ASSUME NEW owner, NEW r, refunds' = Put(refunds, owner, r), NEW c, NEW n
  PROVE  /\ n # owner => RefundOf(c, n)' = RefundOf(c, n)
         /\ RefundOf(c, owner)' = IF r.cpu_amount.code = c THEN r.cpu_amount.amount ELSE 0
BY DEF Put, RefundOf

\* changebw takes from the refund, or from the signer's tokens, or, for the stake
\* account, from nothing.
LEMMA RestakePays ==
  ASSUME SystemInv, NEW signer \in Name, NEW to \in Name, NEW delta \in Int,
         NEW transfer \in BOOLEAN, Restake(signer, to, delta, transfer),
         NEW code, code = core_symbol.code
  PROVE  \/ signer = StakeAccount /\ UNCHANGED <<refunds, accounts>>
         \/ /\ Owner(signer, to, transfer) = signer
            /\ FromRefund(code, signer, to, delta)
         \/ FromTokens(code, signer, delta)
<1> DEFINE from == Owner(signer, to, transfer)
<1>1. /\ core_symbol \in Symbol /\ code \in Code
      /\ MaxAmount \in Nat /\ delta \in -MaxAmount .. MaxAmount /\ delta # 0
      /\ IsTable(refunds, Name, RefundRow) /\ AccountTable(accounts)
      /\ (delta < 0 => from = signer)
      /\ \A n : CoreAsset(n).amount = n /\ CoreAsset(n).code = code
  BY TokenAssumption DEF Restake, SystemInv, StakeTypeOK, Symbol, Owner, CoreAsset, AssetOf
<1>2. \/ signer = StakeAccount /\ UNCHANGED <<refunds, accounts>>
      \/ /\ from \in DOMAIN refunds /\ UpdateRefund(from, delta)
         /\ delta < 0 \/ (~transfer /\ signer = to)
      \/ from \notin DOMAIN refunds /\ delta < 0 /\ CreateRefund(from, -delta)
      \/ ~(delta < 0) /\ PayStake(signer, from, delta)
  BY DEF Restake, ChangeBw, Owner
<1>3. ~transfer => from = signer
  BY DEF Owner
<1> HIDE DEF from
<1>4. CASE /\ from \in DOMAIN refunds /\ UpdateRefund(from, delta)
           /\ delta < 0 \/ (~transfer /\ signer = to)
  <2> DEFINE old == refunds[from].cpu_amount
             left == old.amount - delta
  <2>1. from = signer
    BY <1>1, <1>3, <1>4
  <2>2. old \in Quantity /\ old.amount \in Nat /\ old.amount > 0
    BY <1>1, <1>4 DEF IsTable, RefundRow, Quantity
  <2>3. SymbolOf(old) = core_symbol
    BY <1>4 DEF UpdateRefund
  <2>4. old.code = code
    BY <2>3 DEF SymbolOf
  <2>5. RefundOf(code, from) = old.amount
    BY <1>4, <2>4 DEF RefundOf
  <2>6. ASSUME left <= 0
        PROVE  FromRefund(code, from, to, delta)
    <3>1. refunds' = Drop(refunds, from) /\ UNCHANGED accounts
      BY <1>4, <2>6 DEF UpdateRefund
    <3>2. delta > 0 /\ from = to
      BY <1>1, <1>4, <2>1, <2>2, <2>6
    <3>3. /\ \A c, n : n # from => RefundOf(c, n)' = RefundOf(c, n)
          /\ RefundOf(code, from)' = 0 /\ from \notin DOMAIN refunds'
      BY <1>4, <3>1, RefundDropped
    <3>4. ASSUME NEW c \in Code, c # code PROVE RefundOf(c, from)' = RefundOf(c, from)
      BY <1>4, <2>4, <3>1, <3>4, RefundDropped
    <3>5. OnlyRefund(from, code)
      BY <3>3, <3>4 DEF OnlyRefund
    <3> QED BY <1>4, <2>4, <3>1, <3>2, <3>3, <3>5 DEF FromRefund
  <2>7. ASSUME ~(left <= 0)
        PROVE  FromRefund(code, from, to, delta)
    <3>1. /\ refunds' = [refunds EXCEPT
                ![from].cpu_amount = CoreAsset(left),
                ![from].request_time = IF delta < 0 THEN Seconds(now) ELSE @]
          /\ UNCHANGED accounts
      BY <1>4, <2>7 DEF UpdateRefund
    <3> HIDE DEF left
    <3>2. /\ DOMAIN refunds' = DOMAIN refunds /\ refunds'[from].cpu_amount = CoreAsset(left)
          /\ \A n \in DOMAIN refunds \ {from} : refunds'[n] = refunds[n]
      BY <1>1, <1>4, <3>1 DEF IsTable, RefundRow
    <3>3. \A c, n : n # from => RefundOf(c, n)' = RefundOf(c, n)
      BY <3>2 DEF RefundOf
    <3>4. RefundOf(code, from)' = left
      BY <1>1, <1>4, <3>2 DEF RefundOf
    <3>5. ASSUME NEW c \in Code, c # code PROVE RefundOf(c, from)' = RefundOf(c, from)
      BY <1>1, <1>4, <2>4, <3>2, <3>5 DEF RefundOf
    <3>6. OnlyRefund(from, code)
      BY <3>3, <3>5 DEF OnlyRefund
    <3>7. RefundOf(code, from)' = RefundOf(code, from) - delta
      BY <2>5, <3>4 DEF left
    <3> QED BY <3>1, <3>6, <3>7 DEF FromRefund
  <2>8. FromRefund(code, from, to, delta)
    BY <2>6, <2>7
  <2> QED BY <2>1, <2>8 DEF from
<1>5. CASE from \notin DOMAIN refunds /\ delta < 0 /\ CreateRefund(from, -delta)
  <2> DEFINE r == [request_time |-> Seconds(now), cpu_amount |-> CoreAsset(-delta)]
  <2>1. from = signer
    BY <1>1, <1>5
  <2>2. refunds' = Put(refunds, from, r) /\ UNCHANGED accounts
    BY <1>5 DEF CreateRefund
  <2>3. r.cpu_amount.amount = -delta /\ r.cpu_amount.code = code
    BY <1>1
  <2> HIDE DEF r
  <2>4. /\ \A c, n : n # from => RefundOf(c, n)' = RefundOf(c, n)
        /\ \A c : RefundOf(c, from)' = IF r.cpu_amount.code = c THEN r.cpu_amount.amount ELSE 0
    BY <2>2, RefundWritten
  <2>5. \A c : RefundOf(c, from) = 0
    BY <1>5 DEF RefundOf
  <2>6. RefundOf(code, from)' = RefundOf(code, from) - delta
    BY <2>3, <2>4, <2>5
  <2>7. OnlyRefund(from, code)
    BY <2>3, <2>4, <2>5 DEF OnlyRefund
  <2>8. FromRefund(code, from, to, delta)
    BY <2>2, <2>6, <2>7 DEF FromRefund
  <2> QED BY <2>1, <2>8 DEF from
<1>6. CASE ~(delta < 0) /\ PayStake(signer, from, delta)
  <2>1. delta \in 1 .. MaxAmount
    BY <1>1, <1>6
  <2>2. PICK q \in Asset : q = CoreAsset(delta) /\ q.amount = delta /\ q.code = code
    BY <1>1, <2>1, CoreAssetIs
  <2>3. UNCHANGED refunds /\ Transfer({signer}, signer, StakeAccount, q) /\ StakeAccount \in Name
    BY <1>6, <2>2, SystemAssumption DEF PayStake
  <2> DEFINE mid == SubBalance(accounts, signer, q)
             payer == RowPayer({signer}, signer, StakeAccount)
  <2>4. Transferred(accounts, mid, accounts', signer, StakeAccount, q, payer)
    BY <1>1, <2>3, TransferEffect
  <2> HIDE DEF mid, payer
  <2>5. Moved(signer, StakeAccount, q.code, q.amount)
    BY <1>1, <2>3, <2>4, TransferredMoves
  <2> QED BY <2>1, <2>2, <2>3, <2>5 DEF FromTokens
<1> QED BY <1>2, <1>4, <1>5, <1>6

\* A refund is paid from the stake account.
LEMMA RepayMoves ==
  ASSUME SystemInv, NEW owner \in Name, owner \in DOMAIN refunds, Repay(owner)
  PROVE  /\ \E q \in Quantity : q = refunds[owner].cpu_amount
                               /\ Moved(StakeAccount, owner, q.code, q.amount)
         /\ refunds' = Drop(refunds, owner) /\ UNCHANGED delband
<1>0. PICK q \in Quantity : q = refunds[owner].cpu_amount
  BY DEF SystemInv, StakeTypeOK, IsTable, RefundRow
<1> DEFINE mid == SubBalance(accounts, StakeAccount, q)
           payer == RowPayer({StakeAccount, owner}, StakeAccount, owner)
<1>1. StakeAccount \in Name /\ AccountTable(accounts)
  BY SystemAssumption DEF SystemInv
<1>2. q \in Asset
  BY <1>1, QuantityIs
<1>3. /\ Transfer({StakeAccount, owner}, StakeAccount, owner, q)
      /\ refunds' = Drop(refunds, owner) /\ UNCHANGED delband
  BY <1>0 DEF Repay
<1>4. Transferred(accounts, mid, accounts', StakeAccount, owner, q, payer)
  BY <1>1, <1>2, <1>3, TransferEffect
<1> HIDE DEF mid, payer
<1>5. Moved(StakeAccount, owner, q.code, q.amount)
  BY <1>1, <1>2, <1>4, TransferredMoves
<1> QED BY <1>0, <1>3, <1>5

\* The refund of n may be paid by now.
Due(n) == 2 * (refunds[n].request_time + RefundDelay) <= now

\* An account's step changes its stakes, has its refund paid, moves its tokens, or
\* touches none of them.
LEMMA SignedKinds ==
  ASSUME SystemInv, NEW n \in Signer, Signed(n)
  PROVE  \/ \E to \in Name, delta \in Int, transfer \in BOOLEAN : Restake(n, to, delta, transfer)
         \/ n \in DOMAIN refunds /\ Due(n) /\ Repay(n)
         \/ /\ \E to \in Name, c \in Code, x \in Nat : Moved(n, to, c, x)
            /\ UNCHANGED <<delband, refunds>>
         \/ UNCHANGED <<delband, refunds, accounts>>
<1>1. n \in Name /\ AccountTable(accounts)
  BY SystemAssumption, VotingAssumption DEF Signer, SystemInv
<1>2. CASE StakeStep(n)
  <2>1. \A core \in Symbol : InitSystem({n}, core) => UNCHANGED <<delband, refunds, accounts>>
    BY DEF InitSystem, tokenVars, stakeVars
  <2>2. RefundOK({n}, n) => Due(n)
    BY DEF RefundOK, Due
  <2> QED BY <1>1, <1>2, <2>1, <2>2, StakeStepIs
<1>3. CASE PayStep(n)
  <2>1. PICK from \in Actor, to \in Actor, q \in Quantity : Transfer({n}, from, to, q)
    BY <1>3 DEF PayStep
  <2>2. from = n
    BY <2>1 DEF Transfer, TransferOK
  <2>3. to \in Name /\ q \in Asset /\ q.code \in Code /\ q.amount \in Nat
    <3>1. to \in Name /\ q \in Asset
      BY QuantityIs, SystemAssumption
    <3>2. q.code \in Code /\ q.amount \in Nat
      BY TokenAssumption DEF Quantity
    <3> QED BY <3>1, <3>2
  <2>4. Transferred(accounts, SubBalance(accounts, n, q), accounts', n, to, q, RowPayer({n}, n, to))
    BY <1>1, <2>1, <2>2, <2>3, TransferEffect
  <2>5. Moved(n, to, q.code, q.amount)
    BY <1>1, <2>3, <2>4, TransferredMoves
  <2>6. UNCHANGED <<delband, refunds>>
    BY <1>3 DEF PayStep, stakeVars
  <2> QED BY <2>3, <2>5, <2>6
<1>4. CASE VoteStep(n)
  BY <1>4 DEF VoteStep, stakeVars
<1>5. ASSUME NEW m \in Name, NewAccount({n}, n, m)
      PROVE  \/ /\ \E to \in Name, c \in Code, x \in Nat : Moved(n, to, c, x)
                /\ UNCHANGED <<delband, refunds>>
             \/ UNCHANGED <<delband, refunds, accounts>>
  <2>1. UNCHANGED <<delband, refunds>>
    BY <1>5 DEF NewAccount
  <2>2. CASE UNCHANGED accounts
    BY <2>1, <2>2
  <2>3. CASE ~(UNCHANGED accounts)
    <3>1. PICK fee \in Asset :
            /\ fee.code \in Code /\ fee.amount \in 1 .. MaxAmount
            /\ Transferred(accounts, SubBalance(accounts, n, fee), accounts',
                           n, SavingAccount, fee, n)
      BY <1>1, <1>5, <2>3, FeeTransferred
    <3>2. SavingAccount \in Name
      BY SystemAssumption
    <3>3. Moved(n, SavingAccount, fee.code, fee.amount)
      BY <1>1, <3>1, <3>2, TransferredMoves
    <3>4. fee.amount \in Nat
      BY <3>1, TokenAssumption
    <3> QED BY <2>1, <3>1, <3>2, <3>3, <3>4
  <2> QED BY <2>2, <2>3
<1>6. ASSUME NEW fee, SetAcntFee({n}, fee) PROVE UNCHANGED <<delband, refunds, accounts>>
  BY <1>6 DEF SetAcntFee, tokenVars, stakeVars
<1>7. ASSUME NEW m, SetALimits({n}, m, MaxAmount) PROVE UNCHANGED <<delband, refunds, accounts>>
  BY <1>7 DEF SetALimits, tokenVars
<1>8. CASE AccountStep(n)
  BY <1>5, <1>6, <1>7, <1>8 DEF AccountStep
<1> QED BY <1>2, <1>3, <1>4, <1>8 DEF Signed

\* The chain only ever pays refunds.
LEMMA ChainKinds ==
  ASSUME SystemInv, ChainStep
  PROVE  \/ \E owner \in Name : owner \in DOMAIN refunds /\ Due(owner) /\ Repay(owner)
         \/ UNCHANGED <<delband, refunds, accounts>>
<1>1. ASSUME NEW owner \in DOMAIN deferred, ExecDeferred(owner) \/ ExpireDeferred(owner)
      PROVE  \/ owner \in Name /\ owner \in DOMAIN refunds /\ Due(owner) /\ Repay(owner)
             \/ UNCHANGED <<delband, refunds, accounts>>
  BY <1>1 DEF ExecDeferred, ExpireDeferred, RefundOK, Due, SystemInv, StakeTypeOK, IsTable, tokenVars
<1>2. ASSUME NEW accepted, NextSlot(accepted) PROVE UNCHANGED <<delband, refunds, accounts>>
  BY <1>2 DEF NextSlot, stakeVars
<1> QED BY <1>1, <1>2 DEF ChainStep

-----------------------------------------------------------------------------
(* Nobody loses what is theirs. *)

\* What someone owns is their balance, their stakes and their refund.
LEMMA WealthIs ==
  ASSUME NEW n, NEW c,
         IsTable(delband, Name \X Name, Quantity), IsTable(delband', Name \X Name, Quantity)
  PROVE  /\ Wealth(n, c) = Held(n, c) + SumOver(Part(delband, c, {n})) + RefundOf(c, n)
         /\ Wealth(n, c)' = Held(n, c)' + SumOver(Part(delband', c, {n})) + RefundOf(c, n)'
<1>1. \A t : {k \in DOMAIN t : k[1] = n} = {k \in DOMAIN t : k[1] \in {n}}
  OBVIOUS
<1>2. /\ StakesIn(delband, c, {k \in DOMAIN delband : k[1] \in {n}}) = SumOver(Part(delband, c, {n}))
      /\ StakesIn(delband', c, {k \in DOMAIN delband' : k[1] \in {n}}) = SumOver(Part(delband', c, {n}))
  BY StakesInIs
<1>3. StakedOf(c, {k \in DOMAIN delband : k[1] = n}) = SumOver(Part(delband, c, {n}))
  BY <1>1, <1>2 DEF StakedOf, StakesIn
<1>4. StakedOf(c, {k \in DOMAIN delband : k[1] = n})' = SumOver(Part(delband', c, {n}))
  BY <1>1, <1>2 DEF StakedOf, StakesIn
<1> QED BY <1>3, <1>4 DEF Wealth

\* The parts of what someone owns are integers.
LEMMA WealthParts ==
  ASSUME SystemInv, SystemInv', NEW n \in Name, NEW c \in Code
  PROVE  /\ Held(n, c) \in Int /\ Held(n, c)' \in Int
         /\ SumOver(Part(delband, c, {n})) \in Int /\ SumOver(Part(delband', c, {n})) \in Int
         /\ RefundOf(c, n) \in Int /\ RefundOf(c, n)' \in Int
<1>1. /\ IsTable(delband, Name \X Name, Quantity) /\ IsTable(delband', Name \X Name, Quantity)
      /\ IsTable(refunds, Name, RefundRow) /\ IsTable(refunds', Name, RefundRow)
      /\ AccountTable(accounts) /\ AccountTable(accounts')
  BY DEF SystemInv, StakeTypeOK
<1>2. HeldIn(accounts, n, c) \in Nat /\ HeldIn(accounts', n, c) \in Nat
  BY <1>1, HeldInType
<1>3. SumOver(Part(delband, c, {n})) \in Nat /\ SumOver(Part(delband', c, {n})) \in Nat
  BY <1>1, StakesInIs
<1>4. \A m \in DOMAIN refunds' : refunds'[m].cpu_amount.amount \in Nat
  BY <1>1, TokenAssumption DEF IsTable, RefundRow, Quantity
<1>5. RefundOf(c, n) \in Nat /\ RefundOf(c, n)' \in Nat
  BY <1>1, <1>4, RefundNat DEF RefundOf
<1> QED BY <1>2, <1>3, <1>5 DEF Held

\* Paying the refund of an account keeps what it owns, and what others own.
LEMMA RepayIsSafe ==
  ASSUME SystemInv, SystemInv', NEW owner \in Name, owner \in DOMAIN refunds, Repay(owner),
         NEW n \in Name \ {StakeAccount}, NEW c \in Code
  PROVE  Wealth(n, c)' >= Wealth(n, c)
<1>0. /\ Held(n, c) \in Int /\ Held(n, c)' \in Int
      /\ SumOver(Part(delband, c, {n})) \in Int /\ SumOver(Part(delband', c, {n})) \in Int
      /\ RefundOf(c, n) \in Int /\ RefundOf(c, n)' \in Int
  BY WealthParts
<1>1. PICK q \in Quantity : q = refunds[owner].cpu_amount
                            /\ Moved(StakeAccount, owner, q.code, q.amount)
  BY RepayMoves
<1>2. refunds' = Drop(refunds, owner) /\ delband' = delband
  BY RepayMoves
<1>3. /\ IsTable(delband, Name \X Name, Quantity) /\ IsTable(delband', Name \X Name, Quantity)
  BY DEF SystemInv, StakeTypeOK
<1>4. /\ Wealth(n, c) = Held(n, c) + SumOver(Part(delband, c, {n})) + RefundOf(c, n)
      /\ Wealth(n, c)' = Held(n, c)' + SumOver(Part(delband, c, {n})) + RefundOf(c, n)'
  BY <1>2, <1>3, WealthIs
<1>5. /\ n # owner => RefundOf(c, n)' = RefundOf(c, n)
      /\ RefundOf(c, owner)' = 0
      /\ RefundOf(c, owner) = IF q.code = c THEN q.amount ELSE 0
  BY <1>1, <1>2, RefundDropped
<1>6. Held(n, c)' = Held(n, c) + (IF n = owner /\ q.code = c THEN q.amount ELSE 0)
  <2>1. CASE n = owner /\ q.code = c
    BY <1>1, <2>1 DEF Moved
  <2>2. CASE ~(n = owner /\ q.code = c)
    <3>1. Held(n, c)' = Held(n, c)
      BY <1>1, <2>2 DEF Moved
    <3> QED BY <2>2, <3>1, <1>0
  <2> QED BY <2>1, <2>2
<1>7. q.amount \in Int
  BY TokenAssumption DEF Quantity
<1> QED BY <1>4, <1>5, <1>6, <1>7, <1>0

\* Nor does a step that someone else signs take anything.
LEMMA SignedIsSafe ==
  ASSUME SystemInv, SystemInv', NEW m \in Signer, Signed(m),
         NEW n \in Name \ {StakeAccount}, n # m, NEW c \in Code
  PROVE  Wealth(n, c)' >= Wealth(n, c)
<1>0. /\ Held(n, c) \in Int /\ Held(n, c)' \in Int
      /\ SumOver(Part(delband, c, {n})) \in Int /\ SumOver(Part(delband', c, {n})) \in Int
      /\ RefundOf(c, n) \in Int /\ RefundOf(c, n)' \in Int
  BY WealthParts
<1>1. m \in Name
  BY SystemAssumption, VotingAssumption DEF Signer
<1>2. /\ IsTable(delband, Name \X Name, Quantity) /\ IsTable(delband', Name \X Name, Quantity)
  BY DEF SystemInv, StakeTypeOK
<1>3. /\ Wealth(n, c) = Held(n, c) + SumOver(Part(delband, c, {n})) + RefundOf(c, n)
      /\ Wealth(n, c)' = Held(n, c)' + SumOver(Part(delband', c, {n})) + RefundOf(c, n)'
  BY <1>2, WealthIs
<1>4. \* A move of someone else's tokens.
      ASSUME NEW to, NEW d \in Code, NEW x \in Nat, Moved(m, to, d, x)
      PROVE  Held(n, c)' >= Held(n, c)
  <2>1. CASE <<n, c>> = <<to, d>>
    BY <1>4, <2>1, <1>0 DEF Moved
  <2>2. CASE <<n, c>> # <<to, d>>
    BY <1>4, <2>2, <1>0 DEF Moved
  <2> QED BY <2>1, <2>2
<1>5. ASSUME NEW to \in Name, NEW delta \in Int, NEW transfer \in BOOLEAN,
             Restake(m, to, delta, transfer)
      PROVE  Wealth(n, c)' >= Wealth(n, c)
  <2> DEFINE from == Owner(m, to, transfer)
  <2>1. core_symbol \in Symbol /\ from \in Name /\ (delta < 0 => from = m)
    BY <1>1, <1>5 DEF Restake, Owner
  <2>2. Restaked(from, to, delta)
    BY <1>1, <1>5, <2>1, ChangeBwRestakes DEF Restake
  <2>3. PICK code \in Code : code = core_symbol.code
    BY <2>1 DEF Symbol
  <2>4. \/ m = StakeAccount /\ UNCHANGED <<refunds, accounts>>
        \/ FromRefund(code, m, to, delta)
        \/ FromTokens(code, m, delta)
    BY <1>1, <1>5, <2>3, RestakePays
  <2> HIDE DEF from
  <2>5. SumOver(Part(delband', c, {n})) =
          SumOver(Part(delband, c, {n})) + (IF from \in {n} /\ c = core_symbol.code THEN delta ELSE 0)
    <3>1. Shifted(delband, delband', <<from, to>>, delta)
      BY <2>2 DEF Restaked
    <3> QED BY <1>2, <2>1, <3>1, PartShifts
  <2>6. SumOver(Part(delband', c, {n})) >= SumOver(Part(delband, c, {n}))
    BY <2>1, <2>5, <1>0
  <2>7. Held(n, c)' >= Held(n, c) /\ RefundOf(c, n)' = RefundOf(c, n)
    <3>1. CASE UNCHANGED <<refunds, accounts>>
      <4>1. Held(n, c)' = Held(n, c) /\ RefundOf(c, n)' = RefundOf(c, n)
        BY <3>1 DEF Held, RefundOf
      <4> QED BY <4>1, <1>0
    <3>2. CASE FromRefund(code, m, to, delta)
      <4>1. UNCHANGED accounts /\ OnlyRefund(m, code)
        BY <3>2 DEF FromRefund
      <4>2. Held(n, c)' = Held(n, c)
        BY <4>1 DEF Held
      <4>3. RefundOf(c, n)' = RefundOf(c, n)
        BY <4>1 DEF OnlyRefund
      <4> QED BY <4>2, <4>3, <1>0
    <3>3. CASE FromTokens(code, m, delta)
      <4>1. Moved(m, StakeAccount, code, delta) /\ UNCHANGED refunds /\ delta \in Nat
        BY <3>3 DEF FromTokens
      <4> QED BY <1>4, <2>3, <4>1 DEF RefundOf
    <3> QED BY <2>4, <3>1, <3>2, <3>3
  <2> QED BY <1>3, <2>6, <2>7, <1>0
<1>6. CASE m \in DOMAIN refunds /\ Repay(m)
  BY <1>1, <1>6, RepayIsSafe
<1>7. CASE /\ \E to \in Name, d \in Code, x \in Nat : Moved(m, to, d, x)
           /\ UNCHANGED <<delband, refunds>>
  <2>1. Held(n, c)' >= Held(n, c)
    BY <1>4, <1>7
  <2>2. RefundOf(c, n)' = RefundOf(c, n) /\ delband' = delband
    BY <1>7 DEF RefundOf
  <2> QED BY <1>3, <2>1, <2>2, <1>0
<1>8. CASE UNCHANGED <<delband, refunds, accounts>>
  <2>1. RefundOf(c, n)' = RefundOf(c, n) /\ Held(n, c)' = Held(n, c) /\ delband' = delband
    BY <1>8 DEF RefundOf, Held
  <2> QED BY <1>3, <2>1, <1>0
<1> QED BY <1>5, <1>6, <1>7, <1>8, SignedKinds

\* Nobody's tokens, stakes and refund shrink by a step they did not sign: not by
\* another account's changebw, refund, newaccount or transfer, nor by the chain.
THEOREM WealthStaysSafe == SystemSpec => WealthIsSafe
<1> DEFINE Safe == \A n \in Actor \ {StakeAccount}, c \in Code :
                      Wealth(n, c)' < Wealth(n, c) =>
                        /\ \A m \in Signer \ {n} : ~Signed(m)
                        /\ ~ChainStep
<1>1. ASSUME SystemInv, SystemInv' PROVE [Safe]_systemVars
  <2> SUFFICES ASSUME NEW n \in Actor \ {StakeAccount}, NEW c \in Code, Wealth(n, c)' < Wealth(n, c)
               PROVE  /\ \A m \in Signer \ {n} : ~Signed(m)
                      /\ ~ChainStep
    OBVIOUS
  <2>1. n \in Name \ {StakeAccount}
    BY SystemAssumption
  <2>2. /\ IsTable(delband, Name \X Name, Quantity) /\ IsTable(delband', Name \X Name, Quantity)
    BY <1>1 DEF SystemInv, StakeTypeOK
  <2>3. /\ Wealth(n, c) = Held(n, c) + SumOver(Part(delband, c, {n})) + RefundOf(c, n)
        /\ Wealth(n, c)' = Held(n, c)' + SumOver(Part(delband', c, {n})) + RefundOf(c, n)'
    BY <2>2, WealthIs
  <2>4. Wealth(n, c) \in Int /\ Wealth(n, c)' \in Int
    BY <1>1, <2>1, <2>3, WealthParts
  <2>5. ~(Wealth(n, c)' >= Wealth(n, c))
    BY <2>4
  <2>6. ASSUME NEW m \in Signer \ {n}, Signed(m) PROVE FALSE
    BY <1>1, <2>1, <2>5, <2>6, SignedIsSafe
  <2>7. ASSUME ChainStep PROVE FALSE
    <3>1. CASE \E owner \in Name : owner \in DOMAIN refunds /\ Repay(owner)
      BY <1>1, <2>1, <2>5, <3>1, RepayIsSafe
    <3>2. CASE UNCHANGED <<delband, refunds, accounts>>
      <4>1. RefundOf(c, n)' = RefundOf(c, n) /\ Held(n, c)' = Held(n, c) /\ delband' = delband
        BY <3>2 DEF RefundOf, Held
      <4>2. Wealth(n, c)' = Wealth(n, c)
        BY <2>3, <4>1
      <4> QED BY <2>4, <2>5, <4>2
    <3> QED BY <1>1, <2>7, <3>1, <3>2, ChainKinds
  <2> QED BY <2>6, <2>7
<1>2. SystemInv /\ SystemInv' => [Safe]_systemVars
  BY <1>1
<1> QED BY <1>2, SystemAlwaysInv, PTL DEF WealthIsSafe

-----------------------------------------------------------------------------
(* Tokens that leave an account. *)

\* Tokens that move leave nobody else's balance smaller.
LEMMA MovedTakes ==
  ASSUME SystemInv, SystemInv', NEW from \in Name, NEW to \in Name, NEW d \in Code,
         NEW x \in Nat, Moved(from, to, d, x),
         NEW n \in Name, NEW c \in Code, <<n, c>> # <<from, d>>
  PROVE  Held(n, c)' >= Held(n, c)
<1>1. Held(n, c) \in Nat
  BY HeldNat
<1>2. CASE <<n, c>> = <<to, d>>
  BY <1>1, <1>2 DEF Moved
<1>3. CASE <<n, c>> # <<to, d>>
  BY <1>1, <1>3 DEF Moved
<1> QED BY <1>2, <1>3

\* A refund is taken from the stake account.
LEMMA RepayTakes ==
  ASSUME SystemInv, SystemInv', NEW owner \in Name, owner \in DOMAIN refunds, Repay(owner),
         NEW n \in Name \ {StakeAccount}, NEW c \in Code
  PROVE  Held(n, c)' >= Held(n, c)
<1>1. PICK q \in Quantity : Moved(StakeAccount, owner, q.code, q.amount)
  BY RepayMoves
<1>2. q.code \in Code /\ q.amount \in Nat
  BY TokenAssumption DEF Quantity
<1>3. StakeAccount \in Name
  BY SystemAssumption
<1> QED BY <1>1, <1>2, <1>3, MovedTakes

\* What an account signs is taken from its own balance, or from the stake account.
LEMMA SignedTakes ==
  ASSUME SystemInv, SystemInv', NEW m \in Signer, Signed(m),
         NEW n \in Name \ {StakeAccount}, n # m, NEW c \in Code
  PROVE  Held(n, c)' >= Held(n, c)
<1>1. m \in Name /\ StakeAccount \in Name
  BY SystemAssumption, VotingAssumption DEF Signer
<1>2. UNCHANGED accounts => Held(n, c)' >= Held(n, c)
  <2>1. Held(n, c) \in Nat
    BY HeldNat
  <2> QED BY <2>1 DEF Held
<1>3. ASSUME NEW to \in Name, NEW delta \in Int, NEW transfer \in BOOLEAN,
             Restake(m, to, delta, transfer)
      PROVE  Held(n, c)' >= Held(n, c)
  <2>1. PICK code \in Code : code = core_symbol.code
    BY <1>3 DEF Restake, Symbol
  <2>2. \/ UNCHANGED accounts
        \/ FromTokens(code, m, delta)
    BY <1>1, <1>3, <2>1, RestakePays DEF FromRefund
  <2>3. CASE FromTokens(code, m, delta)
    <3>1. delta \in Nat /\ Moved(m, StakeAccount, code, delta)
      BY <2>3 DEF FromTokens
    <3> QED BY <1>1, <3>1, MovedTakes
  <2> QED BY <1>2, <2>2, <2>3
<1>4. ASSUME NEW to \in Name, NEW d \in Code, NEW x \in Nat, Moved(m, to, d, x)
      PROVE  Held(n, c)' >= Held(n, c)
  BY <1>1, <1>4, MovedTakes
<1> QED BY <1>1, <1>2, <1>3, <1>4, RepayTakes, SignedKinds

\* No balance shrinks by a step that its owner did not sign: a stake is paid for
\* by whoever signs for it, also when the transfer flag makes it another's, and
\* what the chain runs on its own pays out and takes from the stake account only.
THEOREM TokensStaySafe == SystemSpec => TokensAreSafe
<1> DEFINE Safe == \A n \in Actor \ {StakeAccount}, c \in Code :
                      Held(n, c)' < Held(n, c) =>
                        /\ \A m \in Signer \ {n} : ~Signed(m)
                        /\ ~ChainStep
<1>1. ASSUME SystemInv, SystemInv' PROVE [Safe]_systemVars
  <2> SUFFICES ASSUME NEW n \in Actor \ {StakeAccount}, NEW c \in Code, Held(n, c)' < Held(n, c)
               PROVE  /\ \A m \in Signer \ {n} : ~Signed(m)
                      /\ ~ChainStep
    OBVIOUS
  <2>1. n \in Name \ {StakeAccount}
    BY SystemAssumption
  <2>2. Held(n, c) \in Nat /\ Held(n, c)' \in Nat
    <3>1. AccountTable(accounts) /\ AccountTable(accounts')
      BY <1>1 DEF SystemInv
    <3> QED BY <2>1, <3>1, HeldInType DEF Held
  <2>3. ~(Held(n, c)' >= Held(n, c))
    BY <2>2
  <2>4. ASSUME NEW m \in Signer \ {n}, Signed(m) PROVE FALSE
    BY <1>1, <2>1, <2>3, <2>4, SignedTakes
  <2>5. ASSUME ChainStep PROVE FALSE
    <3>1. CASE \E owner \in Name : owner \in DOMAIN refunds /\ Repay(owner)
      BY <1>1, <2>1, <2>3, <3>1, RepayTakes
    <3>2. CASE UNCHANGED <<delband, refunds, accounts>>
      <4>1. Held(n, c)' = Held(n, c)
        BY <3>2 DEF Held
      <4> QED BY <2>2, <2>3, <4>1
    <3> QED BY <1>1, <2>5, <3>1, <3>2, ChainKinds
  <2> QED BY <2>4, <2>5
<1>2. SystemInv /\ SystemInv' => [Safe]_systemVars
  BY <1>1
<1> QED BY <1>2, SystemAlwaysInv, PTL DEF TokensAreSafe

\* The reserve pays what is due of one refund.
Repays(c) ==
    \E n \in DOMAIN refunds \ DOMAIN refunds' :
        /\ Due(n)
        /\ Held(StakeAccount, c) - Held(StakeAccount, c)' = RefundOf(c, n)
        /\ Held(n, c)' - Held(n, c) = RefundOf(c, n)

\* A refund that is paid takes its amount, or nothing in another token.
LEMMA RepayRepays ==
  ASSUME SystemInv, SystemInv', NEW owner \in Name, owner \in DOMAIN refunds, Due(owner),
         Repay(owner), NEW c \in Code
  PROVE  Repays(c)
<1>1. PICK q \in Quantity : q = refunds[owner].cpu_amount
                            /\ Moved(StakeAccount, owner, q.code, q.amount)
  BY RepayMoves
<1>2. refunds' = Drop(refunds, owner)
  BY RepayMoves
<1>3. /\ owner \notin DOMAIN refunds'
      /\ RefundOf(c, owner) = IF q.code = c THEN q.amount ELSE 0
  BY <1>1, <1>2, RefundDropped
<1>4. /\ q.amount \in Nat /\ StakeAccount \in Name
      /\ Held(StakeAccount, c) \in Nat /\ Held(owner, c) \in Nat
  <2>1. q.amount \in Nat
    BY TokenAssumption DEF Quantity
  <2>2. StakeAccount \in Name
    BY SystemAssumption
  <2> QED BY <2>1, <2>2, HeldNat
<1>5. /\ Held(StakeAccount, c) - Held(StakeAccount, c)' = RefundOf(c, owner)
      /\ Held(owner, c)' - Held(owner, c) = RefundOf(c, owner)
  <2>1. CASE q.code = c
    BY <1>1, <1>3, <1>4, <2>1 DEF Moved
  <2>2. CASE q.code # c
    <3>1. /\ Held(StakeAccount, c)' = Held(StakeAccount, c)
          /\ Held(owner, c)' = Held(owner, c)
      BY <1>1, <1>4, <2>2 DEF Moved
    <3> QED BY <1>3, <1>4, <2>2, <3>1
  <2> QED BY <2>1, <2>2
<1> QED BY <1>3, <1>5 DEF Repays

\* As long as the stake account signs nothing, what everybody staked leaves it
\* only as refunds that are due, one a step, each in full and to its owner.
THEOREM ReserveStaysReserved ==
  ASSUME StakeAccount \notin Actor
  PROVE  SystemSpec => ReserveOnlyRepays
<1> DEFINE Reserved == \A c \in Code :
                          Held(StakeAccount, c)' < Held(StakeAccount, c) => Repays(c)
<1>1. ASSUME SystemInv, SystemInv', [SystemNext]_systemVars PROVE [Reserved]_systemVars
  <2> SUFFICES ASSUME NEW c \in Code, Held(StakeAccount, c)' < Held(StakeAccount, c)
               PROVE  Repays(c)
    OBVIOUS
  <2>1. StakeAccount \in Name
    BY SystemAssumption
  <2>2. Held(StakeAccount, c) \in Nat /\ Held(StakeAccount, c)' \in Nat
    <3>1. AccountTable(accounts) /\ AccountTable(accounts')
      BY <1>1 DEF SystemInv
    <3> QED BY <2>1, <3>1, HeldInType DEF Held
  <2>3. ~(Held(StakeAccount, c)' >= Held(StakeAccount, c))
    BY <2>2
  <2>4. ~(UNCHANGED accounts)
    BY <2>2, <2>3 DEF Held
  <2>5. ASSUME NEW m \in Signer, Signed(m) PROVE Repays(c)
    <3>1. m \in Name /\ m # StakeAccount
      BY SystemAssumption, VotingAssumption DEF Signer
    <3>2. ASSUME NEW to \in Name, NEW d \in Code, NEW x \in Nat, Moved(m, to, d, x) PROVE FALSE
      BY <1>1, <2>1, <2>3, <3>1, <3>2, MovedTakes
    <3>3. ASSUME NEW to \in Name, NEW delta \in Int, NEW transfer \in BOOLEAN,
                 Restake(m, to, delta, transfer)
          PROVE  FALSE
      <4>1. PICK code \in Code : code = core_symbol.code
        BY <3>3 DEF Restake, Symbol
      <4>2. FromTokens(code, m, delta)
        BY <1>1, <2>4, <3>1, <3>3, <4>1, RestakePays DEF FromRefund
      <4>3. delta \in Nat /\ Moved(m, StakeAccount, code, delta)
        BY <4>2 DEF FromTokens
      <4> QED BY <2>1, <3>2, <4>3
    <3> QED BY <1>1, <2>4, <2>5, <3>1, <3>2, <3>3, RepayRepays, SignedKinds
  <2>6. CASE ChainStep
    BY <1>1, <2>4, <2>6, RepayRepays, ChainKinds
  <2>7. CASE UNCHANGED systemVars
    BY <2>4, <2>7 DEF systemVars, tokenVars
  <2> QED BY <1>1, <2>5, <2>6, <2>7 DEF SystemNext
<1>2. SystemInv /\ SystemInv' /\ [SystemNext]_systemVars => [Reserved]_systemVars
  BY <1>1
<1>3. [Reserved]_systemVars =>
        [\A c \in Code :
          Held(StakeAccount, c)' < Held(StakeAccount, c) =>
              \E n \in DOMAIN refunds \ DOMAIN refunds' :
                  /\ 2 * (refunds[n].request_time + RefundDelay) <= now
                  /\ Held(StakeAccount, c) - Held(StakeAccount, c)' = RefundOf(c, n)
                  /\ Held(n, c)' - Held(n, c) = RefundOf(c, n)]_systemVars
  BY DEF Repays, Due
<1> QED BY <1>2, <1>3, SystemAlwaysInv, PTL DEF SystemSpec, SystemNext, ReserveOnlyRepays

-----------------------------------------------------------------------------
(* Who pays for a row. *)

\* Row k has the payer it had, or one of these.
Billed(k, names) ==
    \/ k \in DOMAIN accounts /\ accounts'[k].payer = accounts[k].payer
    \/ accounts'[k].payer \in names

\* A transfer bills the sender, and for a new row whom it says.
LEMMA TransferredBills ==
  ASSUME NEW mid, NEW from, NEW to, NEW q, NEW payer,
         Transferred(accounts, mid, accounts', from, to, q, payer), NEW k \in DOMAIN accounts'
  PROVE  Billed(k, {from, payer})
<1>1. k \in DOMAIN accounts => Billed(k, {from, payer})
  BY DEF Transferred, Debited, Credited, Billed
<1>2. k \notin DOMAIN accounts => accounts'[k].payer = payer
  BY DEF Transferred, Debited, Credited
<1> QED BY <1>1, <1>2 DEF Billed

\* So does the action.
LEMMA TransferBills ==
  ASSUME SystemInv, NEW auth, NEW from \in Name, NEW to \in Name, NEW q \in Asset,
         Transfer(auth, from, to, q), NEW k \in DOMAIN accounts'
  PROVE  Billed(k, {from, RowPayer(auth, from, to)})
<1>1. AccountTable(accounts)
  BY DEF SystemInv
<1>2. Transferred(accounts, SubBalance(accounts, from, q), accounts', from, to, q,
                  RowPayer(auth, from, to))
  BY <1>1, TransferEffect
<1> QED BY <1>2, TransferredBills

\* A refund bills its owner and the stake account.
LEMMA RepayBills ==
  ASSUME SystemInv, NEW owner \in Name, owner \in DOMAIN refunds, Repay(owner),
         NEW k \in DOMAIN accounts'
  PROVE  Billed(k, {StakeAccount, owner})
<1>1. PICK q \in Quantity : q = refunds[owner].cpu_amount
  BY DEF SystemInv, StakeTypeOK, IsTable, RefundRow
<1>2. Transfer({StakeAccount, owner}, StakeAccount, owner, q)
  BY <1>1 DEF Repay
<1>3. q \in Asset /\ StakeAccount \in Name
  BY QuantityIs, SystemAssumption
<1>4. RowPayer({StakeAccount, owner}, StakeAccount, owner) = owner
  BY DEF RowPayer
<1> QED BY <1>2, <1>3, <1>4, TransferBills

\* What an account signs bills that account, and its refund the stake account.
LEMMA SignedBills ==
  ASSUME SystemInv, NEW m \in Signer, Signed(m), NEW k \in DOMAIN accounts'
  PROVE  Billed(k, {m, StakeAccount})
<1>1. m \in Name /\ StakeAccount \in Name
  BY SystemAssumption, VotingAssumption DEF Signer
<1>2. UNCHANGED accounts => Billed(k, {m, StakeAccount})
  BY DEF Billed
<1>3. ASSUME NEW to \in Name, NEW q \in Asset, Transfer({m}, m, to, q)
      PROVE  Billed(k, {m, StakeAccount})
  <2>1. RowPayer({m}, m, to) = m
    BY <1>3 DEF RowPayer
  <2>2. Billed(k, {m, m})
    BY <1>1, <1>3, <2>1, TransferBills
  <2> QED BY <2>2 DEF Billed
<1>4. CASE StakeStep(m)
  <2>1. ASSUME NEW to \in Name, NEW delta \in Int, NEW transfer \in BOOLEAN,
               Restake(m, to, delta, transfer)
        PROVE  Billed(k, {m, StakeAccount})
    <3> DEFINE from == IF transfer THEN to ELSE m
               q == CoreAsset(delta)
    <3>1. \/ UNCHANGED accounts
          \/ PayStake(m, from, delta)
      BY <2>1 DEF Restake, ChangeBw, UpdateRefund, CreateRefund
    <3>2. core_symbol \in Symbol /\ delta \in -MaxAmount .. MaxAmount
      BY <2>1 DEF Restake
    <3>3. q \in Asset
      BY <3>2 DEF CoreAsset, AssetOf, Asset, Symbol
    <3>4. CASE PayStake(m, from, delta)
      <4>1. Transfer({m}, m, StakeAccount, q)
        BY <3>4 DEF PayStake
      <4> HIDE DEF q
      <4> QED BY <1>1, <1>3, <3>3, <4>1
    <3> QED BY <1>2, <3>1, <3>4
  <2>2. CASE \E core \in Symbol : InitSystem({m}, core)
    BY <1>2, <2>2 DEF InitSystem, tokenVars
  <2>3. CASE m \in DOMAIN refunds /\ Repay(m)
    <3>1. Billed(k, {StakeAccount, m})
      BY <1>1, <2>3, RepayBills
    <3> QED BY <3>1 DEF Billed
  <2> QED BY <1>1, <1>4, <2>1, <2>2, <2>3, StakeStepIs
<1>5. CASE PayStep(m)
  <2>1. PICK from \in Actor, to \in Actor, q \in Quantity : Transfer({m}, from, to, q)
    BY <1>5 DEF PayStep
  <2>2. from = m
    BY <2>1 DEF Transfer, TransferOK
  <2>3. to \in Name /\ q \in Asset
    BY QuantityIs, SystemAssumption
  <2> QED BY <1>3, <2>1, <2>2, <2>3
<1>6. CASE VoteStep(m)
  BY <1>2, <1>6 DEF VoteStep
<1>7. CASE AccountStep(m)
  <2>1. ASSUME NEW n \in Name, NewAccount({m}, m, n), ~(UNCHANGED accounts)
        PROVE  Billed(k, {m, StakeAccount})
    <3>1. PICK fee \in Asset :
            Transferred(accounts, SubBalance(accounts, m, fee), accounts',
                        m, SavingAccount, fee, m)
      BY <1>1, <2>1, FeeTransferred
    <3>2. Billed(k, {m, m})
      BY <3>1, TransferredBills
    <3> QED BY <3>2 DEF Billed
  <2>2. \A fee : SetAcntFee({m}, fee) => UNCHANGED accounts
    BY DEF SetAcntFee, tokenVars
  <2>3. \A n : SetALimits({m}, n, MaxAmount) => UNCHANGED accounts
    BY DEF SetALimits, tokenVars
  <2> QED BY <1>2, <1>7, <2>1, <2>2, <2>3 DEF AccountStep
<1> QED BY <1>4, <1>5, <1>6, <1>7 DEF Signed

\* What the chain runs bills the stake account and whose transaction it is.
LEMMA ChainBills ==
  ASSUME SystemInv, ChainStep, NEW k \in DOMAIN accounts'
  PROVE  Billed(k, {StakeAccount} \cup (DOMAIN deferred \ DOMAIN deferred'))
<1>1. UNCHANGED accounts => Billed(k, {StakeAccount} \cup (DOMAIN deferred \ DOMAIN deferred'))
  BY DEF Billed
<1>2. ASSUME NEW owner \in DOMAIN deferred, ExecDeferred(owner) \/ ExpireDeferred(owner)
      PROVE  \/ UNCHANGED accounts
             \/ /\ owner \in Name /\ owner \in DOMAIN refunds /\ Repay(owner)
                /\ owner \in DOMAIN deferred \ DOMAIN deferred'
  <2>1. owner \in Name
    BY DEF SystemInv, StakeTypeOK, IsTable
  <2>2. owner \notin DOMAIN deferred'
    BY <1>2 DEF ExecDeferred, ExpireDeferred, Cancel, Drop
  <2> QED BY <1>2, <2>1, <2>2 DEF ExecDeferred, ExpireDeferred, RefundOK, tokenVars
<1>3. ASSUME NEW owner \in Name, owner \in DOMAIN refunds, Repay(owner),
             owner \in DOMAIN deferred \ DOMAIN deferred'
      PROVE  Billed(k, {StakeAccount} \cup (DOMAIN deferred \ DOMAIN deferred'))
  <2>1. Billed(k, {StakeAccount, owner})
    BY <1>3, RepayBills
  <2> QED BY <1>3, <2>1 DEF Billed
<1>4. \A accepted : NextSlot(accepted) => UNCHANGED accounts
  BY DEF NextSlot
<1> QED BY <1>1, <1>2, <1>3, <1>4 DEF ChainStep

\* Nobody but the stake account is billed for a row of the token contract unless
\* they signed the step, or it is the refund transaction they have scheduled.
THEOREM RowsStaySigned == SystemSpec => RowsAreSigned
<1> DEFINE Rows == \A k \in DOMAIN accounts' :
                     \A payer \in Payer(k)' \ (Payer(k) \cup {StakeAccount}) :
                       /\ \A m \in Signer \ {payer} : ~Signed(m)
                       /\ ChainStep => payer \in DOMAIN deferred \ DOMAIN deferred'
<1>1. ASSUME SystemInv PROVE [Rows]_systemVars
  <2> SUFFICES ASSUME NEW k \in DOMAIN accounts',
                      NEW payer \in Payer(k)' \ (Payer(k) \cup {StakeAccount})
               PROVE  /\ \A m \in Signer \ {payer} : ~Signed(m)
                      /\ ChainStep => payer \in DOMAIN deferred \ DOMAIN deferred'
    OBVIOUS
  <2>1. \A names : Billed(k, names) => payer \in names
    BY DEF Billed, Payer
  <2>2. payer # StakeAccount
    OBVIOUS
  <2>3. ASSUME NEW m \in Signer \ {payer}, Signed(m) PROVE FALSE
    <3>1. Billed(k, {m, StakeAccount})
      BY <1>1, <2>3, SignedBills
    <3> QED BY <2>1, <2>2, <3>1
  <2>4. ASSUME ChainStep PROVE payer \in DOMAIN deferred \ DOMAIN deferred'
    <3>1. Billed(k, {StakeAccount} \cup (DOMAIN deferred \ DOMAIN deferred'))
      BY <1>1, <2>4, ChainBills
    <3> QED BY <2>1, <2>2, <3>1
  <2> QED BY <2>3, <2>4
<1>2. SystemInv => [Rows]_systemVars
  BY <1>1
<1> QED BY <1>2, SystemAlwaysInv, PTL DEF RowsAreSigned

-----------------------------------------------------------------------------
(* What the stake account owes. *)

\* All refunds of token c.
Refunded(c) == SumOver([n \in Name |-> RefundOf(c, n)])

\* The parts of what the stake account owes are integers, and make it up.
LEMMA UncoveredIs ==
  ASSUME SystemInv, SystemInv', NEW c \in Code
  PROVE  /\ Uncovered(c) = SumOver(Part(delband, c, Name)) + Refunded(c) - Held(StakeAccount, c)
         /\ Uncovered(c)' = SumOver(Part(delband', c, Name)) + Refunded(c)' - Held(StakeAccount, c)'
         /\ SumOver(Part(delband, c, Name)) \in Int /\ SumOver(Part(delband', c, Name)) \in Int
         /\ Refunded(c) \in Int /\ Refunded(c)' \in Int
         /\ Held(StakeAccount, c) \in Int /\ Held(StakeAccount, c)' \in Int
         /\ \A n \in Name : RefundOf(c, n) \in Nat /\ RefundOf(c, n)' \in Nat
<1>1. /\ IsTable(delband, Name \X Name, Quantity) /\ IsTable(delband', Name \X Name, Quantity)
      /\ IsTable(refunds, Name, RefundRow) /\ IsTable(refunds', Name, RefundRow)
      /\ AccountTable(accounts) /\ AccountTable(accounts') /\ StakeAccount \in Name
  BY SystemAssumption DEF SystemInv, StakeTypeOK
<1>2. HeldIn(accounts, StakeAccount, c) \in Nat /\ HeldIn(accounts', StakeAccount, c) \in Nat
  BY <1>1, HeldInType
<1>3. \A n \in Name : RefundOf(c, n) \in Nat /\ RefundOf(c, n)' \in Nat
  <2>1. \A m \in DOMAIN refunds' : refunds'[m].cpu_amount.amount \in Nat
    BY <1>1, TokenAssumption DEF IsTable, RefundRow, Quantity
  <2> QED BY <1>1, <2>1, RefundNat DEF RefundOf
<1>4. Refunded(c) \in Nat /\ Refunded(c)' \in Nat
  <2>1. [n \in Name |-> RefundOf(c, n)] \in [Name -> Nat]
    BY <1>3
  <2>2. [n \in Name |-> RefundOf(c, n)'] \in [Name -> Nat]
    BY <1>3
  <2>3. SumOver([n \in Name |-> RefundOf(c, n)]) \in Nat
    BY <2>1, NameAssumption, SumNat
  <2>4. SumOver([n \in Name |-> RefundOf(c, n)']) \in Nat
    BY <2>2, NameAssumption, SumNat
  <2> QED BY <2>3, <2>4 DEF Refunded
<1>5. /\ SumOver(Part(delband, c, Name)) \in Nat /\ SumOver(Part(delband', c, Name)) \in Nat
      /\ StakesIn(delband, c, {k \in DOMAIN delband : k[1] \in Name}) = SumOver(Part(delband, c, Name))
      /\ StakesIn(delband', c, {k \in DOMAIN delband' : k[1] \in Name}) = SumOver(Part(delband', c, Name))
  BY <1>1, StakesInIs
<1>6. /\ {k \in DOMAIN delband : k[1] \in Name} = DOMAIN delband
      /\ {k \in DOMAIN delband' : k[1] \in Name} = DOMAIN delband'
  BY <1>1 DEF IsTable
<1>7. StakedOf(c, DOMAIN delband) = SumOver(Part(delband, c, Name))
  BY <1>5, <1>6 DEF StakedOf, StakesIn
<1>8. StakedOf(c, DOMAIN delband)' = SumOver(Part(delband', c, Name))
  BY <1>5, <1>6 DEF StakedOf, StakesIn
<1>9. /\ Uncovered(c) = SumOver(Part(delband, c, Name)) + Refunded(c) - Held(StakeAccount, c)
      /\ Uncovered(c)' = SumOver(Part(delband', c, Name)) + Refunded(c)' - Held(StakeAccount, c)'
  BY <1>7, <1>8 DEF Uncovered, Refunded
<1> QED BY <1>2, <1>3, <1>4, <1>5, <1>9 DEF Held

\* When one refund changes, the sum changes by as much.
LEMMA RefundedShifts ==
  ASSUME SystemInv, SystemInv', NEW c \in Code, NEW from \in Name,
         \A m \in Name \ {from} : RefundOf(c, m)' = RefundOf(c, m)
  PROVE  Refunded(c)' = Refunded(c) - RefundOf(c, from) + RefundOf(c, from)'
<1> DEFINE f == [n \in Name |-> RefundOf(c, n)]
           g == [n \in Name |-> RefundOf(c, n)']
<1>1. f \in [Name -> Nat] /\ g \in [Name -> Nat]
  BY UncoveredIs
<1>2. /\ \A n \in Name \ {from} : g[n] = f[n]
      /\ f[from] = RefundOf(c, from) /\ g[from] = RefundOf(c, from)'
  OBVIOUS
<1>3. Refunded(c) = SumOver(f) /\ Refunded(c)' = SumOver(g)
  BY DEF Refunded
<1> HIDE DEF f, g
<1>4. SumOver(g) = SumOver(f) - f[from] + g[from]
  BY <1>1, <1>2, NameAssumption, SumOneChange
<1> QED BY <1>2, <1>3, <1>4

\* Refunds that stay as they are add up to the same.
LEMMA RefundedSame ==
  ASSUME NEW c, \A m \in Name : RefundOf(c, m)' = RefundOf(c, m)
  PROVE  Refunded(c)' = Refunded(c)
BY DEF Refunded

\* A step that leaves the stake account owing more of token c does so by staking
\* beyond an open refund.
Excess(c) ==
    Uncovered(c)' > Uncovered(c) =>
        \E n \in DOMAIN refunds \ DOMAIN refunds' :
            /\ Uncovered(c)' - Uncovered(c) = Delegated(n, n)' - Delegated(n, n) - RefundOf(c, n)
            /\ refunds[n].cpu_amount.code = c

\* The integers that the stake account's debt is made of.
DebtParts(c) ==
    /\ Uncovered(c) = SumOver(Part(delband, c, Name)) + Refunded(c) - Held(StakeAccount, c)
    /\ Uncovered(c)' = SumOver(Part(delband', c, Name)) + Refunded(c)' - Held(StakeAccount, c)'
    /\ SumOver(Part(delband, c, Name)) \in Int /\ SumOver(Part(delband', c, Name)) \in Int
    /\ Refunded(c) \in Int /\ Refunded(c)' \in Int
    /\ Held(StakeAccount, c) \in Int /\ Held(StakeAccount, c)' \in Int

\* A debt that does not grow is no excess.
LEMMA NoExcess ==
  ASSUME NEW c, DebtParts(c),
         SumOver(Part(delband', c, Name)) + Refunded(c)' - Held(StakeAccount, c)'
            <= SumOver(Part(delband, c, Name)) + Refunded(c) - Held(StakeAccount, c)
  PROVE  Excess(c)
<1>1. /\ Uncovered(c) \in Int /\ Uncovered(c)' \in Int /\ Uncovered(c)' <= Uncovered(c)
  BY DEF DebtParts
<1>2. ~(Uncovered(c)' > Uncovered(c))
  BY <1>1
<1> QED BY <1>2 DEF Excess

\* Paying a refund pays the debt.
LEMMA RepayCovered ==
  ASSUME SystemInv, SystemInv', NEW owner \in Name, owner \in DOMAIN refunds, Repay(owner),
         NEW c \in Code
  PROVE  Excess(c)
<1>1. PICK q \in Quantity : q = refunds[owner].cpu_amount
                            /\ Moved(StakeAccount, owner, q.code, q.amount)
  BY RepayMoves
<1>2. refunds' = Drop(refunds, owner) /\ delband' = delband
  BY RepayMoves
<1>3. DebtParts(c)
  BY UncoveredIs DEF DebtParts
<1>4. /\ \A m \in Name \ {owner} : RefundOf(c, m)' = RefundOf(c, m)
      /\ RefundOf(c, owner)' = 0
      /\ RefundOf(c, owner) = IF q.code = c THEN q.amount ELSE 0
  BY <1>1, <1>2, RefundDropped
<1>5. Refunded(c)' = Refunded(c) - RefundOf(c, owner) + RefundOf(c, owner)'
  BY <1>4, RefundedShifts
<1>6. q.amount \in Nat /\ StakeAccount \in Name
  <2>1. q.amount \in Nat
    BY TokenAssumption DEF Quantity
  <2> QED BY <2>1, SystemAssumption
<1>7. CASE q.code = c
  <2>1. Held(StakeAccount, c)' = Held(StakeAccount, c) - q.amount
    BY <1>1, <1>7 DEF Moved
  <2>2. Refunded(c)' = Refunded(c) - q.amount
    BY <1>3, <1>4, <1>5, <1>6, <1>7 DEF DebtParts
  <2>3. SumOver(Part(delband', c, Name)) + Refunded(c)' - Held(StakeAccount, c)'
            <= SumOver(Part(delband, c, Name)) + Refunded(c) - Held(StakeAccount, c)
    BY <1>2, <1>3, <1>6, <2>1, <2>2 DEF DebtParts
  <2> QED BY <1>3, <2>3, NoExcess
<1>8. CASE q.code # c
  <2>1. Held(StakeAccount, c)' = Held(StakeAccount, c)
    BY <1>1, <1>6, <1>8 DEF Moved
  <2>2. Refunded(c)' = Refunded(c)
    BY <1>3, <1>4, <1>5, <1>8 DEF DebtParts
  <2>3. SumOver(Part(delband', c, Name)) + Refunded(c)' - Held(StakeAccount, c)'
            <= SumOver(Part(delband, c, Name)) + Refunded(c) - Held(StakeAccount, c)
    BY <1>2, <1>3, <2>1, <2>2 DEF DebtParts
  <2> QED BY <1>3, <2>3, NoExcess
<1> QED BY <1>7, <1>8

\* A stake is covered by tokens or a refund, or exceeds the refund of its owner,
\* who stakes for itself.
LEMMA RestakeCovered ==
  ASSUME SystemInv, SystemInv', NEW m \in Name, m # StakeAccount, NEW to \in Name,
         NEW delta \in Int, NEW transfer \in BOOLEAN, Restake(m, to, delta, transfer),
         NEW c \in Code
  PROVE  Excess(c)
<1> DEFINE from == Owner(m, to, transfer)
           P == SumOver(Part(delband, c, Name))
           PP == SumOver(Part(delband', c, Name))
<1>1. /\ core_symbol \in Symbol /\ from \in Name /\ StakeAccount \in Name
      /\ IsTable(delband, Name \X Name, Quantity) /\ IsTable(delband', Name \X Name, Quantity)
  BY SystemAssumption DEF Restake, Owner, SystemInv, StakeTypeOK
<1>2. Restaked(from, to, delta)
  BY <1>1, ChangeBwRestakes DEF Restake
<1>3. PICK code \in Code : code = core_symbol.code
  BY <1>1 DEF Symbol
<1>4. \/ Owner(m, to, transfer) = m /\ FromRefund(code, m, to, delta)
      \/ FromTokens(code, m, delta)
  BY <1>3, RestakePays
<1>5. DebtParts(c) /\ \A n \in Name : RefundOf(c, n) \in Nat /\ RefundOf(c, n)' \in Nat
  BY UncoveredIs DEF DebtParts
<1>6. Shifted(delband, delband', <<from, to>>, delta)
  BY <1>2 DEF Restaked
<1> HIDE DEF from
<1>7. PP = P + (IF c = code THEN delta ELSE 0)
  <2>1. SumOver(Part(delband', c, Name)) = SumOver(Part(delband, c, Name))
           + (IF from \in Name /\ c = core_symbol.code THEN delta ELSE 0)
    BY <1>1, <1>6, PartShifts
  <2> QED BY <1>1, <1>3, <2>1
<1> HIDE DEF P, PP
<1>8. /\ Uncovered(c) = P + Refunded(c) - Held(StakeAccount, c)
      /\ Uncovered(c)' = PP + Refunded(c)' - Held(StakeAccount, c)'
      /\ P \in Int /\ PP \in Int /\ Refunded(c) \in Int /\ Refunded(c)' \in Int
      /\ Held(StakeAccount, c) \in Int /\ Held(StakeAccount, c)' \in Int
  BY <1>5 DEF DebtParts, P, PP
<1>9. ASSUME PP + Refunded(c)' - Held(StakeAccount, c)' <= P + Refunded(c) - Held(StakeAccount, c)
      PROVE  Excess(c)
  BY <1>5, <1>9, NoExcess DEF P, PP
<1>10. CASE Owner(m, to, transfer) = m /\ FromRefund(code, m, to, delta)
  <2>1. from = m /\ UNCHANGED accounts /\ OnlyRefund(m, code)
    BY <1>10 DEF FromRefund, from
  <2>2. Held(StakeAccount, c)' = Held(StakeAccount, c)
    BY <2>1 DEF Held
  <2>3. CASE c # code
    <3>1. Refunded(c)' = Refunded(c)
      BY <2>1, <2>3, RefundedSame DEF OnlyRefund
    <3>2. PP + Refunded(c)' - Held(StakeAccount, c)' <= P + Refunded(c) - Held(StakeAccount, c)
      BY <1>7, <1>8, <2>2, <2>3, <3>1
    <3> QED BY <1>9, <3>2
  <2>4. CASE c = code
    <3>1. \A n \in Name \ {m} : RefundOf(c, n)' = RefundOf(c, n)
      BY <2>1, <2>4 DEF OnlyRefund
    <3>2. Refunded(c)' = Refunded(c) - RefundOf(c, m) + RefundOf(c, m)'
      BY <3>1, RefundedShifts
    <3>3. RefundOf(c, m) \in Nat /\ RefundOf(c, m)' \in Nat
      BY <1>5
    <3>4. CASE RefundOf(c, m)' = RefundOf(c, m) - delta
      <4>1. PP + Refunded(c)' - Held(StakeAccount, c)' <= P + Refunded(c) - Held(StakeAccount, c)
        BY <1>7, <1>8, <2>2, <2>4, <3>2, <3>3, <3>4
      <4> QED BY <1>9, <4>1
    <3>5. CASE /\ delta > 0 /\ m = to
               /\ m \in DOMAIN refunds \ DOMAIN refunds'
               /\ refunds[m].cpu_amount.code = c
               /\ RefundOf(c, m)' = 0
      <4>1. Uncovered(c)' - Uncovered(c) = delta - RefundOf(c, m)
        BY <1>7, <1>8, <2>2, <2>4, <3>2, <3>3, <3>5
      <4>2. Delegated(m, m) = Amount(delband, <<m, m>>) /\ Delegated(m, m)' = Amount(delband', <<m, m>>)
        BY DEF Delegated, Amount
      <4>3. Amount(delband', <<m, m>>) = Amount(delband, <<m, m>>) + delta
        BY <1>6, <2>1, <3>5 DEF Shifted
      <4>4. Amount(delband, <<m, m>>) \in Nat
        BY <1>1, QuantityIs, AmountNat
      <4>5. Uncovered(c)' - Uncovered(c) = Delegated(m, m)' - Delegated(m, m) - RefundOf(c, m)
        BY <3>3, <4>1, <4>2, <4>3, <4>4
      <4> QED BY <3>5, <4>5 DEF Excess
    <3> QED BY <1>10, <2>4, <3>4, <3>5 DEF FromRefund
  <2> QED BY <2>3, <2>4
<1>11. CASE FromTokens(code, m, delta)
  <2>1. UNCHANGED refunds /\ Moved(m, StakeAccount, code, delta)
    BY <1>11 DEF FromTokens
  <2>2. Refunded(c)' = Refunded(c)
    BY <2>1, RefundedSame DEF RefundOf
  <2>3. Held(StakeAccount, c)' = Held(StakeAccount, c) + (IF c = code THEN delta ELSE 0)
    <3>1. CASE c = code
      BY <2>1, <3>1 DEF Moved
    <3>2. CASE c # code
      <4>1. Held(StakeAccount, c)' = Held(StakeAccount, c)
        BY <1>1, <2>1, <3>2 DEF Moved
      <4> QED BY <1>8, <3>2, <4>1
    <3> QED BY <3>1, <3>2
  <2>4. PP + Refunded(c)' - Held(StakeAccount, c)' <= P + Refunded(c) - Held(StakeAccount, c)
    BY <1>7, <1>8, <2>2, <2>3
  <2> QED BY <1>9, <2>4
<1> QED BY <1>4, <1>10, <1>11

\* Tokens that others move are not taken from the stake account.
LEMMA MovedCovered ==
  ASSUME SystemInv, SystemInv', NEW m \in Name, m # StakeAccount, NEW to \in Name,
         NEW d \in Code, NEW x \in Nat, Moved(m, to, d, x), UNCHANGED <<delband, refunds>>,
         NEW c \in Code
  PROVE  Excess(c)
<1>1. DebtParts(c) /\ StakeAccount \in Name
  BY UncoveredIs, SystemAssumption DEF DebtParts
<1>2. Refunded(c)' = Refunded(c)
  BY RefundedSame DEF RefundOf
<1>3. Held(StakeAccount, c)' >= Held(StakeAccount, c)
  <2>1. Held(StakeAccount, c) \in Int
    BY <1>1 DEF DebtParts
  <2>2. CASE <<StakeAccount, c>> = <<to, d>>
    BY <2>1, <2>2 DEF Moved
  <2>3. CASE <<StakeAccount, c>> # <<to, d>>
    <3>1. Held(StakeAccount, c)' = Held(StakeAccount, c)
      BY <1>1, <2>3 DEF Moved
    <3> QED BY <2>1, <3>1
  <2> QED BY <2>2, <2>3
<1>4. SumOver(Part(delband', c, Name)) + Refunded(c)' - Held(StakeAccount, c)'
            <= SumOver(Part(delband, c, Name)) + Refunded(c) - Held(StakeAccount, c)
  BY <1>1, <1>2, <1>3 DEF DebtParts
<1> QED BY <1>1, <1>4, NoExcess

\* What touches no stake, refund or balance leaves the debt alone.
LEMMA UntouchedCovered ==
  ASSUME SystemInv, SystemInv', UNCHANGED <<delband, refunds, accounts>>, NEW c \in Code
  PROVE  Excess(c)
<1>1. DebtParts(c)
  BY UncoveredIs DEF DebtParts
<1>2. Refunded(c)' = Refunded(c) /\ Held(StakeAccount, c)' = Held(StakeAccount, c)
  BY RefundedSame DEF RefundOf, Held
<1>3. SumOver(Part(delband', c, Name)) + Refunded(c)' - Held(StakeAccount, c)'
            <= SumOver(Part(delband, c, Name)) + Refunded(c) - Held(StakeAccount, c)
  BY <1>1, <1>2 DEF DebtParts
<1> QED BY <1>1, <1>3, NoExcess

\* No step leaves the stake account owing more in another way.
LEMMA StepExcess ==
  ASSUME StakeAccount \notin Actor, SystemInv, SystemInv', [SystemNext]_systemVars, NEW c \in Code
  PROVE  Excess(c)
<1>1. ASSUME NEW m \in Signer, Signed(m) PROVE Excess(c)
  <2>1. m \in Name /\ m # StakeAccount
    BY SystemAssumption, VotingAssumption DEF Signer
  <2> QED BY <1>1, <2>1, SignedKinds, RestakeCovered, RepayCovered, MovedCovered, UntouchedCovered
<1>2. ASSUME ChainStep PROVE Excess(c)
  BY <1>2, ChainKinds, RepayCovered, UntouchedCovered
<1>3. CASE UNCHANGED systemVars
  BY <1>3, UntouchedCovered DEF systemVars, tokenVars, stakeVars
<1> QED BY <1>1, <1>2, <1>3 DEF SystemNext

\* Where the stake account stakes nothing itself, only a self-stake beyond an open
\* refund leaves it owing more than it holds, and by that excess exactly.
THEOREM OnlyExcessUncovers ==
  ASSUME StakeAccount \notin Actor
  PROVE  SystemSpec => OnlyExcessIsUncovered
<1>1. SystemInv /\ SystemInv' /\ [SystemNext]_systemVars => [ExcessOverRefund]_systemVars
  <2> SUFFICES ASSUME SystemInv, SystemInv', [SystemNext]_systemVars, NEW c \in Code
               PROVE  Excess(c)
    BY DEF ExcessOverRefund, Excess
  <2> QED BY StepExcess
<1> QED BY <1>1, SystemAlwaysInv, PTL DEF SystemSpec, SystemNext, OnlyExcessIsUncovered

\* A step in which nobody stakes more for itself than the open refund it uses up.
WithinRefunds ==
    \A n \in DOMAIN refunds \ DOMAIN refunds' :
        Delegated(n, n)' - Delegated(n, n) <= refunds[n].cpu_amount.amount

\* What is owed in one state.
LEMMA OwedParts ==
  ASSUME SystemInv, NEW c \in Code
  PROVE  /\ Uncovered(c) = SumOver(Part(delband, c, Name)) + Refunded(c) - Held(StakeAccount, c)
         /\ SumOver(Part(delband, c, Name)) \in Nat
         /\ Refunded(c) \in Nat /\ Held(StakeAccount, c) \in Nat
         /\ \A n \in Name : RefundOf(c, n) \in Nat /\ RefundOf(c, n) <= Refunded(c)
<1>1. /\ IsTable(delband, Name \X Name, Quantity) /\ IsTable(refunds, Name, RefundRow)
      /\ AccountTable(accounts) /\ StakeAccount \in Name
  BY SystemAssumption DEF SystemInv, StakeTypeOK
<1>2. Held(StakeAccount, c) \in Nat
  BY <1>1, HeldInType DEF Held
<1> DEFINE f == [n \in Name |-> RefundOf(c, n)]
<1>3. f \in [Name -> Nat] /\ \A n \in Name : f[n] = RefundOf(c, n)
  BY <1>1, RefundNat
<1>4. Refunded(c) = SumOver(f)
  BY DEF Refunded
<1> HIDE DEF f
<1>5. SumOver(f) \in Nat /\ \A n \in Name : f[n] <= SumOver(f)
  BY <1>3, NameAssumption, SumNat, SumBoundsTerm
<1>6. /\ SumOver(Part(delband, c, Name)) \in Nat
      /\ StakesIn(delband, c, {k \in DOMAIN delband : k[1] \in Name}) = SumOver(Part(delband, c, Name))
  BY <1>1, StakesInIs
<1>7. {k \in DOMAIN delband : k[1] \in Name} = DOMAIN delband
  BY <1>1 DEF IsTable
<1>8. Uncovered(c) = SumOver(Part(delband, c, Name)) + Refunded(c) - Held(StakeAccount, c)
  BY <1>6, <1>7 DEF Uncovered, Refunded, StakedOf, StakesIn
<1> QED BY <1>2, <1>3, <1>4, <1>5, <1>6, <1>8

\* Nothing is owed that is not there.
AllCovered == \A c \in Code : Uncovered(c) <= 0

\* Then every refund can be paid.
LEMMA CoveredIsPayable == SystemInv /\ AllCovered => RefundsPayable
<1> SUFFICES ASSUME SystemInv, AllCovered, NEW n \in DOMAIN refunds
             PROVE  refunds[n].cpu_amount.amount <= Held(StakeAccount, refunds[n].cpu_amount.code)
  BY DEF RefundsPayable
<1>1. n \in Name /\ refunds[n].cpu_amount \in Quantity
  BY DEF SystemInv, StakeTypeOK, IsTable, RefundRow
<1>2. PICK c \in Code : c = refunds[n].cpu_amount.code
  BY <1>1 DEF Quantity
<1>3. RefundOf(c, n) = refunds[n].cpu_amount.amount
  BY <1>2 DEF RefundOf
<1>4. Uncovered(c) <= 0
  BY DEF AllCovered
<1> QED BY <1>1, <1>2, <1>3, <1>4, OwedParts

\* At first nothing is owed.
LEMMA FirstCovered == SystemInit => AllCovered
<1> SUFFICES ASSUME SystemInit, NEW c \in Code PROVE Uncovered(c) <= 0
  BY DEF AllCovered
<1>1. SystemInv /\ delband = NoRows /\ refunds = NoRows /\ DOMAIN NoRows = {}
  BY SystemInitInv, NoRowsTable DEF SystemInit
<1> DEFINE f == [n \in Name |-> RefundOf(c, n)]
           g == [k \in {r \in DOMAIN delband : delband[r].code = c} |-> delband[k].amount]
<1>2. f \in [Name -> Nat] /\ \A n \in Name : f[n] = 0
  BY <1>1 DEF RefundOf
<1>3. SumOver(f) = 0
  BY <1>2, SumOfZeros
<1>4. g \in [{} -> Nat]
  BY <1>1
<1>5. SumOver(g) = 0
  BY <1>4, SumOfZeros
<1>6. Uncovered(c) = SumOver(g) + SumOver(f) - Held(StakeAccount, c)
  BY DEF Uncovered, StakedOf
<1>7. Held(StakeAccount, c) \in Nat
  BY <1>1, OwedParts
<1> QED BY <1>3, <1>5, <1>6, <1>7

\* Steps within the refunds leave it so.
LEMMA WithinStaysCovered ==
  ASSUME StakeAccount \notin Actor, SystemInv, SystemInv', [SystemNext]_systemVars,
         [WithinRefunds]_systemVars, AllCovered
  PROVE  AllCovered'
<1> SUFFICES ASSUME NEW c \in Code PROVE Uncovered(c)' <= 0
  BY DEF AllCovered
<1>1. Excess(c)
  BY StepExcess
<1>2. Uncovered(c) \in Int /\ Uncovered(c)' \in Int /\ Uncovered(c) <= 0
  <2>1. DebtParts(c)
    BY UncoveredIs DEF DebtParts
  <2> QED BY <2>1 DEF DebtParts, AllCovered
<1>3. ASSUME Uncovered(c)' > Uncovered(c) PROVE FALSE
  <2>1. PICK n \in DOMAIN refunds \ DOMAIN refunds' :
          /\ Uncovered(c)' - Uncovered(c) = Delegated(n, n)' - Delegated(n, n) - RefundOf(c, n)
          /\ refunds[n].cpu_amount.code = c
    BY <1>1, <1>3 DEF Excess
  <2>2. RefundOf(c, n) = refunds[n].cpu_amount.amount
    BY <2>1 DEF RefundOf
  <2>3. WithinRefunds
    BY <2>1 DEF systemVars, stakeVars
  <2>4. Delegated(n, n)' - Delegated(n, n) <= RefundOf(c, n)
    BY <2>2, <2>3 DEF WithinRefunds
  <2>5. n \in Name /\ IsTable(delband, Name \X Name, Quantity) /\ IsTable(delband', Name \X Name, Quantity)
    BY DEF SystemInv, StakeTypeOK, IsTable
  <2>6. Delegated(n, n) = Amount(delband, <<n, n>>) /\ Delegated(n, n)' = Amount(delband', <<n, n>>)
    BY DEF Delegated, Amount
  <2>7. Amount(delband, <<n, n>>) \in Nat /\ Amount(delband', <<n, n>>) \in Nat
    BY <2>5, QuantityIs, AmountNat
  <2>8. RefundOf(c, n) \in Nat
    BY <2>5, UncoveredIs
  <2> QED BY <1>2, <1>3, <2>1, <2>4, <2>6, <2>7, <2>8
<1> QED BY <1>2, <1>3

\* As long as nobody stakes more for itself than the refund this uses up, the
\* stake account can pay every refund that was promised: the excess, which
\* changebw does not charge for, is the only way to break the promise.
THEOREM RefundsPaidInFull ==
  ASSUME StakeAccount \notin Actor
  PROVE  SystemSpec /\ [][WithinRefunds]_systemVars => []RefundsPayable
<1>1. SystemInv /\ SystemInv' /\ [SystemNext]_systemVars /\ [WithinRefunds]_systemVars /\ AllCovered
        => AllCovered'
  BY WithinStaysCovered
<1> QED BY <1>1, FirstCovered, CoveredIsPayable, SystemAlwaysInv, PTL DEF SystemSpec, SystemNext
-----------------------------------------------------------------------------
(* The tokens under it all. *)

\* What may happen to tokens: nothing, one transfer between accounts, or a new
\* account and its fee.
TokensPass ==
    \/ UNCHANGED tokenVars
    \/ \E from, to \in Name, q \in Asset, auth \in SUBSET Name : Transfer(auth, from, to, q)
    \/ \E creator, m \in Name : NewAccount({creator}, creator, m)

\* A re-stake pays with one transfer, or with none.
LEMMA RestakePasses ==
  ASSUME SystemInv, NEW n \in Name, NEW to \in Name, NEW delta \in Int,
         NEW transfer \in BOOLEAN, Restake(n, to, delta, transfer)
  PROVE  TokensPass
<1> DEFINE from == IF transfer THEN to ELSE n
           q == CoreAsset(delta)
<1>1. \/ UNCHANGED accounts
      \/ delta > 0 /\ PayStake(n, from, delta)
  BY DEF Restake, ChangeBw, UpdateRefund, CreateRefund
<1>2. UNCHANGED <<existing, stat>> /\ core_symbol \in Symbol /\ delta \in -MaxAmount .. MaxAmount
  BY DEF Restake, ChangeBw
<1>3. CASE UNCHANGED accounts
  BY <1>2, <1>3 DEF TokensPass, tokenVars
<1>4. CASE PayStake(n, from, delta)
  <2>1. Transfer({n}, n, StakeAccount, q)
    BY <1>4 DEF PayStake
  <2>2. q \in Asset
    BY <1>2 DEF CoreAsset, AssetOf, Asset, Symbol
  <2>3. StakeAccount \in Name /\ {n} \in SUBSET Name
    BY SystemAssumption
  <2> HIDE DEF q
  <2> QED BY <2>1, <2>2, <2>3 DEF TokensPass
<1> QED BY <1>1, <1>3, <1>4

\* A refund is one transfer.
LEMMA RepayPasses ==
  ASSUME SystemInv, NEW owner \in Name, owner \in DOMAIN refunds, Repay(owner)
  PROVE  TokensPass
<1>1. PICK q \in Quantity : q = refunds[owner].cpu_amount
  BY DEF SystemInv, StakeTypeOK, IsTable, RefundRow
<1>2. Transfer({StakeAccount, owner}, StakeAccount, owner, q)
  BY <1>1 DEF Repay
<1>3. q \in Asset
  BY QuantityIs
<1>4. StakeAccount \in Name /\ {StakeAccount, owner} \in SUBSET Name
  BY SystemAssumption
<1> QED BY <1>2, <1>3, <1>4 DEF TokensPass

\* No step of the system touches the tokens in another way.
LEMMA SystemPasses ==
  ASSUME SystemInv, [SystemNext]_systemVars
  PROVE  TokensPass
<1>1. ASSUME NEW n \in Signer, Signed(n) PROVE TokensPass
  <2>1. n \in Name
    BY SystemAssumption, VotingAssumption DEF Signer
  <2>2. CASE StakeStep(n)
    <3>1. \A core \in Symbol : InitSystem({n}, core) => UNCHANGED tokenVars
      BY DEF InitSystem
    <3>2. CASE \E core \in Symbol : InitSystem({n}, core)
      BY <3>1, <3>2 DEF TokensPass
    <3> QED BY <2>1, <2>2, <3>2, StakeStepIs, RestakePasses, RepayPasses
  <2>3. CASE PayStep(n)
    <3>1. PICK from \in Actor, to \in Actor, q \in Quantity : Transfer({n}, from, to, q)
      BY <2>3 DEF PayStep
    <3>2. from \in Name /\ to \in Name /\ q \in Asset
      BY QuantityIs, SystemAssumption
    <3> QED BY <2>1, <3>1, <3>2 DEF TokensPass
  <2>4. CASE VoteStep(n)
    <3>1. UNCHANGED existing
      BY <2>4 DEF VoteStep, VoterStep, RegProducer, UnregProd, RmvProducer, Deactivate,
                  VoteProducer, SetVWeight, SetAcnType
    <3> QED BY <2>4, <3>1 DEF VoteStep, TokensPass, tokenVars
  <2>5. CASE AccountStep(n)
    <3>1. \A fee : SetAcntFee({n}, fee) => UNCHANGED tokenVars
      BY DEF SetAcntFee
    <3>2. \A m : SetALimits({n}, m, MaxAmount) => UNCHANGED tokenVars
      BY DEF SetALimits
    <3> QED BY <2>1, <2>5, <3>1, <3>2 DEF AccountStep, TokensPass
  <2> QED BY <1>1, <2>2, <2>3, <2>4, <2>5 DEF Signed
<1>2. ASSUME NEW owner \in DOMAIN deferred, ExecDeferred(owner) \/ ExpireDeferred(owner)
      PROVE  TokensPass
  <2>1. owner \in Name
    BY DEF SystemInv, StakeTypeOK, IsTable
  <2>2. \/ owner \in DOMAIN refunds /\ Repay(owner)
        \/ UNCHANGED tokenVars
    BY <1>2 DEF ExecDeferred, ExpireDeferred, RefundOK
  <2> QED BY <2>1, <2>2, RepayPasses DEF TokensPass
<1>3. ASSUME NEW accepted, NextSlot(accepted) PROVE TokensPass
  BY <1>3 DEF NextSlot, OnBlock, TokensPass, tokenVars
<1>4. CASE UNCHANGED systemVars
  BY <1>4 DEF systemVars, TokensPass
<1> QED BY <1>1, <1>2, <1>3, <1>4 DEF SystemNext, ChainStep

\* The fee of a new account is a transfer of tokens, made as the account comes
\* into being.
LEMMA FeeKeepsTokens ==
  ASSUME SystemInv, TokenInv, NEW creator \in Name, NEW m \in Name,
         NewAccount({creator}, creator, m)
  PROVE  TokenInv'
<1>1. /\ AccountTable(accounts) /\ existing' = existing \cup {m} /\ UNCHANGED stat
      /\ ChainNewAccount(m) /\ existing \subseteq Name
  BY DEF NewAccount, ChainNewAccount, SystemInv
<1>2. CASE UNCHANGED accounts
  BY <1>1, <1>2, NewAccountInv
<1>3. CASE ~(UNCHANGED accounts)
  <2>1. PICK fee \in Asset :
          /\ fee.code \in DOMAIN stat /\ fee.prec = stat[fee.code].prec
          /\ SavingAccount \in existing
          /\ Transferred(accounts, SubBalance(accounts, creator, fee), accounts',
                         creator, SavingAccount, fee, creator)
    BY <1>3, FeeTransferred
  <2>2. SavingAccount \in Name
    BY SystemAssumption
  <2>3. existing \subseteq existing' /\ existing' \subseteq Name
    BY <1>1
  <2> QED BY <1>1, <2>1, <2>2, <2>3, TransferredInv
<1> QED BY <1>2, <1>3
\* The endowments are the supplies.
LEMMA FirstTokens == SystemInit => TokenInv
<1> SUFFICES ASSUME SystemInit PROVE TokenInv
  OBVIOUS
<1> DEFINE codes == {s.code : s \in Minted}
<1>1. /\ SystemInv /\ AccountTable(accounts) /\ StatMinted
      /\ existing = Genesis /\ Genesis \subseteq Name /\ codes \subseteq Code
  <2>1. SystemInv /\ existing = Genesis
    BY SystemInitInv DEF SystemInit
  <2>2. AccountTable(accounts) /\ StatMinted
    BY <2>1 DEF SystemInv
  <2>3. Genesis \subseteq Name /\ codes \subseteq Code
    <3>1. \A s \in Symbol : s.code \in Code
      BY DEF Symbol
    <3>2. Genesis \subseteq Name /\ Minted \subseteq Symbol
      BY SystemAssumption
    <3> QED BY <3>1, <3>2
  <2> QED BY <2>1, <2>2, <2>3
<1>2. /\ DOMAIN stat = codes
      /\ \A c \in codes :
           /\ stat[c].supply = SumOver([n \in Genesis |-> Endowment[<<n, c>>]])
           /\ stat[c].max_supply = MaxAmount
           /\ stat[c] = [supply |-> stat[c].supply, max_supply |-> MaxAmount,
                         issuer |-> SystemSelf, prec |-> stat[c].prec]
  BY DEF SystemInit
<1>3. /\ DOMAIN accounts = {h \in Genesis \X codes : Endowment[h] > 0}
      /\ \A k \in DOMAIN accounts : /\ accounts[k].amount = Endowment[k]
                                    /\ accounts[k].prec = stat[k[2]].prec
  BY SystemAssumption DEF SystemInit
<1>4. \A k \in Genesis \X codes : Endowment[k] \in Nat
  <2>1. Endowment \in [Genesis \X codes -> 0 .. MaxAmount]
    BY SystemAssumption
  <2>2. 0 .. MaxAmount \subseteq Nat
    BY TokenAssumption
  <2> QED BY <2>1, <2>2
<1>5. ASSUME NEW c \in codes
      PROVE  /\ stat[c].supply \in 0 .. MaxAmount
             /\ stat[c] \in StatRow
             /\ TotalIn(accounts, c) = stat[c].supply
  <2> DEFINE f == [n \in Genesis |-> Endowment[<<n, c>>]]
             g == [n \in Name |-> HeldIn(accounts, n, c)]
  <2>1. PICK s \in Minted : s.code = c
    OBVIOUS
  <2>2. f \in [Genesis -> Nat] /\ IsFiniteSet(Genesis)
    <3>1. \A n \in Genesis : Endowment[<<n, c>>] \in Nat
      BY <1>4
    <3> QED BY <1>1, <3>1, NameAssumption, FS_Subset
  <2>3. g \in [Name -> Nat]
    BY <1>1, HeldInType
  <2>4. ASSUME NEW n \in Name
        PROVE  /\ n \in Genesis => g[n] = f[n]
               /\ n \notin Genesis => g[n] = 0
    <3>1. CASE n \in Genesis
      <4>1. Endowment[<<n, c>>] \in Nat
        BY <1>4, <3>1
      <4> QED BY <1>3, <3>1, <4>1 DEF HeldIn
    <3>2. CASE n \notin Genesis
      BY <1>3, <3>2 DEF HeldIn
    <3> QED BY <3>1, <3>2
  <2>5. stat[c].supply = SumOver(f) /\ TotalIn(accounts, c) = SumOver(g)
    BY <1>2 DEF TotalIn
  <2>6. SumOver(f) <= MaxAmount
    BY <2>1, SystemAssumption
  <2> HIDE DEF f, g
  <2>7. SumOver(g) = SumOver(f)
    BY <1>1, <2>2, <2>3, <2>4, SumExtended
  <2>8. SumOver(f) \in Nat
    BY <2>2, SumNat
  <2>9. stat[c].supply \in 0 .. MaxAmount
    BY <2>5, <2>6, <2>8, TokenAssumption
  <2>10. stat[c].prec \in Precision
    <3>1. stat[c].prec = s.prec /\ s \in Symbol
      BY <1>1, <2>1, SystemAssumption DEF StatMinted
    <3> QED BY <3>1 DEF Symbol
  <2>11. SystemSelf \in Name /\ MaxAmount \in 1 .. MaxAmount
    BY VotingAssumption, TokenAssumption
  <2>12. stat[c] \in StatRow
    <3> DEFINE supply == stat[c].supply
               prec == stat[c].prec
    <3>1. stat[c] = [supply |-> supply, max_supply |-> MaxAmount,
                     issuer |-> SystemSelf, prec |-> prec]
      BY <1>2
    <3>2. supply \in 0 .. MaxAmount /\ prec \in Precision
      BY <2>9, <2>10
    <3> HIDE DEF supply, prec
    <3> QED BY <2>11, <3>1, <3>2 DEF StatRow
  <2> QED BY <2>5, <2>7, <2>9, <2>12
<1>6. stat = [c \in codes |-> stat[c]]
  BY DEF SystemInit
<1>7. TokenTypeOK
  <2>1. IsTable(stat, Code, StatRow)
    BY <1>1, <1>2, <1>5, <1>6 DEF IsTable
  <2> QED BY <1>1, <2>1 DEF TokenTypeOK, AccountTable
<1>8. SupplyIsHeld
  <2> SUFFICES ASSUME NEW c \in Code, c \notin codes PROVE TotalIn(accounts, c) = 0
    BY <1>2, <1>5 DEF SupplyIsHeld
  <2> DEFINE g == [n \in Name |-> HeldIn(accounts, n, c)]
  <2>1. g \in [Name -> Nat] /\ \A n \in Name : g[n] = 0
    BY <1>3 DEF HeldIn
  <2>2. SumOver(g) = 0
    BY <2>1, SumOfZeros
  <2> QED BY <2>2 DEF TotalIn
<1>9. RowsMatchStat
  BY <1>1, <1>2, <1>3 DEF RowsMatchStat
<1>10. SupplyCapped
  <2> SUFFICES ASSUME NEW c \in DOMAIN stat PROVE stat[c].supply <= stat[c].max_supply
    BY DEF SupplyCapped
  <2>1. stat[c].supply \in 0 .. MaxAmount /\ stat[c].max_supply = MaxAmount
    BY <1>2, <1>5
  <2> QED BY <2>1, TokenAssumption
<1> QED BY <1>7, <1>8, <1>9, <1>10 DEF TokenInv

\* Every step keeps what is said of tokens.
LEMMA TokensNextInv == SystemInv /\ TokenInv /\ [SystemNext]_systemVars => TokenInv'
<1> SUFFICES ASSUME SystemInv, TokenInv, [SystemNext]_systemVars PROVE TokenInv'
  OBVIOUS
<1>1. CASE UNCHANGED tokenVars
  <2>1. UNCHANGED <<existing, stat, accounts>>
    BY <1>1 DEF tokenVars
  <2> QED BY <2>1, SameHoldings DEF TokenInv, TokenTypeOK, AccountTable
<1> QED BY <1>1, SystemPasses, TransferInv, FeeKeepsTokens DEF TokensPass

\* Under the system contract tokens stay sound: staking, refunds and fees move
\* them and nothing mints or burns one.
THEOREM TokensStaySound ==
  SystemSpec => [](TokenTypeOK /\ SupplyIsHeld /\ RowsMatchStat /\ SupplyCapped)
<1>1. TokenInv => TokenTypeOK /\ SupplyIsHeld /\ RowsMatchStat /\ SupplyCapped
  BY DEF TokenInv
<1> QED BY <1>1, TokensNextInv, FirstTokens, SystemAlwaysInv, PTL DEF SystemSpec, SystemNext

-----------------------------------------------------------------------------
(* A refund that is due can be claimed. *)

\* What no table says of a refund: it is of an account that exists and is not the
\* stake account, in a token of the chain.
Requested(n) ==
    n \in existing \ {StakeAccount} /\ SymbolOf(refunds[n].cpu_amount) \in Minted

RefundsRequested == Genesis \subseteq existing /\ \A n \in DOMAIN refunds : Requested(n)

\* Accounts are never removed.
LEMMA AccountsRemain ==
  ASSUME SystemInv, [SystemNext]_systemVars
  PROVE  existing \subseteq existing'
<1>1. UNCHANGED tokenVars => UNCHANGED existing
  BY DEF tokenVars
<1>2. \A auth, from, to, q : Transfer(auth, from, to, q) => UNCHANGED existing
  BY DEF Transfer
<1>3. \A auth, creator, m : NewAccount(auth, creator, m) => existing \subseteq existing'
  BY DEF NewAccount, ChainNewAccount
<1> QED BY <1>1, <1>2, <1>3, SystemPasses DEF TokensPass

\* A request is of whoever unstakes, in the core symbol of then.
LEMMA RestakeRequests ==
  ASSUME SystemInv, RefundsRequested, NEW signer \in Signer, NEW to \in Name, NEW delta \in Int,
         NEW transfer \in BOOLEAN, Restake(signer, to, delta, transfer)
  PROVE  RefundsRequested'
<1> DEFINE from == Owner(signer, to, transfer)
<1>1. core_symbol \in Symbol /\ core_symbol \in Minted /\ UNCHANGED existing
  BY NoSymbolIs DEF SystemInv, Restake, ChangeBw
<1>2. SymbolOf(CoreAsset(0)) = core_symbol /\ \A x : SymbolOf(CoreAsset(x)) = core_symbol
  BY <1>1 DEF SymbolOf, CoreAsset, AssetOf, Symbol
<1>3. signer \in existing
  BY SystemAssumption DEF Signer, RefundsRequested
<1>4. \/ UNCHANGED refunds
      \/ from \in DOMAIN refunds /\ UpdateRefund(from, delta)
      \/ from = signer /\ signer # StakeAccount /\ CreateRefund(from, -delta)
  BY DEF Restake, ChangeBw, Owner, PayStake
<1> HIDE DEF from
<1>5. CASE UNCHANGED refunds
  BY <1>1, <1>5 DEF RefundsRequested, Requested
<1>6. CASE from \in DOMAIN refunds /\ UpdateRefund(from, delta)
  <2> DEFINE left == refunds[from].cpu_amount.amount - delta
             old == refunds[from]
             time == IF delta < 0 THEN Seconds(now) ELSE old.request_time
             mid == [old EXCEPT !.cpu_amount = CoreAsset(left)]
             new == [mid EXCEPT !.request_time = time]
  <2>1. refunds' = Drop(refunds, from) \/ refunds' = [refunds EXCEPT ![from] = new]
    BY <1>6 DEF UpdateRefund
  <2>2. CASE refunds' = Drop(refunds, from)
    BY <1>1, <2>2 DEF Drop, RefundsRequested, Requested
  <2>3. CASE refunds' = [refunds EXCEPT ![from] = new]
    <3>1. old \in [request_time : Nat, cpu_amount : Quantity]
      BY <1>6 DEF SystemInv, StakeTypeOK, IsTable, RefundRow
    <3>2. mid = [request_time |-> old.request_time, cpu_amount |-> CoreAsset(left)]
      BY <3>1
    <3> HIDE DEF mid, time
    <3>3. new.cpu_amount = CoreAsset(left)
      BY <3>2
    <3> HIDE DEF new
    <3>4. \A n \in DOMAIN refunds' : n \in DOMAIN refunds
      BY <2>3
    <3>5. refunds'[from].cpu_amount = CoreAsset(left)
      BY <1>6, <2>3, <3>3
    <3>6. \A n \in DOMAIN refunds \ {from} : refunds'[n] = refunds[n]
      BY <2>3
    <3> QED BY <1>1, <1>2, <3>4, <3>5, <3>6 DEF RefundsRequested, Requested
  <2> QED BY <2>1, <2>2, <2>3
<1>7. CASE from = signer /\ signer # StakeAccount /\ CreateRefund(from, -delta)
  <2> DEFINE r == [request_time |-> Seconds(now), cpu_amount |-> CoreAsset(-delta)]
  <2>1. refunds' = Put(refunds, from, r) /\ r.cpu_amount = CoreAsset(-delta)
    BY <1>7 DEF CreateRefund
  <2> HIDE DEF r
  <2> QED BY <1>1, <1>2, <1>3, <1>7, <2>1 DEF Put, RefundsRequested, Requested
<1> QED BY <1>4, <1>5, <1>6, <1>7

\* Nothing else makes a refund.
LEMMA RequestsNext ==
  ASSUME SystemInv, RefundsRequested, [SystemNext]_systemVars
  PROVE  RefundsRequested'
<1>1. existing \subseteq existing'
  BY AccountsRemain
<1>2. CASE UNCHANGED refunds
  BY <1>1, <1>2 DEF RefundsRequested, Requested
<1>3. ASSUME NEW owner, Repay(owner) PROVE RefundsRequested'
  BY <1>1, <1>3 DEF Repay, Drop, RefundsRequested, Requested
<1>4. ASSUME NEW n \in Signer, Signed(n) PROVE RefundsRequested'
  BY <1>2, <1>3, <1>4, RestakeRequests, SignedKinds
<1>5. ASSUME ChainStep PROVE RefundsRequested'
  BY <1>2, <1>3, <1>5, ChainKinds
<1>6. UNCHANGED systemVars => UNCHANGED refunds
  BY DEF systemVars, stakeVars
<1> QED BY <1>2, <1>4, <1>5, <1>6 DEF SystemNext

\* Two accounts do not hold more of a token than there is.
LEMMA TwoHold ==
  ASSUME TokenInv, NEW a \in Name, NEW b \in Name, a # b, NEW c \in DOMAIN stat
  PROVE  Held(a, c) + Held(b, c) <= MaxAmount
<1>1. AccountTable(accounts) /\ c \in Code /\ stat[c].supply <= MaxAmount
  BY TokenAssumption DEF TokenInv, TokenTypeOK, AccountTable, IsTable, StatRow
<1> DEFINE f == [n \in Name |-> HeldIn(accounts, n, c)]
           g == [n \in Name |-> IF n = a THEN f[a] + f[b] ELSE IF n = b THEN 0 ELSE f[n]]
<1>2. /\ f \in [Name -> Nat] /\ f[a] = Held(a, c) /\ f[b] = Held(b, c)
      /\ SumOver(f) = stat[c].supply
  BY <1>1, HeldInType DEF TokenInv, SupplyIsHeld, TotalIn, Held
<1> HIDE DEF f
<1>3. /\ g \in [Name -> Nat] /\ g[a] = f[a] + f[b]
      /\ \A n \in Name \ {a, b} : g[n] = f[n]
      /\ g[a] + g[b] = f[a] + f[b]
  BY <1>2
<1> HIDE DEF g
<1>4. SumOver(g) = SumOver(f)
  BY <1>2, <1>3, NameAssumption, SumTransfer
<1>5. g[a] <= SumOver(g) /\ SumOver(g) \in Nat /\ g[a] \in Nat
  BY <1>3, NameAssumption, SumBoundsTerm, SumNat
<1> QED BY <1>1, <1>2, <1>3, <1>4, <1>5, TokenAssumption

\* A refund of a token that the stake account has all of is paid when it is due.
LEMMA DueIsClaimable ==
  ASSUME SystemInv, TokenInv, RefundsRequested
  PROVE  RefundsClaimable
<1> SUFFICES ASSUME NEW n \in DOMAIN refunds,
                    2 * (refunds[n].request_time + RefundDelay) <= now,
                    Uncovered(refunds[n].cpu_amount.code) <= 0
             PROVE  RefundOK({n}, n)
  BY DEF RefundsClaimable
<1> DEFINE q == refunds[n].cpu_amount
           here == <<StakeAccount, q.code>>
           there == <<n, q.code>>
<1>1. /\ n \in Name /\ n \in existing /\ n # StakeAccount /\ StakeAccount \in Name
      /\ q \in Quantity /\ SymbolOf(q) \in Minted /\ MaxAmount \in Nat
  BY SystemAssumption, TokenAssumption
     DEF RefundsRequested, Requested, SystemInv, StakeTypeOK, IsTable, RefundRow
<1>2. q.code \in Code /\ q.amount \in Nat /\ q.amount > 0
  BY <1>1 DEF Quantity
<1>3. q.code \in DOMAIN stat /\ stat[q.code].prec = q.prec
  BY <1>1 DEF SystemInv, StatMinted, SymbolOf
<1>4. Uncovered(q.code) <= 0 /\ RefundOf(q.code, n) = q.amount
  BY DEF RefundOf
<1>5. 2 * (refunds[n].request_time + RefundDelay) <= now
  OBVIOUS
<1> HIDE DEF q
<1>6. q.amount <= Held(StakeAccount, q.code) /\ Held(StakeAccount, q.code) \in Nat
  <2>1. RefundOf(q.code, n) <= Refunded(q.code) /\ RefundOf(q.code, n) \in Nat
    BY <1>1, <1>2, OwedParts
  <2> QED BY <1>2, <1>4, <2>1, OwedParts
<1>7. Held(StakeAccount, q.code) + Held(n, q.code) <= MaxAmount /\ Held(n, q.code) \in Nat
  <2>1. AccountTable(accounts)
    BY DEF SystemInv
  <2> QED BY <1>1, <1>2, <1>3, <2>1, HeldInType, TwoHold DEF Held
<1>8. \A k \in DOMAIN accounts : accounts[k].prec = stat[k[2]].prec
  BY DEF TokenInv, RowsMatchStat
<1>9. SubBalanceOK(accounts, StakeAccount, q)
  <2>1. here \in DOMAIN accounts /\ accounts[here].amount = Held(StakeAccount, q.code)
    BY <1>2, <1>6 DEF Held, HeldIn
  <2> QED BY <1>2, <1>3, <1>6, <1>8, <2>1 DEF SubBalanceOK
<1>10. AddBalanceOK(accounts, n, q)
  <2>1. there \in DOMAIN accounts => accounts[there].amount = Held(n, q.code)
    BY DEF Held, HeldIn
  <2>2. Held(n, q.code) + q.amount <= MaxAmount
    BY <1>1, <1>2, <1>6, <1>7
  <2> QED BY <1>3, <1>8, <2>1, <2>2 DEF AddBalanceOK
<1>11. TransferOK({StakeAccount, n}, StakeAccount, n, q)
  BY <1>1, <1>2, <1>3, <1>9, <1>10 DEF TransferOK
<1> QED BY <1>5, <1>11 DEF RefundOK, q

\* However often init is called, a refund of any token can be claimed when it is
\* due, as long as the stake account is not short of that token: neither a balance
\* at its limit nor a row of another precision can be in the way.
THEOREM RefundsAreClaimable == SystemSpec => []RefundsClaimable
<1>1. SystemInit => RefundsRequested
  <2>1. SystemInit => existing = Genesis /\ DOMAIN refunds = {}
    BY NoRowsTable DEF SystemInit
  <2> QED BY <2>1 DEF RefundsRequested
<1>2. SystemInv /\ RefundsRequested /\ [SystemNext]_systemVars => RefundsRequested'
  BY RequestsNext
<1>3. SystemInv /\ TokenInv /\ RefundsRequested => RefundsClaimable
  BY DueIsClaimable
<1> QED BY <1>1, <1>2, <1>3, TokensNextInv, FirstTokens, SystemAlwaysInv, PTL DEF SystemSpec, SystemNext

-----------------------------------------------------------------------------
(* Tokens only move. *)

\* The fee of a new account is tokens that move.
LEMMA FeeMoves ==
  ASSUME SystemInv, NEW creator \in Name, NEW m \in Name, NewAccount({creator}, creator, m)
  PROVE  \/ UNCHANGED <<stat, accounts>>
         \/ \E fee \in Asset : /\ fee.code \in Code /\ fee.amount \in 1 .. MaxAmount
                              /\ Ledger!Move(fee.code, creator, SavingAccount, fee.amount)
<1>1. AccountTable(accounts) /\ UNCHANGED stat
  BY DEF NewAccount, SystemInv
<1>2. CASE ~(UNCHANGED accounts)
  <2>1. PICK fee \in Asset :
          /\ fee.code \in Code /\ fee.amount \in 1 .. MaxAmount /\ fee.code \in DOMAIN stat
          /\ Transferred(accounts, SubBalance(accounts, creator, fee), accounts',
                         creator, SavingAccount, fee, creator)
    BY <1>2, FeeTransferred
  <2>2. SavingAccount \in Name
    BY SystemAssumption
  <2>3. Ledger!Move(fee.code, creator, SavingAccount, fee.amount)
    BY <1>1, <2>1, <2>2, TransferredIsMove
  <2> QED BY <2>1, <2>3
<1> QED BY <1>1, <1>2

\* Staking, refunds, payments and fees only ever move tokens, as TokenLedger has
\* it: no step of the system mints or burns one, founds a token, or takes from a
\* balance what it does not hold, and each moves one amount from one holder to
\* another.
THEOREM SystemOnlyMoves ==
  SystemSpec =>
    [][\E c \in Code, from, to \in Name, n \in 1 .. MaxAmount :
         Ledger!Move(c, from, to, n)]_(Ledger!vars)
<1> DEFINE Moving == \E c \in Code, from, to \in Name, n \in 1 .. MaxAmount :
                        Ledger!Move(c, from, to, n)
<1>1. ASSUME SystemInv, TokenInv, [SystemNext]_systemVars PROVE [Moving]_(Ledger!vars)
  <2>1. UNCHANGED <<stat, accounts>> => UNCHANGED Ledger!vars
    BY DEF Ledger!vars, Held
  <2>2. CASE UNCHANGED tokenVars
    BY <2>1, <2>2 DEF tokenVars
  <2>3. ASSUME NEW from \in Name, NEW to \in Name, NEW q \in Asset, NEW auth,
               Transfer(auth, from, to, q)
        PROVE  Moving
    <3>1. Ledger!Move(q.code, from, to, q.amount)
      BY <1>1, <2>3, TransferMoves
    <3>2. q.code \in Code /\ q.amount \in 1 .. MaxAmount
      BY <2>3, TokenAssumption DEF Transfer, TransferOK, Asset
    <3> QED BY <3>1, <3>2
  <2>4. ASSUME NEW creator \in Name, NEW m \in Name, NewAccount({creator}, creator, m)
        PROVE  [Moving]_(Ledger!vars)
    <3>1. SavingAccount \in Name
      BY SystemAssumption
    <3> QED BY <1>1, <2>1, <2>4, <3>1, FeeMoves
  <2> QED BY <1>1, <2>2, <2>3, <2>4, SystemPasses DEF TokensPass
<1>2. SystemInv /\ TokenInv /\ [SystemNext]_systemVars => [Moving]_(Ledger!vars)
  BY <1>1
<1> QED BY <1>2, TokensNextInv, FirstTokens, SystemAlwaysInv, PTL DEF SystemSpec, SystemNext

-----------------------------------------------------------------------------
(* Voting in the whole system. *)

\* With real stakes, too, voting tables are well formed and ballots are counted.
THEOREM VotingStaysRight == SystemSpec => [](VotingTypeOK /\ BallotsCounted)
<1>1. SystemInv => VotingTypeOK /\ BallotsCounted
  BY VotingTypes DEF SystemInv, BallotInv
<1> QED BY <1>1, SystemAlwaysInv, PTL
\* Only a block changes the schedule.
LEMMA OnlyBlocksPropose ==
  ASSUME [SystemNext]_systemVars, proposed' # proposed
  PROVE  proposed' = TopProducers /\ Electable /\ UNCHANGED producers
<1>1. ASSUME NEW n \in Signer, Signed(n) PROVE UNCHANGED proposed
  <2>1. CASE StakeStep(n)
    <3>1. \A auth, from, to, delta, transfer :
            ChangeBw(auth, from, to, delta, transfer) => UNCHANGED proposed
      BY DEF ChangeBw, UpdateVotingPower, scheduleVars
    <3>2. \A owner : Refund({n}, owner) => UNCHANGED proposed
      BY DEF Refund, Repay, scheduleVars
    <3>3. \A core : InitSystem({n}, core) => UNCHANGED proposed
      BY DEF InitSystem, votingVars, scheduleVars
    <3> QED BY <2>1, <3>1, <3>2, <3>3 DEF StakeStep, DelegateBw, UndelegateBw
  <2>2. CASE PayStep(n)
    BY <2>2 DEF PayStep, scheduleVars
  <2>3. CASE VoteStep(n)
    BY <2>3 DEF VoteStep, VoterStep, RegProducer, UnregProd, RmvProducer, Deactivate, VoteProducer,
                SetVWeight, SetAcnType, scheduleVars
  <2>4. CASE AccountStep(n)
    BY <2>4 DEF AccountStep, NewAccount, SetAcntFee, SetALimits, votingVars, scheduleVars
  <2> QED BY <1>1, <2>1, <2>2, <2>3, <2>4 DEF Signed
<1>2. ASSUME NEW owner, ExecDeferred(owner) \/ ExpireDeferred(owner) PROVE UNCHANGED proposed
  BY <1>2 DEF ExecDeferred, ExpireDeferred, Repay, votingVars, scheduleVars
<1>3. ~(UNCHANGED systemVars)
  BY DEF systemVars, votingVars, scheduleVars
<1>4. PICK accepted \in BOOLEAN : NextSlot(accepted)
  BY <1>1, <1>2, <1>3 DEF SystemNext, ChainStep
<1>5. OnBlock(1, accepted)
  BY <1>4 DEF NextSlot
<1> QED BY <1>5, BlockProposes

\* No elected schedule is replaced by a shorter one, whatever happens to stakes.
THEOREM SystemSchedulesGrow == SystemSpec => SchedulesNeverShrink
<1> DEFINE Longer == proposed # FirstSchedule =>
                        Cardinality(Scheduled(proposed')) >= Cardinality(Scheduled(proposed))
<1>1. SystemInv /\ [SystemNext]_systemVars => [Longer]_votingVars
  <2> SUFFICES ASSUME SystemInv, [SystemNext]_systemVars, proposed # FirstSchedule
               PROVE  Cardinality(Scheduled(proposed')) >= Cardinality(Scheduled(proposed))
    OBVIOUS
  <2>1. Producers /\ ScheduleInv
    BY DEF SystemInv, BallotInv, Producers
  <2> QED BY <2>1, OnlyBlocksPropose, NeverShrinks
<1> QED BY <1>1, SystemAlwaysInv, PTL DEF SystemSpec, SystemNext, SchedulesNeverShrink, Longer

-----------------------------------------------------------------------------
(* Totals, with stakes that are tokens. *)

MintedCodes == {s.code : s \in Minted}

\* What there is of token c, from the beginning.
Endowed(c) == SumOver([n \in Genesis |-> Endowment[<<n, c>>]])

\* All tokens that there are, times any weight, are less than 2^63.
SupplyFits ==
    \A w \in VoteWeight : SumOver([c \in MintedCodes |-> Endowed(c)]) * w < Int64Limit

\* No token is issued or retired.
SupplyEndowed == \A c \in MintedCodes : stat[c].supply = Endowed(c)

\* Endowments are natural, and the tokens are finitely many.
LEMMA EndowedNat ==
  /\ IsFiniteSet(MintedCodes) /\ MintedCodes \subseteq Code
  /\ \A c \in MintedCodes : Endowed(c) \in Nat
  /\ [c \in MintedCodes |-> Endowed(c)] \in [MintedCodes -> Nat]
  /\ SumOver([c \in MintedCodes |-> Endowed(c)]) \in Nat
<1>1. IsFiniteSet(MintedCodes)
  <2>1. IsFiniteSet(Minted)
    BY SystemAssumption
  <2> DEFINE f == [s \in Minted |-> s.code]
  <2>2. f \in [Minted -> MintedCodes] /\ \A c \in MintedCodes : \E s \in Minted : f[s] = c
    BY DEF MintedCodes
  <2>3. f \in Surjection(Minted, MintedCodes)
    BY <2>2, Fun_IsSurj
  <2> HIDE DEF f
  <2> QED BY <2>1, <2>3, FS_Surjection
<1>2. MintedCodes \subseteq Code
  <2>1. \A s \in Symbol : s.code \in Code
    BY DEF Symbol
  <2>2. Minted \subseteq Symbol
    BY SystemAssumption
  <2> QED BY <2>1, <2>2 DEF MintedCodes
<1>3. ASSUME NEW c \in MintedCodes PROVE Endowed(c) \in Nat
  <2> DEFINE f == [n \in Genesis |-> Endowment[<<n, c>>]]
  <2>1. Endowment \in [Genesis \X MintedCodes -> 0 .. MaxAmount]
    BY SystemAssumption DEF MintedCodes
  <2>2. f \in [Genesis -> Nat]
    BY <2>1, TokenAssumption
  <2>3. IsFiniteSet(Genesis)
    BY SystemAssumption, NameAssumption, FS_Subset
  <2> HIDE DEF f
  <2>4. SumOver(f) \in Nat
    BY <2>2, <2>3, SumNat
  <2> QED BY <2>4 DEF f, Endowed
<1>4. [c \in MintedCodes |-> Endowed(c)] \in [MintedCodes -> Nat]
  BY <1>3
<1> QED BY <1>1, <1>2, <1>3, <1>4, SumNat

\* The supplies are the endowments at first ...
LEMMA FirstSupply == SystemInit => SupplyEndowed
BY DEF SystemInit, SupplyEndowed, MintedCodes, Endowed

\* ... and stay so.
LEMMA SupplyStays ==
  SystemInv /\ SupplyEndowed /\ [SystemNext]_systemVars => SupplyEndowed'
<1> SUFFICES ASSUME SystemInv, SupplyEndowed, [SystemNext]_systemVars PROVE SupplyEndowed'
  OBVIOUS
<1>1. UNCHANGED stat
  BY SystemPasses DEF TokensPass, tokenVars, Transfer, NewAccount
<1> QED BY <1>1 DEF SupplyEndowed

\* The votes of a producer are stakes of different accounts.
LEMMA VotesWithinStakes ==
  ASSUME BallotInv, NEW p \in DOMAIN producers
  PROVE  producers[p].company_votes + producers[p].government_votes
            <= SumOver([n \in Name |-> Staked(n)])
<1> DEFINE f == BackedBy(voters, acntype, p, "company")
           g == BackedBy(voters, acntype, p, "government")
           h == [n \in Name |-> f[n] + g[n]]
           s == [n \in Name |-> Staked(n)]
<1>1. /\ producers[p].company_votes = SumOver(f)
      /\ producers[p].government_votes = SumOver(g)
  BY VotesAre DEF BallotInv, VotesOf
<1>2. IsTable(voters, Name, VoterRow)
  BY DEF BallotInv
<1>3. f \in [Name -> Nat] /\ g \in [Name -> Nat]
  BY <1>2, BackedByNat
<1>4. \A n \in Name : Staked(n) \in Nat
  BY <1>2 DEF Staked, RowOr, IsTable, VoterRow
<1>5. \A n \in Name : f[n] + g[n] <= Staked(n)
  <2> SUFFICES ASSUME NEW n \in Name PROVE f[n] + g[n] <= Staked(n)
    OBVIOUS
  <2>1. /\ f[n] \in {0, Staked(n)} /\ g[n] \in {0, Staked(n)}
        /\ f[n] = 0 \/ g[n] = 0
    BY DEF BackedBy, Staked, RowOr
  <2> QED BY <1>4, <2>1
<1> HIDE DEF f, g
<1>6. h \in [Name -> Nat] /\ s \in [Name -> Nat] /\ \A n \in Name : h[n] <= s[n]
  BY <1>3, <1>4, <1>5
<1>7. \A n \in Name : h[n] = f[n] + g[n]
  OBVIOUS
<1> HIDE DEF h, s
<1>8. SumOver(h) = SumOver(f) + SumOver(g)
  BY <1>3, <1>6, <1>7, NameAssumption, SumPlus
<1>9. SumOver(h) <= SumOver(s)
  BY <1>6, NameAssumption, SumMonotone
<1> QED BY <1>1, <1>8, <1>9 DEF s

\* All rows of delband.
AllDelegated == [k \in Name \X Name |-> Amount(delband, k)]

\* What voters vote with, together, is what is delegated.
LEMMA StakedIsDelegated ==
  ASSUME SystemInv
  PROVE  /\ AllDelegated \in [Name \X Name -> Nat]
         /\ SumOver([n \in Name |-> Staked(n)]) = SumOver(AllDelegated)
<1> DEFINE K == Name \X Name
           key == [k \in K |-> k[1]]
           h == [n \in Name |-> SumOver(Group(K, AllDelegated, key, n))]
<1>1. IsTable(delband, K, Quantity) /\ IsFiniteSet(K) /\ IsFiniteSet(Name)
  BY NameAssumption, FS_Product DEF SystemInv, StakeTypeOK
<1>2. \A k : Amount(delband, k) \in Nat
  BY <1>1, QuantityIs, AmountNat
<1>3. AllDelegated \in [K -> Nat]
  BY <1>2 DEF AllDelegated
<1>4. \A k \in K : key[k] \in Name
  OBVIOUS
<1>5. ASSUME NEW n \in Name
      PROVE  Staked(n) = SumOver(Group(K, AllDelegated, key, n))
  <2> DEFINE f == Given(delband, n)
             g == Group(K, AllDelegated, key, n)
             r == [to \in Name |-> <<n, to>>]
  <2>1. f \in [Name -> Nat]
    BY <1>2 DEF Given
  <2>2. g \in [K -> Nat] /\ \A k \in K : g[k] = IF k[1] = n THEN Amount(delband, k) ELSE 0
    BY <1>2 DEF Group, AllDelegated
  <2>3. r \in [Name -> K] /\ \A a, b \in Name : r[a] = r[b] => a = b
    OBVIOUS
  <2>4. r \in Injection(Name, K)
    BY <2>3, Fun_IsInj
  <2>5. \A to \in Name : r[to] = <<n, to>> /\ f[to] = Amount(delband, <<n, to>>)
    BY DEF Given
  <2> HIDE DEF f, g, r
  <2>6. ASSUME NEW to \in Name PROVE g[r[to]] = f[to]
    <3>1. <<n, to>> \in K /\ <<n, to>>[1] = n
      OBVIOUS
    <3>2. g[<<n, to>>] = Amount(delband, <<n, to>>)
      BY <2>2, <3>1
    <3> QED BY <2>5, <3>2
  <2>7. ASSUME NEW k \in K, \A to \in Name : k # r[to] PROVE g[k] = 0
    <3>1. k[1] # n
      <4>1. k = <<k[1], k[2]>> /\ k[2] \in Name
        BY <2>7
      <4> QED BY <2>5, <2>7, <4>1
    <3> QED BY <2>2, <3>1
  <2>8. SumOver(g) = SumOver(f)
    BY <1>1, <2>1, <2>2, <2>4, <2>6, <2>7, SumRenamed
  <2>9. Staked(n) = SumOver(Given(delband, n))
    BY StakesAre DEF SystemInv
  <2> QED BY <2>8, <2>9 DEF f, g
<1>6. h = [n \in Name |-> Staked(n)]
  BY <1>5
<1>7. h = [n \in Name |-> SumOver(Group(K, AllDelegated, key, n))]
  OBVIOUS
<1> HIDE DEF key, h, K
<1>8. SumOver(h) = SumOver(AllDelegated)
  BY <1>1, <1>3, <1>4, <1>7, SumGrouped
<1> QED BY <1>3, <1>6, <1>8 DEF K

\* And that is what is staked of all tokens.
LEMMA DelegatedByToken ==
  ASSUME SystemInv
  PROVE  /\ [c \in MintedCodes |-> SumOver(Part(delband, c, Name))] \in [MintedCodes -> Nat]
         /\ SumOver(AllDelegated)
               = SumOver([c \in MintedCodes |-> SumOver(Part(delband, c, Name))])
<1> DEFINE K == Name \X Name
           key == [k \in K |-> IF k \in DOMAIN delband THEN delband[k].code ELSE ""]
           h == [c \in MintedCodes |-> SumOver(Group(K, AllDelegated, key, c))]
<1>1. IsTable(delband, K, Quantity) /\ IsFiniteSet(K) /\ AllDelegated \in [K -> Nat]
  BY StakedIsDelegated, NameAssumption, FS_Product DEF SystemInv, StakeTypeOK
<1>2. \A k \in K : AllDelegated[k] = IF k \in DOMAIN delband THEN delband[k].amount ELSE 0
  BY DEF AllDelegated, Amount, RowOr
<1>3. ASSUME NEW k \in DOMAIN delband PROVE delband[k].code \in MintedCodes
  <2>1. SymbolOf(delband[k]) \in Minted
    BY DEF SystemInv, StakesHaveOwners, TotalsOfOneSymbol
  <2>2. SymbolOf(delband[k]).code = delband[k].code
    BY DEF SymbolOf
  <2> QED BY <2>1, <2>2 DEF MintedCodes
<1>4. \A k \in K : AllDelegated[k] # 0 => key[k] \in MintedCodes
  BY <1>2, <1>3
<1>5. ASSUME NEW c \in MintedCodes
      PROVE  Group(K, AllDelegated, key, c) = Part(delband, c, Name)
  <2>1. \A k \in K : (IF key[k] = c THEN AllDelegated[k] ELSE 0)
                        = IF k \in DOMAIN delband /\ k[1] \in Name
                          THEN IF delband[k].code = c THEN delband[k].amount ELSE 0 ELSE 0
    BY <1>2
  <2> QED BY <2>1 DEF Group, Part
<1>6. h = [c \in MintedCodes |-> SumOver(Part(delband, c, Name))]
  BY <1>5
<1>7. h = [c \in MintedCodes |-> SumOver(Group(K, AllDelegated, key, c))]
  OBVIOUS
<1>8. IsFiniteSet(MintedCodes)
  BY EndowedNat
<1> HIDE DEF key, h, K
<1>9. h \in [MintedCodes -> Nat] /\ SumOver(h) = SumOver(AllDelegated)
  BY <1>1, <1>4, <1>7, <1>8, SumGrouped
<1> QED BY <1>6, <1>9

\* What makes votes fit: what is staked of a token is held by the stake account.
TotalsHold == SystemInv /\ TokenInv /\ SupplyEndowed /\ AllCovered

\* Then the votes of a producer are no more than all tokens together.
LEMMA VotesAreTokens ==
  ASSUME TotalsHold, NEW p \in DOMAIN producers
  PROVE  producers[p].company_votes + producers[p].government_votes
            <= SumOver([c \in MintedCodes |-> Endowed(c)])
<1> DEFINE s == [c \in MintedCodes |-> SumOver(Part(delband, c, Name))]
           e == [c \in MintedCodes |-> Endowed(c)]
<1>1. SystemInv /\ TokenInv /\ AccountTable(accounts) /\ StatMinted /\ BallotInv
  BY DEF TotalsHold, SystemInv
<1>2. s \in [MintedCodes -> Nat] /\ e \in [MintedCodes -> Nat] /\ IsFiniteSet(MintedCodes)
  BY <1>1, DelegatedByToken, EndowedNat
<1>3. ASSUME NEW c \in MintedCodes PROVE s[c] <= e[c]
  <2>1. c \in Code /\ StakeAccount \in Name
    BY EndowedNat, SystemAssumption
  <2>2. Uncovered(c) <= 0
    BY <2>1 DEF TotalsHold, AllCovered
  <2>3. SumOver(Part(delband, c, Name)) <= Held(StakeAccount, c)
    BY <1>1, <2>1, <2>2, OwedParts
  <2>4. Held(StakeAccount, c) <= TotalIn(accounts, c) /\ Held(StakeAccount, c) \in Nat
        /\ TotalIn(accounts, c) \in Nat
    BY <1>1, <2>1, TotalBounds, HeldNat DEF Held
  <2>5. c \in DOMAIN stat
    BY <1>1 DEF StatMinted, MintedCodes
  <2>6. TotalIn(accounts, c) = Endowed(c)
    BY <1>1, <2>1, <2>5 DEF TokenInv, SupplyIsHeld, TotalsHold, SupplyEndowed
  <2>7. SumOver(Part(delband, c, Name)) \in Nat
    BY <1>1, <2>1, OwedParts
  <2> QED BY <2>3, <2>4, <2>6, <2>7
<1>4. producers[p].company_votes + producers[p].government_votes <= SumOver(s)
  BY <1>1, VotesWithinStakes, StakedIsDelegated, DelegatedByToken
<1> HIDE DEF s, e
<1>5. SumOver(s) <= SumOver(e) /\ SumOver(s) \in Nat /\ SumOver(e) \in Nat
  BY <1>2, <1>3, SumMonotone, SumNat
<1>6. producers[p].company_votes \in Nat /\ producers[p].government_votes \in Nat
  BY <1>1 DEF BallotInv, IsTable, ProducerRow
<1>7. producers[p].company_votes + producers[p].government_votes <= SumOver(e)
  BY <1>4, <1>5, <1>6
<1> QED BY <1>7 DEF e

\* So they fit an int64.
LEMMA TokensFit == SupplyFits => (TotalsHold => AllFit)
<1> SUFFICES ASSUME SupplyFits, TotalsHold, NEW p \in DOMAIN producers PROVE FitsInt64(p)
  BY DEF AllFit
<1>1. BallotInv /\ SumOver([c \in MintedCodes |-> Endowed(c)]) \in Nat
  BY EndowedNat DEF TotalsHold, SystemInv
<1> QED BY <1>1, VotesAreTokens, FewVotesFit DEF SupplyFits

\* The same of the state a step leads to.
LEMMA TokensFitNext == SupplyFits => (TotalsHold' => AllFit')
<1> SUFFICES ASSUME SupplyFits PROVE TotalsHold' => AllFit'
  OBVIOUS
<1>1. TotalsHold => AllFit
  BY TokensFit
<1> QED BY <1>1, PTL

\* A re-stake recounts with the stake that it leaves; nothing else but voting
\* touches a producer.
LEMMA SystemExplains ==
  ASSUME SystemInv, SystemInv', AllFit', TotalsExplained, [SystemNext]_systemVars
  PROVE  TotalsExplained'
<1>1. BallotInv /\ BallotInv'
  BY DEF SystemInv
<1>2. ASSUME UNCHANGED producers PROVE TotalsExplained'
  BY <1>2 DEF TotalsExplained
<1>3. ASSUME NEW n \in Signer, Signed(n) PROVE TotalsExplained'
  <2>1. CASE StakeStep(n)
    <3>1. ASSUME NEW auth, NEW from, NEW to, NEW delta, NEW transfer,
                 ChangeBw(auth, from, to, delta, transfer)
          PROVE  TotalsExplained'
      BY <1>1, <3>1, StakeExplains DEF ChangeBw
    <3>2. \A owner : Refund({n}, owner) => UNCHANGED producers
      BY DEF Refund, Repay, ballotVars
    <3>3. \A core : InitSystem({n}, core) => UNCHANGED producers
      BY DEF InitSystem, votingVars, ballotVars
    <3> QED BY <1>2, <2>1, <3>1, <3>2, <3>3 DEF StakeStep, DelegateBw, UndelegateBw
  <2>2. CASE PayStep(n)
    BY <1>2, <2>2 DEF PayStep, ballotVars
  <2>3. CASE VoteStep(n)
    <3>1. ASSUME NEW c, NEW k, RegProducer({n}, c, k) PROVE TotalsExplained'
      BY <1>1, <3>1, RegisterExplains
    <3>2. ASSUME NEW c, Deactivate(c) PROVE TotalsExplained'
      BY <1>1, <3>2, DeactivateExplains
    <3>3. ASSUME NEW v, NEW ballot, VoteProducer({n}, v, ballot) PROVE TotalsExplained'
      BY <1>1, <3>3, VoteExplains
    <3>4. ASSUME NEW c, NEW g, SetVWeight({n}, c, g) PROVE TotalsExplained'
      BY <1>2, <3>4 DEF SetVWeight
    <3>5. ASSUME NEW a, NEW t, SetAcnType({n}, a, t) PROVE TotalsExplained'
      BY <1>2, <3>5 DEF SetAcnType
    <3> QED BY <2>3, <3>1, <3>2, <3>3, <3>4, <3>5 DEF VoteStep, VoterStep, UnregProd, RmvProducer
  <2>4. CASE AccountStep(n)
    BY <1>2, <2>4 DEF AccountStep, NewAccount, SetAcntFee, SetALimits, votingVars, ballotVars
  <2> QED BY <1>3, <2>1, <2>2, <2>3, <2>4 DEF Signed
<1>4. ASSUME NEW owner, ExecDeferred(owner) \/ ExpireDeferred(owner) PROVE TotalsExplained'
  BY <1>2, <1>4 DEF ExecDeferred, ExpireDeferred, Repay, votingVars, ballotVars
<1>5. ASSUME NEW accepted, NextSlot(accepted) PROVE TotalsExplained'
  BY <1>2, <1>5 DEF NextSlot, OnBlock, ballotVars
<1>6. CASE UNCHANGED systemVars
  BY <1>2, <1>6 DEF systemVars, votingVars, ballotVars
<1> QED BY <1>3, <1>4, <1>5, <1>6 DEF SystemNext, ChainStep

\* The inductive invariant of totals.
TotalsInv == TotalsHold /\ TotalsExplained

LEMMA FirstTotals == SystemInit => TotalsInv
<1> SUFFICES ASSUME SystemInit PROVE TotalsInv
  OBVIOUS
<1>1. DOMAIN producers = {}
  BY NoRowsTable DEF SystemInit, VotingInit
<1> QED BY <1>1, SystemInitInv, FirstTokens, FirstSupply, FirstCovered
        DEF TotalsInv, TotalsHold, TotalsExplained

LEMMA TotalsNextInv ==
  ASSUME StakeAccount \notin Actor, SupplyFits,
         TotalsInv, [SystemNext]_systemVars, [WithinRefunds]_systemVars
  PROVE  TotalsInv'
<1>1. SystemInv /\ TokenInv /\ SupplyEndowed /\ AllCovered /\ TotalsExplained
  BY DEF TotalsInv, TotalsHold
<1>2. SystemInv' /\ TokenInv' /\ SupplyEndowed'
  BY <1>1, SystemNextInv, TokensNextInv, SupplyStays
<1>3. AllCovered'
  BY <1>1, <1>2, WithinStaysCovered
<1>4. TotalsHold'
  BY <1>2, <1>3 DEF TotalsHold
<1>5. AllFit'
  BY <1>4, TokensFitNext
<1>6. TotalsExplained'
  BY <1>1, <1>2, <1>5, SystemExplains
<1> QED BY <1>4, <1>6 DEF TotalsInv

\* With stakes paid for in tokens, every total is that of today's votes under
\* weights that setvweight allows, as long as nobody stakes more for itself than
\* the open refund this uses up (such a stake is not paid for and could make the
\* totals overflow) and the whole supply fits.
THEOREM SystemTotalsExplained ==
  ASSUME StakeAccount \notin Actor, SupplyFits
  PROVE  SystemSpec /\ [][WithinRefunds]_systemVars => []TotalsExplained
<1>1. TotalsInv /\ [SystemNext]_systemVars /\ [WithinRefunds]_systemVars => TotalsInv'
  BY TotalsNextInv
<1>2. TotalsInv => TotalsExplained
  BY DEF TotalsInv
<1> QED BY <1>1, <1>2, FirstTotals, PTL DEF SystemSpec, SystemNext

\* And a new schedule has the best producers, with their keys.
THEOREM SystemElectionsFair ==
  ASSUME StakeAccount \notin Actor, SupplyFits
  PROVE  SystemSpec /\ [][WithinRefunds]_systemVars => ElectionsAreFair
<1>1. TotalsInv /\ [SystemNext]_systemVars /\ [WithinRefunds]_systemVars => TotalsInv'
  BY TotalsNextInv
<1>2. TotalsInv /\ [SystemNext]_systemVars => [BestAreScheduled]_votingVars
  <2> SUFFICES ASSUME TotalsInv, [SystemNext]_systemVars PROVE BestAreScheduled
    OBVIOUS
  <2>1. CASE proposed' = proposed
    BY <2>1 DEF BestAreScheduled
  <2>2. CASE proposed' # proposed
    <3>1. proposed' = TopProducers /\ UNCHANGED producers
      BY <2>2, OnlyBlocksPropose
    <3>2. BallotInv /\ TotalsExplained
      BY DEF TotalsInv, TotalsHold, SystemInv
    <3>3. TotalsNatural
      BY <3>2, ExplainedNatural DEF BallotInv, Producers
    <3> QED BY <3>1, <3>2, <3>3, BestScheduled
  <2> QED BY <2>1, <2>2
<1> QED BY <1>1, <1>2, FirstTotals, PTL DEF SystemSpec, SystemNext, ElectionsAreFair

-----------------------------------------------------------------------------
(* Taking a stake back. *)

\* What is open of the refund of n, in the core symbol.
OpenRefund(n) == RowOr(refunds, n, [cpu_amount |-> CoreAsset(0)]).cpu_amount

\* A stake that StakesWithdrawable promises its owner back.
Withdrawable(k) ==
    /\ SymbolOf(delband[k]) = core_symbol
    /\ SymbolOf(OpenRefund(k[1])) = core_symbol
    /\ delband[k].amount + OpenRefund(k[1]).amount <= MaxAmount

\* The state with the stake taken back, variable by variable: k[1] has no row for
\* k[2], a refund greater by the stake, and a refund transaction that is due after
\* the delay.
TakenBack(k) ==
    LET x    == delband[k].amount
        row  == voters[k[1]]
        left == row.staked - x
    IN
    /\ delband' = Drop(delband, k)
    /\ userres' = AddTo(userres, k[2], -x)
    /\ limits' = Put(limits, k[2], [ram |-> Unlimited, net |-> Unlimited,
                                    cpu |-> userres[k[2]].amount - x])
    /\ voters' = Put(voters, k[1], [row EXCEPT !.staked = left])
    /\ producers' = IF row.producers # {} /\ k[1] \in DOMAIN acntype
                    THEN UpdateProducersVotes(acntype[k[1]], row.producers, row.staked,
                                              row.producers, left)
                    ELSE producers
    /\ refunds' = IF k[1] = StakeAccount THEN refunds
                  ELSE Put(refunds, k[1],
                           [request_time |-> Seconds(now),
                            cpu_amount |-> CoreAsset(OpenRefund(k[1]).amount + x)])
    /\ deferred' = IF k[1] = StakeAccount THEN deferred
                   ELSE Put(deferred, k[1], now + 2 * RefundDelay)
    /\ UNCHANGED <<existing, stat, accounts, acntype, vwstate, scheduleVars, settingVars, now>>

\* A stake is part of what its owner votes with and of what its receiver has.
LEMMA StakeCounted ==
  ASSUME SystemInv, NEW from \in Name, NEW to \in Name, <<from, to>> \in DOMAIN delband
  PROVE  /\ from \in DOMAIN voters /\ voters[from] \in VoterRow
         /\ delband[<<from, to>>].amount <= voters[from].staked
         /\ to \in DOMAIN userres /\ userres[to] \in StakeRow
         /\ delband[<<from, to>>].amount <= userres[to].amount
<1> DEFINE x == delband[<<from, to>>].amount
           f == Given(delband, from)
           g == Taken(delband, to)
<1>1. /\ IsTable(delband, Name \X Name, Quantity) /\ IsTable(userres, Name, StakeRow)
      /\ IsTable(voters, Name, VoterRow)
  BY DEF SystemInv, StakeTypeOK, StakeRow, BallotInv
<1>2. x \in Nat /\ x > 0
  BY <1>1, TokenAssumption DEF IsTable, Quantity
<1>3. f \in [Name -> Nat] /\ g \in [Name -> Nat]
  BY <1>1, QuantityIs, AmountNat DEF Given, Taken
<1>4. f[to] = x /\ g[from] = x
  BY DEF Given, Taken, Amount, RowOr
<1>5. Staked(from) = SumOver(f) /\ Amount(userres, to) = SumOver(g)
  BY StakesAre DEF SystemInv
<1> HIDE DEF f, g, x
<1>6. x <= SumOver(f) /\ x <= SumOver(g) /\ SumOver(f) \in Nat /\ SumOver(g) \in Nat
  BY <1>3, <1>4, NameAssumption, SumBoundsTerm, SumNat
<1>7. Staked(from) # 0 /\ Amount(userres, to) # 0
  BY <1>2, <1>5, <1>6
<1>8. /\ from \in DOMAIN voters /\ voters[from].staked = Staked(from)
      /\ to \in DOMAIN userres /\ userres[to].amount = Amount(userres, to)
  BY <1>7 DEF Staked, Amount, RowOr
<1>9. voters[from] \in VoterRow /\ userres[to] \in StakeRow
  BY <1>1, <1>8 DEF IsTable
<1> QED BY <1>5, <1>6, <1>8, <1>9 DEF x

\* The recount that comes with it finds every producer of the ballot.
LEMMA RecountSucceeds ==
  ASSUME SystemInv, NEW from \in DOMAIN voters, voters[from].staked # 0, NEW left
  PROVE  UpdateProducersVotesOK(FALSE, voters[from].producers, voters[from].staked,
                                voters[from].producers, left)
<1>1. Touched(voters[from].producers, voters[from].staked, voters[from].producers, left)
        \subseteq voters[from].producers
  BY DEF Touched
<1>2. voters[from].producers \subseteq DOMAIN producers
  BY DEF SystemInv, BallotInv, BallotsCounted
<1> QED BY <1>1, <1>2 DEF UpdateProducersVotesOK

\* Whatever happened before, a stake in today's core symbol is given back to its
\* owner, all of it: undelegatebw takes the step to the state that has it taken
\* back.  What it finds in the other tables never makes it fail: not the total
\* of the receiver, the voting power, the ballot, or the refund that is open.
THEOREM StakeComesBack ==
  ASSUME SystemInv, NEW k \in DOMAIN delband, Withdrawable(k), TakenBack(k)
  PROVE  UndelegateBw({k[1]}, k[1], k[2], delband[k])
<1>1. PICK from \in Name, to \in Name : k = <<from, to>>
  BY DEF SystemInv, StakeTypeOK, IsTable
<1>2. k[1] = from /\ k[2] = to
  BY <1>1
<1> DEFINE q == delband[k]
           x == q.amount
           d == -x
           row == voters[from]
           left == row.staked - x
           limit == [ram |-> Unlimited, net |-> Unlimited, cpu |-> Added(userres, to, d).amount]
<1>3. /\ IsTable(delband, Name \X Name, Quantity) /\ IsTable(refunds, Name, RefundRow)
      /\ q \in Quantity /\ MaxAmount \in Nat /\ SymbolOf(q) = core_symbol
  BY TokenAssumption DEF SystemInv, StakeTypeOK, IsTable, Withdrawable
<1>4. x \in Nat /\ x > 0 /\ x <= MaxAmount
  BY <1>3 DEF Quantity
<1>5. /\ from \in DOMAIN voters /\ row \in VoterRow /\ x <= row.staked
      /\ to \in DOMAIN userres /\ userres[to] \in StakeRow /\ x <= userres[to].amount
  BY <1>1, StakeCounted
<1>6. row.staked \in Nat /\ userres[to].amount \in 0 .. MaxAmount
  BY <1>5 DEF VoterRow, StakeRow
<1>7. SymbolOf(userres[to]) = core_symbol /\ to \in existing
  <2>1. SymbolOf(delband[k]) = SymbolOf(userres[k[2]])
    BY DEF SystemInv, TotalsOfOneSymbol
  <2> QED BY <1>2, <1>3, <1>5, <2>1 DEF SystemInv, LimitsFollowStakes
<1>8. Adds(delband, k, d) /\ delband' = AddTo(delband, k, d)
  <2>1. RowOr(delband, k, CoreAsset(0)) = q
    BY DEF RowOr
  <2>2. Added(delband, k, d).amount = x + d
    BY <2>1 DEF Added, AssetOf
  <2>3. x + d = 0 /\ 0 \in 0 .. MaxAmount
    BY <1>3, <1>4
  <2>4. AddTo(delband, k, d) = Drop(delband, k)
    BY <2>2, <2>3 DEF AddTo
  <2> QED BY <1>3, <2>1, <2>3, <2>4 DEF Adds, TakenBack
<1>9. /\ Adds(userres, to, d) /\ userres' = AddTo(userres, to, d)
      /\ limits' = Put(limits, to, limit)
  <2>1. RowOr(userres, to, CoreAsset(0)) = userres[to]
    BY <1>5 DEF RowOr
  <2>2. Added(userres, to, d).amount = userres[to].amount + d
    BY <2>1 DEF Added, AssetOf
  <2>3. /\ userres[to].amount + d \in 0 .. MaxAmount
        /\ userres[to].amount + d = userres[to].amount - x
    BY <1>3, <1>4, <1>5, <1>6
  <2>4. userres' = AddTo(userres, to, -x)
        /\ limits' = Put(limits, to, [ram |-> Unlimited, net |-> Unlimited,
                                      cpu |-> userres[to].amount - x])
    BY <1>2 DEF TakenBack
  <2> QED BY <1>7, <2>1, <2>2, <2>3, <2>4 DEF Adds
<1>10. UpdateVotingPower(from, d)
  <2>1. RowOr(voters, from, [staked |-> 0, producers |-> {}]) = row
    BY <1>5 DEF RowOr
  <2>2. row.staked + d = left /\ left >= 0 /\ row.staked # 0
    BY <1>4, <1>5, <1>6
  <2>3. UpdateProducersVotesOK(FALSE, row.producers, row.staked, row.producers, left)
    BY <1>5, <2>2, RecountSucceeds
  <2>4. /\ voters' = Put(voters, from, [row EXCEPT !.staked = left])
        /\ producers' = IF row.producers # {} /\ from \in DOMAIN acntype
                        THEN UpdateProducersVotes(acntype[from], row.producers, row.staked,
                                                  row.producers, left)
                        ELSE producers
        /\ UNCHANGED <<acntype, vwstate, scheduleVars>>
    BY <1>2 DEF TakenBack
  <2> HIDE DEF row, left, d
  <2> QED BY <2>1, <2>2, <2>3, <2>4 DEF UpdateVotingPower
<1>11. CASE from = StakeAccount
  <2>1. UNCHANGED <<refunds, deferred, accounts>>
    BY <1>2, <1>11 DEF TakenBack
  <2>2. ChangeBw({from}, from, to, d, FALSE)
    <3>1. d # 0
      BY <1>4
    <3>2. UNCHANGED <<existing, stat, settingVars, now>>
      BY DEF TakenBack
    <3> HIDE DEF d
    <3> QED BY <1>1, <1>7, <1>8, <1>9, <1>10, <1>11, <2>1, <3>1, <3>2 DEF ChangeBw
  <2> QED BY <1>2, <1>3, <1>4, <2>2 DEF UndelegateBw
<1>12. CASE from # StakeAccount
  <2> DEFINE open == OpenRefund(from)
             new == [request_time |-> Seconds(now), cpu_amount |-> CoreAsset(open.amount + x)]
  <2>1. /\ refunds' = Put(refunds, from, new) /\ Schedule(from) /\ UNCHANGED accounts
        /\ SymbolOf(open) = core_symbol /\ x + open.amount <= MaxAmount
    BY <1>2, <1>12 DEF TakenBack, Schedule, Withdrawable
  <2>2. CASE from \in DOMAIN refunds
    <3>1. open = refunds[from].cpu_amount /\ refunds[from] \in RefundRow
      BY <1>3, <2>2 DEF OpenRefund, RowOr, IsTable
    <3>2. open.amount \in Nat
      BY <1>3, <3>1 DEF RefundRow, Quantity
    <3>3. /\ open.amount - d = open.amount + x /\ open.amount - d <= MaxAmount
          /\ ~(open.amount - d <= 0) /\ d < 0
      BY <1>4, <2>1, <3>2
    <3>4. refunds' = [refunds EXCEPT ![from].cpu_amount = CoreAsset(open.amount - d),
                                     ![from].request_time = Seconds(now)]
      <4> DEFINE old == refunds[from]
                 time == Seconds(now)
                 amount == CoreAsset(open.amount + x)
                 mid == [old EXCEPT !.cpu_amount = amount]
      <4>1. old \in [request_time : Nat, cpu_amount : Quantity]
        BY <3>1 DEF RefundRow
      <4>2. new = [request_time |-> time, cpu_amount |-> amount]
        OBVIOUS
      <4> HIDE DEF old, time, amount, new
      <4>3. mid = [request_time |-> old.request_time, cpu_amount |-> amount]
        BY <4>1
      <4>4. [mid EXCEPT !.request_time = time] = new
        <5> HIDE DEF mid
        <5> QED BY <4>2, <4>3
      <4>5. refunds' = [refunds EXCEPT ![from] = new]
        BY <2>1, <2>2 DEF Put
      <4> QED BY <3>3, <4>4, <4>5 DEF old, time, amount
    <3>5. UpdateRefund(from, d)
      <4> HIDE DEF d, new
      <4> QED BY <2>1, <3>1, <3>3, <3>4 DEF UpdateRefund
    <3>6. ChangeBw({from}, from, to, d, FALSE)
      <4>1. UNCHANGED <<existing, stat, settingVars, now>>
        BY DEF TakenBack
      <4>2. d # 0
        BY <1>4
      <4> HIDE DEF d
      <4> QED BY <1>1, <1>7, <1>8, <1>9, <1>10, <1>12, <2>2, <3>3, <3>5, <4>1, <4>2 DEF ChangeBw
    <3> QED BY <1>2, <1>3, <1>4, <3>6 DEF UndelegateBw
  <2>3. CASE from \notin DOMAIN refunds
    <3>1. open.amount = 0
      BY <2>3 DEF OpenRefund, RowOr, CoreAsset, AssetOf
    <3>2. open.amount + x = -d /\ d < 0
      BY <1>4, <3>1
    <3>3. CreateRefund(from, -d)
      <4> HIDE DEF d
      <4> QED BY <2>1, <3>2 DEF CreateRefund
    <3>4. ChangeBw({from}, from, to, d, FALSE)
      <4>1. UNCHANGED <<existing, stat, settingVars, now>>
        BY DEF TakenBack
      <4>2. d # 0
        BY <1>4
      <4> HIDE DEF d
      <4> QED BY <1>1, <1>7, <1>8, <1>9, <1>10, <1>12, <2>3, <3>2, <3>3, <4>1, <4>2 DEF ChangeBw
    <3> QED BY <1>2, <1>3, <1>4, <3>4 DEF UndelegateBw
  <2> QED BY <2>2, <2>3
<1> QED BY <1>11, <1>12

-----------------------------------------------------------------------------
(* What the voting component is checked with stands for the whole system. *)

\* No voter can have more staked: MaxAmount for everyone.
StakeBound == SumOver([to \in Name |-> MaxAmount])

\* VotingWithStakes, where stakes just change, with everybody a voter and every
\* name an account from the start.
Stand == INSTANCE VotingWithStakes WITH
    Voter <- Name, existing <- Name, MaxStake <- StakeBound

\* Its bounds are such as it assumes.
LEMMA StandBounds ==
  /\ Name \subseteq Name /\ Candidate \subseteq Name /\ StakeBound \in Nat
  /\ MaxAmount <= StakeBound
<1> DEFINE f == [n \in Name |-> MaxAmount]
<1>1. Candidate \subseteq Name /\ StakeAccount \in Name
  BY SystemAssumption
<1>2. f \in [Name -> Nat] /\ f[StakeAccount] = MaxAmount
  BY <1>1, TokenAssumption
<1> HIDE DEF f
<1>3. SumOver(f) \in Nat /\ f[StakeAccount] <= SumOver(f)
  BY <1>1, <1>2, NameAssumption, SumNat, SumBoundsTerm
<1> QED BY <1>1, <1>2, <1>3 DEF StakeBound, f

\* Its sets are as large.
LEMMA StandCounts == \A S : Stand!Cardinality(S) = Cardinality(S)
BY DEF Stand!Cardinality, Cardinality

\* Its recount is the recount.
LEMMA StandRecounts ==
  ASSUME NEW type, NEW old, NEW oldStaked, NEW new, NEW newStaked
  PROVE  /\ Stand!UpdateProducersVotes(type, old, oldStaked, new, newStaked)
              = UpdateProducersVotes(type, old, oldStaked, new, newStaked)
         /\ \A voting : Stand!UpdateProducersVotesOK(voting, old, oldStaked, new, newStaked)
              <=> UpdateProducersVotesOK(voting, old, oldStaked, new, newStaked)
BY DEF Stand!Touched, Touched, Stand!Revote, Revote, Stand!TotalWeight, TotalWeight,
       Stand!AsInt64, AsInt64, Stand!UpdateProducersVotes, UpdateProducersVotes,
       Stand!UpdateProducersVotesOK, UpdateProducersVotesOK

\* Its tables are the tables.
LEMMA StandTables ==
  /\ \A t, k, row : Stand!Put(t, k, row) = Put(t, k, row)
  /\ \A t, k, row : Stand!RowOr(t, k, row) = RowOr(t, k, row)
BY DEF Stand!Put, Put, Stand!RowOr, RowOr

\* Its elections are the elections.
LEMMA StandElects ==
  ASSUME NEW accepted
  PROVE  Stand!UpdateElectedProducers(accepted) <=> UpdateElectedProducers(accepted)
<1>1. /\ \A p, q : Stand!Precedes(p, q) <=> Precedes(p, q)
      /\ \A p : Stand!Eligible(p) <=> Eligible(p)
  BY DEF Stand!Precedes, Precedes, Stand!ByVotes, ByVotes, Stand!Eligible, Eligible
<1>2. \A p : Stand!Rank(p) = Rank(p)
  BY <1>1, StandCounts DEF Stand!Rank, Rank
<1>3. Stand!Elected = Elected
  BY <1>1, <1>2 DEF Stand!Elected, Elected
<1>4. Stand!TopProducers = TopProducers
  BY <1>2, <1>3, StandCounts DEF Stand!TopProducers, TopProducers
<1>5. Stand!Electable <=> Electable
  BY <1>3, StandCounts DEF Stand!Electable, Electable
<1> QED BY <1>3, <1>4, <1>5, StandCounts DEF Stand!UpdateElectedProducers, UpdateElectedProducers

\* A change of stakes is one of its changes.
LEMMA StandStakes ==
  ASSUME SystemInv, SystemInv', NEW signer \in Name, NEW to \in Name, NEW delta \in Int,
         NEW transfer \in BOOLEAN, Restake(signer, to, delta, transfer)
  PROVE  Stand!Next
<1> DEFINE from == Owner(signer, to, transfer)
<1>1. from \in Name /\ delta # 0 /\ delta \in -MaxAmount .. MaxAmount /\ UpdateVotingPower(from, delta)
  BY DEF Restake, ChangeBw, Owner
<1>2. StakeBound \in Nat /\ MaxAmount <= StakeBound
  BY StandBounds
<1>3. delta \in (-StakeBound .. StakeBound) \ {0}
  BY <1>1, <1>2, TokenAssumption
<1> HIDE DEF from
<1>4. RowOr(voters, from, [staked |-> 0]).staked + delta <= StakeBound
  <2> DEFINE f == Given(delband', from)
             g == [n \in Name |-> MaxAmount]
  <2>1. IsTable(delband', Name \X Name, Quantity)
    BY DEF SystemInv, StakeTypeOK
  <2>2. f \in [Name -> Nat] /\ g \in [Name -> Nat] /\ \A n \in Name : f[n] <= g[n]
    <3>1. \A n \in Name : Amount(delband', <<from, n>>) \in 0 .. MaxAmount
      <4> SUFFICES ASSUME NEW n \in Name PROVE Amount(delband', <<from, n>>) \in 0 .. MaxAmount
        OBVIOUS
      <4>1. CASE <<from, n>> \in DOMAIN delband'
        BY <2>1, <4>1, TokenAssumption DEF IsTable, Quantity, Amount, RowOr
      <4>2. CASE <<from, n>> \notin DOMAIN delband'
        BY <4>2, TokenAssumption DEF Amount, RowOr
      <4> QED BY <4>1, <4>2
    <3> QED BY <3>1, TokenAssumption DEF Given
  <2>3. Staked(from)' = SumOver(f)
    <3>1. Staked(from)' = SumOver([n \in Name |-> Delegated(from, n)])'
      BY <1>1 DEF SystemInv, StakesAgree, Staked
    <3> QED BY <3>1 DEF Delegated, Given, Amount
  <2>4. Staked(from)' = Staked(from) + delta
    <3>1. IsTable(voters, Name, VoterRow)
      BY DEF SystemInv, BallotInv
    <3> QED BY <1>1, <3>1, VotingPowerShifts
  <2> HIDE DEF f, g
  <2>5. SumOver(f) <= SumOver(g)
    BY <2>2, NameAssumption, SumMonotone
  <2> QED BY <2>3, <2>4, <2>5 DEF g, StakeBound, Staked
<1>5. Stand!UpdateVotingPower(from, delta)
  BY <1>1, StandRecounts, StandTables
     DEF UpdateVotingPower, Stand!UpdateVotingPower, scheduleVars, Stand!scheduleVars
<1>6. Stand!ChangeStake(from, delta)
  BY <1>4, <1>5, StandTables DEF Stand!ChangeStake
<1> QED BY <1>1, <1>3, <1>6 DEF Stand!Next, Stand!Vote

\* What accounts do in voting are its votes.
LEMMA StandVotes ==
  ASSUME SystemInv, NEW n \in Signer, VoteStep(n)
  PROVE  Stand!Next
<1>1. n \in Name
  BY SystemAssumption, VotingAssumption DEF Signer
<1>2. ASSUME NEW c \in Candidate, NEW k \in Key, RegProducer({n}, c, k)
      PROVE  Stand!RegProducer({n}, c, k)
  BY <1>2, StandTables DEF RegProducer, Stand!RegProducer, NewProducer, Stand!NewProducer,
     scheduleVars, Stand!scheduleVars
<1>3. ASSUME NEW c, Deactivate(c) PROVE Stand!Deactivate(c)
  BY <1>3 DEF Deactivate, Stand!Deactivate, scheduleVars, Stand!scheduleVars
<1>4. ASSUME NEW v, NEW ballot, VoteProducer({n}, v, ballot)
      PROVE  Stand!VoteProducer({n}, v, ballot)
  BY <1>4, StandRecounts, StandCounts DEF VoteProducer, Stand!VoteProducer, VoteProducerOK,
     Stand!VoteProducerOK, scheduleVars, Stand!scheduleVars
<1>5. ASSUME NEW c, NEW ballot, VoterStep({n}, c, ballot), c \in Candidate
      PROVE  Stand!VoterStep({n}, c, ballot)
  BY <1>2, <1>3, <1>4, <1>5 DEF VoterStep, Stand!VoterStep, UnregProd, Stand!UnregProd
<1>6. ASSUME NEW c, RmvProducer({n}, c) PROVE Stand!RmvProducer({SystemSelf}, c)
  BY <1>3, <1>6 DEF RmvProducer, Stand!RmvProducer
<1>7. ASSUME NEW c, NEW g, SetVWeight({n}, c, g) PROVE Stand!SetVWeight({SystemSelf}, c, g)
  BY <1>7 DEF SetVWeight, Stand!SetVWeight, scheduleVars, Stand!scheduleVars
<1>8. ASSUME NEW a \in Name, NEW t, SetAcnType({n}, a, t)
      PROVE  Stand!SetAcnType({AdminAccount}, a, t)
  BY <1>8, StandTables DEF SetAcnType, Stand!SetAcnType, scheduleVars, Stand!scheduleVars
<1>9. CASE \E c \in Candidate, ballot \in SUBSET Candidate : VoterStep({n}, c, ballot)
  BY <1>1, <1>5, <1>9 DEF Stand!Next, Stand!Vote
<1>10. CASE \E c \in Candidate : RmvProducer({n}, c)
  BY <1>6, <1>10 DEF Stand!Next, Stand!Vote
<1>11. CASE \E c, g \in VoteWeight : SetVWeight({n}, c, g)
  BY <1>7, <1>11 DEF Stand!Next, Stand!Vote
<1>12. CASE \E a \in Actor, t \in Type : SetAcnType({n}, a, t)
  <2>1. PICK a \in Actor, t \in Type : SetAcnType({n}, a, t)
    BY <1>12
  <2>2. a \in Name
    BY SystemAssumption
  <2>3. Stand!SetAcnType({AdminAccount}, a, t)
    BY <1>8, <2>1, <2>2
  <2> QED BY <2>2, <2>3 DEF Stand!Next, Stand!Vote, Stand!Type, Type
<1> QED BY <1>9, <1>10, <1>11, <1>12 DEF VoteStep

\* A block is one of its blocks.
LEMMA StandBlocks ==
  ASSUME NEW accepted \in BOOLEAN, NextSlot(accepted)
  PROVE  Stand!Next
<1>1. OnBlock(1, accepted)
  BY DEF NextSlot
<1>2. Stand!OnBlock(1, accepted)
  BY <1>1, StandElects DEF OnBlock, Stand!OnBlock, ballotVars, Stand!ballotVars
<1>3. 1 \in 1 .. Period + 1
  BY VotingAssumption
<1> QED BY <1>2, <1>3 DEF Stand!Next, Stand!ABlock

\* The full system, seen from its voting tables and its schedule, is a behaviour of
\* VotingWithStakes: staking, refunds, payments, new accounts and a second init
\* do nothing to them that a change of somebody's stake does not do.  So what
\* holds of VotingWithStakes, whatever the stakes do, holds of the system.
THEOREM SystemRunsVoting == SystemSpec => Stand!Spec
<1>1. SystemInit => Stand!Init
  <2> SUFFICES ASSUME SystemInit PROVE Stand!Init
    OBVIOUS
  <2>1. Name = Name \cup Candidate \cup {SystemSelf, AdminAccount}
    BY SystemAssumption, VotingAssumption
  <2>2. Stand!VotingInit
    BY DEF SystemInit, VotingInit, Stand!VotingInit, NoRows, Stand!NoRows
  <2> QED BY <2>1, <2>2 DEF Stand!Init
<1>2. ASSUME SystemInv, SystemInv', [SystemNext]_systemVars PROVE [Stand!Next]_(Stand!votingVars)
  <2>1. UNCHANGED <<ballotVars, scheduleVars>> => UNCHANGED Stand!votingVars
    BY DEF ballotVars, scheduleVars, Stand!votingVars, Stand!ballotVars, Stand!scheduleVars
  <2>2. \A owner : Repay(owner) => UNCHANGED Stand!votingVars
    BY <2>1 DEF Repay
  <2>3. UNCHANGED votingVars => UNCHANGED Stand!votingVars
    BY <2>1 DEF votingVars
  <2>4. ASSUME NEW n \in Signer, Signed(n) PROVE [Stand!Next]_(Stand!votingVars)
    <3>1. n \in Name
      BY SystemAssumption, VotingAssumption DEF Signer
    <3>2. CASE StakeStep(n)
      <4>1. \A core : InitSystem({n}, core) => UNCHANGED Stand!votingVars
        BY <2>3 DEF InitSystem
      <4> QED BY <1>2, <2>2, <3>1, <3>2, <4>1, StakeStepIs, StandStakes
    <3>3. CASE PayStep(n)
      BY <2>1, <3>3 DEF PayStep
    <3>4. CASE VoteStep(n)
      BY <1>2, <3>4, StandVotes
    <3>5. CASE AccountStep(n)
      BY <2>1, <2>3, <3>5 DEF AccountStep, NewAccount, SetAcntFee, SetALimits
    <3> QED BY <2>4, <3>2, <3>3, <3>4, <3>5 DEF Signed
  <2>5. ASSUME NEW owner, ExecDeferred(owner) \/ ExpireDeferred(owner)
        PROVE  UNCHANGED Stand!votingVars
    BY <2>2, <2>3, <2>5 DEF ExecDeferred, ExpireDeferred
  <2>6. CASE ChainStep
    BY <2>5, <2>6, StandBlocks DEF ChainStep
  <2>7. CASE UNCHANGED systemVars
    BY <2>3, <2>7 DEF systemVars
  <2> QED BY <1>2, <2>4, <2>6, <2>7 DEF SystemNext
<1>3. SystemInv /\ SystemInv' /\ [SystemNext]_systemVars => [Stand!Next]_(Stand!votingVars)
  BY <1>2
<1> QED BY <1>1, <1>3, SystemAlwaysInv, PTL DEF SystemSpec, SystemNext, Stand!Spec
=============================================================================
