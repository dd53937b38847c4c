------------------------- MODULE EosioVotingProofs -------------------------
(***************************************************************************)
(* What the actions of the voting component keep.  The votes of a producer *)
(* are the stakes behind it only because ballots name rows that exist and  *)
(* only typed accounts have one; that the counts are natural follows from  *)
(* that in turn, so the three are proved together.                         *)
(***************************************************************************)
EXTENDS EosioVoting, FunctionTheorems, SumTheorems, TableTheorems

-----------------------------------------------------------------------------
(* Stakes behind a producer. *)

\* Backing, of given tables.
BackedBy(vs, at, p, t) ==
    [v \in Name |-> IF v \in DOMAIN vs /\ v \in DOMAIN at
                    THEN IF p \in vs[v].producers /\ at[v] = t THEN vs[v].staked ELSE 0
                    ELSE 0]

\* Backing is of today's tables.
LEMMA BackingIs ==
  ASSUME NEW p, NEW t
  PROVE  /\ Backing(p, t) = BackedBy(voters, acntype, p, t)
         /\ Backing(p, t)' = BackedBy(voters', acntype', p, t)
BY DEF Backing, BackedBy

\* Stakes are natural.
LEMMA BackedByNat ==
  ASSUME NEW vs, IsTable(vs, Name, VoterRow), NEW at, NEW p, NEW t
  PROVE  /\ BackedBy(vs, at, p, t) \in [Name -> Nat]
         /\ SumOver(BackedBy(vs, at, p, t)) \in Nat
<1>1. \A v \in DOMAIN vs : vs[v].staked \in Nat
  BY DEF IsTable, VoterRow
<1>2. BackedBy(vs, at, p, t) \in [Name -> Nat]
  BY <1>1 DEF BackedBy
<1> QED BY <1>2, NameAssumption, SumNat

\* What a producer has when nothing backs it.
LEMMA BackedByNone ==
  ASSUME NEW vs, IsTable(vs, Name, VoterRow), NEW at, NEW p, NEW t,
         \A v \in DOMAIN vs : p \in vs[v].producers => vs[v].staked = 0
  PROVE  SumOver(BackedBy(vs, at, p, t)) = 0
<1>1. BackedBy(vs, at, p, t) \in [Name -> Nat]
  BY BackedByNat
<1>2. \A v \in Name : BackedBy(vs, at, p, t)[v] = 0
  BY DEF BackedBy
<1> QED BY <1>1, <1>2, SumOfZeros

\* One account's change moves the sum by its own part.
LEMMA BackedByChange ==
  ASSUME NEW vs, IsTable(vs, Name, VoterRow), NEW ws, IsTable(ws, Name, VoterRow),
         NEW at, NEW bt, NEW a \in Name, NEW p, NEW t,
         \A v \in Name \ {a} : BackedBy(ws, bt, p, t)[v] = BackedBy(vs, at, p, t)[v]
  PROVE  SumOver(BackedBy(ws, bt, p, t)) =
            SumOver(BackedBy(vs, at, p, t)) - BackedBy(vs, at, p, t)[a]
               + BackedBy(ws, bt, p, t)[a]
<1>1. BackedBy(vs, at, p, t) \in [Name -> Nat] /\ BackedBy(ws, bt, p, t) \in [Name -> Nat]
  BY BackedByNat
<1> QED BY <1>1, NameAssumption, SumOneChange

-----------------------------------------------------------------------------
(* Ballots and votes. *)

\* An active producer has a key.
KeysSet == \A p \in DOMAIN producers : producers[p].is_active => producers[p].producer_key # NoKey

BallotInv ==
    /\ IsTable(voters, Name, VoterRow)
    /\ IsTable(producers, Name, ProducerRow)
    /\ IsTable(acntype, Name, Type)
    /\ vwstate \in [company_weight : VoteWeight, government_weight : VoteWeight]
    /\ VotesAreStakes
    /\ BallotsCounted
    /\ KeysSet

\* The weights keep a total an integer.
LEMMA TotalWeightInt ==
  ASSUME vwstate \in [company_weight : VoteWeight, government_weight : VoteWeight],
         NEW company \in Nat, NEW government \in Nat
  PROVE  TotalWeight(company, government) \in Int
<1> DEFINE n == government * vwstate.government_weight + company * vwstate.company_weight
<1>1. vwstate.company_weight \in Nat /\ vwstate.government_weight \in Nat
  BY VotingAssumption
<1>2. n \in Int
  BY <1>1
<1> HIDE DEF n
<1>3. Int64Limit \in Nat \ {0}
  BY VotingAssumption
<1>4. (n + Int64Limit) % (2 * Int64Limit) \in Int
  BY <1>2, <1>3
<1> QED BY <1>3, <1>4 DEF TotalWeight, AsInt64, n

\* The votes for p of both kinds once a step is done, in terms of the tables
\* the step leaves.
VotesOf(p) == /\ producers[p].company_votes = SumOver(BackedBy(voters, acntype, p, "company"))
              /\ producers[p].government_votes = SumOver(BackedBy(voters, acntype, p, "government"))

\* VotesAreStakes, by BackedBy.
LEMMA VotesAre == VotesAreStakes <=> \A p \in DOMAIN producers : VotesOf(p)
BY BackingIs DEF VotesAreStakes, VotesOf

\* update_producers_votes: when a typed account's ballot and stake change from
\* (old, oldStaked) to (new, newStaked), the producers keep their votes the sums.
LEMMA RecountKeeps ==
  ASSUME BallotInv, NEW v \in DOMAIN voters, v \in DOMAIN acntype,
         NEW new \in SUBSET Name, NEW newStaked \in Nat,
         Touched(voters[v].producers, voters[v].staked, new, newStaked) \subseteq DOMAIN producers,
         newStaked # 0 => new \subseteq DOMAIN producers,
         IsTable(voters', Name, VoterRow),
         DOMAIN voters' = DOMAIN voters,
         voters'[v] = [staked |-> newStaked, producers |-> new],
         \A w \in DOMAIN voters \ {v} : voters'[w] = voters[w],
         producers' = UpdateProducersVotes(acntype[v], voters[v].producers, voters[v].staked,
                                           new, newStaked),
         UNCHANGED <<acntype, vwstate>>
  PROVE  BallotInv'
<1> DEFINE old == voters[v].producers
           oldStaked == voters[v].staked
           touched == Touched(old, oldStaked, new, newStaked)
           type == acntype[v]
<1>0. /\ IsTable(voters, Name, VoterRow) /\ IsTable(producers, Name, ProducerRow)
      /\ IsTable(acntype, Name, Type) /\ v \in Name /\ type \in Type
      /\ old \in SUBSET Name /\ oldStaked \in Nat
  BY DEF BallotInv, IsTable, VoterRow
<1>1. ASSUME NEW p, NEW t
      PROVE  SumOver(BackedBy(voters', acntype', p, t)) =
                IF t = type
                THEN Revote(SumOver(BackedBy(voters, acntype, p, t)), p,
                            old, oldStaked, new, newStaked)
                ELSE SumOver(BackedBy(voters, acntype, p, t))
  <2> DEFINE b == BackedBy(voters, acntype, p, t)
             c == BackedBy(voters', acntype', p, t)
  <2>1. \A w \in Name \ {v} : c[w] = b[w]
    BY DEF BackedBy
  <2>2. /\ b[v] = IF p \in old /\ t = type THEN oldStaked ELSE 0
        /\ c[v] = IF p \in new /\ t = type THEN newStaked ELSE 0
    BY <1>0 DEF BackedBy
  <2>3. SumOver(c) = SumOver(b) - b[v] + c[v]
    BY <1>0, <2>1, BackedByChange
  <2>4. SumOver(b) \in Nat
    BY <1>0, BackedByNat
  <2> HIDE DEF b, c
  <2>5. CASE t = type
    BY <2>2, <2>3, <2>5 DEF Revote, b, c
  <2>6. CASE t # type
    <3>1. SumOver(c) = SumOver(b)
      BY <2>2, <2>3, <2>4, <2>6
    <3> QED BY <2>6, <3>1 DEF b, c
  <2> QED BY <2>5, <2>6
<1>2. /\ DOMAIN producers' = DOMAIN producers
      /\ \A p \in DOMAIN producers : p \notin touched => producers'[p] = producers[p]
  BY DEF UpdateProducersVotes
<1>3. ASSUME NEW p \in DOMAIN producers, p \in touched
      PROVE  /\ producers'[p].is_active = producers[p].is_active
             /\ producers'[p].producer_key = producers[p].producer_key
             /\ producers'[p].company_votes =
                  IF type = "company"
                  THEN Revote(producers[p].company_votes, p, old, oldStaked, new, newStaked)
                  ELSE producers[p].company_votes
             /\ producers'[p].government_votes =
                  IF type = "company"
                  THEN producers[p].government_votes
                  ELSE Revote(producers[p].government_votes, p, old, oldStaked, new, newStaked)
             /\ producers'[p] = [producers[p] EXCEPT
                   !.company_votes = producers'[p].company_votes,
                   !.government_votes = producers'[p].government_votes,
                   !.total_vote_weight =
                      TotalWeight(producers'[p].company_votes, producers'[p].government_votes)]
  <2>1. producers[p] \in ProducerRow
    BY <1>0 DEF IsTable
  <2> QED BY <1>3, <2>1 DEF UpdateProducersVotes, ProducerRow
<1>4. ASSUME NEW p \in DOMAIN producers PROVE VotesOf(p)'
  <2>0. /\ producers[p].company_votes = SumOver(BackedBy(voters, acntype, p, "company"))
        /\ producers[p].government_votes = SumOver(BackedBy(voters, acntype, p, "government"))
    BY VotesAre DEF BallotInv, VotesOf
  <2>1. type = "company" \/ type = "government"
    BY <1>0 DEF Type
  <2>2. CASE p \in touched
    <3>1. /\ SumOver(BackedBy(voters', acntype', p, type)) =
                Revote(SumOver(BackedBy(voters, acntype, p, type)), p,
                       old, oldStaked, new, newStaked)
          /\ \A t : t # type => SumOver(BackedBy(voters', acntype', p, t)) =
                                SumOver(BackedBy(voters, acntype, p, t))
      BY <1>1
    <3>2. CASE type = "company"
      <4>1. /\ producers'[p].company_votes =
                 Revote(producers[p].company_votes, p, old, oldStaked, new, newStaked)
            /\ producers'[p].government_votes = producers[p].government_votes
        BY <1>3, <2>2, <3>2
      <4> HIDE DEF old, oldStaked, type
      <4> QED BY <2>0, <3>1, <3>2, <4>1 DEF VotesOf
    <3>3. CASE type = "government"
      <4>1. /\ producers'[p].company_votes = producers[p].company_votes
            /\ producers'[p].government_votes =
                 Revote(producers[p].government_votes, p, old, oldStaked, new, newStaked)
        BY <1>3, <2>2, <3>3
      <4> HIDE DEF old, oldStaked, type
      <4> QED BY <2>0, <3>1, <3>3, <4>1 DEF VotesOf
    <3> QED BY <2>1, <3>2, <3>3
  <2>3. CASE p \notin touched
    <3>1. ASSUME NEW n \in Nat PROVE Revote(n, p, old, oldStaked, new, newStaked) = n
      BY <1>0, <2>3 DEF Revote, Touched
    <3>2. \A t : SumOver(BackedBy(voters, acntype, p, t)) \in Nat
      BY <1>0, BackedByNat
    <3>3. \A t : SumOver(BackedBy(voters', acntype', p, t)) = SumOver(BackedBy(voters, acntype, p, t))
      BY <1>1, <3>1, <3>2
    <3> QED BY <1>2, <2>0, <2>3, <3>3 DEF VotesOf
  <2> QED BY <2>2, <2>3
<1>5. VotesAreStakes'
  BY <1>2, <1>4, VotesAre, BackingIs DEF VotesAreStakes, VotesOf
<1>6. IsTable(producers', Name, ProducerRow)
  <2> SUFFICES ASSUME NEW p \in DOMAIN producers PROVE producers'[p] \in ProducerRow
    BY <1>0, <1>2 DEF IsTable, UpdateProducersVotes
  <2>1. producers[p] \in ProducerRow
    BY <1>0 DEF IsTable
  <2>2. CASE p \notin touched
    BY <1>2, <2>1, <2>2
  <2>3. CASE p \in touched
    <3>1. producers'[p].company_votes \in Nat /\ producers'[p].government_votes \in Nat
      BY <1>0, <1>4, BackedByNat DEF VotesOf
    <3>2. TotalWeight(producers'[p].company_votes, producers'[p].government_votes) \in Int
      BY <3>1, TotalWeightInt DEF BallotInv
    <3> QED BY <1>3, <2>1, <2>3, <3>1, <3>2 DEF ProducerRow
  <2> QED BY <2>2, <2>3
<1>7. BallotsCounted'
  BY <1>2 DEF BallotInv, BallotsCounted
<1>8. KeysSet'
  <2> SUFFICES ASSUME NEW p \in DOMAIN producers, producers'[p].is_active
               PROVE  producers'[p].producer_key # NoKey
    BY <1>2 DEF KeysSet
  <2>1. /\ producers'[p].is_active = producers[p].is_active
        /\ producers'[p].producer_key = producers[p].producer_key
    BY <1>2, <1>3
  <2> QED BY <2>1 DEF BallotInv, KeysSet
<1> QED BY <1>5, <1>6, <1>7, <1>8 DEF BallotInv

\* When no sum of stakes moves, the producers keep their votes.
LEMMA SameBacking ==
  ASSUME VotesAreStakes, UNCHANGED producers,
         \A p, t : BackedBy(voters', acntype', p, t) = BackedBy(voters, acntype, p, t)
  PROVE  VotesAreStakes'
<1>1. \A p \in DOMAIN producers : VotesOf(p)'
  BY VotesAre DEF VotesOf
<1> QED BY <1>1, BackingIs DEF VotesAreStakes, VotesOf

\* voteproducer.
LEMMA VoteKeeps ==
  ASSUME BallotInv, NEW auth, NEW voter, NEW ballot \in SUBSET Name,
         VoteProducer(auth, voter, ballot)
  PROVE  BallotInv'
<1> DEFINE staked == voters[voter].staked
<1>1. /\ voter \in DOMAIN voters /\ voter \in DOMAIN acntype
      /\ Touched(voters[voter].producers, staked, ballot, staked) \subseteq DOMAIN producers
      /\ voters' = [voters EXCEPT ![voter].producers = ballot]
      /\ producers' = UpdateProducersVotes(acntype[voter], voters[voter].producers, staked,
                                           ballot, staked)
      /\ UNCHANGED <<acntype, vwstate>>
  BY DEF VoteProducer, VoteProducerOK, UpdateProducersVotesOK
<1>2. IsTable(voters, Name, VoterRow)
  BY DEF BallotInv
<1>3. voters[voter] \in VoterRow /\ staked \in Nat
  BY <1>1, <1>2 DEF IsTable, VoterRow
<1>4. /\ DOMAIN voters' = DOMAIN voters
      /\ voters'[voter] = [staked |-> staked, producers |-> ballot]
      /\ \A w \in DOMAIN voters \ {voter} : voters'[w] = voters[w]
  BY <1>1, <1>2, <1>3 DEF IsTable, VoterRow
<1>5. [staked |-> staked, producers |-> ballot] \in VoterRow
  BY <1>3 DEF VoterRow
<1>6. IsTable(voters', Name, VoterRow)
  BY <1>1, <1>2, <1>4, <1>5 DEF IsTable
<1>7. staked # 0 => ballot \subseteq DOMAIN producers
  BY <1>1 DEF Touched
<1> HIDE DEF staked
<1>8. staked = voters[voter].staked
  BY DEF staked
<1> QED BY <1>1, <1>3, <1>4, <1>6, <1>7, <1>8, RecountKeeps

\* update_voting_power: the ballot is recounted with the new stake, or there is
\* no ballot.
LEMMA StakeKeeps ==
  ASSUME BallotInv, NEW voter \in Name, NEW update \in Int, UpdateVotingPower(voter, update)
  PROVE  BallotInv'
<1> DEFINE row == RowOr(voters, voter, [staked |-> 0, producers |-> {}])
           staked == row.staked + update
           new == [row EXCEPT !.staked = staked]
<1>1. /\ staked >= 0 /\ voters' = Put(voters, voter, new)
      /\ UNCHANGED <<acntype, vwstate>>
  BY DEF UpdateVotingPower
<1>2. IsTable(voters, Name, VoterRow)
  BY DEF BallotInv
<1>3. row \in VoterRow
  BY <1>2 DEF RowOr, IsTable, VoterRow
<1>4. staked \in Nat /\ new = [staked |-> staked, producers |-> row.producers]
  BY <1>1, <1>3 DEF VoterRow
<1>5. new \in VoterRow /\ row.producers \in SUBSET Name
  BY <1>3, <1>4 DEF VoterRow
<1>a. row = IF voter \in DOMAIN voters THEN voters[voter] ELSE [staked |-> 0, producers |-> {}]
  BY DEF RowOr
<1> HIDE DEF row, new
<1>b. Written(voters, voters', Name, VoterRow, voter, new)
  BY <1>1, <1>2, <1>5, PutTable
<1>6. /\ IsTable(voters', Name, VoterRow) /\ DOMAIN voters' = DOMAIN voters \cup {voter}
      /\ voters'[voter] = new /\ \A w \in DOMAIN voters \ {voter} : voters'[w] = voters[w]
  BY <1>b DEF Written
<1>7. CASE row.producers # {} /\ voter \in DOMAIN acntype
  <2>1. /\ UpdateProducersVotesOK(FALSE, row.producers, row.staked, row.producers, staked)
        /\ producers' = UpdateProducersVotes(acntype[voter], row.producers, row.staked,
                                             row.producers, staked)
    BY <1>7 DEF UpdateVotingPower, row
  <2>2. Touched(row.producers, row.staked, row.producers, staked) \subseteq DOMAIN producers
    BY <2>1 DEF UpdateProducersVotesOK
  <2>3. staked # 0 => row.producers \subseteq DOMAIN producers
    BY <2>2 DEF Touched
  <2>4. voter \in DOMAIN voters /\ row = voters[voter]
    BY <1>7, <1>a
  <2>5. DOMAIN voters' = DOMAIN voters
    BY <1>6, <2>4
  <2> HIDE DEF staked
  <2> QED BY <1>1, <1>4, <1>5, <1>6, <1>7, <2>1, <2>2, <2>3, <2>4, <2>5, RecountKeeps
<1>8. CASE ~(row.producers # {} /\ voter \in DOMAIN acntype)
  <2>1. UNCHANGED producers
    BY <1>8 DEF UpdateVotingPower, row
  <2>2. row.producers = {}
    BY <1>8, <1>a DEF BallotInv, BallotsCounted
  <2>3. ASSUME NEW p, NEW t
        PROVE  BackedBy(voters', acntype', p, t) = BackedBy(voters, acntype, p, t)
    <3>1. voter \in DOMAIN voters => p \notin voters[voter].producers
      BY <1>a, <2>2
    <3>2. voter \in DOMAIN voters' /\ p \notin voters'[voter].producers
      BY <1>4, <1>6, <2>2
    <3>3. \A v \in Name : v # voter => /\ v \in DOMAIN voters' <=> v \in DOMAIN voters
                                       /\ v \in DOMAIN voters => voters'[v] = voters[v]
      BY <1>6
    <3> QED BY <1>1, <3>1, <3>2, <3>3 DEF BackedBy
  <2>4. VotesAreStakes'
    BY <2>1, <2>3, SameBacking DEF BallotInv
  <2>5. BallotsCounted'
    <3> SUFFICES ASSUME NEW v \in DOMAIN voters', voters'[v].producers # {}
                 PROVE  /\ v \in DOMAIN acntype'
                        /\ voters'[v].staked # 0 => voters'[v].producers \subseteq DOMAIN producers'
      BY DEF BallotsCounted
    <3>1. new.producers = {}
      BY <1>4, <2>2
    <3>2. v \in DOMAIN voters /\ voters'[v] = voters[v]
      BY <1>6, <3>1
    <3> QED BY <1>1, <2>1, <3>2 DEF BallotInv, BallotsCounted
  <2> QED BY <1>1, <1>6, <2>1, <2>4, <2>5 DEF BallotInv, KeysSet
<1> QED BY <1>7, <1>8

\* regproducer: a row that was not there has no votes because no ballot with
\* stake names it.
LEMMA RegisterKeeps ==
  ASSUME BallotInv, NEW auth, NEW producer \in Name, NEW producer_key \in Key,
         RegProducer(auth, producer, producer_key)
  PROVE  BallotInv'
<1> DEFINE row == RowOr(producers, producer, NewProducer)
           new == [row EXCEPT !.producer_key = producer_key, !.is_active = TRUE]
<1>1. /\ producer_key # NoKey /\ producers' = Put(producers, producer, new)
      /\ UNCHANGED <<voters, acntype, vwstate>>
  BY DEF RegProducer
<1>2. IsTable(producers, Name, ProducerRow) /\ IsTable(voters, Name, VoterRow)
  BY DEF BallotInv
<1>3. NewProducer \in ProducerRow
  BY VotingAssumption DEF NewProducer, ProducerRow
<1>4. row \in ProducerRow
  BY <1>2, <1>3 DEF RowOr, IsTable
<1>5. /\ new \in ProducerRow
      /\ new.company_votes = row.company_votes /\ new.government_votes = row.government_votes
      /\ new.is_active /\ new.producer_key = producer_key
  BY <1>4 DEF ProducerRow
<1>a. row = IF producer \in DOMAIN producers THEN producers[producer] ELSE NewProducer
  BY DEF RowOr
<1> HIDE DEF row, new
<1>6. Written(producers, producers', Name, ProducerRow, producer, new)
  BY <1>1, <1>2, <1>5, PutTable
<1>7. ASSUME NEW p \in DOMAIN producers' PROVE VotesOf(p)'
  <2>1. \A t : BackedBy(voters', acntype', p, t) = BackedBy(voters, acntype, p, t)
    BY <1>1
  <2>2. CASE p \in DOMAIN producers
    <3>1. VotesOf(p)
      BY <2>2, VotesAre DEF BallotInv
    <3>2. /\ producers'[p].company_votes = producers[p].company_votes
          /\ producers'[p].government_votes = producers[p].government_votes
      BY <1>5, <1>6, <1>a, <2>2 DEF Written
    <3> QED BY <2>1, <3>1, <3>2 DEF VotesOf
  <2>3. CASE p \notin DOMAIN producers
    <3>1. producers'[p].company_votes = 0 /\ producers'[p].government_votes = 0
      BY <1>5, <1>6, <1>a, <2>3 DEF Written, NewProducer
    <3>2. \A v \in DOMAIN voters : p \in voters[v].producers => voters[v].staked = 0
      BY <2>3 DEF BallotInv, BallotsCounted
    <3>3. \A t : SumOver(BackedBy(voters, acntype, p, t)) = 0
      BY <1>2, <3>2, BackedByNone
    <3> QED BY <2>1, <3>1, <3>3 DEF VotesOf
  <2> QED BY <2>2, <2>3
<1>8. VotesAreStakes'
  BY <1>7, BackingIs DEF VotesAreStakes, VotesOf
<1>9. BallotsCounted'
  BY <1>1, <1>6 DEF BallotInv, BallotsCounted, Written
<1>10. KeysSet'
  BY <1>1, <1>5, <1>6 DEF BallotInv, KeysSet, Written
<1> QED BY <1>1, <1>6, <1>8, <1>9, <1>10 DEF BallotInv, Written

\* unregprod and rmvproducer: the votes stay.
LEMMA DeactivateKeeps ==
  ASSUME BallotInv, NEW producer, Deactivate(producer)
  PROVE  BallotInv'
<1>1. /\ producer \in DOMAIN producers /\ UNCHANGED <<voters, acntype, vwstate>>
      /\ producers' = [producers EXCEPT ![producer].producer_key = NoKey,
                                        ![producer].is_active = FALSE]
  BY DEF Deactivate
<1>2. IsTable(producers, Name, ProducerRow) /\ NoKey \in Key
  BY VotingAssumption DEF BallotInv
<1>3. /\ DOMAIN producers' = DOMAIN producers
      /\ \A p \in DOMAIN producers : p # producer => producers'[p] = producers[p]
  BY <1>1, <1>2 DEF IsTable
<1>4. producers[producer] \in ProducerRow
  BY <1>1, <1>2 DEF IsTable
<1>5. /\ producers'[producer] \in ProducerRow
      /\ producers'[producer].company_votes = producers[producer].company_votes
      /\ producers'[producer].government_votes = producers[producer].government_votes
      /\ ~producers'[producer].is_active
  BY <1>1, <1>2, <1>4 DEF ProducerRow
<1>6. IsTable(producers', Name, ProducerRow)
  BY <1>1, <1>2, <1>3, <1>5 DEF IsTable
<1>7. ASSUME NEW p \in DOMAIN producers PROVE VotesOf(p)'
  <2>1. VotesOf(p)
    BY VotesAre DEF BallotInv
  <2> QED BY <1>1, <1>3, <1>5, <2>1 DEF VotesOf
<1>8. VotesAreStakes'
  BY <1>3, <1>7, BackingIs DEF VotesAreStakes, VotesOf
<1>9. BallotsCounted'
  BY <1>1, <1>3 DEF BallotInv, BallotsCounted
<1>10. KeysSet'
  BY <1>3, <1>5 DEF BallotInv, KeysSet
<1> QED BY <1>1, <1>6, <1>8, <1>9, <1>10 DEF BallotInv

\* setacntype: an account that gets its type has no ballot yet.
LEMMA AcnTypeKeeps ==
  ASSUME BallotInv, NEW auth, NEW acnt \in Name, NEW type \in Type, SetAcnType(auth, acnt, type)
  PROVE  BallotInv'
<1>1. /\ acnt \notin DOMAIN acntype /\ acntype' = Put(acntype, acnt, type)
      /\ UNCHANGED <<voters, producers, vwstate>>
  BY DEF SetAcnType
<1>2. IsTable(acntype, Name, Type)
  BY DEF BallotInv
<1>3. Written(acntype, acntype', Name, Type, acnt, type)
  BY <1>1, <1>2, PutTable
<1>4. ASSUME NEW p, NEW t
      PROVE  BackedBy(voters', acntype', p, t) = BackedBy(voters, acntype, p, t)
  <2>1. acnt \in DOMAIN voters => p \notin voters[acnt].producers
    BY <1>1 DEF BallotInv, BallotsCounted
  <2>2. \A v \in Name : v # acnt => /\ v \in DOMAIN acntype' <=> v \in DOMAIN acntype
                                    /\ v \in DOMAIN acntype => acntype'[v] = acntype[v]
    BY <1>3 DEF Written
  <2> QED BY <1>1, <2>1, <2>2 DEF BackedBy
<1>5. VotesAreStakes'
  BY <1>1, <1>4, SameBacking DEF BallotInv
<1>6. BallotsCounted'
  BY <1>1, <1>3 DEF BallotInv, BallotsCounted, Written
<1> QED BY <1>1, <1>3, <1>5, <1>6 DEF BallotInv, Written, KeysSet

\* setvweight recounts nothing.
LEMMA WeightKeeps ==
  ASSUME BallotInv, NEW auth, NEW c \in VoteWeight, NEW g \in VoteWeight, SetVWeight(auth, c, g)
  PROVE  BallotInv'
<1>1. /\ vwstate' \in [company_weight : VoteWeight, government_weight : VoteWeight]
      /\ UNCHANGED <<voters, producers, acntype>>
  BY DEF SetVWeight
<1>2. VotesAreStakes'
  BY <1>1, SameBacking DEF BallotInv
<1> QED BY <1>1, <1>2 DEF BallotInv, BallotsCounted, KeysSet

\* What leaves the tables of voting alone.
LEMMA BallotsSame ==
  ASSUME BallotInv, UNCHANGED ballotVars
  PROVE  BallotInv'
BY DEF BallotInv, ballotVars, VotesAreStakes, Backing, BallotsCounted, KeysSet

-----------------------------------------------------------------------------
(* The ranking of the producers. *)

Before(p) == {q \in DOMAIN producers : Precedes(q, p)}

Producers == IsTable(producers, Name, ProducerRow)

\* The index orders the producers, strictly and completely: two with equal votes
\* have different names.
LEMMA PrecedesOrders ==
  ASSUME Producers, NEW p \in DOMAIN producers, NEW q \in DOMAIN producers
  PROVE  /\ ~Precedes(p, p)
         /\ Precedes(p, q) => ~Precedes(q, p)
         /\ p # q => Precedes(p, q) \/ Precedes(q, p)
         /\ \A r \in DOMAIN producers : Precedes(p, q) /\ Precedes(q, r) => Precedes(p, r)
<1>1. /\ DOMAIN producers \subseteq Name
      /\ \A r \in DOMAIN producers : producers[r].total_vote_weight \in Int
  BY DEF Producers, IsTable, ProducerRow
<1>2. \A r \in DOMAIN producers : ByVotes(r) \in Int
  BY <1>1 DEF ByVotes
<1>3. /\ \A r \in DOMAIN producers : NameValue[r] \in Nat
      /\ NameValue[p] = NameValue[q] => p = q
  BY <1>1, VotingAssumption
<1> QED BY <1>2, <1>3 DEF Precedes

\* A rank is a place in the order, and a producer before another ranks lower.
LEMMA RankIsPlace ==
  ASSUME Producers, NEW p \in DOMAIN producers
  PROVE  /\ IsFiniteSet(DOMAIN producers) /\ Cardinality(DOMAIN producers) \in Nat
         /\ Rank(p) \in 1 .. Cardinality(DOMAIN producers)
         /\ \A q \in DOMAIN producers : Precedes(p, q) => Rank(p) < Rank(q)
<1>1. IsFiniteSet(DOMAIN producers)
  BY NameAssumption, FS_Subset DEF Producers, IsTable
<1>2. \A q \in DOMAIN producers : IsFiniteSet(Before(q)) /\ Cardinality(Before(q)) \in Nat
  BY <1>1, FS_Subset, FS_CardinalityType DEF Before
<1>3. \A q \in DOMAIN producers : Rank(q) = 1 + Cardinality(Before(q))
  BY DEF Rank, Before
<1>4. ASSUME NEW q \in DOMAIN producers, Precedes(p, q) PROVE Rank(p) < Rank(q)
  <2>1. Before(p) \subseteq Before(q)
    BY <1>4, PrecedesOrders DEF Before
  <2>2. p \in Before(q) /\ p \notin Before(p)
    BY <1>4, PrecedesOrders DEF Before
  <2>3. /\ Cardinality(Before(p)) <= Cardinality(Before(q))
        /\ Cardinality(Before(q)) = Cardinality(Before(p)) => Before(q) = Before(p)
    BY <1>2, <2>1, FS_Subset
  <2> QED BY <1>2, <1>3, <2>2, <2>3
<1>5. Rank(p) \in 1 .. Cardinality(DOMAIN producers)
  <2>1. Before(p) \subseteq DOMAIN producers /\ p \notin Before(p)
    BY PrecedesOrders DEF Before
  <2>2. /\ Cardinality(Before(p)) <= Cardinality(DOMAIN producers)
        /\ Cardinality(DOMAIN producers) = Cardinality(Before(p)) => DOMAIN producers = Before(p)
        /\ Cardinality(DOMAIN producers) \in Nat
    BY <1>1, <2>1, FS_Subset, FS_CardinalityType
  <2> QED BY <1>2, <1>3, <2>1, <2>2
<1>6. Cardinality(DOMAIN producers) \in Nat
  BY <1>1, FS_CardinalityType
<1> QED BY <1>1, <1>4, <1>5, <1>6

\* Different producers have different ranks.
LEMMA RanksDiffer ==
  ASSUME Producers, NEW p \in DOMAIN producers, NEW q \in DOMAIN producers
  PROVE  /\ Rank(p) = Rank(q) => p = q
         /\ Rank(p) < Rank(q) => Precedes(p, q)
<1>1. Rank(p) \in Int /\ Rank(q) \in Int
  BY RankIsPlace
<1> QED BY <1>1, PrecedesOrders, RankIsPlace

\* Every place up to the number of producers is taken.
LEMMA PlacesTaken ==
  ASSUME Producers, NEW i \in 1 .. Cardinality(DOMAIN producers)
  PROVE  \E p \in DOMAIN producers : Rank(p) = i
<1> DEFINE P == DOMAIN producers
           n == Cardinality(P)
           f == [p \in P |-> Rank(p)]
<1>1. IsFiniteSet(P) /\ n \in Nat
  BY NameAssumption, FS_Subset, FS_CardinalityType DEF Producers, IsTable
<1>2. f \in [P -> 1 .. n]
  BY RankIsPlace
<1>3. \A p, q \in P : f[p] = f[q] => p = q
  BY RanksDiffer
<1> HIDE DEF f
<1>4. f \in Injection(P, 1 .. n)
  BY <1>2, <1>3, Fun_IsInj
<1>5. IsFiniteSet(1 .. n) /\ Cardinality(1 .. n) = n
  BY <1>1, FS_Interval
<1>6. f \in Surjection(P, 1 .. n)
  BY <1>4, <1>5, FS_Injection
<1>7. \E p \in P : f[p] = i
  BY <1>6 DEF Surjection
<1> QED BY <1>7 DEF f

\* The elected are the first producers of the index, as many as their ranks say.
LEMMA ElectedRanks ==
  ASSUME Producers
  PROVE  /\ IsFiniteSet(Elected) /\ Cardinality(Elected) \in 0 .. MaxProducers
         /\ Cardinality(Elected) = 0 <=> Elected = {}
         /\ \A p \in Elected : Rank(p) \in 1 .. Cardinality(Elected)
         /\ \A i \in 1 .. Cardinality(Elected) : \E p \in Elected : Rank(p) = i
<1> DEFINE P == DOMAIN producers
           n == Cardinality(Elected)
           f == [p \in Elected |-> Rank(p)]
<1>1. Elected \subseteq P /\ MaxProducers \in Nat \ {0}
  BY VotingAssumption DEF Elected
<1>2. IsFiniteSet(P)
  BY NameAssumption, FS_Subset DEF Producers, IsTable
<1>3. IsFiniteSet(Elected) /\ n \in Nat /\ (n = 0 <=> Elected = {})
  BY <1>1, <1>2, FS_Subset, FS_CardinalityType, FS_EmptySet
<1>4. ASSUME NEW p \in Elected PROVE Rank(p) \in 1 .. n
  <2>1. Before(p) \subseteq Elected
    <3> SUFFICES ASSUME NEW q \in P, Precedes(q, p) PROVE q \in Elected
      BY DEF Before
    <3>1. Rank(q) <= MaxProducers
      <4>1. Rank(q) < Rank(p) /\ Rank(p) <= MaxProducers
        BY <1>1, RankIsPlace DEF Elected
      <4>2. Rank(q) \in Int /\ Rank(p) \in Int
        BY <1>1, RankIsPlace
      <4> QED BY <1>1, <4>1, <4>2
    <3>2. Eligible(q)
      BY DEF Elected
    <3>3. \A r \in P : Precedes(r, q) => Eligible(r)
      BY <1>1, PrecedesOrders DEF Elected
    <3> QED BY <3>1, <3>2, <3>3 DEF Elected
  <2>2. p \notin Before(p)
    BY <1>1, PrecedesOrders DEF Before
  <2>3. /\ Cardinality(Before(p)) <= n /\ Cardinality(Before(p)) \in Nat
        /\ n = Cardinality(Before(p)) => Elected = Before(p)
    BY <1>3, <2>1, FS_Subset, FS_CardinalityType
  <2>4. Rank(p) = 1 + Cardinality(Before(p))
    BY DEF Rank, Before
  <2> QED BY <1>3, <2>2, <2>3, <2>4
<1>5. f \in [Elected -> 1 .. n] /\ f \in [Elected -> 1 .. MaxProducers]
  <2>1. \A p \in Elected : Rank(p) <= MaxProducers
    BY DEF Elected
  <2> QED BY <1>1, <1>3, <1>4, <2>1
<1>6. \A p, q \in Elected : f[p] = f[q] => p = q
  BY <1>1, RanksDiffer
<1> HIDE DEF f
<1>7. f \in Injection(Elected, 1 .. n) /\ f \in Injection(Elected, 1 .. MaxProducers)
  BY <1>5, <1>6, Fun_IsInj
<1>8. /\ IsFiniteSet(1 .. n) /\ Cardinality(1 .. n) = n
      /\ IsFiniteSet(1 .. MaxProducers) /\ Cardinality(1 .. MaxProducers) = MaxProducers
  BY <1>1, <1>3, FS_Interval
<1>9. f \in Surjection(Elected, 1 .. n)
  BY <1>7, <1>8, FS_Injection
<1>10. n <= MaxProducers
  BY <1>7, <1>8, FS_Injection
<1>11. \A i \in 1 .. n : \E p \in Elected : f[p] = i
  BY <1>9 DEF Surjection
<1> QED BY <1>1, <1>3, <1>4, <1>10, <1>11 DEF f

\* The schedule lists the elected, each at its rank and with its key.
LEMMA TopProducersAre ==
  ASSUME Producers
  PROVE  /\ TopProducers \in Seq([producer_name : Name, key : Key])
         /\ Len(TopProducers) = Cardinality(Elected)
         /\ Scheduled(TopProducers) = Elected
         /\ \A i \in DOMAIN TopProducers :
               /\ TopProducers[i].producer_name \in Elected
               /\ TopProducers[i].key = producers[TopProducers[i].producer_name].producer_key
<1> DEFINE n == Cardinality(Elected)
           at(i) == CHOOSE p \in Elected : Rank(p) = i
<1>1. n \in Nat /\ \A i \in 1 .. n : at(i) \in Elected /\ Rank(at(i)) = i
  BY ElectedRanks, VotingAssumption
<1>2. \A p \in Elected : Rank(p) \in 1 .. n /\ p \in DOMAIN producers
  BY ElectedRanks DEF Elected
<1>3. \A p \in Elected : at(Rank(p)) = p
  BY <1>1, <1>2, RanksDiffer
<1>4. /\ \A p \in Elected : p \in Name /\ producers[p].producer_key \in Key
  BY <1>2 DEF Producers, IsTable, ProducerRow
<1> HIDE DEF at
<1>5. TopProducers = [i \in 1 .. n |-> [producer_name |-> at(i), key |-> producers[at(i)].producer_key]]
  BY DEF TopProducers, at
<1>6. TopProducers \in [1 .. n -> [producer_name : Name, key : Key]]
  BY <1>1, <1>4, <1>5
<1>7. TopProducers \in Seq([producer_name : Name, key : Key]) /\ Len(TopProducers) = n
  <2>1. ASSUME NEW S, NEW m \in Nat, NEW s \in [1 .. m -> S] PROVE s \in Seq(S) /\ Len(s) = m
    OBVIOUS
  <2> HIDE DEF n
  <2> QED BY <1>1, <1>6, <2>1
<1>8. Scheduled(TopProducers) = Elected
  BY <1>1, <1>2, <1>3, <1>5 DEF Scheduled
<1>9. \A i \in DOMAIN TopProducers :
         /\ TopProducers[i].producer_name \in Elected
         /\ TopProducers[i].key = producers[TopProducers[i].producer_name].producer_key
  BY <1>1, <1>5
<1> QED BY <1>7, <1>8, <1>9

-----------------------------------------------------------------------------
(* The schedule. *)

ScheduleInv ==
    /\ sinceUpdate \in 0 .. Period
    /\ lastScheduleSize \in 0 .. MaxProducers
    /\ proposed \in Seq([producer_name : Name, key : Key])
    /\ IF lastScheduleSize = 0 THEN proposed = FirstSchedule
       ELSE Len(proposed) = lastScheduleSize

\* onblock.
LEMMA BlockKeeps ==
  ASSUME BallotInv, ScheduleInv, NEW gap \in Nat, NEW accepted, OnBlock(gap, accepted)
  PROVE  BallotInv' /\ ScheduleInv'
<1>1. UNCHANGED ballotVars
  BY DEF OnBlock
<1>2. BallotInv'
  BY <1>1, BallotsSame
<1>3. Period \in Nat /\ Producers
  BY VotingAssumption DEF BallotInv, Producers
<1>4. CASE sinceUpdate + gap > Period
  <2>1. sinceUpdate' = 0 /\ sinceUpdate' \in 0 .. Period
    BY <1>3, <1>4 DEF OnBlock, UpdateElectedProducers
  <2>2. CASE Electable /\ accepted
    <3>1. proposed' = TopProducers /\ lastScheduleSize' = Cardinality(Elected)
      BY <1>4, <2>2 DEF OnBlock, UpdateElectedProducers
    <3>2. Elected # {}
      BY <2>2 DEF Electable
    <3> QED BY <1>2, <1>3, <2>1, <3>1, <3>2, TopProducersAre, ElectedRanks DEF ScheduleInv
  <2>3. CASE ~(Electable /\ accepted)
    <3>1. UNCHANGED <<proposed, lastScheduleSize>>
      BY <1>4, <2>3 DEF OnBlock, UpdateElectedProducers
    <3> QED BY <1>2, <2>1, <3>1 DEF ScheduleInv
  <2> QED BY <2>2, <2>3
<1>5. CASE ~(sinceUpdate + gap > Period)
  <2>1. sinceUpdate' = sinceUpdate + gap /\ UNCHANGED <<proposed, lastScheduleSize>>
    BY <1>5 DEF OnBlock
  <2> QED BY <1>2, <1>3, <1>5, <2>1 DEF ScheduleInv
<1> QED BY <1>4, <1>5

\* The tables and the schedule that an action for voting leaves alone.
LEMMA ScheduleSame ==
  ASSUME ScheduleInv, UNCHANGED scheduleVars
  PROVE  ScheduleInv'
BY DEF ScheduleInv, scheduleVars

\* A freshly installed contract.
LEMMA VotingInitKeeps ==
  ASSUME VotingInit
  PROVE  BallotInv /\ ScheduleInv
<1>1. /\ voters = NoRows /\ producers = NoRows /\ acntype = NoRows /\ DOMAIN NoRows = {}
      /\ IsTable(NoRows, Name, VoterRow) /\ IsTable(NoRows, Name, ProducerRow)
      /\ IsTable(NoRows, Name, Type)
  BY NoRowsTable DEF VotingInit
<1>2. VotesAreStakes /\ BallotsCounted /\ KeysSet
  BY <1>1 DEF VotesAreStakes, BallotsCounted, KeysSet
<1>3. ScheduleInv
  BY VotingAssumption DEF VotingInit, ScheduleInv
<1> QED BY <1>1, <1>2, <1>3, VotingAssumption DEF VotingInit, BallotInv

\* VotingTypeOK is what the two parts say, and that accounts have names.
LEMMA VotingTypes ==
  ASSUME existing \subseteq Name, BallotInv, ScheduleInv
  PROVE  VotingTypeOK
BY DEF VotingTypeOK, BallotInv, ScheduleInv

\* What an election that is accepted proposes; nothing else changes the schedule.
LEMMA BlockProposes ==
  ASSUME NEW gap, NEW accepted, OnBlock(gap, accepted), proposed' # proposed
  PROVE  proposed' = TopProducers /\ Electable /\ UNCHANGED producers
BY DEF OnBlock, UpdateElectedProducers, ballotVars

\* A schedule names no more producers than it has entries.
LEMMA ScheduledSize ==
  ASSUME NEW R, NEW s \in Seq(R)
  PROVE  Cardinality(Scheduled(s)) \in Nat /\ Cardinality(Scheduled(s)) <= Len(s)
<1> DEFINE f == [i \in 1 .. Len(s) |-> s[i].producer_name]
<1>1. Len(s) \in Nat /\ DOMAIN s = 1 .. Len(s)
  OBVIOUS
<1>2. f \in Surjection(1 .. Len(s), Scheduled(s))
  BY <1>1 DEF Surjection, Scheduled
<1>3. IsFiniteSet(1 .. Len(s)) /\ Cardinality(1 .. Len(s)) = Len(s)
  BY <1>1, FS_Interval
<1> HIDE DEF f
<1>4. IsFiniteSet(Scheduled(s)) /\ Cardinality(Scheduled(s)) <= Len(s)
  BY <1>2, <1>3, FS_Surjection
<1> QED BY <1>4, FS_CardinalityType

\* No step replaces an elected schedule by a shorter one.
LEMMA NeverShrinks ==
  ASSUME Producers, ScheduleInv, proposed # FirstSchedule,
         \/ proposed' = proposed
         \/ proposed' = TopProducers /\ Electable
  PROVE  Cardinality(Scheduled(proposed')) >= Cardinality(Scheduled(proposed))
<1>1. /\ proposed \in Seq([producer_name : Name, key : Key])
      /\ lastScheduleSize = Len(proposed)
  BY DEF ScheduleInv
<1>2. Cardinality(Scheduled(proposed)) \in Nat /\ Cardinality(Scheduled(proposed)) <= Len(proposed)
  BY <1>1, ScheduledSize
<1>3. CASE proposed' = proposed
  BY <1>2, <1>3
<1>4. CASE proposed' = TopProducers /\ Electable
  <2>1. Scheduled(proposed') = Elected /\ Cardinality(Elected) \in Nat
    BY <1>4, TopProducersAre, ElectedRanks, VotingAssumption
  <2>2. Cardinality(Elected) >= Len(proposed)
    BY <1>1, <1>4 DEF Electable
  <2>3. Len(proposed) \in Nat
    BY <1>1
  <2> QED BY <1>2, <2>1, <2>2, <2>3
<1> QED BY <1>3, <1>4

TotalsNatural == \A p \in DOMAIN producers : producers[p].total_vote_weight >= 0

\* Where no total is negative, every row that the index has before an eligible
\* one is eligible: the sign trick of by_votes.
LEMMA EligibleFirst ==
  ASSUME Producers, TotalsNatural, NEW p \in DOMAIN producers, NEW q \in DOMAIN producers,
         Eligible(q), Precedes(p, q)
  PROVE  Eligible(p) /\ producers[p].total_vote_weight >= producers[q].total_vote_weight
<1>1. /\ producers[p].total_vote_weight \in Int /\ producers[q].total_vote_weight \in Int
      /\ producers[p].total_vote_weight >= 0
  BY DEF Producers, IsTable, ProducerRow, TotalsNatural
<1>2. ByVotes(p) <= ByVotes(q) /\ ByVotes(q) = -producers[q].total_vote_weight
  BY <1>1 DEF Precedes, ByVotes, Eligible
<1> QED BY <1>1, <1>2 DEF ByVotes, Eligible

\* A schedule that is proposed has the best of the producers.
LEMMA BestScheduled ==
  ASSUME BallotInv, TotalsNatural, proposed' = TopProducers, UNCHANGED producers
  PROVE  BestAreScheduled
<1>1. Producers /\ MaxProducers \in Nat \ {0}
  BY VotingAssumption DEF BallotInv, Producers
<1>2. /\ Scheduled(proposed') = Elected
      /\ \A i \in DOMAIN proposed' :
            /\ proposed'[i].producer_name \in Elected
            /\ proposed'[i].key = producers[proposed'[i].producer_name].producer_key
  BY <1>1, TopProducersAre
<1>3. \A p \in Elected : p \in DOMAIN producers /\ producers[p].is_active
  BY DEF Elected, Eligible
<1>4. \A p \in Elected : producers[p].producer_key # NoKey
  BY <1>3 DEF BallotInv, KeysSet
<1>5. ASSUME NEW q \in DOMAIN producers, q \notin Elected, Eligible(q)
      PROVE  /\ Cardinality(Elected) = MaxProducers
             /\ \A p \in Elected :
                   producers[p].total_vote_weight >= producers[q].total_vote_weight
  <2>1. \A r \in DOMAIN producers : Precedes(r, q) => Eligible(r)
    BY <1>1, <1>5, EligibleFirst
  <2>2. Rank(q) \in 1 .. Cardinality(DOMAIN producers) /\ Cardinality(DOMAIN producers) \in Nat
    BY <1>1, RankIsPlace
  <2>3. Rank(q) > MaxProducers
    BY <1>1, <1>5, <2>1, <2>2 DEF Elected
  <2>4. MaxProducers \in 1 .. Cardinality(DOMAIN producers)
    BY <1>1, <2>2, <2>3
  <2>5. PICK p \in DOMAIN producers : Rank(p) = MaxProducers
    BY <1>1, <2>4, PlacesTaken
  <2>6. Precedes(p, q)
    BY <1>1, <2>3, <2>5, RanksDiffer
  <2>7. Eligible(p) /\ \A r \in DOMAIN producers : Precedes(r, p) => Eligible(r)
    BY <1>1, <2>1, <2>6, PrecedesOrders
  <2>8. p \in Elected
    BY <1>1, <2>5, <2>7 DEF Elected
  <2>9. MaxProducers \in 1 .. Cardinality(Elected) /\ Cardinality(Elected) \in 0 .. MaxProducers
    BY <1>1, <2>5, <2>8, ElectedRanks
  <2>10. ASSUME NEW r \in Elected
         PROVE  producers[r].total_vote_weight >= producers[q].total_vote_weight
    <3>1. r \in DOMAIN producers /\ Rank(r) <= MaxProducers
      BY DEF Elected
    <3>2. Rank(r) \in Int
      BY <1>1, <3>1, RankIsPlace
    <3>3. Precedes(r, q)
      BY <1>1, <2>2, <2>3, <3>1, <3>2, RanksDiffer
    <3> QED BY <1>1, <1>5, <3>1, <3>3, EligibleFirst
  <2> QED BY <1>1, <2>9, <2>10
<1> QED BY <1>2, <1>3, <1>4, <1>5 DEF BestAreScheduled, Eligible

-----------------------------------------------------------------------------
(* Totals. *)

\* A total that fits is not wrapped.
LEMMA NoWrap ==
  ASSUME NEW n \in Nat, n < Int64Limit
  PROVE  AsInt64(n) = n
<1>1. Int64Limit \in Nat /\ n + Int64Limit \in Nat /\ n + Int64Limit < 2 * Int64Limit
  BY VotingAssumption
<1>2. \A a, b \in Nat : a < b => a % b = a
  OBVIOUS
<1>3. 2 * Int64Limit \in Nat
  BY <1>1
<1>4. (n + Int64Limit) % (2 * Int64Limit) = n + Int64Limit
  BY <1>1, <1>2, <1>3
<1> QED BY <1>1, <1>4 DEF AsInt64

\* The votes of p under any weights fit an int64.
FitsInt64(p) ==
    \A c, g \in VoteWeight :
        producers[p].company_votes * c + producers[p].government_votes * g < Int64Limit

\* A recount with votes that fit explains the totals of the rows it touches.
LEMMA RecountExplains ==
  ASSUME BallotInv, BallotInv', TotalsExplained, UNCHANGED vwstate,
         NEW type, NEW old, NEW oldStaked, NEW new, NEW newStaked,
         producers' = UpdateProducersVotes(type, old, oldStaked, new, newStaked),
         \A p \in DOMAIN producers' : FitsInt64(p)'
  PROVE  TotalsExplained'
<1> SUFFICES ASSUME NEW p \in DOMAIN producers
             PROVE  \E c, g \in VoteWeight :
                      producers'[p].total_vote_weight =
                         producers'[p].company_votes * c + producers'[p].government_votes * g
  BY DEF TotalsExplained, UpdateProducersVotes
<1>1. CASE p \notin Touched(old, oldStaked, new, newStaked)
  <2>1. producers'[p] = producers[p]
    BY <1>1 DEF UpdateProducersVotes
  <2> QED BY <2>1 DEF TotalsExplained
<1>2. CASE p \in Touched(old, oldStaked, new, newStaked)
  <2> DEFINE cw == vwstate.company_weight
             gw == vwstate.government_weight
             c == producers'[p].company_votes
             g == producers'[p].government_votes
  <2>1. producers[p] \in ProducerRow
    BY DEF BallotInv, IsTable
  <2>2. producers'[p].total_vote_weight = TotalWeight(c, g)
    BY <1>2, <2>1 DEF UpdateProducersVotes, ProducerRow
  <2>3. p \in DOMAIN producers' /\ producers'[p] \in ProducerRow
    BY DEF BallotInv, IsTable, UpdateProducersVotes
  <2>4. cw \in VoteWeight /\ gw \in VoteWeight /\ cw \in Nat /\ gw \in Nat
    BY VotingAssumption DEF BallotInv
  <2>5. c \in Nat /\ g \in Nat
    BY <2>3 DEF ProducerRow
  <2>6. c * cw + g * gw < Int64Limit
    BY <2>3, <2>4 DEF FitsInt64
  <2> HIDE DEF c, g
  <2>7. TotalWeight(c, g) = AsInt64(g * gw + c * cw)
    BY DEF TotalWeight
  <2> HIDE DEF cw, gw
  <2>8. g * gw \in Nat /\ c * cw \in Nat
    BY <2>4, <2>5
  <2>9. g * gw + c * cw \in Nat /\ g * gw + c * cw < Int64Limit /\ g * gw + c * cw = c * cw + g * gw
    BY <2>6, <2>8
  <2>10. TotalWeight(c, g) = c * cw + g * gw
    BY <2>7, <2>9, NoWrap
  <2> QED BY <2>2, <2>4, <2>10 DEF c, g
<1> QED BY <1>1, <1>2

\* Rows that keep their votes and their total stay explained.
LEMMA KeptExplained ==
  ASSUME TotalsExplained,
         \A p \in DOMAIN producers' :
            \/ /\ p \in DOMAIN producers
               /\ producers'[p].company_votes = producers[p].company_votes
               /\ producers'[p].government_votes = producers[p].government_votes
               /\ producers'[p].total_vote_weight = producers[p].total_vote_weight
            \/ /\ producers'[p].company_votes = 0 /\ producers'[p].government_votes = 0
               /\ producers'[p].total_vote_weight = 0
  PROVE  TotalsExplained'
<1>1. BaseWeight \in VoteWeight /\ BaseWeight \in Nat
  BY VotingAssumption
<1>2. 0 * BaseWeight + 0 * BaseWeight = 0
  BY <1>1
<1> QED BY <1>1, <1>2 DEF TotalsExplained

\* Votes that no more than k units of stake cast fit, if k of them do under any
\* weight.
LEMMA FewVotesFit ==
  ASSUME BallotInv, NEW p \in DOMAIN producers, NEW k \in Nat,
         producers[p].company_votes + producers[p].government_votes <= k,
         \A w \in VoteWeight : k * w < Int64Limit
  PROVE  FitsInt64(p)
<1> SUFFICES ASSUME NEW c \in VoteWeight, NEW g \in VoteWeight
             PROVE  producers[p].company_votes * c + producers[p].government_votes * g < Int64Limit
  BY DEF FitsInt64
<1> DEFINE a == producers[p].company_votes
           b == producers[p].government_votes
           w == IF c <= g THEN g ELSE c
<1>1. a + b <= k
  OBVIOUS
<1>2. a \in Nat /\ b \in Nat
  BY DEF BallotInv, IsTable, ProducerRow
<1>3. c \in Nat /\ g \in Nat /\ w \in VoteWeight /\ w \in Nat /\ c <= w /\ g <= w
  BY VotingAssumption
<1>4. k * w < Int64Limit /\ Int64Limit \in Nat
  BY <1>3, VotingAssumption
<1> HIDE DEF a, b, w
<1>5. \A x, y, z \in Nat : y <= z => x * y <= x * z /\ y * x <= z * x
  OBVIOUS
<1>6. a * c <= a * w /\ b * g <= b * w /\ (a + b) * w <= k * w
  BY <1>1, <1>2, <1>3, <1>5
<1>7. (a + b) * w = a * w + b * w
  BY <1>2, <1>3
<1>8. /\ a * c \in Nat /\ b * g \in Nat /\ a * w \in Nat /\ b * w \in Nat /\ k * w \in Nat
  BY <1>2, <1>3
<1>9. a * c + b * g < Int64Limit
  BY <1>4, <1>6, <1>7, <1>8
<1> QED BY <1>9 DEF a, b

AllFit == \A p \in DOMAIN producers : FitsInt64(p)

\* A registration starts with no votes or keeps them.
LEMMA RegisterExplains ==
  ASSUME BallotInv, TotalsExplained, NEW auth, NEW producer, NEW producer_key,
         RegProducer(auth, producer, producer_key)
  PROVE  TotalsExplained'
<1> DEFINE row == RowOr(producers, producer, NewProducer)
           new == [row EXCEPT !.producer_key = producer_key, !.is_active = TRUE]
<1>1. producers' = Put(producers, producer, new)
  BY DEF RegProducer
<1>2. \A p \in DOMAIN producers : producers[p] \in ProducerRow
  BY DEF BallotInv, IsTable
<1>3. /\ new.company_votes = row.company_votes /\ new.government_votes = row.government_votes
      /\ new.total_vote_weight = row.total_vote_weight
  BY <1>2 DEF RowOr, NewProducer, ProducerRow
<1>4. row = IF producer \in DOMAIN producers THEN producers[producer] ELSE NewProducer
  BY DEF RowOr
<1> HIDE DEF row, new
<1> QED BY <1>1, <1>3, <1>4, KeptExplained DEF Put, NewProducer

\* A producer that is deactivated keeps its votes.
LEMMA DeactivateExplains ==
  ASSUME BallotInv, BallotInv', TotalsExplained, NEW producer, Deactivate(producer)
  PROVE  TotalsExplained'
<1>1. /\ producer \in DOMAIN producers
      /\ producers' = [producers EXCEPT ![producer].producer_key = NoKey,
                                        ![producer].is_active = FALSE]
  BY DEF Deactivate
<1>2. /\ DOMAIN producers' = DOMAIN producers
      /\ \A p \in DOMAIN producers : p # producer => producers'[p] = producers[p]
  BY <1>1 DEF BallotInv, IsTable
<1>3. producers[producer] \in ProducerRow
  BY <1>1 DEF BallotInv, IsTable
<1>4. /\ producers'[producer].company_votes = producers[producer].company_votes
      /\ producers'[producer].government_votes = producers[producer].government_votes
      /\ producers'[producer].total_vote_weight = producers[producer].total_vote_weight
  BY <1>1, <1>3 DEF BallotInv, IsTable, ProducerRow
<1> QED BY <1>2, <1>4, KeptExplained

\* A change of stake recounts the ballot, or leaves the producers alone.
LEMMA StakeExplains ==
  ASSUME BallotInv, BallotInv', TotalsExplained, AllFit', NEW v, NEW update,
         UpdateVotingPower(v, update)
  PROVE  TotalsExplained'
<1>1. CASE UNCHANGED producers
  BY <1>1, KeptExplained
<1>2. CASE ~UNCHANGED producers
  BY <1>2, RecountExplains DEF UpdateVotingPower, AllFit
<1> QED BY <1>1, <1>2

\* Voting recounts both ballots.
LEMMA VoteExplains ==
  ASSUME BallotInv, BallotInv', TotalsExplained, AllFit', NEW auth, NEW v, NEW ballot,
         VoteProducer(auth, v, ballot)
  PROVE  TotalsExplained'
BY RecountExplains DEF VoteProducer, AllFit

\* Explained totals are natural.
LEMMA ExplainedNatural ==
  ASSUME Producers, TotalsExplained
  PROVE  TotalsNatural
<1> SUFFICES ASSUME NEW p \in DOMAIN producers PROVE producers[p].total_vote_weight >= 0
  BY DEF TotalsNatural
<1>1. PICK c \in VoteWeight, g \in VoteWeight :
        producers[p].total_vote_weight =
           producers[p].company_votes * c + producers[p].government_votes * g
  BY DEF TotalsExplained
<1>2. producers[p].company_votes \in Nat /\ producers[p].government_votes \in Nat
  BY DEF Producers, IsTable, ProducerRow
<1>3. c \in Nat /\ g \in Nat
  BY VotingAssumption
<1>4. \A a, b \in Nat : a * b \in Nat
  OBVIOUS
<1>5. producers[p].company_votes * c \in Nat /\ producers[p].government_votes * g \in Nat
  BY <1>2, <1>3, <1>4
<1> QED BY <1>1, <1>5
=============================================================================
