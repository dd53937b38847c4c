----------------------- MODULE VotingWithStakesProofs -----------------------
(***************************************************************************)
(* The voting component with stakes that change by any amount: its tables, *)
(* its votes and its schedules, in every reachable state.  What needs the  *)
(* totals to fit an int64 (that they are explained by today's votes, and   *)
(* that elections are fair) has TotalsFit as its hypothesis.               *)
(***************************************************************************)
EXTENDS VotingWithStakes, EosioVotingProofs

VotingInv == existing \subseteq Name /\ BallotInv /\ ScheduleInv

\* The invariant holds when the contract is installed.
LEMMA VotingInitInv == Init => VotingInv
BY VotingInitKeeps, VotingAssumption, BoundAssumption DEF Init, VotingInv

\* An account's own steps keep the invariant.
LEMMA VoterStepInv ==
  ASSUME VotingInv, NEW auth, NEW c \in Candidate, NEW ballot \in SUBSET Candidate,
         VoterStep(auth, c, ballot)
  PROVE  VotingInv'
<1>1. c \in Name /\ ballot \in SUBSET Name
  BY BoundAssumption
<1>2. ASSUME NEW k \in Key, RegProducer(auth, c, k) PROVE VotingInv'
  <2>1. BallotInv'
    BY <1>1, <1>2, RegisterKeeps DEF VotingInv
  <2>2. UNCHANGED <<existing, scheduleVars>>
    BY <1>2 DEF RegProducer
  <2> QED BY <2>1, <2>2, ScheduleSame DEF VotingInv
<1>3. CASE UnregProd(auth, c)
  <2>1. BallotInv'
    BY <1>3, DeactivateKeeps DEF VotingInv, UnregProd
  <2>2. UNCHANGED <<existing, scheduleVars>>
    BY <1>3 DEF UnregProd, Deactivate
  <2> QED BY <2>1, <2>2, ScheduleSame DEF VotingInv
<1>4. ASSUME NEW v \in Name, VoteProducer(auth, v, ballot) PROVE VotingInv'
  <2>1. BallotInv'
    BY <1>1, <1>4, VoteKeeps DEF VotingInv
  <2>2. UNCHANGED <<existing, scheduleVars>>
    BY <1>4 DEF VoteProducer
  <2> QED BY <2>1, <2>2, ScheduleSame DEF VotingInv
<1> QED BY <1>2, <1>3, <1>4 DEF VoterStep

\* So does every step.
LEMMA VotingNextInv == VotingInv /\ [Next]_votingVars => VotingInv'
<1> SUFFICES ASSUME VotingInv, [Next]_votingVars PROVE VotingInv'
  OBVIOUS
<1>1. ASSUME NEW n, NEW c \in Candidate, NEW ballot \in SUBSET Candidate,
             VoterStep({n}, c, ballot)
      PROVE  VotingInv'
  BY <1>1, VoterStepInv
<1>2. ASSUME NEW p \in Candidate, RmvProducer({SystemSelf}, p) PROVE VotingInv'
  <2>1. BallotInv'
    BY <1>2, DeactivateKeeps DEF VotingInv, RmvProducer
  <2>2. UNCHANGED <<existing, scheduleVars>>
    BY <1>2 DEF RmvProducer, Deactivate
  <2> QED BY <2>1, <2>2, ScheduleSame DEF VotingInv
<1>3. ASSUME NEW c \in VoteWeight, NEW g \in VoteWeight, SetVWeight({SystemSelf}, c, g)
      PROVE  VotingInv'
  <2>1. BallotInv'
    BY <1>3, WeightKeeps DEF VotingInv
  <2>2. UNCHANGED <<existing, scheduleVars>>
    BY <1>3 DEF SetVWeight
  <2> QED BY <2>1, <2>2, ScheduleSame DEF VotingInv
<1>4. ASSUME NEW n \in Voter, NEW t \in Type, SetAcnType({AdminAccount}, n, t)
      PROVE  VotingInv'
  <2>1. BallotInv'
    BY <1>4, BoundAssumption, AcnTypeKeeps DEF VotingInv
  <2>2. UNCHANGED <<existing, scheduleVars>>
    BY <1>4 DEF SetAcnType
  <2> QED BY <2>1, <2>2, ScheduleSame DEF VotingInv
<1>5. ASSUME NEW v \in Voter, NEW update \in (-MaxStake .. MaxStake) \ {0}, ChangeStake(v, update)
      PROVE  VotingInv'
  <2>1. update \in Int /\ v \in Name
    BY BoundAssumption
  <2>2. BallotInv'
    BY <1>5, <2>1, StakeKeeps DEF VotingInv, ChangeStake
  <2>3. UNCHANGED <<existing, scheduleVars>>
    BY <1>5 DEF ChangeStake, UpdateVotingPower
  <2> QED BY <2>2, <2>3, ScheduleSame DEF VotingInv
<1>6. CASE ABlock
  <2>1. PICK gap \in 1 .. Period + 1, accepted \in BOOLEAN : OnBlock(gap, accepted)
    BY <1>6 DEF ABlock
  <2>2. gap \in Nat
    BY VotingAssumption
  <2>3. UNCHANGED existing
    BY <2>1 DEF OnBlock
  <2> QED BY <2>1, <2>2, <2>3, BlockKeeps DEF VotingInv
<1>7. CASE UNCHANGED votingVars
  BY <1>7, BallotsSame, ScheduleSame DEF VotingInv, votingVars
<1> QED BY <1>1, <1>2, <1>3, <1>4, <1>5, <1>6, <1>7 DEF Next, Vote

\* The tables of voting are well formed in every reachable state, and no count
\* of votes is ever negative.
THEOREM VotingTypeCorrect == Spec => []VotingTypeOK
<1>1. VotingInv => VotingTypeOK
  BY VotingTypes DEF VotingInv
<1> QED BY VotingInitInv, VotingNextInv, <1>1, PTL DEF Spec

\* The votes of every producer are the stakes that back it.
THEOREM VotesStayStakes == Spec => []VotesAreStakes
<1>1. VotingInv => VotesAreStakes
  BY DEF VotingInv, BallotInv
<1> QED BY VotingInitInv, VotingNextInv, <1>1, PTL DEF Spec

\* Only typed accounts have ballots, and a ballot with stake behind it names
\* producers.
THEOREM BallotsStayCounted == Spec => []BallotsCounted
<1>1. VotingInv => BallotsCounted
  BY DEF VotingInv, BallotInv
<1> QED BY VotingInitInv, VotingNextInv, <1>1, PTL DEF Spec

-----------------------------------------------------------------------------
(* Schedules. *)

\* Only a block changes the schedule.
LEMMA StepProposes ==
  ASSUME [Next]_votingVars, proposed' # proposed
  PROVE  proposed' = TopProducers /\ Electable /\ UNCHANGED <<producers, voters>>
<1>1. ~Vote
  BY DEF Vote, VoterStep, RegProducer, UnregProd, RmvProducer, Deactivate, VoteProducer,
         SetVWeight, SetAcnType, ChangeStake, UpdateVotingPower, scheduleVars
<1>2. ABlock
  BY <1>1 DEF Next, votingVars, scheduleVars
<1>3. PICK gap, accepted : OnBlock(gap, accepted)
  BY <1>2 DEF ABlock
<1>4. UNCHANGED voters
  BY <1>3 DEF OnBlock, ballotVars
<1> QED BY <1>3, <1>4, BlockProposes

\* No elected schedule is replaced by a shorter one.
THEOREM SchedulesGrow == Spec => SchedulesNeverShrink
<1> DEFINE Longer == proposed # FirstSchedule =>
                        Cardinality(Scheduled(proposed')) >= Cardinality(Scheduled(proposed))
<1>1. VotingInv /\ [Next]_votingVars => [Longer]_votingVars
  <2> SUFFICES ASSUME VotingInv, [Next]_votingVars, proposed # FirstSchedule
               PROVE  Cardinality(Scheduled(proposed')) >= Cardinality(Scheduled(proposed))
    OBVIOUS
  <2>1. Producers /\ ScheduleInv
    BY DEF VotingInv, BallotInv, Producers
  <2>2. proposed' # proposed => proposed' = TopProducers /\ Electable
    BY StepProposes
  <2> QED BY <2>1, <2>2, NeverShrinks
<1> QED BY VotingInitInv, VotingNextInv, <1>1, PTL DEF Spec, SchedulesNeverShrink, Longer

-----------------------------------------------------------------------------
(* Totals. *)

\* All stakes together, times the largest weight, are less than 2^63: what the
\* code relies on when it adds up weights in an int64.
TotalsFit == \A w \in VoteWeight : (Cardinality(Voter) * MaxStake) * w < Int64Limit

StakesBounded == \A v \in DOMAIN voters : v \in Voter /\ voters[v].staked <= MaxStake

\* The votes of a producer, of both kinds, are stakes of different voters.
LEMMA VotesBounded ==
  ASSUME BallotInv, StakesBounded, NEW p \in DOMAIN producers
  PROVE  producers[p].company_votes + producers[p].government_votes
            <= Cardinality(Voter) * MaxStake
<1> DEFINE f == BackedBy(voters, acntype, p, "company")
           g == BackedBy(voters, acntype, p, "government")
<1>1. /\ producers[p].company_votes = SumOver(f)
      /\ producers[p].government_votes = SumOver(g)
  BY VotesAre DEF BallotInv, VotesOf
<1>2. IsTable(voters, Name, VoterRow)
  BY DEF BallotInv
<1>3. f \in [Name -> Nat] /\ g \in [Name -> Nat]
  BY <1>2, BackedByNat
<1>4. \A v \in Name : f[v] # 0 => g[v] = 0
  BY DEF BackedBy
<1>5. \A v \in Name : /\ f[v] # 0 => v \in Voter /\ f[v] <= MaxStake
                      /\ g[v] # 0 => v \in Voter /\ g[v] <= MaxStake
  BY DEF BackedBy, StakesBounded
<1> HIDE DEF f, g
<1>6. IsFiniteSet(Units(f)) /\ IsFiniteSet(Units(g))
  BY <1>3, NameAssumption, UnitsFinite DEF Units
<1>7. Units(f) \cap Units(g) = {}
  <2> SUFFICES ASSUME NEW x \in Name, NEW y \in Name, NEW i \in 1 .. f[x], NEW j \in 1 .. g[y],
                      <<x, i>> = <<y, j>>
               PROVE  FALSE
    BY <1>3 DEF Units, UnitsOf
  <2>1. f[x] # 0 /\ g[x] # 0
    BY <1>3
  <2> QED BY <1>4, <2>1
<1>8. Units(f) \cup Units(g) \subseteq Voter \X (1 .. MaxStake)
  <2>1. MaxStake \in Nat
    BY BoundAssumption
  <2>2. ASSUME NEW h \in [Name -> Nat],
               \A v \in Name : h[v] # 0 => v \in Voter /\ h[v] <= MaxStake
        PROVE  Units(h) \subseteq Voter \X (1 .. MaxStake)
    <3> SUFFICES ASSUME NEW x \in Name, NEW i \in 1 .. h[x]
                 PROVE  x \in Voter /\ i \in 1 .. MaxStake
      BY <2>2 DEF Units, UnitsOf
    <3> QED BY <2>1, <2>2
  <2> QED BY <1>3, <1>5, <2>2
<1>9. IsFiniteSet(Voter) /\ MaxStake \in Nat
  BY NameAssumption, BoundAssumption, FS_Subset
<1>10. IsFiniteSet(1 .. MaxStake) /\ Cardinality(1 .. MaxStake) = MaxStake
  BY <1>9, FS_Interval
<1>11. /\ IsFiniteSet(Voter \X (1 .. MaxStake))
       /\ Cardinality(Voter \X (1 .. MaxStake)) = Cardinality(Voter) * MaxStake
  BY <1>9, <1>10, FS_Product
<1>12. Cardinality(Units(f) \cup Units(g)) <= Cardinality(Voter) * MaxStake
  BY <1>8, <1>11, FS_Subset
<1>13. Cardinality(Units(f) \cup Units(g)) =
          Cardinality(Units(f)) + Cardinality(Units(g)) - Cardinality(Units(f) \cap Units(g))
  BY <1>6, FS_Union
<1>14. Cardinality(Units(f) \cap Units(g)) = 0
  BY <1>7, FS_EmptySet
<1>15. Cardinality(Units(f)) \in Nat /\ Cardinality(Units(g)) \in Nat
  BY <1>6, FS_CardinalityType
<1> QED BY <1>1, <1>12, <1>13, <1>14, <1>15 DEF SumOver

\* So they fit an int64 under any weights.
LEMMA VotesFit ==
  ASSUME TotalsFit, BallotInv, StakesBounded, NEW p \in DOMAIN producers
  PROVE  FitsInt64(p)
<1> DEFINE k == Cardinality(Voter) * MaxStake
<1>1. Cardinality(Voter) \in Nat /\ MaxStake \in Nat
  BY NameAssumption, BoundAssumption, FS_Subset, FS_CardinalityType
<1>2. k \in Nat
  BY <1>1
<1>3. /\ producers[p].company_votes + producers[p].government_votes <= k
      /\ \A w \in VoteWeight : k * w < Int64Limit
  BY VotesBounded DEF TotalsFit
<1> HIDE DEF k
<1> QED BY <1>2, <1>3, FewVotesFit

TotalsInv == VotingInv /\ StakesBounded /\ TotalsExplained

\* No step lets a stake grow beyond MaxStake or gives one to anybody else.
LEMMA StakesStayBounded ==
  ASSUME VotingInv, StakesBounded, [Next]_votingVars
  PROVE  StakesBounded'
<1>1. ASSUME NEW v \in Voter, NEW update, ChangeStake(v, update) PROVE StakesBounded'
  <2> DEFINE row == RowOr(voters, v, [staked |-> 0, producers |-> {}])
  <2>1. row.staked + update <= MaxStake
    BY <1>1 DEF ChangeStake, RowOr
  <2>2. voters' = Put(voters, v, [row EXCEPT !.staked = row.staked + update])
    BY <1>1 DEF ChangeStake, UpdateVotingPower
  <2>3. row \in VoterRow
    BY DEF VotingInv, BallotInv, RowOr, IsTable, VoterRow
  <2> HIDE DEF row
  <2>4. /\ voters'[v].staked = row.staked + update
        /\ DOMAIN voters' = DOMAIN voters \cup {v}
        /\ \A w \in DOMAIN voters \ {v} : voters'[w] = voters[w]
    BY <2>2, <2>3 DEF Put, VoterRow
  <2> QED BY <2>1, <2>4 DEF StakesBounded
<1>2. ASSUME NEW auth, NEW v, NEW ballot, VoteProducer(auth, v, ballot) PROVE StakesBounded'
  <2>1. v \in DOMAIN voters /\ voters' = [voters EXCEPT ![v].producers = ballot]
    BY <1>2 DEF VoteProducer, VoteProducerOK
  <2>2. \A w \in DOMAIN voters : voters[w] \in VoterRow
    BY DEF VotingInv, BallotInv, IsTable
  <2>3. DOMAIN voters' = DOMAIN voters /\ \A w \in DOMAIN voters : voters'[w].staked = voters[w].staked
    BY <2>1, <2>2 DEF VoterRow
  <2> QED BY <2>3 DEF StakesBounded
<1>3. CASE UNCHANGED voters
  BY <1>3 DEF StakesBounded
<1> QED BY <1>1, <1>2, <1>3
        DEF Next, Vote, VoterStep, RegProducer, UnregProd, RmvProducer, Deactivate, SetVWeight,
            SetAcnType, ABlock, OnBlock, votingVars, ballotVars

\* All votes fit, in a state of the invariant.
LEMMA AllVotesFit == TotalsFit => (BallotInv /\ StakesBounded => AllFit)
BY VotesFit DEF AllFit

\* The same of the state a step leads to.
LEMMA AllVotesFitNext == TotalsFit => ((BallotInv /\ StakesBounded)' => AllFit')
<1> SUFFICES ASSUME TotalsFit PROVE (BallotInv /\ StakesBounded)' => AllFit'
  OBVIOUS
<1>1. BallotInv /\ StakesBounded => AllFit
  BY AllVotesFit
<1> QED BY <1>1, PTL

\* While they fit, the totals stay explained: by the weights of the last recount.
LEMMA TotalsStayExplained ==
  ASSUME TotalsFit, TotalsInv, [Next]_votingVars
  PROVE  TotalsInv'
<1>1. BallotInv /\ BallotInv' /\ StakesBounded' /\ VotingInv' /\ TotalsExplained
  BY VotingNextInv, StakesStayBounded DEF TotalsInv, VotingInv
<1>2. AllFit'
  BY <1>1, AllVotesFitNext
<1>3. ASSUME NEW auth, NEW v, NEW ballot, VoteProducer(auth, v, ballot) PROVE TotalsExplained'
  BY <1>1, <1>2, <1>3, VoteExplains
<1>4. ASSUME NEW v, NEW update, UpdateVotingPower(v, update) PROVE TotalsExplained'
  BY <1>1, <1>2, <1>4, StakeExplains
<1>5. ASSUME NEW auth, NEW producer, NEW producer_key, RegProducer(auth, producer, producer_key)
      PROVE  TotalsExplained'
  BY <1>1, <1>5, RegisterExplains
<1>6. ASSUME NEW producer, Deactivate(producer) PROVE TotalsExplained'
  BY <1>1, <1>6, DeactivateExplains
<1>7. ASSUME UNCHANGED producers PROVE TotalsExplained'
  BY <1>1, <1>7 DEF TotalsExplained
<1>8. ASSUME NEW auth, NEW c, NEW ballot, VoterStep(auth, c, ballot) PROVE TotalsExplained'
  BY <1>3, <1>5, <1>6, <1>8 DEF VoterStep, UnregProd
<1>9. ASSUME Vote PROVE TotalsExplained'
  <2>1. ASSUME NEW p, RmvProducer({SystemSelf}, p) PROVE TotalsExplained'
    BY <1>6, <2>1 DEF RmvProducer
  <2>2. ASSUME NEW v, NEW update, ChangeStake(v, update) PROVE TotalsExplained'
    BY <1>4, <2>2 DEF ChangeStake
  <2>3. ASSUME NEW c, NEW g, SetVWeight({SystemSelf}, c, g) PROVE TotalsExplained'
    BY <1>7, <2>3 DEF SetVWeight
  <2>4. ASSUME NEW n, NEW t, SetAcnType({AdminAccount}, n, t) PROVE TotalsExplained'
    BY <1>7, <2>4 DEF SetAcnType
  <2> QED BY <1>8, <1>9, <2>1, <2>2, <2>3, <2>4 DEF Vote
<1>10. ASSUME ABlock \/ UNCHANGED votingVars PROVE TotalsExplained'
  BY <1>7, <1>10 DEF ABlock, OnBlock, votingVars, ballotVars
<1>11. TotalsExplained'
  BY <1>9, <1>10 DEF Next
<1> QED BY <1>1, <1>11 DEF TotalsInv

\* It starts with no totals.
LEMMA TotalsInitInv == Init => TotalsInv
<1> SUFFICES ASSUME Init PROVE TotalsInv
  OBVIOUS
<1>1. DOMAIN voters = {} /\ DOMAIN producers = {}
  BY NoRowsTable DEF Init, VotingInit
<1> QED BY <1>1, VotingInitInv DEF TotalsInv, StakesBounded, TotalsExplained

\* Every total is that of today's votes under weights that setvweight allows, as
\* long as the totals fit.
THEOREM TotalsStayRight ==
  ASSUME TotalsFit
  PROVE  Spec => []TotalsExplained
<1>1. TotalsInv /\ [Next]_votingVars => TotalsInv'
  BY TotalsStayExplained
<1>2. TotalsInv => TotalsExplained
  BY DEF TotalsInv
<1> QED BY TotalsInitInv, <1>1, <1>2, PTL DEF Spec

\* A new schedule has the best producers, with their keys, as long as the totals
\* fit.
THEOREM FairElections ==
  ASSUME TotalsFit
  PROVE  Spec => ElectionsAreFair
<1>1. TotalsInv /\ [Next]_votingVars => TotalsInv'
  BY TotalsStayExplained
<1>2. TotalsInv /\ [Next]_votingVars => [BestAreScheduled]_votingVars
  <2> SUFFICES ASSUME TotalsInv, [Next]_votingVars PROVE BestAreScheduled
    OBVIOUS
  <2>1. CASE proposed' = proposed
    BY <2>1 DEF BestAreScheduled
  <2>2. CASE proposed' # proposed
    <3>1. proposed' = TopProducers /\ UNCHANGED producers
      BY <2>2, StepProposes
    <3>2. TotalsNatural
      BY ExplainedNatural DEF TotalsInv, VotingInv, BallotInv, Producers
    <3> QED BY <3>1, <3>2, BestScheduled DEF TotalsInv, VotingInv
  <2> QED BY <2>1, <2>2
<1> QED BY TotalsInitInv, <1>1, <1>2, PTL DEF Spec, ElectionsAreFair
=============================================================================
