---------------------------- MODULE EosioVoting ----------------------------
(***************************************************************************)
(* The voting half of eosio.system: producers register, typed accounts     *)
(* vote for them with their stake, and onblock proposes the best of them   *)
(* as the block-producer schedule.                                         *)
(*                                                                         *)
(* A ballot (voter_info::producers) is a set: the code only accepts        *)
(* strictly sorted lists and never depends on their order.  A total weight *)
(* is computed in int64 and wraps there; that the code then keeps it as a  *)
(* double, exact up to 2^53, is left out.                                  *)
(***************************************************************************)
EXTENDS ChainAccounts, Sequences

CONSTANTS
    SystemSelf,       \* get_self() of the system contract
    AdminAccount,     \* admin_account
    NameValue,        \* name.value, the order of table rows
    Key, NoKey,       \* public keys, and the default one
    VoteWeight,       \* the weights setvweight accepts, 100 .. 1000
    BaseWeight,       \* the default of both weights, 100
    MaxVotes,         \* longest ballot, 30
    MaxProducers,     \* longest schedule, 21
    Period,           \* slots between schedule updates, 120
    Int64Limit,       \* 2^63
    FirstSchedule     \* the schedule in force when the contract is installed:
                      \* of genesis, or of the setprods of eosio.bios

ASSUME VotingAssumption ==
    /\ {SystemSelf, AdminAccount} \subseteq Name
    /\ NameValue \in [Name -> Nat]
    /\ \A m, n \in Name : NameValue[m] = NameValue[n] => m = n
    /\ NoKey \in Key
    /\ VoteWeight \subseteq Nat \ {0}
    /\ BaseWeight \in VoteWeight
    /\ MaxVotes \in Nat /\ Period \in Nat
    /\ MaxProducers \in Nat \ {0}
    /\ Int64Limit \in Nat \ {0}
    /\ FirstSchedule \in Seq([producer_name : Name, key : Key])

VARIABLES
    voters,           \* voters table
    producers,        \* producers table
    acntype,          \* acntype table: account -> type
    vwstate,          \* voteweight singleton
    sinceUpdate,      \* slots since _gstate.last_producer_schedule_update
    lastScheduleSize, \* _gstate.last_producer_schedule_size
    proposed          \* the schedule the chain accepted last (external)

ballotVars == <<voters, producers, acntype, vwstate>>
scheduleVars == <<sinceUpdate, lastScheduleSize, proposed>>
votingVars == <<existing, ballotVars, scheduleVars>>

Type == {"company", "government"}

VoterRow == [staked : Nat, producers : SUBSET Name]

ProducerRow == [company_votes : Nat, government_votes : Nat,
                total_vote_weight : Int, is_active : BOOLEAN, producer_key : Key]

NewProducer == [company_votes |-> 0, government_votes |-> 0, total_vote_weight |-> 0,
                is_active |-> TRUE, producer_key |-> NoKey]

-----------------------------------------------------------------------------
\* Mutant: registering again starts from a new row.
RegProducerAfresh(auth, producer, producer_key) ==
    /\ producer_key # NoKey
    /\ producer \in auth
    /\ producers' = Put(producers, producer,
                        [NewProducer EXCEPT !.producer_key = producer_key])
    /\ UNCHANGED <<existing, voters, acntype, vwstate, scheduleVars>>

RegProducer(auth, producer, producer_key) ==
    /\ producer_key # NoKey
    /\ producer \in auth
    /\ producers' = Put(producers, producer,
                        [RowOr(producers, producer, NewProducer)
                         EXCEPT !.producer_key = producer_key, !.is_active = TRUE])
    /\ UNCHANGED <<existing, voters, acntype, vwstate, scheduleVars>>

\* producer_info::deactivate: the votes stay.
Deactivate(producer) ==
    /\ producer \in DOMAIN producers
    /\ producers' = [producers EXCEPT ![producer].producer_key = NoKey,
                                      ![producer].is_active = FALSE]
    /\ UNCHANGED <<existing, voters, acntype, vwstate, scheduleVars>>

UnregProd(auth, producer) == producer \in auth /\ Deactivate(producer)

RmvProducer(auth, producer) == SystemSelf \in auth /\ Deactivate(producer)

\* update_producers_votes: the rows it modifies, ...
Touched(old, oldStaked, new, newStaked) ==
    (IF oldStaked # 0 THEN old ELSE {}) \cup (IF newStaked # 0 THEN new ELSE {})

\* Mutant: a producer that is not found is skipped.
UpdateProducersVotesLenient(voting, old, oldStaked, new, newStaked) ==
    \A p \in Touched(old, oldStaked, new, newStaked) \cap DOMAIN producers :
        voting => producers[p].is_active

\* Mutant: the producers must be registered for a change of stake too.
UpdateProducersVotesStrict(voting, old, oldStaked, new, newStaked) ==
    \A p \in Touched(old, oldStaked, new, newStaked) :
        p \in DOMAIN producers /\ producers[p].is_active

\* ... its checks (modify() of a row that is not there aborts, whatever
\* active() read through the end iterator), ...
UpdateProducersVotesOK(voting, old, oldStaked, new, newStaked) ==
    \A p \in Touched(old, oldStaked, new, newStaked) :
        p \in DOMAIN producers /\ (voting => producers[p].is_active)

\* Mutant: the votes of the old ballot are not taken back.
RevoteAdding(votes, p, old, oldStaked, new, newStaked) ==
    votes + (IF p \in new THEN newStaked ELSE 0)

\* A vote count of p once the old ballot is taken back and the new one counted.
Revote(votes, p, old, oldStaked, new, newStaked) ==
    votes - (IF p \in old THEN oldStaked ELSE 0) + (IF p \in new THEN newStaked ELSE 0)

\* Mutant: the sum is kept in a narrower type.
Narrow(n) == n % (Int64Limit \div 2)

\* What int64 arithmetic makes of n.
AsInt64(n) == ((n + Int64Limit) % (2 * Int64Limit)) - Int64Limit

\* A producer's total, with today's weights.
TotalWeight(company, government) ==
    AsInt64(government * vwstate.government_weight + company * vwstate.company_weight)

\* ... and the table it leaves: the total is recomputed with today's weights.
UpdateProducersVotes(type, old, oldStaked, new, newStaked) ==
    LET touched == Touched(old, oldStaked, new, newStaked)
        Recount(p) ==
          LET r == producers[p]
              company == IF type = "company"
                         THEN Revote(r.company_votes, p, old, oldStaked, new, newStaked)
                         ELSE r.company_votes
              government == IF type = "company"
                            THEN r.government_votes
                            ELSE Revote(r.government_votes, p, old, oldStaked, new, newStaked)
          IN [r EXCEPT !.company_votes = company,
                       !.government_votes = government,
                       !.total_vote_weight = TotalWeight(company, government)]
    IN [p \in DOMAIN producers |-> IF p \in touched THEN Recount(p) ELSE producers[p]]

\* voteproducer: its checks, then what it does.
VoteProducerOK(auth, voter, ballot) ==
    /\ voter \in auth
    /\ Cardinality(ballot) <= MaxVotes
    /\ voter \in DOMAIN voters
    /\ voter \in DOMAIN acntype
    /\ UpdateProducersVotesOK(TRUE, voters[voter].producers, voters[voter].staked,
                              ballot, voters[voter].staked)

VoteProducer(auth, voter, ballot) ==
    /\ VoteProducerOK(auth, voter, ballot)
    /\ voters' = [voters EXCEPT ![voter].producers = ballot]
    /\ producers' = UpdateProducersVotes(acntype[voter],
                        voters[voter].producers, voters[voter].staked,
                        ballot, voters[voter].staked)
    /\ UNCHANGED <<existing, acntype, vwstate, scheduleVars>>

\* update_voting_power, which changebw calls with every change of stake.
UpdateVotingPower(voter, update) ==
    LET row == RowOr(voters, voter, [staked |-> 0, producers |-> {}])
        staked == row.staked + update
    IN
    /\ staked >= 0
    /\ voters' = Put(voters, voter, [row EXCEPT !.staked = staked])
    /\ IF row.producers # {} /\ voter \in DOMAIN acntype
       THEN /\ UpdateProducersVotesOK(FALSE, row.producers, row.staked, row.producers, staked)
            /\ producers' = UpdateProducersVotes(acntype[voter], row.producers, row.staked,
                                                 row.producers, staked)
       ELSE UNCHANGED producers
    /\ UNCHANGED <<acntype, vwstate, scheduleVars>>

SetAcnType(auth, acnt, type) ==
    /\ AdminAccount \in auth
    /\ acnt \in existing
    /\ acnt \notin DOMAIN acntype
    /\ acntype' = Put(acntype, acnt, type)
    /\ UNCHANGED <<existing, voters, producers, vwstate, scheduleVars>>

\* The totals of the producers are left as they are.
SetVWeight(auth, company_weight, government_weight) ==
    /\ SystemSelf \in auth
    /\ vwstate' = [company_weight |-> company_weight, government_weight |-> government_weight]
    /\ UNCHANGED <<existing, voters, producers, acntype, scheduleVars>>

-----------------------------------------------------------------------------
\* Mutant: the index does not put inactive producers last.
ByTotal(p) == -producers[p].total_vote_weight

\* The index "prototalvote": rows by by_votes(), equal ones by name.
ByVotes(p) == IF producers[p].is_active
              THEN -producers[p].total_vote_weight
              ELSE producers[p].total_vote_weight

Precedes(p, q) == \/ ByVotes(p) < ByVotes(q)
                  \/ ByVotes(p) = ByVotes(q) /\ NameValue[p] < NameValue[q]

Rank(p) == 1 + Cardinality({q \in DOMAIN producers : Precedes(q, p)})

\* Mutant: the scan takes inactive producers too.
HasVotes(p) == producers[p].total_vote_weight > 0

\* The scan of update_elected_producers stops at the first row that fails
\* its loop condition.
Eligible(p) == producers[p].total_vote_weight > 0 /\ producers[p].is_active

Elected == {p \in DOMAIN producers :
              /\ Rank(p) <= MaxProducers
              /\ Eligible(p)
              /\ \A q \in DOMAIN producers : Precedes(q, p) => Eligible(q)}

TopProducers ==
    [i \in 1 .. Cardinality(Elected) |->
        LET p == CHOOSE p \in Elected : Rank(p) = i
        IN [producer_name |-> p, key |-> producers[p].producer_key]]

\* Mutant: a schedule may be shorter than the last one.
ElectableAtAll == Elected # {}

\* The schedule is neither empty nor shorter than the last one.
Electable == Elected # {} /\ Cardinality(Elected) >= lastScheduleSize

\* Mutant: a schedule must be longer than the last one.
UpdateWhenLonger(accepted) ==
    /\ sinceUpdate' = 0
    /\ IF Cardinality(Elected) > lastScheduleSize /\ accepted
       THEN /\ proposed' = TopProducers
            /\ lastScheduleSize' = Cardinality(Elected)
       ELSE UNCHANGED <<proposed, lastScheduleSize>>

\* accepted: what set_proposed_producers answers (external).
UpdateElectedProducers(accepted) ==
    /\ sinceUpdate' = 0
    /\ IF Electable /\ accepted
       THEN /\ proposed' = TopProducers
            /\ lastScheduleSize' = Cardinality(Elected)
       ELSE UNCHANGED <<proposed, lastScheduleSize>>

\* A block whose slot is `gap` slots after the block before (the counter of
\* slots saturates where the code's comparison no longer tells them apart).
OnBlock(gap, accepted) ==
    /\ IF sinceUpdate + gap > Period
       THEN UpdateElectedProducers(accepted)
       ELSE /\ sinceUpdate' = sinceUpdate + gap
            /\ UNCHANGED <<proposed, lastScheduleSize>>
    /\ UNCHANGED <<existing, ballotVars>>

-----------------------------------------------------------------------------
VotingInit ==
    /\ voters = NoRows
    /\ producers = NoRows
    /\ acntype = NoRows
    /\ vwstate = [company_weight |-> BaseWeight, government_weight |-> BaseWeight]
    /\ sinceUpdate = Period
    /\ lastScheduleSize = 0
    /\ proposed = FirstSchedule

\* The actions an account takes for itself, with the permissions of auth: c is
\* the producer and ballot the ballot that it names.
VoterStep(auth, c, ballot) ==
    \/ \E k \in Key : RegProducer(auth, c, k)
    \/ UnregProd(auth, c)
    \/ \E v \in Name : VoteProducer(auth, v, ballot)

ABlock == \E gap \in 1 .. Period + 1, accepted \in BOOLEAN : OnBlock(gap, accepted)

-----------------------------------------------------------------------------
\* Every table row and the schedule are well formed: in particular no count of
\* votes or stake is ever negative (they are plain int64 in the code).
VotingTypeOK ==
    /\ existing \subseteq Name
    /\ IsTable(voters, Name, VoterRow)
    /\ IsTable(producers, Name, ProducerRow)
    /\ IsTable(acntype, Name, Type)
    /\ vwstate \in [company_weight : VoteWeight, government_weight : VoteWeight]
    /\ sinceUpdate \in 0 .. Period
    /\ lastScheduleSize \in 0 .. MaxProducers
    /\ proposed \in Seq([producer_name : Name, key : Key])
    /\ IF lastScheduleSize = 0 THEN proposed = FirstSchedule
       ELSE Len(proposed) = lastScheduleSize

\* The stake that accounts of type t now put behind producer p.
Backing(p, t) ==
    [v \in Name |-> IF v \in DOMAIN voters /\ v \in DOMAIN acntype
                    THEN IF p \in voters[v].producers /\ acntype[v] = t
                         THEN voters[v].staked ELSE 0
                    ELSE 0]

\* Both vote counts of a producer are the sums of the stakes that back it now,
\* however votes, stakes and registrations were interleaved (the code only ever
\* adds and subtracts the differences).
VotesAreStakes ==
    \A p \in DOMAIN producers :
        /\ producers[p].company_votes = SumOver(Backing(p, "company"))
        /\ producers[p].government_votes = SumOver(Backing(p, "government"))

\* Only a typed account has a ballot, and a ballot with stake behind it names
\* rows that exist: else update_voting_power would skip the recount, or abort.
BallotsCounted ==
    \A v \in DOMAIN voters :
        voters[v].producers # {} =>
            /\ v \in DOMAIN acntype
            /\ voters[v].staked # 0 => voters[v].producers \subseteq DOMAIN producers

\* setvweight recomputes no total, so totals computed under different weights
\* coexist; still every total was computed from today's votes under some
\* weights that setvweight allows, so that no backed producer has weight 0 or
\* less.  That needs all stakes times the largest weight to stay below 2^63.
TotalsExplained ==
    \A p \in DOMAIN producers :
        \E c, g \in VoteWeight :
            producers[p].total_vote_weight =
                producers[p].company_votes * c + producers[p].government_votes * g

\* A new schedule holds active producers with their current keys, and leaves
\* out an active, voted-for producer only when it is full and only for ones
\* with at least as much weight (the scan relies on the sign trick of by_votes
\* to meet every such producer before the first that it must not take).
Scheduled(s) == {s[i].producer_name : i \in DOMAIN s}

BestAreScheduled ==
    proposed' # proposed =>
        /\ \A i \in DOMAIN proposed' :
             LET p == proposed'[i].producer_name IN
             /\ p \in DOMAIN producers
             /\ producers[p].is_active
             /\ producers[p].producer_key = proposed'[i].key
             /\ proposed'[i].key # NoKey
        /\ \A q \in DOMAIN producers \ Scheduled(proposed') :
             Eligible(q) =>
                /\ Cardinality(Scheduled(proposed')) = MaxProducers
                /\ \A p \in Scheduled(proposed') :
                     producers[p].total_vote_weight >= producers[q].total_vote_weight

ElectionsAreFair == [][BestAreScheduled]_votingVars

\* No elected schedule is replaced by a shorter one.  Only the first election may
\* do that, to the schedule it finds: last_producer_schedule_size starts at 0.
SchedulesNeverShrink ==
    [][proposed # FirstSchedule =>
          Cardinality(Scheduled(proposed')) >= Cardinality(Scheduled(proposed))]_votingVars
=============================================================================
