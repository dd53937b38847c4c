-------------------------- MODULE VotingWithStakes --------------------------
(***************************************************************************)
(* The voting component closed for model checking: stakes change by any    *)
(* amount that keeps them within MaxStake, as changebw would change them.  *)
(***************************************************************************)
EXTENDS EosioVoting

CONSTANTS
    Voter,       \* bound: the accounts that vote, stake and get a type
    Candidate,   \* bound: the accounts that register and that ballots name
    MaxStake     \* bound: the largest stake of a voter

ASSUME BoundAssumption ==
    Voter \subseteq Name /\ Candidate \subseteq Name /\ MaxStake \in Nat

Init == VotingInit /\ existing = Voter \cup Candidate \cup {SystemSelf, AdminAccount}

ChangeStake(v, update) ==
    /\ RowOr(voters, v, [staked |-> 0]).staked + update <= MaxStake
    /\ UpdateVotingPower(v, update)
    /\ UNCHANGED existing

Vote ==
    \/ \E n \in Voter \cup Candidate, c \in Candidate, ballot \in SUBSET Candidate :
         VoterStep({n}, c, ballot)
    \/ \E p \in Candidate : RmvProducer({SystemSelf}, p)
    \/ \E c, g \in VoteWeight : SetVWeight({SystemSelf}, c, g)
    \/ \E n \in Voter, t \in Type : SetAcnType({AdminAccount}, n, t)
    \/ \E v \in Voter, update \in (-MaxStake .. MaxStake) \ {0} : ChangeStake(v, update)

Next == Vote \/ ABlock

Spec == Init /\ [][Next]_votingVars

-----------------------------------------------------------------------------
\* Unregistering keeps a producer's votes, but a voter who names it can still
\* take the vote back.
VotesRemovable ==
    \A v \in DOMAIN voters :
        \A p \in voters[v].producers \cap DOMAIN producers :
            ~producers[p].is_active => VoteProducerOK({v}, v, voters[v].producers \ {p})

\* An unregistered producer gets no new voter.
NoNewVoters ==
    [][\A v \in DOMAIN voters :
          \A p \in voters'[v].producers \ voters[v].producers :
              p \in DOMAIN producers /\ producers[p].is_active]_votingVars

-----------------------------------------------------------------------------
\* Blocks keep coming (onblock is an implicit transaction of every block), and
\* a chain that keeps being offered schedules does not refuse all of them.
Accepts == \E gap \in 1 .. Period + 1 :
              OnBlock(gap, TRUE) /\ sinceUpdate + gap > Period /\ Electable

FairSpec == Spec /\ WF_votingVars(ABlock) /\ SF_votingVars(Accepts)

\* However votes keep moving, again and again the proposed schedule is the
\* current top of the ranking, or the top cannot be proposed (nobody is eligible,
\* or fewer than were scheduled before).
VotesReachSchedule == []<>(~Electable \/ proposed = TopProducers)
=============================================================================
