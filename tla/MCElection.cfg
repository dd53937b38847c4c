CONSTANTS
    key = key
    eosio = eosio
    dyadmin = dyadmin
    alice = alice
    prod = prod
    queen = queen
    rival = rival
    Name = {eosio, dyadmin, alice, prod, queen, rival}
    SystemSelf = eosio
    AdminAccount = dyadmin
    NameValue <- MCNameValue
    Key = {key, nokey}
    NoKey = nokey
    VoteWeight = {100}
    BaseWeight = 100
    MaxVotes = 3
    MaxProducers = 2
    Period = 1
    Int64Limit = 1201
    FirstSchedule <- MCFirstSchedule
    Voter = {alice}
    Candidate = {prod, queen, rival}
    MaxStake = 1
SPECIFICATION FairSpec
PROPERTIES ElectionsAreFair SchedulesNeverShrink VotesReachSchedule
