CONSTANTS
    key = key
    eosio = eosio
    dyadmin = dyadmin
    alice = alice
    bob = bob
    prod = prod
    queen = queen
    Name = {eosio, dyadmin, alice, bob, prod, queen}
    SystemSelf = eosio
    AdminAccount = dyadmin
    NameValue <- MCNameValue
    Key = {key, nokey}
    NoKey = nokey
    VoteWeight = {100, 300}
    BaseWeight = 100
    MaxVotes = 2
    MaxProducers = 1
    Period = 0
    Int64Limit = 1201
    FirstSchedule <- MCFirstSchedule
    Voter = {alice, bob}
    Candidate = {prod, queen}
    MaxStake = 2
SPECIFICATION Spec
PROPERTIES NoNewVoters
