CONSTANTS
    key = key
    eosio = eosio
    dyadmin = dyadmin
    token = token
    stake = stake
    saving = saving
    alice = alice
    bob = bob
    Name = {eosio, dyadmin, token, stake, saving, alice, bob}
    TokenSelf = token
    Code = {"SYS"}
    Precision = {4}
    MaxAmount = 3
    SystemSelf = eosio
    AdminAccount = dyadmin
    NameValue <- MCNameValue
    Key = {key, nokey}
    NoKey = nokey
    VoteWeight = {100}
    BaseWeight = 100
    MaxVotes = 1
    MaxProducers = 1
    Period = 0
    Int64Limit = 1201
    FirstSchedule <- MCFirstSchedule
    StakeAccount = stake
    SavingAccount = saving
    RefundDelay = 1
    Dotted = {}
    Suffix <- MCSuffix
    MaxFee <- MCMaxFee
    Genesis = {eosio, dyadmin, token, stake, saving, alice, bob}
    Minted <- MCMinted
    Endowment <- MCEndowment
    Actor = {alice, bob}
    Candidate = {}
    MaxSlot = 3
SPECIFICATION StakeSpec
INVARIANTS RefundsPayable
