CONSTANTS
    key = key
    eosio = eosio
    dyadmin = dyadmin
    token = token
    stake = stake
    saving = saving
    alice = alice
    bob = bob
    Name = {eosio, dyadmin, token, stake, saving, alice, bob}
    TokenSelf = token
    SYS = SYS
    EOS = EOS
    Code = {SYS, EOS}
    Precision = {4}
    MaxAmount = 1
    SystemSelf = eosio
    AdminAccount = dyadmin
    NameValue <- MCNameValue
    Key = {key, nokey}
    NoKey = nokey
    VoteWeight = {100}
    BaseWeight = 100
    MaxVotes = 1
    MaxProducers = 1
    Period = 0
    Int64Limit = 1201
    FirstSchedule <- MCFirstSchedule
    StakeAccount = stake
    SavingAccount = saving
    RefundDelay = 0
    Dotted = {bob}
    Suffix <- MCSuffix
    MaxFee <- MCMaxFee
    Genesis = {eosio, dyadmin, token, stake, saving, alice}
    Minted <- MCMinted
    Endowment <- MCEndowment
    Actor = {alice, bob}
    Candidate = {bob}
    MaxSlot = 0
SYMMETRY MCCodes
SPECIFICATION FundsSpec
INVARIANTS StakesAgree LimitsFollowStakes TotalsOfOneSymbol StakesWithdrawable RefundsClaimable
PROPERTIES WealthIsSafe TokensAreSafe RowsAreSigned
