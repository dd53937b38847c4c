CONSTANTS
    eosio = eosio
    dyadmin = dyadmin
    records = records
    shop = shop
    v1 = v1
    v2 = v2
    t1 = t1
    t2 = t2
    SYS = SYS
    EOS = EOS
    Name = {eosio, dyadmin, records, shop}
    SystemSelf = eosio
    AdminAccount = dyadmin
    Exempt = {eosio}
    Contract = {none, bios, system, transorderdebt}
    NoCode = none
    Bios = bios
    SystemContract = system
    Records = transorderdebt
    Abi = {v1, v2}
    Hash <- MCHash
    Params <- MCParams
    GenesisParams <- MCGenesisParams
    MaxCpu = 60
    DefaultCpu = 3
    CpuSettings = {60, 61}
    First = {eosio, dyadmin, records}
    RecordsSelf = records
    TransId = {t1, t2}
    OrderId = {o1}
    DebtId = {d1}
    Money <- MCMoney
    Party = {dyadmin, shop}
    MaxKey = 3
CHECK_DEADLOCK FALSE
SYMMETRY MCAlike
SPECIFICATION Spec
INVARIANTS RecordsTypeOK AdminTypeOK AbiHashesCurrent ParamsAgree
PROPERTIES KeepBooks NeverLocksOut
