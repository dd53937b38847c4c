CONSTANTS
    alice = alice
    bob = bob
    aliceActive = aliceActive
    bobActive = bobActive
    joint = joint
    single = single
    Account = {alice, bob}
    Proposer = {alice}
    ProposalName = {pay}
    Level = {aliceActive, bobActive}
    LevelActor <- MCLevelActor
    Trx = {joint, single}
    Quorums <- MCQuorums
    Expiration <- MCExpiration
    NoHash = nohash
    MaxRequested = 3
    MaxSlot = 4
SPECIFICATION MsigSpec
INVARIANTS MsigTypeOK OneApprovalsRow
PROPERTIES NoLevelIsLost KeepsPromise
