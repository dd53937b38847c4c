----------------------------- MODULE Deployment -----------------------------
(***************************************************************************)
(* A chain from its first block: eosio.bios and then eosio.system on the   *)
(* system account, and transorderdebt on an account of its own, which may  *)
(* lose its place on the white list or its code while its records stay.    *)
(***************************************************************************)
EXTENDS SystemAdmin, TransOrderDebt

CONSTANTS
    Records,          \* the code of transorderdebt
    First,            \* bound: the accounts at the start
    GenesisParams,    \* the parameters at the start
    CpuSettings       \* bound: the values setgrtdcpu is called with

ASSUME DeploymentAssumption ==
    /\ Records \in Contract
    /\ {SystemSelf, AdminAccount, RecordsSelf} \subseteq First /\ First \subseteq Name
    /\ GenesisParams \in Params
    /\ CpuSettings \subseteq Nat

\* The order of contracts on the two accounts that get one: the system account
\* goes forward only, the other may drop its code.
Upgrades(account) ==
    IF account = SystemSelf
    THEN {<<NoCode, Bios>>, <<Bios, SystemContract>>, <<SystemContract, SystemContract>>}
    ELSE {<<NoCode, Records>>, <<Records, NoCode>>}

Init == AdminInit(First, GenesisParams) /\ RecordsInit

AdminStep(auth) ==
    \/ \E p \in Params : SetParams(auth, p) \/ BiosSetParams(auth, p)
    \/ \E cpu \in CpuSettings : SetGrtdCpu(auth, cpu)
    \/ \E rev \in 0 .. 2 : UpdtRevision(auth, rev)
    \/ \E is_priv \in BOOLEAN :
         SetPriv(auth, SystemSelf, is_priv) \/ BiosSetPriv(auth, SystemSelf, is_priv)
    \/ \E action \in {"add", "delete"} : AwlSet(auth, action, RecordsSelf)
    \/ OtherAction
    \/ \E n \in {SystemSelf, RecordsSelf}, c \in Contract :
         <<code[n], c>> \in Upgrades(n) /\ SetCode(auth, n, c)
    \/ \E a \in Abi : SetAbi(auth, RecordsSelf, a)
    \/ \E n \in Name : CreateAccount(n)

Next ==
    \E n \in First :
        \/ AdminStep({n}) /\ UNCHANGED recordVars
        \/ code[RecordsSelf] = Records /\ RecordsStep({n}) /\ UNCHANGED adminVars

Spec == Init /\ [][Next]_<<existing, adminVars, recordVars>>
=============================================================================
