---------------------------- MODULE SystemAdmin ----------------------------
(***************************************************************************)
(* The administration half of eosio.system, and eosio.bios, which runs on  *)
(* the same account before it: chain parameters, privileges, revisions,    *)
(* and which contract and ABI an account has.  The chain runs setcode,     *)
(* setabi and newaccount itself and has the contract of the system account *)
(* handle them too.                                                        *)
(*                                                                         *)
(* The system contract reads its singletons when an action starts and      *)
(* writes them all back when it ends (Save).  The parameters are all of    *)
(* _gstate that is modelled here; the voting part of it is in EosioVoting. *)
(***************************************************************************)
EXTENDS ChainAccounts

CONSTANTS
    SystemSelf,       \* "eosio"_n
    AdminAccount,     \* admin_account
    Exempt,           \* the accounts that setcode always lets deploy
    Contract,         \* what code an account can have
    NoCode, Bios, SystemContract,
    Abi, Hash,        \* ABIs, and their sha256
    Params,           \* blockchain_parameters
    MaxCpu,           \* the bound of guaranteed_cpu, 60 seconds
    DefaultCpu        \* its first value, 3 seconds

ASSUME AdminAssumption ==
    /\ {SystemSelf, AdminAccount} \subseteq Name
    /\ SystemSelf \in Exempt
    /\ {NoCode, Bios, SystemContract} \subseteq Contract
    /\ NoCode \notin {Bios, SystemContract} /\ Bios # SystemContract
    /\ \A a, b \in Abi : Hash[a] = Hash[b] => a = b
    /\ \A p \in Params : p.max_authority_depth \in Nat
    /\ MaxCpu \in Nat /\ DefaultCpu \in 0 .. MaxCpu

VARIABLES
    code, abi,        \* what the chain keeps of an account (external)
    privileged,       \* the privileged accounts (external)
    chain_params,     \* the parameters in force (external)
    abihash,          \* abihash table, of both contracts
    global,           \* the global singleton: no row, or the row "global"
    guaranteed_cpu,   \* _gstate2.guaranteed_cpu
    revision,         \* _gstate2.revision
    cwl               \* cwl table: the accounts that may deploy

chainVars == <<code, abi, privileged, chain_params>>
gstate2Vars == <<guaranteed_cpu, revision>>
adminVars == <<chainVars, abihash, global, gstate2Vars, cwl>>

Privileged == SystemSelf \in privileged

\* _gstate as the constructor sets it, where reading the parameters of the
\* chain takes privilege.
Gstate == RowOr(global, "global", chain_params)
CanLoad == "global" \in DOMAIN global \/ Privileged

\* Mutant: a singleton that was not there is not written.
SaveExisting(p) ==
    /\ code[SystemSelf] = SystemContract
    /\ CanLoad
    /\ global' = IF "global" \in DOMAIN global THEN Put(global, "global", p) ELSE global

\* An action of the system contract, which leaves _gstate as p.
Save(p) ==
    /\ code[SystemSelf] = SystemContract
    /\ CanLoad
    /\ global' = Put(global, "global", p)

\* The part that c, the code of the system account, has in an action of the
\* chain: only the system contract saves.
Handled(c) ==
    IF c = SystemContract THEN CanLoad /\ global' = Put(global, "global", Gstate)
    ELSE UNCHANGED global

-----------------------------------------------------------------------------
\* Mutant: setparams assigns to a copy of the state.
SetParamsOfCopy(auth, p) ==
    /\ SystemSelf \in auth
    /\ Save(Gstate)
    /\ p.max_authority_depth >= 3
    /\ Privileged
    /\ chain_params' = p
    /\ UNCHANGED <<existing, code, abi, privileged, abihash, gstate2Vars, cwl>>

\* setparams
SetParams(auth, p) ==
    /\ SystemSelf \in auth
    /\ Save(p)
    /\ p.max_authority_depth >= 3
    /\ Privileged
    /\ chain_params' = p
    /\ UNCHANGED <<existing, code, abi, privileged, abihash, gstate2Vars, cwl>>

SetGrtdCpu(auth, cpu) ==
    /\ SystemSelf \in auth
    /\ cpu <= MaxCpu
    /\ cpu > guaranteed_cpu
    /\ guaranteed_cpu' = cpu
    /\ Save(Gstate)
    /\ UNCHANGED <<existing, chainVars, abihash, revision, cwl>>

\* Mutant: any revision that fits its byte.
FitsByte(rev) == rev < 256

\* The greatest revision the code supports.
Supported(rev) == rev <= 1

UpdtRevision(auth, rev) ==
    /\ SystemSelf \in auth
    /\ revision < 255
    /\ rev = revision + 1
    /\ Supported(rev)
    /\ revision' = rev
    /\ Save(Gstate)
    /\ UNCHANGED <<existing, chainVars, abihash, guaranteed_cpu, cwl>>

\* setpriv, also of the system account itself.
SetPriv(auth, account, is_priv) ==
    /\ SystemSelf \in auth
    /\ Save(Gstate)
    /\ Privileged /\ account \in existing
    /\ privileged' = IF is_priv THEN privileged \cup {account} ELSE privileged \ {account}
    /\ UNCHANGED <<existing, code, abi, chain_params, abihash, gstate2Vars, cwl>>

\* awlset: the account need not exist, and keeps the code it has.
AwlSet(auth, action, account) ==
    /\ AdminAccount \in auth \/ SystemSelf \in auth
    /\ \/ action = "add" /\ account \notin cwl /\ cwl' = cwl \cup {account}
       \/ action = "delete" /\ account \in cwl /\ cwl' = cwl \ {account}
    /\ Save(Gstate)
    /\ UNCHANGED <<existing, chainVars, abihash, gstate2Vars>>

\* Any other action of the system contract.
OtherAction == Save(Gstate) /\ UNCHANGED <<existing, chainVars, abihash, gstate2Vars, cwl>>

-----------------------------------------------------------------------------
BiosSetParams(auth, p) ==
    /\ code[SystemSelf] = Bios
    /\ SystemSelf \in auth /\ Privileged
    /\ chain_params' = p
    /\ UNCHANGED <<existing, code, abi, privileged, abihash, global, gstate2Vars, cwl>>

BiosSetPriv(auth, account, is_priv) ==
    /\ code[SystemSelf] = Bios
    /\ SystemSelf \in auth /\ Privileged /\ account \in existing
    /\ privileged' = IF is_priv THEN privileged \cup {account} ELSE privileged \ {account}
    /\ UNCHANGED <<existing, code, abi, chain_params, abihash, global, gstate2Vars, cwl>>

-----------------------------------------------------------------------------
\* The check of setcode.
MayDeploy(account) == account \in Exempt \cup cwl

\* setcode.  New code of the system account may be what handles the action.
SetCode(auth, account, c) ==
    /\ account \in auth
    /\ code' = [code EXCEPT ![account] = c]
    /\ code[SystemSelf] = SystemContract => MayDeploy(account)
    /\ \E handler \in {code, code'} : Handled(handler[SystemSelf])
    /\ UNCHANGED <<existing, abi, privileged, chain_params, abihash, gstate2Vars, cwl>>

\* Mutant: the hash of an account is written once.
NotedOnce(t, account, a) == IF account \in DOMAIN t THEN t ELSE Put(t, account, Hash[a])

\* The table setabi leaves, in both contracts.
Noted(t, account, a) == Put(t, account, Hash[a])

SetAbi(auth, account, a) ==
    /\ account \in auth
    /\ abi' = Put(abi, account, a)
    /\ abihash' = IF code[SystemSelf] = NoCode THEN abihash ELSE Noted(abihash, account, a)
    /\ Handled(code[SystemSelf])
    /\ UNCHANGED <<existing, code, privileged, chain_params, gstate2Vars, cwl>>

\* newaccount, as far as this module sees it.
CreateAccount(n) ==
    /\ ChainNewAccount(n)
    /\ code' = Put(code, n, NoCode)
    /\ Handled(code[SystemSelf])
    /\ code[SystemSelf] = SystemContract => Privileged    \* set_resource_limits
    /\ UNCHANGED <<abi, privileged, chain_params, abihash, gstate2Vars, cwl>>

AdminInit(accounts, params) ==
    /\ existing = accounts
    /\ code = [n \in accounts |-> NoCode]
    /\ abi = NoRows /\ abihash = NoRows
    /\ privileged = {SystemSelf}
    /\ chain_params = params
    /\ global = NoRows
    /\ guaranteed_cpu = DefaultCpu /\ revision = 0
    /\ cwl = {}

-----------------------------------------------------------------------------
\* The tables and singletons are well formed, and only accounts that exist have
\* code, an ABI or privileges, while any name may be on the white list.
AdminTypeOK ==
    /\ code \in [existing -> Contract] /\ IsTable(abi, existing, Abi)
    /\ privileged \subseteq existing
    /\ chain_params \in Params
    /\ IsTable(abihash, existing, {Hash[a] : a \in Abi})
    /\ IsTable(global, {"global"}, Params)
    /\ guaranteed_cpu \in DefaultCpu .. MaxCpu /\ revision \in 0 .. 1
    /\ cwl \subseteq Name

\* Two contracts write the abihash table, one after the other; its rows are
\* the hashes of the ABIs the accounts have.
AbiHashesCurrent == \A n \in DOMAIN abihash : n \in DOMAIN abi /\ abihash[n] = Hash[abi[n]]

\* The parameters that every action of the system contract writes back are the
\* ones in force, though eosio.bios may have changed them before, and setparams
\* writes them in two places that fail separately.
ParamsAgree == "global" \in DOMAIN global => global["global"] = chain_params

\* The system contract does not lock itself out: an action of it that could load
\* its state leaves a state that the next one can load, even the setpriv by which
\* the account gives up the privilege that the first load needs, and setcode.
NeverLocksOut ==
    [][code[SystemSelf] = SystemContract /\ CanLoad => CanLoad']_adminVars
=============================================================================
