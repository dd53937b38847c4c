-------------------------- MODULE DeploymentProofs --------------------------
(***************************************************************************)
(* From the first block on: the singletons and tables of administration    *)
(* agree with the chain, and the books of transorderdebt are kept.         *)
(***************************************************************************)
EXTENDS Deployment, FiniteSetTheorems, FunctionTheorems, SequenceTheorems, TableTheorems

-----------------------------------------------------------------------------
(* Administration. *)

\* The system account keeps the system contract once it has it, and until then
\* has no global row; and there is no hash before there is a contract.
ContractsGoForward ==
    /\ "global" \in DOMAIN global => code[SystemSelf] = SystemContract
    /\ code[SystemSelf] = NoCode => DOMAIN abihash = {}

AdminInv ==
    /\ First \subseteq existing /\ existing \subseteq Name
    /\ AdminTypeOK /\ AbiHashesCurrent /\ ParamsAgree
    /\ ContractsGoForward

\* A fresh chain.
LEMMA AdminInitInv ==
  ASSUME AdminInit(First, GenesisParams)
  PROVE  AdminInv
<1>1. /\ abi = NoRows /\ abihash = NoRows /\ global = NoRows /\ DOMAIN NoRows = {}
      /\ IsTable(NoRows, existing, Abi) /\ IsTable(NoRows, existing, {Hash[a] : a \in Abi})
      /\ IsTable(NoRows, {"global"}, Params)
  BY NoRowsTable DEF AdminInit
<1>2. /\ existing = First /\ code \in [existing -> Contract] /\ privileged \subseteq existing
      /\ chain_params \in Params /\ cwl = {}
      /\ guaranteed_cpu = DefaultCpu /\ revision = 0
  BY AdminAssumption, DeploymentAssumption DEF AdminInit
<1>3. guaranteed_cpu \in DefaultCpu .. MaxCpu
  BY <1>2, AdminAssumption
<1> QED BY <1>1, <1>2, <1>3, DeploymentAssumption
        DEF AdminInv, AdminTypeOK, AbiHashesCurrent, ParamsAgree, ContractsGoForward

\* What the actions find.
LEMMA AdminTables ==
  ASSUME AdminInv
  PROVE  /\ First \subseteq existing /\ existing \subseteq Name
         /\ SystemSelf \in existing /\ AdminAccount \in existing /\ RecordsSelf \in existing
         /\ code \in [existing -> Contract] /\ IsTable(abi, existing, Abi)
         /\ IsTable(abihash, existing, {Hash[a] : a \in Abi})
         /\ IsTable(global, {"global"}, Params) /\ Gstate \in Params
         /\ privileged \subseteq existing /\ chain_params \in Params
         /\ Gstate = chain_params
<1>1. \A k \in DOMAIN global : k = "global" /\ global[k] \in Params
  BY DEF AdminInv, AdminTypeOK, IsTable
<1> QED BY <1>1, DeploymentAssumption DEF AdminInv, AdminTypeOK, ParamsAgree, Gstate, RowOr

\* What leaves all but the global row, the system account's code and the numbers
\* of _gstate2 alone keeps the invariant.
LEMMA SaveKeeps ==
  ASSUME AdminInv, UNCHANGED <<existing, abi, abihash>>,
         code' \in [existing -> Contract], privileged' \subseteq existing,
         chain_params' \in Params,
         \/ UNCHANGED <<global, chain_params>>
         \/ UNCHANGED global /\ DOMAIN global = {}
         \/ global' = Put(global, "global", chain_params') /\ code'[SystemSelf] = SystemContract,
         code[SystemSelf] = SystemContract => code'[SystemSelf] = SystemContract,
         code'[SystemSelf] = NoCode => code[SystemSelf] = NoCode,
         guaranteed_cpu' \in DefaultCpu .. MaxCpu, revision' \in 0 .. 1, cwl' \subseteq Name
  PROVE  AdminInv'
<1>1. /\ First \subseteq existing' /\ existing' \subseteq Name
      /\ AbiHashesCurrent'
  BY DEF AdminInv, AbiHashesCurrent
<1>2. /\ IsTable(global', {"global"}, Params) /\ ParamsAgree'
      /\ "global" \in DOMAIN global' => code'[SystemSelf] = SystemContract
  <2>1. CASE UNCHANGED <<global, chain_params>>
    BY <2>1 DEF AdminInv, AdminTypeOK, ParamsAgree, ContractsGoForward
  <2>2. CASE UNCHANGED global /\ DOMAIN global = {}
    BY <2>2 DEF AdminInv, AdminTypeOK, ParamsAgree
  <2>3. CASE global' = Put(global, "global", chain_params') /\ code'[SystemSelf] = SystemContract
    <3>1. IsTable(global, {"global"}, Params) /\ "global" \in {"global"}
      BY AdminTables
    <3>2. Written(global, global', {"global"}, Params, "global", chain_params')
      BY <2>3, <3>1, PutTable
    <3> QED BY <2>3, <3>2 DEF Written, ParamsAgree
  <2> QED BY <2>1, <2>2, <2>3
<1>3. AdminTypeOK'
  BY <1>2 DEF AdminInv, AdminTypeOK
<1>4. ContractsGoForward'
  BY <1>2 DEF AdminInv, ContractsGoForward
<1> QED BY <1>1, <1>2, <1>3, <1>4 DEF AdminInv

\* An action of the system contract: what it may change besides the global row.
LEMMA ActionKeeps ==
  ASSUME AdminInv, UNCHANGED <<existing, code, abi, abihash>>, Save(chain_params'),
         privileged' \subseteq existing, chain_params' \in Params,
         guaranteed_cpu' \in DefaultCpu .. MaxCpu, revision' \in 0 .. 1, cwl' \subseteq Name
  PROVE  AdminInv'
<1>1. code[SystemSelf] = SystemContract /\ global' = Put(global, "global", chain_params')
  BY DEF Save
<1> QED BY <1>1, AdminTables, SaveKeeps

\* setcode.
LEMMA SetCodeKeeps ==
  ASSUME AdminInv, NEW auth, NEW n \in {SystemSelf, RecordsSelf}, NEW c \in Contract,
         <<code[n], c>> \in Upgrades(n), SetCode(auth, n, c)
  PROVE  AdminInv'
<1>1. /\ code' = [code EXCEPT ![n] = c] /\ n \in existing /\ SystemSelf \in existing
      /\ code \in [existing -> Contract] /\ code' \in [existing -> Contract]
      /\ UNCHANGED <<existing, abi, privileged, chain_params, abihash, gstate2Vars, cwl>>
  BY AdminTables DEF SetCode
<1>2. n # SystemSelf => code'[SystemSelf] = code[SystemSelf]
  BY <1>1
<1>3. n = SystemSelf => /\ code'[SystemSelf] = c
                        /\ \/ code[SystemSelf] = NoCode /\ c = Bios
                           \/ code[SystemSelf] = Bios /\ c = SystemContract
                           \/ code[SystemSelf] = SystemContract /\ c = SystemContract
  BY <1>1 DEF Upgrades
<1>4. /\ code[SystemSelf] = SystemContract => code'[SystemSelf] = SystemContract
      /\ code'[SystemSelf] = NoCode => code[SystemSelf] = NoCode
  BY <1>2, <1>3, AdminAssumption
<1>5. \/ UNCHANGED <<global, chain_params>>
      \/ global' = Put(global, "global", chain_params') /\ code'[SystemSelf] = SystemContract
  <2>1. PICK handler \in {code, code'} : Handled(handler[SystemSelf])
    BY DEF SetCode
  <2>2. CASE handler[SystemSelf] = SystemContract
    <3>1. code'[SystemSelf] = SystemContract
      BY <1>4, <2>2
    <3>2. global' = Put(global, "global", Gstate)
      BY <2>1, <2>2 DEF Handled
    <3> QED BY <1>1, <3>1, <3>2, AdminTables
  <2>3. CASE handler[SystemSelf] # SystemContract
    BY <1>1, <2>1, <2>3 DEF Handled
  <2> QED BY <2>2, <2>3
<1>6. /\ guaranteed_cpu' \in DefaultCpu .. MaxCpu /\ revision' \in 0 .. 1 /\ cwl' \subseteq Name
      /\ privileged' \subseteq existing /\ chain_params' \in Params
  BY <1>1 DEF AdminInv, AdminTypeOK, gstate2Vars
<1> QED BY <1>1, <1>4, <1>5, <1>6, SaveKeeps

\* setabi: the row of the hash follows the ABI, unless no contract is there.
LEMMA SetAbiKeeps ==
  ASSUME AdminInv, NEW auth, NEW a \in Abi, SetAbi(auth, RecordsSelf, a)
  PROVE  AdminInv'
<1>1. /\ abi' = Put(abi, RecordsSelf, a)
      /\ abihash' = IF code[SystemSelf] = NoCode THEN abihash
                    ELSE Put(abihash, RecordsSelf, Hash[a])
      /\ Handled(code[SystemSelf])
      /\ UNCHANGED <<existing, code, privileged, chain_params, gstate2Vars, cwl>>
  BY DEF SetAbi, Noted
<1>2. Hash[a] \in {Hash[b] : b \in Abi}
  OBVIOUS
<1>3. Written(abi, abi', existing, Abi, RecordsSelf, a)
  BY <1>1, AdminTables, PutTable
<1>4. \/ code[SystemSelf] = NoCode /\ abihash' = abihash
      \/ /\ code[SystemSelf] # NoCode
         /\ Written(abihash, abihash', existing, {Hash[b] : b \in Abi}, RecordsSelf, Hash[a])
  BY <1>1, <1>2, AdminTables, PutTable
<1>5. IsTable(abihash', existing, {Hash[b] : b \in Abi})
  BY <1>4, AdminTables DEF Written
<1>6. AbiHashesCurrent'
  BY <1>3, <1>4 DEF AdminInv, AbiHashesCurrent, ContractsGoForward, Written
<1>7. /\ IsTable(global', {"global"}, Params) /\ ParamsAgree'
      /\ "global" \in DOMAIN global' => code[SystemSelf] = SystemContract
  <2>1. CASE code[SystemSelf] = SystemContract
    <3>1. global' = Put(global, "global", chain_params)
      BY <1>1, <2>1, AdminTables DEF Handled
    <3>2. IsTable(global, {"global"}, Params) /\ "global" \in {"global"} /\ chain_params \in Params
      BY AdminTables
    <3>3. Written(global, global', {"global"}, Params, "global", chain_params)
      BY <3>1, <3>2, PutTable
    <3> QED BY <1>1, <2>1, <3>3 DEF Written, ParamsAgree
  <2>2. CASE code[SystemSelf] # SystemContract
    <3>1. UNCHANGED global
      BY <1>1, <2>2 DEF Handled
    <3> QED BY <1>1, <3>1 DEF AdminInv, AdminTypeOK, ParamsAgree, ContractsGoForward
  <2> QED BY <2>1, <2>2
<1>8. AdminTypeOK'
  BY <1>1, <1>3, <1>5, <1>7 DEF AdminInv, AdminTypeOK, gstate2Vars, Written
<1>9. ContractsGoForward'
  BY <1>1, <1>4, <1>7 DEF AdminInv, ContractsGoForward
<1> QED BY <1>1, <1>6, <1>7, <1>8, <1>9 DEF AdminInv

\* newaccount.
LEMMA CreateKeeps ==
  ASSUME AdminInv, NEW n \in Name, CreateAccount(n)
  PROVE  AdminInv'
<1>1. /\ n \notin existing /\ existing' = existing \cup {n} /\ code' = Put(code, n, NoCode)
      /\ Handled(code[SystemSelf])
      /\ UNCHANGED <<abi, privileged, chain_params, abihash, gstate2Vars, cwl>>
  BY DEF CreateAccount, ChainNewAccount
<1>2. code' \in [existing' -> Contract] /\ code'[SystemSelf] = code[SystemSelf]
  BY <1>1, AdminTables, AdminAssumption DEF Put
<1>3. /\ IsTable(global', {"global"}, Params) /\ ParamsAgree'
      /\ "global" \in DOMAIN global' => code[SystemSelf] = SystemContract
  <2>1. CASE code[SystemSelf] = SystemContract
    <3>1. global' = Put(global, "global", chain_params)
      BY <1>1, <2>1, AdminTables DEF Handled
    <3>2. IsTable(global, {"global"}, Params) /\ "global" \in {"global"} /\ chain_params \in Params
      BY AdminTables
    <3>3. Written(global, global', {"global"}, Params, "global", chain_params)
      BY <3>1, <3>2, PutTable
    <3> QED BY <1>1, <2>1, <3>3 DEF Written, ParamsAgree
  <2>2. CASE code[SystemSelf] # SystemContract
    <3>1. UNCHANGED global
      BY <1>1, <2>2 DEF Handled
    <3> QED BY <1>1, <3>1 DEF AdminInv, AdminTypeOK, ParamsAgree, ContractsGoForward
  <2> QED BY <2>1, <2>2
<1>4. IsTable(abi', existing', Abi) /\ IsTable(abihash', existing', {Hash[a] : a \in Abi})
  BY <1>1 DEF AdminInv, AdminTypeOK, IsTable
<1>5. AdminTypeOK'
  BY <1>1, <1>2, <1>3, <1>4 DEF AdminInv, AdminTypeOK, gstate2Vars
<1>6. AbiHashesCurrent' /\ ContractsGoForward'
  BY <1>1, <1>2, <1>3 DEF AdminInv, AbiHashesCurrent, ContractsGoForward
<1> QED BY <1>1, <1>3, <1>5, <1>6 DEF AdminInv

\* Every action of administration keeps the invariant.
LEMMA AdminStepInv ==
  ASSUME AdminInv, NEW auth, AdminStep(auth)
  PROVE  AdminInv'
<1>0. /\ privileged \subseteq existing /\ chain_params \in Params /\ Gstate = chain_params
      /\ guaranteed_cpu \in DefaultCpu .. MaxCpu /\ revision \in 0 .. 1 /\ cwl \subseteq Name
      /\ DefaultCpu \in Nat /\ MaxCpu \in Nat
  BY AdminTables, AdminAssumption DEF AdminInv, AdminTypeOK
<1>1. ASSUME NEW p \in Params, SetParams(auth, p) PROVE AdminInv'
  BY <1>0, <1>1, ActionKeeps DEF SetParams, gstate2Vars
<1>2. ASSUME NEW p \in Params, BiosSetParams(auth, p) PROVE AdminInv'
  <2>1. code[SystemSelf] # SystemContract
    BY <1>2, AdminAssumption DEF BiosSetParams
  <2>2. DOMAIN global = {}
    BY <2>1, AdminTables DEF AdminInv, ContractsGoForward, IsTable
  <2> QED BY <1>0, <1>2, <2>2, AdminTables, SaveKeeps DEF BiosSetParams, gstate2Vars
<1>3. ASSUME NEW cpu \in CpuSettings, SetGrtdCpu(auth, cpu) PROVE AdminInv'
  <2>1. cpu \in Nat /\ cpu <= MaxCpu /\ cpu > guaranteed_cpu /\ guaranteed_cpu' = cpu
    BY <1>3, DeploymentAssumption DEF SetGrtdCpu
  <2>2. guaranteed_cpu' \in DefaultCpu .. MaxCpu
    BY <1>0, <2>1
  <2> QED BY <1>0, <1>3, <2>2, ActionKeeps DEF SetGrtdCpu, chainVars
<1>4. ASSUME NEW rev \in 0 .. 2, UpdtRevision(auth, rev) PROVE AdminInv'
  <2>1. revision' \in 0 .. 1
    BY <1>4 DEF UpdtRevision, Supported
  <2> QED BY <1>0, <1>4, <2>1, ActionKeeps DEF UpdtRevision, chainVars
<1>5. ASSUME NEW is_priv \in BOOLEAN, SetPriv(auth, SystemSelf, is_priv) PROVE AdminInv'
  BY <1>0, <1>5, ActionKeeps DEF SetPriv, gstate2Vars
<1>6. ASSUME NEW is_priv \in BOOLEAN, BiosSetPriv(auth, SystemSelf, is_priv) PROVE AdminInv'
  BY <1>0, <1>6, AdminTables, SaveKeeps DEF BiosSetPriv, gstate2Vars
<1>7. ASSUME NEW action, AwlSet(auth, action, RecordsSelf) PROVE AdminInv'
  <2>1. cwl' \subseteq Name
    BY <1>0, <1>7, RecordsAssumption DEF AwlSet
  <2> QED BY <1>0, <1>7, <2>1, ActionKeeps DEF AwlSet, chainVars, gstate2Vars
<1>8. CASE OtherAction
  BY <1>0, <1>8, ActionKeeps DEF OtherAction, chainVars, gstate2Vars
<1>9. ASSUME NEW n \in {SystemSelf, RecordsSelf}, NEW c \in Contract,
             <<code[n], c>> \in Upgrades(n), SetCode(auth, n, c)
      PROVE  AdminInv'
  BY <1>9, SetCodeKeeps
<1>10. ASSUME NEW a \in Abi, SetAbi(auth, RecordsSelf, a) PROVE AdminInv'
  BY <1>10, SetAbiKeeps
<1>11. ASSUME NEW n \in Name, CreateAccount(n) PROVE AdminInv'
  BY <1>11, CreateKeeps
<1> QED BY <1>1, <1>2, <1>3, <1>4, <1>5, <1>6, <1>7, <1>8, <1>9, <1>10, <1>11 DEF AdminStep

-----------------------------------------------------------------------------
(* Tables in the order of their keys. *)

KeySet(S) == S \subseteq Nat /\ IsFiniteSet(S)

Below(S, k) == {l \in S : l < k}
Place(S, k) == Cardinality(Below(S, k))

\* The i-th key of S.
KeyAt(S, i) == CHOOSE k \in S : Place(S, k) = i - 1

\* A key of a finite set has as many keys below it as its place says.
LEMMA KeyPlaces ==
  ASSUME NEW S, KeySet(S), NEW k \in S
  PROVE  /\ k \in Nat /\ IsFiniteSet(Below(S, k))
         /\ Cardinality(S) \in Nat /\ Place(S, k) \in Nat
         /\ Place(S, k) < Cardinality(S)
         /\ \A l \in S : l < k => Place(S, l) < Place(S, k)
<1>1. \A l \in S : IsFiniteSet(Below(S, l)) /\ Place(S, l) \in Nat
  BY FS_Subset, FS_CardinalityType DEF Below, Place, KeySet
<1>2. ASSUME NEW l \in S, l < k PROVE Place(S, l) < Place(S, k)
  <2>0. /\ \A x \in S : x < l => x < k
        /\ ~(l < l)
    BY <1>2 DEF KeySet
  <2>1. Below(S, l) \subseteq Below(S, k) /\ l \in Below(S, k) /\ l \notin Below(S, l)
    BY <1>2, <2>0 DEF Below
  <2>2. /\ Place(S, l) <= Place(S, k)
        /\ Place(S, k) = Place(S, l) => Below(S, k) = Below(S, l)
    BY <1>1, <2>1, FS_Subset DEF Place
  <2> QED BY <1>1, <2>1, <2>2
<1>3. Cardinality(S) \in Nat
  BY FS_CardinalityType DEF KeySet
<1>4. Below(S, k) \subseteq S /\ k \notin Below(S, k) /\ k \in Nat
  BY DEF Below, KeySet
<1>5. /\ Place(S, k) <= Cardinality(S)
      /\ Cardinality(S) = Place(S, k) => S = Below(S, k)
  BY <1>4, FS_Subset DEF Place, KeySet
<1>6. Place(S, k) < Cardinality(S)
  BY <1>1, <1>3, <1>4, <1>5
<1> QED BY <1>1, <1>2, <1>3, <1>4, <1>6

\* Different keys have different places, in the order of the keys.
LEMMA KeysOrdered ==
  ASSUME NEW S, KeySet(S), NEW k \in S, NEW l \in S
  PROVE  /\ Place(S, k) = Place(S, l) => k = l
         /\ Place(S, l) < Place(S, k) => l < k
<1>1. k \in Nat /\ l \in Nat /\ Place(S, k) \in Nat /\ Place(S, l) \in Nat
  BY KeyPlaces
<1>2. /\ l < k => Place(S, l) < Place(S, k)
      /\ k < l => Place(S, k) < Place(S, l)
  BY KeyPlaces
<1> QED BY <1>1, <1>2

\* Every place has one key.
LEMMA KeyAtPlace ==
  ASSUME NEW S, KeySet(S), NEW i \in 1 .. Cardinality(S)
  PROVE  KeyAt(S, i) \in S /\ Place(S, KeyAt(S, i)) = i - 1
<1> DEFINE n == Cardinality(S)
           f == [k \in S |-> Place(S, k)]
<1>1. n \in Nat /\ IsFiniteSet(S)
  BY FS_CardinalityType DEF KeySet
<1>2. f \in [S -> 0 .. n - 1]
  BY KeyPlaces
<1>3. \A k, l \in S : f[k] = f[l] => k = l
  BY KeysOrdered
<1> HIDE DEF f
<1>4. f \in Injection(S, 0 .. n - 1)
  BY <1>2, <1>3, Fun_IsInj
<1>5. IsFiniteSet(0 .. n - 1) /\ Cardinality(0 .. n - 1) = n
  <2> HIDE DEF n
  <2>1. 0 \in Int /\ n - 1 \in Int
    BY <1>1
  <2> QED BY <1>1, <2>1, FS_Interval
<1>6. f \in Surjection(S, 0 .. n - 1)
  BY <1>4, <1>5, FS_Injection
<1>7. i - 1 \in 0 .. n - 1
  BY <1>1
<1>8. \E k \in S : f[k] = i - 1
  BY <1>6, <1>7 DEF Surjection
<1>9. \E k \in S : Place(S, k) = i - 1
  BY <1>8 DEF f
<1> QED BY <1>9 DEF KeyAt

\* The key at a place is the only one there.
LEMMA KeyAtIs ==
  ASSUME NEW S, KeySet(S), NEW k \in S, NEW i \in Int, Place(S, k) = i - 1
  PROVE  i \in 1 .. Cardinality(S) /\ KeyAt(S, i) = k
<1>1. Cardinality(S) \in Nat /\ Place(S, k) \in Nat /\ Place(S, k) < Cardinality(S)
  BY KeyPlaces
<1>2. i \in 1 .. Cardinality(S)
  BY <1>1
<1>3. KeyAt(S, i) \in S /\ Place(S, KeyAt(S, i)) = i - 1
  BY <1>2, KeyAtPlace
<1> QED BY <1>2, <1>3, KeysOrdered

\* A finite set of keys has a first and a last one.
LEMMA KeyExtremes ==
  ASSUME NEW S, KeySet(S), S # {}
  PROVE  /\ \E k \in S : \A l \in S : k <= l
         /\ \E k \in S : \A l \in S : l <= k
<1>1. Cardinality(S) \in Nat /\ Cardinality(S) # 0
  BY FS_CardinalityType, FS_EmptySet DEF KeySet
<1>2. 1 \in 1 .. Cardinality(S) /\ Cardinality(S) \in 1 .. Cardinality(S)
  BY <1>1
<1>3. PICK k \in S : Place(S, k) = 0
  BY <1>2, KeyAtPlace
<1>4. PICK m \in S : Place(S, m) = Cardinality(S) - 1
  BY <1>2, KeyAtPlace
<1>5. ASSUME NEW l \in S PROVE k <= l /\ l <= m
  <2>1. /\ k \in Nat /\ l \in Nat /\ m \in Nat /\ Place(S, l) \in Nat
        /\ Place(S, l) < Cardinality(S)
    BY KeyPlaces
  <2>2. l < k => Place(S, l) < Place(S, k)
    BY KeyPlaces
  <2>3. m < l => Place(S, m) < Place(S, l)
    BY KeyPlaces
  <2> QED BY <1>1, <1>3, <1>4, <2>1, <2>2, <2>3
<1> QED BY <1>5

\* A listing has the rows of a table at the places of their keys.
LEMMA ListingIs ==
  ASSUME NEW t, KeySet(DOMAIN t)
  PROVE  /\ Cardinality(DOMAIN t) \in Nat
         /\ Listing(t) = [i \in 1 .. Cardinality(DOMAIN t) |-> t[KeyAt(DOMAIN t, i)]]
         /\ DOMAIN Listing(t) = 1 .. Cardinality(DOMAIN t)
         /\ Len(Listing(t)) = Cardinality(DOMAIN t)
         /\ \A k \in DOMAIN t : /\ Place(DOMAIN t, k) + 1 \in DOMAIN Listing(t)
                                /\ Listing(t)[Place(DOMAIN t, k) + 1] = t[k]
         /\ \A i \in DOMAIN Listing(t) : /\ KeyAt(DOMAIN t, i) \in DOMAIN t
                                         /\ Listing(t)[i] = t[KeyAt(DOMAIN t, i)]
<1>1. Cardinality(DOMAIN t) \in Nat
  BY FS_CardinalityType DEF KeySet
<1>2. Listing(t) = [i \in 1 .. Cardinality(DOMAIN t) |-> t[KeyAt(DOMAIN t, i)]]
  BY DEF Listing, KeyAt, Place, Below
<1>3. DOMAIN Listing(t) = 1 .. Cardinality(DOMAIN t)
  BY <1>2
<1>4. Len(Listing(t)) = Cardinality(DOMAIN t)
  BY <1>1, <1>3
<1>5. ASSUME NEW k \in DOMAIN t
      PROVE  /\ Place(DOMAIN t, k) + 1 \in DOMAIN Listing(t)
             /\ Listing(t)[Place(DOMAIN t, k) + 1] = t[k]
  <2>1. Place(DOMAIN t, k) \in Nat
    BY KeyPlaces
  <2>2. /\ Place(DOMAIN t, k) + 1 \in Int
        /\ Place(DOMAIN t, k) = (Place(DOMAIN t, k) + 1) - 1
    BY <2>1
  <2>3. /\ Place(DOMAIN t, k) + 1 \in 1 .. Cardinality(DOMAIN t)
        /\ KeyAt(DOMAIN t, Place(DOMAIN t, k) + 1) = k
    BY <2>2, KeyAtIs
  <2> QED BY <1>2, <1>3, <2>3
<1>6. \A i \in DOMAIN Listing(t) : /\ KeyAt(DOMAIN t, i) \in DOMAIN t
                                   /\ Listing(t)[i] = t[KeyAt(DOMAIN t, i)]
  BY <1>2, <1>3, KeyAtPlace
<1> QED BY <1>1, <1>2, <1>3, <1>4, <1>5, <1>6

\* A row with a key past all others is listed last.
LEMMA ListingAppend ==
  ASSUME NEW t, KeySet(DOMAIN t), NEW m \in Nat, \A l \in DOMAIN t : l < m, NEW r,
         NEW u, KeySet(DOMAIN u), DOMAIN u = DOMAIN t \cup {m}, u[m] = r,
         \A l \in DOMAIN t : u[l] = t[l]
  PROVE  Listing(u) = Append(Listing(t), r)
<1> DEFINE S == DOMAIN t
           T == DOMAIN u
           n == Cardinality(S)
<1>1. n \in Nat /\ m \notin S /\ IsFiniteSet(S)
  BY FS_CardinalityType DEF KeySet
<1>2. Cardinality(T) = n + 1
  BY <1>1, FS_AddElement
<1>3. \A l \in S : l \in Nat /\ l \in T /\ ~(m < l)
  BY DEF KeySet
<1>4. \A l \in S : Below(T, l) = Below(S, l)
  BY <1>3 DEF Below
<1>5. m \in T /\ Below(T, m) = S
  <2>1. ~(m < m)
    OBVIOUS
  <2> QED BY <2>1 DEF Below
<1>6. Place(T, m) = n /\ \A l \in S : Place(T, l) = Place(S, l)
  BY <1>4, <1>5 DEF Place
<1>7. KeyAt(T, n + 1) = m
  BY <1>1, <1>5, <1>6, KeyAtIs
<1>8. ASSUME NEW i \in 1 .. n PROVE KeyAt(T, i) = KeyAt(S, i) /\ KeyAt(S, i) \in S
  <2>1. KeyAt(S, i) \in S /\ Place(S, KeyAt(S, i)) = i - 1
    BY KeyAtPlace
  <2>2. KeyAt(S, i) \in T /\ Place(T, KeyAt(S, i)) = i - 1 /\ i \in Int
    BY <1>3, <1>6, <2>1
  <2> QED BY <2>1, <2>2, KeyAtIs
<1> HIDE DEF n
<1>9. /\ Listing(t) = [i \in 1 .. n |-> t[KeyAt(S, i)]]
      /\ Listing(u) = [i \in 1 .. n + 1 |-> u[KeyAt(T, i)]]
  BY <1>2, ListingIs DEF n
<1>10. \A i \in 1 .. n : u[KeyAt(T, i)] = t[KeyAt(S, i)]
  BY <1>8
<1>11. u[KeyAt(T, n + 1)] = r
  BY <1>7
<1> HIDE DEF S, T
<1>12. Len(Listing(t)) = n
  BY <1>1, <1>9
<1>13. Append(Listing(t), r) = [i \in 1 .. n + 1 |-> IF i = n + 1 THEN r ELSE Listing(t)[i]]
  BY <1>1, <1>9, <1>12
<1>14. \A i \in 1 .. n + 1 : i = n + 1 \/ i \in 1 .. n
  BY <1>1
<1>15. \A i \in 1 .. n + 1 : u[KeyAt(T, i)] = IF i = n + 1 THEN r ELSE Listing(t)[i]
  BY <1>9, <1>10, <1>11, <1>14
<1> QED BY <1>9, <1>13, <1>15

\* A row that is written anew is listed where it was.
LEMMA ListingReplace ==
  ASSUME NEW t, KeySet(DOMAIN t), NEW m \in DOMAIN t, NEW r,
         NEW u, DOMAIN u = DOMAIN t, u[m] = r, \A l \in DOMAIN t \ {m} : u[l] = t[l]
  PROVE  Listing(u) = [Listing(t) EXCEPT ![Place(DOMAIN t, m) + 1] = r]
<1> DEFINE S == DOMAIN t
           n == Cardinality(S)
           p == Place(S, m) + 1
<1>1. /\ Listing(t) = [i \in 1 .. n |-> t[KeyAt(S, i)]]
      /\ Listing(u) = [i \in 1 .. n |-> u[KeyAt(S, i)]]
  BY ListingIs
<1>2. ASSUME NEW i \in 1 .. n
      PROVE  /\ i = p => KeyAt(S, i) = m
             /\ i # p => KeyAt(S, i) \in S \ {m}
  <2>1. KeyAt(S, i) \in S /\ Place(S, KeyAt(S, i)) = i - 1
    BY KeyAtPlace
  <2>2. Place(S, m) \in Nat
    BY KeyPlaces
  <2>3. i = p => Place(S, KeyAt(S, i)) = Place(S, m)
    BY <2>1, <2>2
  <2>4. KeyAt(S, i) = m => i = p
    BY <2>1, <2>2
  <2> QED BY <2>1, <2>3, <2>4, KeysOrdered
<1> HIDE DEF n, p, S
<1>3. \A i \in 1 .. n : u[KeyAt(S, i)] = IF i = p THEN r ELSE t[KeyAt(S, i)]
  BY <1>2 DEF S
<1>4. [Listing(t) EXCEPT ![p] = r] = [i \in 1 .. n |-> IF i = p THEN r ELSE t[KeyAt(S, i)]]
  BY <1>1
<1>5. Listing(u) = [Listing(t) EXCEPT ![p] = r]
  BY <1>1, <1>3, <1>4
<1> QED BY <1>5 DEF p, S

\* A sequence without its p-th element.
LEMMA CutOut ==
  ASSUME NEW R, NEW s \in Seq(R), NEW p \in 1 .. Len(s)
  PROVE  SubSeq(s, 1, p - 1) \o SubSeq(s, p + 1, Len(s))
            = [i \in 1 .. Len(s) - 1 |-> IF i < p THEN s[i] ELSE s[i + 1]]
<1> DEFINE a == SubSeq(s, 1, p - 1)
           b == SubSeq(s, p + 1, Len(s))
           n == Len(s)
<1>1. n \in Nat /\ p \in Nat /\ 1 <= p /\ p <= n /\ DOMAIN s = 1 .. n
  OBVIOUS
<1>2. a \in Seq(R) /\ Len(a) = p - 1 /\ \A i \in 1 .. p - 1 : a[i] = s[i]
  OBVIOUS
<1>3. b \in Seq(R) /\ Len(b) = n - p /\ \A i \in 1 .. n - p : b[i] = s[p + i]
  <2>1. b \in Seq(R) /\ Len(b) = n - p
    OBVIOUS
  <2>2. \A i \in 1 .. n - p : b[i] = s[(p + 1) + i - 1] /\ (p + 1) + i - 1 = p + i
    OBVIOUS
  <2> QED BY <2>1, <2>2
<1> HIDE DEF a, b, n
<1>4. a \o b \in Seq(R) /\ Len(a \o b) = n - 1
  <2>1. Len(a \o b) = Len(a) + Len(b) /\ a \o b \in Seq(R)
    BY <1>2, <1>3, ConcatProperties
  <2> QED BY <1>1, <1>2, <1>3, <2>1
<1>5. \A i \in 1 .. n - 1 : (a \o b)[i] = IF i < p THEN s[i] ELSE s[i + 1]
  <2> TAKE i \in 1 .. n - 1
  <2>1. CASE i < p
    BY <1>1, <1>2, <1>3, <2>1
  <2>2. CASE ~(i < p)
    <3>1. i - (p - 1) \in 1 .. n - p /\ p + (i - (p - 1)) = i + 1
      BY <1>1, <2>2
    <3>2. (a \o b)[i] = b[i - (p - 1)]
      BY <1>1, <1>2, <1>3, <2>2
    <3> QED BY <1>3, <2>2, <3>1, <3>2
  <2> QED BY <2>1, <2>2
<1>6. a \o b = [i \in 1 .. n - 1 |-> IF i < p THEN s[i] ELSE s[i + 1]]
  <2>1. a \o b \in [1 .. n - 1 -> R]
    BY <1>4, LenProperties
  <2>2. a \o b = [i \in 1 .. n - 1 |-> (a \o b)[i]]
    BY <2>1
  <2> QED BY <1>5, <2>2
<1> QED BY <1>6 DEF a, b, n

\* An erased row is cut out of the listing.
LEMMA ListingStrike ==
  ASSUME NEW t, KeySet(DOMAIN t), NEW m \in DOMAIN t, NEW R, Listing(t) \in Seq(R),
         NEW u, KeySet(DOMAIN u), DOMAIN u = DOMAIN t \ {m}, \A l \in DOMAIN u : u[l] = t[l]
  PROVE  Listing(u) = SubSeq(Listing(t), 1, (Place(DOMAIN t, m) + 1) - 1)
                        \o SubSeq(Listing(t), (Place(DOMAIN t, m) + 1) + 1, Len(Listing(t)))
<1> DEFINE S == DOMAIN t
           T == DOMAIN u
           n == Cardinality(S)
           p == Place(S, m) + 1
<1>1. n \in Nat /\ IsFiniteSet(S) /\ Cardinality(T) = n - 1
  BY FS_CardinalityType, FS_RemoveElement DEF KeySet
<1>2. Place(S, m) \in Nat /\ Place(S, m) < n /\ p \in 1 .. n /\ m \in Nat
  BY <1>1, KeyPlaces
<1>3. \A l \in T : l \in S /\ l # m /\ l \in Nat
  BY DEF KeySet
<1>4. ASSUME NEW l \in T PROVE Place(T, l) = IF l < m THEN Place(S, l) ELSE Place(S, l) - 1
  <2>1. CASE l < m
    <3>1. ~(m < l)
      BY <1>2, <1>3, <2>1
    <3>2. Below(T, l) = Below(S, l)
      BY <3>1 DEF Below
    <3> QED BY <2>1, <3>2 DEF Place
  <2>2. CASE ~(l < m)
    <3>1. m < l
      BY <1>2, <1>3, <2>2
    <3>2. Below(T, l) = Below(S, l) \ {m} /\ m \in Below(S, l)
      BY <3>1 DEF Below
    <3>3. IsFiniteSet(Below(S, l))
      BY <1>3, KeyPlaces
    <3> QED BY <2>2, <3>2, <3>3, FS_RemoveElement DEF Place
  <2> QED BY <2>1, <2>2
<1>5. ASSUME NEW i \in 1 .. n - 1
      PROVE  LET j == IF i < p THEN i ELSE i + 1 IN
             KeyAt(T, i) = KeyAt(S, j) /\ KeyAt(S, j) \in T
  <2> DEFINE j == IF i < p THEN i ELSE i + 1
             k == KeyAt(S, j)
  <2>1. j \in 1 .. n /\ j # p
    BY <1>1, <1>2
  <2> HIDE DEF j
  <2>2. k \in S /\ Place(S, k) = j - 1
    BY <2>1, KeyAtPlace
  <2> HIDE DEF k
  <2>3. Place(S, k) # Place(S, m)
    BY <1>2, <2>1, <2>2
  <2>4. k \in T
    BY <2>2, <2>3
  <2>5. k < m <=> i < p
    <3>1. k \in Nat /\ Place(S, k) \in Nat
      BY <2>2, KeyPlaces
    <3>2. /\ Place(S, k) < Place(S, m) => k < m
          /\ Place(S, m) < Place(S, k) => m < k
      BY <2>2, KeysOrdered
    <3>3. i < p => Place(S, k) < Place(S, m)
      BY <1>2, <2>2, <3>1 DEF j
    <3>4. ~(i < p) => Place(S, m) < Place(S, k)
      BY <1>2, <2>2, <3>1 DEF j
    <3> QED BY <1>2, <3>1, <3>2, <3>3, <3>4
  <2>6. Place(T, k) = i - 1
    <3>1. CASE i < p
      BY <1>4, <2>2, <2>4, <2>5, <3>1 DEF j
    <3>2. CASE ~(i < p)
      <4>1. Place(T, k) = Place(S, k) - 1
        BY <1>4, <2>4, <2>5, <3>2
      <4>2. Place(S, k) = (i + 1) - 1
        BY <2>2, <3>2 DEF j
      <4> QED BY <4>1, <4>2
    <3> QED BY <3>1, <3>2
  <2>7. KeyAt(T, i) = k
    <3>1. i \in Int
      OBVIOUS
    <3> HIDE DEF T
    <3> QED BY <2>4, <2>6, <3>1, KeyAtIs DEF T
  <2> QED BY <2>4, <2>7 DEF j, k
<1>6. /\ Len(Listing(t)) = n
      /\ Listing(t) = [i \in 1 .. n |-> t[KeyAt(S, i)]]
      /\ Listing(u) = [i \in 1 .. n - 1 |-> u[KeyAt(T, i)]]
  BY <1>1, ListingIs
<1> HIDE DEF n, p, S, T
<1>7. \A i \in 1 .. n - 1 : u[KeyAt(T, i)] = IF i < p THEN Listing(t)[i] ELSE Listing(t)[i + 1]
  <2> TAKE i \in 1 .. n - 1
  <2>1. i \in 1 .. n /\ i + 1 \in 1 .. n
    BY <1>1
  <2> QED BY <1>5, <1>6, <2>1 DEF T
<1>8. p \in 1 .. Len(Listing(t))
  BY <1>2, <1>6
<1>9. Listing(u) = SubSeq(Listing(t), 1, p - 1) \o SubSeq(Listing(t), p + 1, Len(Listing(t)))
  <2>1. SubSeq(Listing(t), 1, p - 1) \o SubSeq(Listing(t), p + 1, Len(Listing(t)))
          = [i \in 1 .. Len(Listing(t)) - 1 |->
               IF i < p THEN Listing(t)[i] ELSE Listing(t)[i + 1]]
    BY <1>8, CutOut
  <2>2. Listing(u) = [i \in 1 .. n - 1 |-> u[KeyAt(T, i)]] /\ Len(Listing(t)) = n
    BY <1>6
  <2> QED BY <1>7, <2>1, <2>2
<1> QED BY <1>9 DEF p, S

-----------------------------------------------------------------------------
(* The tables of records. *)

\* A table with keys of its range and at most one row of an id.
BookTable(t, I, C) ==
    /\ IsTable(t, 0 .. MaxKey, Rows(I, C))
    /\ \A k, l \in DOMAIN t : t[k].id = t[l].id => k = l

\* Its keys can be listed.
LEMMA BookKeys ==
  ASSUME NEW t, NEW I, NEW C, BookTable(t, I, C)
  PROVE  KeySet(DOMAIN t) /\ Listing(t) \in Seq(Rows(I, C))
<1>1. DOMAIN t \subseteq 0 .. MaxKey /\ 0 \in Int /\ MaxKey \in Int
  BY RecordsAssumption DEF BookTable, IsTable
<1>2. KeySet(DOMAIN t)
  <2>1. IsFiniteSet(0 .. MaxKey) /\ 0 .. MaxKey \subseteq Nat
    BY <1>1, FS_Interval
  <2>2. IsFiniteSet(DOMAIN t)
    BY <1>1, <2>1, FS_Subset
  <2> QED BY <1>1, <2>1, <2>2 DEF KeySet
<1>3. \A i \in DOMAIN Listing(t) : Listing(t)[i] \in Rows(I, C)
  BY <1>2, ListingIs DEF BookTable, IsTable
<1>4. Listing(t) \in [1 .. Cardinality(DOMAIN t) -> Rows(I, C)] /\ Cardinality(DOMAIN t) \in Nat
  BY <1>2, <1>3, ListingIs
<1>5. ASSUME NEW S, NEW m \in Nat, NEW s \in [1 .. m -> S] PROVE s \in Seq(S)
  OBVIOUS
<1> QED BY <1>2, <1>4, <1>5

\* Where there are rows with an id, the index finds one of them.
LEMMA LeastWith ==
  ASSUME NEW t, KeySet(DOMAIN t), NEW id, With(t, id) # {}
  PROVE  Least(With(t, id)) \in DOMAIN t /\ t[Least(With(t, id))].id = id
<1>1. KeySet(With(t, id))
  BY FS_Subset DEF KeySet, With
<1>2. \E k \in With(t, id) : \A l \in With(t, id) : k <= l
  BY <1>1, KeyExtremes
<1>3. Least(With(t, id)) \in With(t, id)
  BY <1>2 DEF Least
<1> QED BY <1>3 DEF With

\* The key that is handed out is past all others.
LEMMA AvailableKeyIs ==
  ASSUME NEW t, KeySet(DOMAIN t)
  PROVE  AvailableKey(t) \in Nat /\ \A l \in DOMAIN t : l < AvailableKey(t)
<1>1. CASE DOMAIN t = {}
  BY <1>1 DEF AvailableKey
<1>2. CASE DOMAIN t # {}
  <2> DEFINE last == CHOOSE k \in DOMAIN t : \A l \in DOMAIN t : l <= k
  <2>1. last \in DOMAIN t /\ \A l \in DOMAIN t : l <= last
    BY <1>2, KeyExtremes
  <2>2. AvailableKey(t) = 1 + last
    BY <1>2 DEF AvailableKey
  <2> HIDE DEF last
  <2>3. last \in Nat /\ \A l \in DOMAIN t : l \in Nat
    BY <2>1 DEF KeySet
  <2> QED BY <2>1, <2>2, <2>3
<1> QED BY <1>1, <1>2

\* u is t with the entry e in its book: at the end or in the place of another.
Entered(t, u, I, C, e) ==
    /\ BookTable(u, I, C)
    /\ \A k \in DOMAIN u : u[k] = e \/ (k \in DOMAIN t /\ u[k] = t[k])
    /\ \/ /\ \A i \in DOMAIN Listing(t) : Listing(t)[i].id # e.id
          /\ Listing(u) = Append(Listing(t), e)
       \/ \E i \in DOMAIN Listing(t) :
            /\ Listing(t)[i].id = e.id
            /\ Listing(u) = [Listing(t) EXCEPT ![i].content = e.content]

\* The three upserts.
LEMMA UpsertEnters ==
  ASSUME NEW t, NEW I, NEW C, BookTable(t, I, C), NEW id \in I, NEW c \in C,
         NEW u, Upserted(t, u, id, c)
  PROVE  Entered(t, u, I, C, [id |-> id, content |-> c])
<1> DEFINE m == KeyFor(t, id)
           e == [id |-> id, content |-> c]
<1>0. KeySet(DOMAIN t) /\ e \in Rows(I, C) /\ e.id = id /\ e.content = c
  BY BookKeys DEF Rows
<1>1. /\ With(t, id) = {} => /\ m \in Nat /\ \A l \in DOMAIN t : l < m
                             /\ \A l \in DOMAIN t : t[l].id # id
      /\ With(t, id) # {} => m \in DOMAIN t /\ t[m].id = id
  <2>1. With(t, id) = {} => m = AvailableKey(t) /\ \A l \in DOMAIN t : t[l].id # id
    BY DEF KeyFor, With
  <2>2. With(t, id) # {} => m = Least(With(t, id))
    BY DEF KeyFor
  <2> HIDE DEF m
  <2> QED BY <1>0, <2>1, <2>2, LeastWith, AvailableKeyIs
<1>2. m <= MaxKey /\ u = Put(t, m, e)
  BY DEF Upserted
<1> HIDE DEF m, e
<1>3. m \in 0 .. MaxKey
  BY <1>1, <1>2, RecordsAssumption DEF BookTable, IsTable
<1>4. Written(t, u, 0 .. MaxKey, Rows(I, C), m, e)
  BY <1>0, <1>2, <1>3, PutTable DEF BookTable
<1>5. BookTable(u, I, C)
  BY <1>0, <1>1, <1>4 DEF BookTable, Written
<1>6. KeySet(DOMAIN u)
  BY <1>5, BookKeys
<1>7. \A k \in DOMAIN u : u[k] = e \/ (k \in DOMAIN t /\ u[k] = t[k])
  BY <1>4 DEF Written
<1>8. CASE With(t, id) = {}
  <2>1. /\ m \in Nat /\ \A l \in DOMAIN t : l < m
        /\ DOMAIN u = DOMAIN t \cup {m} /\ u[m] = e
    BY <1>1, <1>4, <1>8 DEF Written
  <2>2. \A l \in DOMAIN t : u[l] = t[l]
    <3>1. ~(m < m)
      BY <2>1
    <3> QED BY <1>4, <2>1, <3>1 DEF Written
  <2>3. Listing(u) = Append(Listing(t), e)
    BY <1>0, <1>6, <2>1, <2>2, ListingAppend
  <2>4. \A i \in DOMAIN Listing(t) : Listing(t)[i].id # e.id
    BY <1>0, <1>1, <1>8, ListingIs
  <2> QED BY <1>5, <1>7, <2>3, <2>4 DEF Entered, e
<1>9. CASE With(t, id) # {}
  <2> DEFINE i == Place(DOMAIN t, m) + 1
  <2>1. m \in DOMAIN t /\ t[m].id = e.id /\ DOMAIN u = DOMAIN t /\ u[m] = e
        /\ \A l \in DOMAIN t \ {m} : u[l] = t[l]
    BY <1>0, <1>1, <1>4, <1>9 DEF Written
  <2>2. Listing(u) = [Listing(t) EXCEPT ![i] = e]
    BY <1>0, <2>1, ListingReplace
  <2>3. i \in DOMAIN Listing(t) /\ Listing(t)[i] = t[m]
    BY <1>0, <2>1, ListingIs
  <2>4. t[m] \in Rows(I, C)
    BY <2>1 DEF BookTable, IsTable
  <2>5. e = [t[m] EXCEPT !.content = e.content]
    BY <2>1, <2>4 DEF Rows, e
  <2> HIDE DEF i
  <2>6. [Listing(t) EXCEPT ![i].content = e.content] = [Listing(t) EXCEPT ![i] = e]
    BY <2>3, <2>5
  <2> QED BY <1>5, <1>7, <2>1, <2>2, <2>3, <2>6 DEF Entered, e
<1> QED BY <1>8, <1>9

\* u is t without its entry of id.
Struck(t, u, I, C, id) ==
    /\ BookTable(u, I, C)
    /\ \A k \in DOMAIN u : k \in DOMAIN t /\ u[k] = t[k]
    /\ \E i \in DOMAIN Listing(t) :
         /\ Listing(t)[i].id = id
         /\ Listing(u) = SubSeq(Listing(t), 1, i - 1)
                           \o SubSeq(Listing(t), i + 1, Len(Listing(t)))

\* The three erases.
LEMMA EraseStrikes ==
  ASSUME NEW t, NEW I, NEW C, BookTable(t, I, C), NEW id, NEW u, Erased(t, u, id)
  PROVE  Struck(t, u, I, C, id)
<1> DEFINE m == Least(With(t, id))
<1>0. KeySet(DOMAIN t) /\ Listing(t) \in Seq(Rows(I, C))
  BY BookKeys
<1>1. m \in DOMAIN t /\ t[m].id = id /\ u = Drop(t, m)
  BY <1>0, LeastWith DEF Erased
<1> HIDE DEF m
<1>2. Removed(t, u, 0 .. MaxKey, Rows(I, C), m)
  BY <1>1, DropTable DEF BookTable
<1>3. BookTable(u, I, C)
  BY <1>2 DEF BookTable, Removed
<1>4. KeySet(DOMAIN u) /\ DOMAIN u = DOMAIN t \ {m} /\ \A l \in DOMAIN u : u[l] = t[l]
  BY <1>2, <1>3, BookKeys DEF Removed
<1> DEFINE i == Place(DOMAIN t, m) + 1
<1>5. Listing(u) = SubSeq(Listing(t), 1, i - 1) \o SubSeq(Listing(t), i + 1, Len(Listing(t)))
  BY <1>0, <1>1, <1>4, ListingStrike
<1>6. i \in DOMAIN Listing(t) /\ Listing(t)[i] = t[m]
  BY <1>0, <1>1, ListingIs
<1> HIDE DEF i
<1> QED BY <1>1, <1>3, <1>4, <1>5, <1>6 DEF Struck

\* What RecordsTypeOK says of the tables, that no table has two rows of an id,
\* and that the parties of a record exist.
RecordsInv ==
    /\ BookTable(transrecords, TransId, TransContent)
    /\ BookTable(orders, OrderId, OrderContent)
    /\ BookTable(debts, DebtId, DebtContent)
    /\ \A k \in DOMAIN transrecords :
         LET r == transrecords[k].content IN Between(r.from, r.to, r)
    /\ \A k \in DOMAIN debts :
         LET r == debts[k].content IN Between(r.debtor, r.creditor, r)

\* It gives the types.
LEMMA RecordsTypes == RecordsInv => RecordsTypeOK
BY DEF RecordsInv, RecordsTypeOK, BookTable

\* At the start there are no records.
LEMMA RecordsInitInv ==
  ASSUME RecordsInit
  PROVE  /\ RecordsInv
         /\ Listing(transrecords) = << >> /\ Listing(orders) = << >> /\ Listing(debts) = << >>
<1>1. /\ transrecords = NoRows /\ orders = NoRows /\ debts = NoRows /\ DOMAIN NoRows = {}
      /\ IsTable(NoRows, 0 .. MaxKey, Rows(TransId, TransContent))
      /\ IsTable(NoRows, 0 .. MaxKey, Rows(OrderId, OrderContent))
      /\ IsTable(NoRows, 0 .. MaxKey, Rows(DebtId, DebtContent))
  BY NoRowsTable DEF RecordsInit
<1>2. RecordsInv
  BY <1>1 DEF RecordsInv, BookTable
<1>3. Listing(NoRows) = << >>
  <2>1. KeySet(DOMAIN NoRows) /\ Cardinality(DOMAIN NoRows) = 0
    BY <1>1, FS_EmptySet DEF KeySet
  <2>2. BookTable(NoRows, TransId, TransContent)
    BY <1>1 DEF BookTable
  <2>3. Listing(NoRows) \in Seq(Rows(TransId, TransContent)) /\ Len(Listing(NoRows)) = 0
    BY <2>1, <2>2, BookKeys, ListingIs
  <2> QED BY <2>3, EmptySeq
<1> QED BY <1>1, <1>2, <1>3

\* Records stay as they are while accounts come and none goes.
LEMMA RecordsSame ==
  ASSUME RecordsInv, UNCHANGED recordVars, existing \subseteq existing'
  PROVE  RecordsInv'
BY DEF RecordsInv, recordVars, Between, BookTable, IsTable

\* An entry between two accounts is one that the action checked.
LEMMA AcceptableBetween ==
  ASSUME NEW a, NEW b, NEW q, NEW f, Acceptable(a, b, q, f), NEW r,
         r.quantity = q, r.fee = f
  PROVE  Between(a, b, r)
BY DEF Acceptable, Between

\* What an action of transorderdebt does: it enters a record in one table or
\* strikes one out, and leaves the other tables and the accounts alone.
RecordEffect ==
    \/ /\ \E id \in TransId :
            \/ \E c \in TransContent :
                 /\ Between(c.from, c.to, c)
                 /\ Entered(transrecords, transrecords', TransId, TransContent,
                            [id |-> id, content |-> c])
            \/ Struck(transrecords, transrecords', TransId, TransContent, id)
       /\ UNCHANGED <<existing, orders, debts>>
    \/ /\ \E id \in OrderId :
            \/ \E c \in OrderContent :
                 Entered(orders, orders', OrderId, OrderContent, [id |-> id, content |-> c])
            \/ Struck(orders, orders', OrderId, OrderContent, id)
       /\ UNCHANGED <<existing, transrecords, debts>>
    \/ /\ \E id \in DebtId :
            \/ \E c \in DebtContent :
                 /\ Between(c.debtor, c.creditor, c)
                 /\ Entered(debts, debts', DebtId, DebtContent, [id |-> id, content |-> c])
            \/ Struck(debts, debts', DebtId, DebtContent, id)
       /\ UNCHANGED <<existing, transrecords, orders>>

\* Every action has such an effect.
LEMMA RecordsStepEffect ==
  ASSUME RecordsInv, NEW auth, RecordsStep(auth)
  PROVE  RecordEffect
<1>0. /\ BookTable(transrecords, TransId, TransContent)
      /\ BookTable(orders, OrderId, OrderContent)
      /\ BookTable(debts, DebtId, DebtContent)
  BY DEF RecordsInv
<1>1. ASSUME NEW id \in TransId, NEW from \in Party, NEW to \in Party,
             NEW q \in Money, NEW f \in Money, TransUpsert(auth, id, from, to, q, f)
      PROVE  RecordEffect
  <2> DEFINE c == [from |-> from, to |-> to, quantity |-> q, fee |-> f]
  <2>1. c \in TransContent
    BY RecordsAssumption DEF TransContent
  <2>2. Between(c.from, c.to, c)
    <3>1. Between(from, to, c)
      BY <1>1, AcceptableBetween DEF TransUpsert
    <3> QED BY <3>1
  <2>3. Upserted(transrecords, transrecords', id, c) /\ UNCHANGED <<existing, orders, debts>>
    BY <1>1 DEF TransUpsert
  <2> HIDE DEF c
  <2>4. Entered(transrecords, transrecords', TransId, TransContent, [id |-> id, content |-> c])
    BY <1>0, <2>1, <2>3, UpsertEnters
  <2> QED BY <2>1, <2>2, <2>3, <2>4 DEF RecordEffect
<1>2. ASSUME NEW id \in TransId, TransErase(auth, id) PROVE RecordEffect
  <2>1. Erased(transrecords, transrecords', id) /\ UNCHANGED <<existing, orders, debts>>
    BY <1>2 DEF TransErase
  <2>2. Struck(transrecords, transrecords', TransId, TransContent, id)
    BY <1>0, <2>1, EraseStrikes
  <2> QED BY <2>1, <2>2 DEF RecordEffect
<1>3. ASSUME NEW id \in OrderId, NEW a \in Party, NEW m \in Party, OrderUpsert(auth, id, a, m)
      PROVE  RecordEffect
  <2> DEFINE c == [account |-> a, merchant |-> m]
  <2>1. c \in OrderContent
    BY RecordsAssumption DEF OrderContent
  <2>2. Upserted(orders, orders', id, c) /\ UNCHANGED <<existing, transrecords, debts>>
    BY <1>3 DEF OrderUpsert
  <2> HIDE DEF c
  <2>3. Entered(orders, orders', OrderId, OrderContent, [id |-> id, content |-> c])
    BY <1>0, <2>1, <2>2, UpsertEnters
  <2> QED BY <2>1, <2>2, <2>3 DEF RecordEffect
<1>4. ASSUME NEW id \in OrderId, OrderErase(auth, id) PROVE RecordEffect
  <2>1. Erased(orders, orders', id) /\ UNCHANGED <<existing, transrecords, debts>>
    BY <1>4 DEF OrderErase
  <2>2. Struck(orders, orders', OrderId, OrderContent, id)
    BY <1>0, <2>1, EraseStrikes
  <2> QED BY <2>1, <2>2 DEF RecordEffect
<1>5. ASSUME NEW id \in DebtId, NEW d \in Party, NEW cr \in Party,
             NEW q \in Money, NEW f \in Money, DebtUpsert(auth, id, d, cr, q, f)
      PROVE  RecordEffect
  <2> DEFINE c == [debtor |-> d, creditor |-> cr, quantity |-> q, fee |-> f]
  <2>1. c \in DebtContent
    BY RecordsAssumption DEF DebtContent
  <2>2. Between(c.debtor, c.creditor, c)
    <3>1. Between(d, cr, c)
      BY <1>5, AcceptableBetween DEF DebtUpsert
    <3> QED BY <3>1
  <2>3. Upserted(debts, debts', id, c) /\ UNCHANGED <<existing, transrecords, orders>>
    BY <1>5 DEF DebtUpsert
  <2> HIDE DEF c
  <2>4. Entered(debts, debts', DebtId, DebtContent, [id |-> id, content |-> c])
    BY <1>0, <2>1, <2>3, UpsertEnters
  <2> QED BY <2>1, <2>2, <2>3, <2>4 DEF RecordEffect
<1>6. ASSUME NEW id \in DebtId, DebtErase(auth, id) PROVE RecordEffect
  <2>1. Erased(debts, debts', id) /\ UNCHANGED <<existing, transrecords, orders>>
    BY <1>6 DEF DebtErase
  <2>2. Struck(debts, debts', DebtId, DebtContent, id)
    BY <1>0, <2>1, EraseStrikes
  <2> QED BY <2>1, <2>2 DEF RecordEffect
<1> QED BY <1>1, <1>2, <1>3, <1>4, <1>5, <1>6 DEF RecordsStep

\* The rows after an entry was entered.
LEMMA EnteredRows ==
  ASSUME NEW t, NEW u, NEW I, NEW C, NEW id, NEW c,
         Entered(t, u, I, C, [id |-> id, content |-> c])
  PROVE  /\ BookTable(u, I, C)
         /\ \A k \in DOMAIN u : u[k].content = c \/ (k \in DOMAIN t /\ u[k] = t[k])
BY DEF Entered

\* The rows after an entry was struck.
LEMMA StruckRows ==
  ASSUME NEW t, NEW u, NEW I, NEW C, NEW id, Struck(t, u, I, C, id)
  PROVE  /\ BookTable(u, I, C)
         /\ \A k \in DOMAIN u : k \in DOMAIN t /\ u[k] = t[k]
BY DEF Struck

\* Effects keep the invariant.
LEMMA EffectKeeps ==
  ASSUME RecordsInv, RecordEffect
  PROVE  RecordsInv'
<1>0. UNCHANGED existing
  BY DEF RecordEffect
<1>1. /\ BookTable(transrecords, TransId, TransContent)
      /\ BookTable(orders, OrderId, OrderContent)
      /\ BookTable(debts, DebtId, DebtContent)
      /\ \A k \in DOMAIN transrecords :
           LET r == transrecords[k].content IN Between(r.from, r.to, r)
      /\ \A k \in DOMAIN debts :
           LET r == debts[k].content IN Between(r.debtor, r.creditor, r)
  BY DEF RecordsInv
<1>2. /\ BookTable(transrecords', TransId, TransContent)
      /\ \A k \in DOMAIN transrecords' :
           LET r == transrecords'[k].content IN Between(r.from, r.to, r)
  <2>1. CASE UNCHANGED transrecords
    BY <1>1, <2>1
  <2>2. ASSUME NEW id, NEW c, Between(c.from, c.to, c),
               Entered(transrecords, transrecords', TransId, TransContent, [id |-> id, content |-> c])
        PROVE  /\ BookTable(transrecords', TransId, TransContent)
               /\ \A k \in DOMAIN transrecords' :
                    LET r == transrecords'[k].content IN Between(r.from, r.to, r)
    BY <1>1, <2>2, EnteredRows
  <2>3. ASSUME NEW id, Struck(transrecords, transrecords', TransId, TransContent, id)
        PROVE  /\ BookTable(transrecords', TransId, TransContent)
               /\ \A k \in DOMAIN transrecords' :
                    LET r == transrecords'[k].content IN Between(r.from, r.to, r)
    BY <1>1, <2>3, StruckRows
  <2> QED BY <2>1, <2>2, <2>3 DEF RecordEffect
<1>3. BookTable(orders', OrderId, OrderContent)
  <2>1. CASE UNCHANGED orders
    BY <1>1, <2>1
  <2>2. ASSUME NEW id, NEW c,
               Entered(orders, orders', OrderId, OrderContent, [id |-> id, content |-> c])
        PROVE  BookTable(orders', OrderId, OrderContent)
    BY <2>2, EnteredRows
  <2>3. ASSUME NEW id, Struck(orders, orders', OrderId, OrderContent, id)
        PROVE  BookTable(orders', OrderId, OrderContent)
    BY <2>3, StruckRows
  <2> QED BY <2>1, <2>2, <2>3 DEF RecordEffect
<1>4. /\ BookTable(debts', DebtId, DebtContent)
      /\ \A k \in DOMAIN debts' :
           LET r == debts'[k].content IN Between(r.debtor, r.creditor, r)
  <2>1. CASE UNCHANGED debts
    BY <1>1, <2>1
  <2>2. ASSUME NEW id, NEW c, Between(c.debtor, c.creditor, c),
               Entered(debts, debts', DebtId, DebtContent, [id |-> id, content |-> c])
        PROVE  /\ BookTable(debts', DebtId, DebtContent)
               /\ \A k \in DOMAIN debts' :
                    LET r == debts'[k].content IN Between(r.debtor, r.creditor, r)
    BY <1>1, <2>2, EnteredRows
  <2>3. ASSUME NEW id, Struck(debts, debts', DebtId, DebtContent, id)
        PROVE  /\ BookTable(debts', DebtId, DebtContent)
               /\ \A k \in DOMAIN debts' :
                    LET r == debts'[k].content IN Between(r.debtor, r.creditor, r)
    BY <1>1, <2>3, StruckRows
  <2> QED BY <2>1, <2>2, <2>3 DEF RecordEffect
<1> QED BY <1>0, <1>2, <1>3, <1>4 DEF RecordsInv, Between, BookTable, IsTable

\* What an effect does to the listing of transrecords is a step of its book.
LEMMA TransBookStep ==
  ASSUME RecordEffect
  PROVE  [TransBook!Next]_(Listing(transrecords))
<1> DEFINE L == Listing(transrecords)
<1>1. CASE UNCHANGED transrecords
  BY <1>1 DEF Listing
<1>2. ASSUME NEW id \in TransId, NEW c \in TransContent,
             Entered(transrecords, transrecords', TransId, TransContent, [id |-> id, content |-> c])
      PROVE  [TransBook!Next]_L
  <2> DEFINE e == [id |-> id, content |-> c]
  <2>1. \/ /\ \A i \in DOMAIN L : L[i].id # e.id
           /\ L' = Append(L, e)
        \/ \E i \in DOMAIN L : L[i].id = e.id /\ L' = [L EXCEPT ![i].content = e.content]
    BY <1>2 DEF Entered
  <2>2. e.id = id /\ e.content = c
    OBVIOUS
  <2>3. TransBook!Add(id, c) \/ TransBook!Replace(id, c)
    BY <2>1, <2>2 DEF TransBook!Add, TransBook!Replace, TransBook!Entry
  <2> QED BY <2>3 DEF TransBook!Next
<1>3. ASSUME NEW id \in TransId, Struck(transrecords, transrecords', TransId, TransContent, id)
      PROVE  [TransBook!Next]_L
  <2>1. TransBook!Strike(id)
    BY <1>3 DEF Struck, TransBook!Strike, TransBook!Entry
  <2> QED BY <2>1 DEF TransBook!Next
<1> QED BY <1>1, <1>2, <1>3 DEF RecordEffect

\* What an effect does to the listing of orders is a step of its book.
LEMMA OrderBookStep ==
  ASSUME RecordEffect
  PROVE  [OrderBook!Next]_(Listing(orders))
<1> DEFINE L == Listing(orders)
<1>1. CASE UNCHANGED orders
  BY <1>1 DEF Listing
<1>2. ASSUME NEW id \in OrderId, NEW c \in OrderContent,
             Entered(orders, orders', OrderId, OrderContent, [id |-> id, content |-> c])
      PROVE  [OrderBook!Next]_L
  <2> DEFINE e == [id |-> id, content |-> c]
  <2>1. \/ /\ \A i \in DOMAIN L : L[i].id # e.id
           /\ L' = Append(L, e)
        \/ \E i \in DOMAIN L : L[i].id = e.id /\ L' = [L EXCEPT ![i].content = e.content]
    BY <1>2 DEF Entered
  <2>2. e.id = id /\ e.content = c
    OBVIOUS
  <2>3. OrderBook!Add(id, c) \/ OrderBook!Replace(id, c)
    BY <2>1, <2>2 DEF OrderBook!Add, OrderBook!Replace, OrderBook!Entry
  <2> QED BY <2>3 DEF OrderBook!Next
<1>3. ASSUME NEW id \in OrderId, Struck(orders, orders', OrderId, OrderContent, id)
      PROVE  [OrderBook!Next]_L
  <2>1. OrderBook!Strike(id)
    BY <1>3 DEF Struck, OrderBook!Strike, OrderBook!Entry
  <2> QED BY <2>1 DEF OrderBook!Next
<1> QED BY <1>1, <1>2, <1>3 DEF RecordEffect

\* What an effect does to the listing of debts is a step of its book.
LEMMA DebtBookStep ==
  ASSUME RecordEffect
  PROVE  [DebtBook!Next]_(Listing(debts))
<1> DEFINE L == Listing(debts)
<1>1. CASE UNCHANGED debts
  BY <1>1 DEF Listing
<1>2. ASSUME NEW id \in DebtId, NEW c \in DebtContent,
             Entered(debts, debts', DebtId, DebtContent, [id |-> id, content |-> c])
      PROVE  [DebtBook!Next]_L
  <2> DEFINE e == [id |-> id, content |-> c]
  <2>1. \/ /\ \A i \in DOMAIN L : L[i].id # e.id
           /\ L' = Append(L, e)
        \/ \E i \in DOMAIN L : L[i].id = e.id /\ L' = [L EXCEPT ![i].content = e.content]
    BY <1>2 DEF Entered
  <2>2. e.id = id /\ e.content = c
    OBVIOUS
  <2>3. DebtBook!Add(id, c) \/ DebtBook!Replace(id, c)
    BY <2>1, <2>2 DEF DebtBook!Add, DebtBook!Replace, DebtBook!Entry
  <2> QED BY <2>3 DEF DebtBook!Next
<1>3. ASSUME NEW id \in DebtId, Struck(debts, debts', DebtId, DebtContent, id)
      PROVE  [DebtBook!Next]_L
  <2>1. DebtBook!Strike(id)
    BY <1>3 DEF Struck, DebtBook!Strike, DebtBook!Entry
  <2> QED BY <2>1 DEF DebtBook!Next
<1> QED BY <1>1, <1>2, <1>3 DEF RecordEffect

-----------------------------------------------------------------------------
(* The chain with both. *)

DeploymentInv == AdminInv /\ RecordsInv

\* The chain starts in a state of the invariant.
LEMMA DeploymentInitInv == Init => DeploymentInv
BY AdminInitInv, RecordsInitInv DEF Init, DeploymentInv

\* Administration adds accounts and removes none.
LEMMA AccountsStay ==
  ASSUME NEW auth, AdminStep(auth)
  PROVE  existing \subseteq existing'
BY DEF AdminStep, SetParams, BiosSetParams, SetGrtdCpu, UpdtRevision, SetPriv, BiosSetPriv,
       AwlSet, OtherAction, SetCode, SetAbi, CreateAccount, ChainNewAccount

\* The records contract leaves administration alone.
LEMMA AdminSame ==
  ASSUME AdminInv, UNCHANGED <<existing, adminVars>>
  PROVE  AdminInv'
<1>1. UNCHANGED <<existing, code, abi, privileged, chain_params, abihash, global,
                  guaranteed_cpu, revision, cwl>>
  BY DEF adminVars, chainVars, gstate2Vars
<1> QED BY <1>1 DEF AdminInv, AdminTypeOK, AbiHashesCurrent, ParamsAgree, ContractsGoForward

\* Every step of the chain keeps the invariant.
LEMMA DeploymentNextInv ==
  DeploymentInv /\ [Next]_<<existing, adminVars, recordVars>> => DeploymentInv'
<1> SUFFICES ASSUME DeploymentInv, [Next]_<<existing, adminVars, recordVars>>
             PROVE  DeploymentInv'
  OBVIOUS
<1>0. AdminInv /\ RecordsInv
  BY DEF DeploymentInv
<1>1. ASSUME NEW n \in First, AdminStep({n}), UNCHANGED recordVars PROVE DeploymentInv'
  <2>1. AdminInv'
    BY <1>0, <1>1, AdminStepInv
  <2>2. RecordsInv'
    BY <1>0, <1>1, AccountsStay, RecordsSame
  <2> QED BY <2>1, <2>2 DEF DeploymentInv
<1>2. ASSUME NEW n \in First, RecordsStep({n}), UNCHANGED adminVars PROVE DeploymentInv'
  <2>1. RecordEffect
    BY <1>0, <1>2, RecordsStepEffect
  <2>2. UNCHANGED existing
    BY <2>1 DEF RecordEffect
  <2> QED BY <1>0, <1>2, <2>1, <2>2, AdminSame, EffectKeeps DEF DeploymentInv
<1>3. CASE UNCHANGED <<existing, adminVars, recordVars>>
  BY <1>0, <1>3, AdminSame, RecordsSame DEF DeploymentInv
<1> QED BY <1>1, <1>2, <1>3 DEF Next

\* On every chain, the singletons and tables of administration are well formed,
\* and only accounts that exist have code, an ABI or privileges.
THEOREM AdminTypeCorrect == Spec => []AdminTypeOK
<1>1. DeploymentInv => AdminTypeOK
  BY DEF DeploymentInv, AdminInv
<1> QED BY DeploymentInitInv, DeploymentNextInv, <1>1, PTL DEF Spec

\* The abihash table has the hashes of the ABIs in force, whichever contract
\* wrote its rows.
THEOREM HashesStayCurrent == Spec => []AbiHashesCurrent
<1>1. DeploymentInv => AbiHashesCurrent
  BY DEF DeploymentInv, AdminInv
<1> QED BY DeploymentInitInv, DeploymentNextInv, <1>1, PTL DEF Spec

\* The parameters that the system contract keeps are the ones in force.
THEOREM ParamsStayInForce == Spec => []ParamsAgree
<1>1. DeploymentInv => ParamsAgree
  BY DEF DeploymentInv, AdminInv
<1> QED BY DeploymentInitInv, DeploymentNextInv, <1>1, PTL DEF Spec

\* Records are well formed, and the parties of each exist.
THEOREM RecordsTypeCorrect == Spec => []RecordsTypeOK
<1>1. DeploymentInv => RecordsTypeOK
  BY RecordsTypes DEF DeploymentInv
<1> QED BY DeploymentInitInv, DeploymentNextInv, <1>1, PTL DEF Spec

\* An action that saves has the row afterwards, and so has one that is handled by
\* the system contract.
LEMMA SavedLoads ==
  /\ \A p : Save(p) => "global" \in DOMAIN global'
  /\ Handled(SystemContract) => "global" \in DOMAIN global'
BY DEF Save, Handled, Put

\* Under the system contract every step of administration saves, also the ones
\* that the chain runs; no code that setcode may bring in its place skips it.
LEMMA AdminStepSaves ==
  ASSUME AdminInv, code[SystemSelf] = SystemContract, NEW auth, AdminStep(auth)
  PROVE  "global" \in DOMAIN global'
<1>1. NoCode # SystemContract /\ Bios # SystemContract
  BY AdminAssumption
<1>2. ASSUME NEW n, NEW c, <<code[n], c>> \in Upgrades(n), SetCode(auth, n, c)
      PROVE  "global" \in DOMAIN global'
  <2>1. code' = [code EXCEPT ![n] = c]
    BY <1>2 DEF SetCode
  <2>2. n = SystemSelf => c = SystemContract
    BY <1>1, <1>2 DEF Upgrades
  <2>3. SystemSelf \in DOMAIN code
    BY AdminTables DEF AdminInv
  <2>4. code'[SystemSelf] = SystemContract
    BY <2>1, <2>2, <2>3
  <2>5. Handled(code[SystemSelf]) \/ Handled(code'[SystemSelf])
    BY <1>2 DEF SetCode
  <2> QED BY <2>4, <2>5, SavedLoads
<1>3. ASSUME NEW a, SetAbi(auth, RecordsSelf, a) PROVE "global" \in DOMAIN global'
  BY <1>3, SavedLoads DEF SetAbi
<1>4. ASSUME NEW n, CreateAccount(n) PROVE "global" \in DOMAIN global'
  BY <1>4, SavedLoads DEF CreateAccount
<1>5. ASSUME NEW p, SetParams(auth, p) \/ BiosSetParams(auth, p)
      PROVE  "global" \in DOMAIN global'
  BY <1>1, <1>5, SavedLoads DEF SetParams, BiosSetParams
<1>6. ASSUME NEW n, NEW b, SetPriv(auth, n, b) \/ BiosSetPriv(auth, n, b)
      PROVE  "global" \in DOMAIN global'
  BY <1>1, <1>6, SavedLoads DEF SetPriv, BiosSetPriv
<1>7. ASSUME NEW x, SetGrtdCpu(auth, x) \/ UpdtRevision(auth, x)
      PROVE  "global" \in DOMAIN global'
  BY <1>7, SavedLoads DEF SetGrtdCpu, UpdtRevision
<1>8. ASSUME NEW x, AwlSet(auth, x, RecordsSelf) \/ OtherAction
      PROVE  "global" \in DOMAIN global'
  BY <1>8, SavedLoads DEF AwlSet, OtherAction
<1> QED BY <1>2, <1>3, <1>4, <1>5, <1>6, <1>7, <1>8 DEF AdminStep

\* No action of the system contract, the setpriv of its own account and setcode
\* included, leaves a state in which the next one cannot load its singletons.
THEOREM SystemNeverLocksOut == Spec => NeverLocksOut
<1>1. DeploymentInv /\ [Next]_<<existing, adminVars, recordVars>>
        => [code[SystemSelf] = SystemContract /\ CanLoad => CanLoad']_adminVars
  <2> SUFFICES ASSUME DeploymentInv, Next, ~UNCHANGED adminVars, code[SystemSelf] = SystemContract
               PROVE  CanLoad'
    BY DEF adminVars
  <2>1. PICK n \in First : AdminStep({n})
    BY DEF Next
  <2> QED BY <2>1, AdminStepSaves DEF DeploymentInv, CanLoad
<1> QED BY DeploymentInitInv, DeploymentNextInv, <1>1, PTL DEF Spec, NeverLocksOut

\* What a step of the chain does to the books.
LEMMA BooksStep ==
  ASSUME DeploymentInv, [Next]_<<existing, adminVars, recordVars>>
  PROVE  /\ [TransBook!Next]_(Listing(transrecords))
         /\ [OrderBook!Next]_(Listing(orders))
         /\ [DebtBook!Next]_(Listing(debts))
<1>1. CASE UNCHANGED recordVars
  BY <1>1 DEF recordVars, Listing
<1>2. ASSUME NEW n \in First, RecordsStep({n}) PROVE RecordEffect
  BY <1>2, RecordsStepEffect DEF DeploymentInv
<1>3. UNCHANGED recordVars \/ RecordEffect
  BY <1>2 DEF Next
<1> QED BY <1>1, <1>3, TransBookStep, OrderBookStep, DebtBookStep

\* Each table of transorderdebt implements the book that RecordBook promises,
\* whatever keys its rows get.
THEOREM BooksAreKept == Spec => KeepBooks
<1>1. Init => /\ Listing(transrecords) = << >>
              /\ Listing(orders) = << >>
              /\ Listing(debts) = << >>
  BY RecordsInitInv DEF Init
<1>2. DeploymentInv /\ [Next]_<<existing, adminVars, recordVars>>
        => /\ [TransBook!Next]_(Listing(transrecords))
           /\ [OrderBook!Next]_(Listing(orders))
           /\ [DebtBook!Next]_(Listing(debts))
  BY BooksStep
<1> QED BY DeploymentInitInv, DeploymentNextInv, <1>1, <1>2, PTL
        DEF Spec, KeepBooks, TransBook!Spec, OrderBook!Spec, DebtBook!Spec,
            TransBook!Init, OrderBook!Init, DebtBook!Init
=============================================================================
