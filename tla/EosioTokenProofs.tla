-------------------------- MODULE EosioTokenProofs --------------------------
(***************************************************************************)
(* The tables of eosio.token stay well formed and its books stay balanced. *)
(* The four invariants need each other (retire leaves the supply natural   *)
(* only because the issuer's balance is part of it), so they are proved    *)
(* together.                                                               *)
(***************************************************************************)
EXTENDS EosioToken, SumTheorems, TableTheorems

AccountTable(t) == IsTable(t, Name \X Code, AccountRow)

-----------------------------------------------------------------------------
(* Holdings. *)

\* What is held of a code in a well-formed table is a function to naturals.
LEMMA HeldInType ==
  ASSUME NEW t, AccountTable(t), NEW c \in Code
  PROVE  /\ \A owner \in Name : HeldIn(t, owner, c) \in Nat
         /\ [owner \in Name |-> HeldIn(t, owner, c)] \in [Name -> Nat]
<1>1. \A k \in DOMAIN t : t[k].amount \in Nat
  BY TokenAssumption DEF AccountTable, IsTable, AccountRow
<1> QED BY <1>1 DEF HeldIn

\* A total changes by as much as one owner's holdings.
LEMMA TotalChange ==
  ASSUME NEW t, NEW u, AccountTable(t), AccountTable(u), NEW c \in Code, NEW owner \in Name,
         \A n \in Name \ {owner} : HeldIn(u, n, c) = HeldIn(t, n, c)
  PROVE  TotalIn(u, c) = TotalIn(t, c) - HeldIn(t, owner, c) + HeldIn(u, owner, c)
<1> DEFINE f == [n \in Name |-> HeldIn(t, n, c)]
           g == [n \in Name |-> HeldIn(u, n, c)]
<1>1. f \in [Name -> Nat] /\ g \in [Name -> Nat]
  BY HeldInType
<1>2. \A n \in Name \ {owner} : g[n] = f[n]
  OBVIOUS
<1>3. f[owner] = HeldIn(t, owner, c) /\ g[owner] = HeldIn(u, owner, c)
  OBVIOUS
<1>4. IsFiniteSet(Name)
  BY NameAssumption
<1> HIDE DEF f, g
<1>5. SumOver(g) = SumOver(f) - f[owner] + g[owner]
  BY <1>1, <1>2, <1>4, SumOneChange
<1> QED BY <1>3, <1>5 DEF TotalIn, f, g

\* Equal holdings have equal totals.
LEMMA TotalSame ==
  ASSUME NEW t, NEW u, NEW c, \A n \in Name : HeldIn(u, n, c) = HeldIn(t, n, c)
  PROVE  TotalIn(u, c) = TotalIn(t, c)
BY DEF TotalIn

\* A total is a natural number, and no owner holds more than the total.
LEMMA TotalBounds ==
  ASSUME NEW t, AccountTable(t), NEW c \in Code
  PROVE  /\ TotalIn(t, c) \in Nat
         /\ \A owner \in Name : HeldIn(t, owner, c) <= TotalIn(t, c)
<1> DEFINE f == [n \in Name |-> HeldIn(t, n, c)]
<1>1. f \in [Name -> Nat]
  BY HeldInType
<1>2. \A n \in Name : f[n] = HeldIn(t, n, c)
  OBVIOUS
<1> HIDE DEF f
<1>3. SumOver(f) \in Nat /\ \A n \in Name : f[n] <= SumOver(f)
  BY <1>1, NameAssumption, SumNat, SumBoundsTerm
<1> QED BY <1>2, <1>3 DEF TotalIn, f

-----------------------------------------------------------------------------
(* sub_balance and add_balance. *)

\* u is the table t after value was taken from owner, and nothing else changed
\* that is held or any precision.
Debited(t, u, owner, value) ==
    /\ AccountTable(u)
    /\ DOMAIN u = DOMAIN t
    /\ \A k \in DOMAIN t : u[k].prec = t[k].prec /\ u[k].payer \in {t[k].payer, owner}
    /\ HeldIn(t, owner, value.code) >= value.amount
    /\ HeldIn(u, owner, value.code) = HeldIn(t, owner, value.code) - value.amount
    /\ \A n \in Name, c \in Code :
          <<n, c>> # <<owner, value.code>> => HeldIn(u, n, c) = HeldIn(t, n, c)

\* u is the table t after value was given to owner, in a row that payer pays for
\* if it is new.
Credited(t, u, owner, value, payer) ==
    /\ AccountTable(u)
    /\ DOMAIN u = DOMAIN t \cup {<<owner, value.code>>}
    /\ \A k \in DOMAIN t : u[k].prec = t[k].prec /\ u[k].payer = t[k].payer
    /\ <<owner, value.code>> \notin DOMAIN t => u[<<owner, value.code>>].payer = payer
    /\ u[<<owner, value.code>>].prec = value.prec
    /\ HeldIn(u, owner, value.code) = HeldIn(t, owner, value.code) + value.amount
    /\ \A n \in Name, c \in Code :
          <<n, c>> # <<owner, value.code>> => HeldIn(u, n, c) = HeldIn(t, n, c)

\* sub_balance takes value.amount from one balance and leaves the others.
LEMMA SubBalanceEffect ==
  ASSUME NEW t, AccountTable(t), NEW owner \in Name, NEW value \in Asset,
         value.amount > 0, SubBalanceOK(t, owner, value)
  PROVE  Debited(t, SubBalance(t, owner, value), owner, value)
<1> DEFINE k == <<owner, value.code>>
           u == SubBalance(t, owner, value)
           r == [amount |-> t[k].amount - value.amount, prec |-> t[k].prec, payer |-> owner]
<1>1. k \in DOMAIN t /\ t[k].amount >= value.amount
  BY DEF SubBalanceOK
<1>2. t[k] \in AccountRow /\ DOMAIN t \subseteq Name \X Code
  BY <1>1 DEF AccountTable, IsTable
<1>3. /\ r \in AccountRow
      /\ r.amount = t[k].amount - value.amount
      /\ r.prec = t[k].prec /\ r.payer = owner
  BY <1>1, <1>2, TokenAssumption DEF AccountRow, Asset
<1>4. u = Put(t, k, r)
  BY DEF SubBalance
<1> HIDE DEF r
<1>5. /\ AccountTable(u)
      /\ DOMAIN u = DOMAIN t
      /\ u[k] = r
      /\ \A x \in DOMAIN t \ {k} : u[x] = t[x]
  <2> DEFINE K == Name \X Code
  <2>1. IsTable(t, K, AccountRow) /\ k \in K
    BY <1>1, <1>2 DEF AccountTable
  <2> HIDE DEF k, K
  <2>2. Written(t, Put(t, k, r), K, AccountRow, k, r)
    BY <1>3, <2>1, PutTable
  <2> QED BY <1>1, <1>4, <2>2 DEF AccountTable, K, Written
<1> HIDE DEF u
<1>6. \A x \in DOMAIN t : u[x].prec = t[x].prec /\ u[x].payer \in {t[x].payer, owner}
  BY <1>3, <1>5
<1>7. \A n \in Name, c \in Code : <<n, c>> # k => HeldIn(u, n, c) = HeldIn(t, n, c)
  BY <1>5 DEF HeldIn
<1>8. /\ HeldIn(t, owner, value.code) >= value.amount
      /\ HeldIn(u, owner, value.code) = HeldIn(t, owner, value.code) - value.amount
  BY <1>1, <1>3, <1>5 DEF HeldIn
<1> QED BY <1>5, <1>6, <1>7, <1>8 DEF u, Debited

\* add_balance adds value.amount to one balance and leaves the others.
LEMMA AddBalanceEffect ==
  ASSUME NEW t, AccountTable(t), NEW owner \in Name, NEW value \in Asset, NEW payer \in Name,
         value.amount > 0, AddBalanceOK(t, owner, value)
  PROVE  Credited(t, AddBalance(t, owner, value, payer), owner, value, payer)
<1> DEFINE k == <<owner, value.code>>
           u == AddBalance(t, owner, value, payer)
           r == IF k \in DOMAIN t
                THEN [amount |-> t[k].amount + value.amount,
                      prec |-> t[k].prec, payer |-> t[k].payer]
                ELSE [amount |-> value.amount, prec |-> value.prec, payer |-> payer]
<1>1. t \in [DOMAIN t -> AccountRow] /\ DOMAIN t \subseteq Name \X Code
  BY DEF AccountTable, IsTable
<1>2. /\ value.amount \in 1 .. MaxAmount /\ MaxAmount \in Nat
      /\ value.prec \in Precision /\ value.code \in Code /\ k \in Name \X Code
  BY TokenAssumption DEF Asset
<1>3. /\ r \in AccountRow
      /\ r.prec = value.prec
      /\ k \in DOMAIN t => /\ r.amount = t[k].amount + value.amount
                            /\ r.prec = t[k].prec /\ r.payer = t[k].payer
      /\ k \notin DOMAIN t => r.amount = value.amount /\ r.payer = payer
  <2>1. CASE k \in DOMAIN t
    <3>1. t[k] \in AccountRow
      BY <1>1, <2>1
    <3>2. t[k].prec = value.prec /\ t[k].amount + value.amount <= MaxAmount
      BY <2>1 DEF AddBalanceOK
    <3> QED BY <1>2, <2>1, <3>1, <3>2 DEF AccountRow
  <2>2. CASE k \notin DOMAIN t
    BY <1>2, <2>2 DEF AccountRow
  <2> QED BY <2>1, <2>2
<1>4. u = Put(t, k, r)
  BY DEF AddBalance
<1> HIDE DEF r
<1>5. /\ AccountTable(u)
      /\ DOMAIN u = DOMAIN t \cup {k}
      /\ u[k] = r
      /\ \A x \in DOMAIN t \ {k} : u[x] = t[x]
  <2> DEFINE K == Name \X Code
  <2>1. IsTable(t, K, AccountRow) /\ k \in K
    BY <1>2 DEF AccountTable
  <2> HIDE DEF k, K
  <2>2. Written(t, Put(t, k, r), K, AccountRow, k, r)
    BY <1>3, <2>1, PutTable
  <2> QED BY <1>4, <2>2 DEF AccountTable, K, Written
<1> HIDE DEF u
<1>6. \A x \in DOMAIN t : u[x].prec = t[x].prec /\ u[x].payer = t[x].payer
  BY <1>3, <1>5
<1>7. \A n \in Name, c \in Code : <<n, c>> # k => HeldIn(u, n, c) = HeldIn(t, n, c)
  BY <1>5 DEF HeldIn
<1>8. HeldIn(u, owner, value.code) = HeldIn(t, owner, value.code) + value.amount
  <2>1. CASE k \in DOMAIN t
    BY <1>3, <1>5, <2>1 DEF HeldIn
  <2>2. CASE k \notin DOMAIN t
    BY <1>2, <1>3, <1>5, <2>2 DEF HeldIn
  <2> QED BY <2>1, <2>2
<1> QED BY <1>3, <1>5, <1>6, <1>7, <1>8 DEF u, Credited

-----------------------------------------------------------------------------
(* The inductive invariant. *)

TokenInv == TokenTypeOK /\ SupplyIsHeld /\ RowsMatchStat /\ SupplyCapped

\* The invariant holds when nothing has been created.
LEMMA InitInv == TokenInit => TokenInv
<1> SUFFICES ASSUME TokenInit PROVE TokenInv
  OBVIOUS
<1>1. TokenTypeOK /\ RowsMatchStat /\ SupplyCapped
  BY TokenAssumption DEF TokenInit, TokenTypeOK, RowsMatchStat, SupplyCapped, IsTable, NoRows
<1>2. SupplyIsHeld
  <2> SUFFICES ASSUME NEW c \in Code PROVE TotalIn(accounts, c) = 0
    BY DEF SupplyIsHeld, TokenInit, NoRows
  <2> DEFINE f == [n \in Name |-> HeldIn(accounts, n, c)]
  <2>1. f \in [Name -> Nat] /\ \A n \in Name : f[n] = 0
    BY DEF TokenInit, NoRows, HeldIn
  <2> HIDE DEF f
  <2>2. SumOver(f) = 0
    BY <2>1, SumOfZeros
  <2> QED BY <2>2 DEF TotalIn, f
<1> QED BY <1>1, <1>2 DEF TokenInv

\* create: the new code has no rows yet.
LEMMA CreateInv ==
  ASSUME TokenInv, NEW auth, NEW issuer \in Name, NEW q \in Asset, Create(auth, issuer, q)
  PROVE  TokenInv'
<1> DEFINE c == q.code
           r == [supply |-> 0, max_supply |-> q.amount, prec |-> q.prec, issuer |-> issuer]
<1>1. c \in Code /\ r \in StatRow /\ c \notin DOMAIN stat
  BY TokenAssumption DEF Create, Asset, StatRow
<1>2. IsTable(stat, Code, StatRow)
  BY DEF TokenInv, TokenTypeOK
<1>3. stat' = Put(stat, c, r) /\ UNCHANGED <<existing, accounts>>
  BY DEF Create
<1>4. /\ IsTable(stat', Code, StatRow)
      /\ DOMAIN stat' = DOMAIN stat \cup {c}
      /\ stat'[c] = r
      /\ \A x \in DOMAIN stat : stat'[x] = stat[x]
  <2> HIDE DEF c, r
  <2>1. Written(stat, Put(stat, c, r), Code, StatRow, c, r)
    BY <1>1, <1>2, PutTable
  <2> QED BY <1>1, <1>3, <2>1 DEF Written
<1>5. TokenTypeOK'
  BY <1>3, <1>4 DEF TokenInv, TokenTypeOK
<1>6. SupplyIsHeld'
  BY <1>1, <1>3, <1>4 DEF TokenInv, SupplyIsHeld
<1>7. RowsMatchStat'
  BY <1>3, <1>4 DEF TokenInv, RowsMatchStat
<1>8. SupplyCapped'
  <2>1. r.supply <= r.max_supply
    BY <1>1, TokenAssumption DEF StatRow
  <2> QED BY <1>4, <2>1 DEF TokenInv, SupplyCapped
<1> QED BY <1>5, <1>6, <1>7, <1>8 DEF TokenInv

\* u is stat after the supply of c became s.
Supplied(u, c, s) ==
    /\ IsTable(u, Code, StatRow)
    /\ DOMAIN u = DOMAIN stat
    /\ u[c].supply = s
    /\ u[c].max_supply = stat[c].max_supply
    /\ u[c].prec = stat[c].prec
    /\ u[c].issuer = stat[c].issuer
    /\ \A x \in DOMAIN stat \ {c} : u[x] = stat[x]

\* Issue and retire write a row of stat that differs in its supply only.
LEMMA NewSupply ==
  ASSUME IsTable(stat, Code, StatRow), NEW c \in DOMAIN stat, NEW s \in 0 .. MaxAmount
  PROVE  Supplied(Put(stat, c, [stat[c] EXCEPT !.supply = s]), c, s)
<1> DEFINE r == [stat[c] EXCEPT !.supply = s]
<1>1. c \in Code /\ stat[c] \in StatRow
  BY DEF IsTable
<1>2. /\ r \in StatRow /\ r.supply = s
      /\ r.max_supply = stat[c].max_supply /\ r.prec = stat[c].prec
      /\ r.issuer = stat[c].issuer
  BY <1>1 DEF StatRow
<1> HIDE DEF r
<1>3. Written(stat, Put(stat, c, r), Code, StatRow, c, r)
  BY <1>1, <1>2, PutTable
<1>4. Supplied(Put(stat, c, r), c, s)
  BY <1>2, <1>3 DEF Written, Supplied
<1> QED BY <1>4 DEF r

\* What issue does: the supply and the issuer's balance grow by q.
Issued(auth, q, c, issuer) ==
    /\ c = q.code /\ c \in DOMAIN stat /\ c \in Code /\ stat[c] \in StatRow
    /\ issuer = stat[c].issuer /\ issuer \in Name /\ issuer \in auth
    /\ q.amount > 0 /\ q.amount \in Int /\ q.prec = stat[c].prec
    /\ stat[c].supply + q.amount \in 0 .. MaxAmount
    /\ stat[c].supply + q.amount <= stat[c].max_supply
    /\ Supplied(stat', c, stat[c].supply + q.amount)
    /\ Credited(accounts, accounts', issuer, q, issuer)
    /\ UNCHANGED existing

\* issue does that.
LEMMA IssueEffect ==
  ASSUME TokenInv, NEW auth, NEW to, NEW q \in Asset, Issue(auth, to, q)
  PROVE  Issued(auth, q, q.code, stat[q.code].issuer)
<1> DEFINE c == q.code
           issuer == stat[c].issuer
           s == stat[c].supply + q.amount
<1>1. /\ IsTable(stat, Code, StatRow) /\ AccountTable(accounts)
      /\ c \in DOMAIN stat /\ c = q.code /\ issuer = stat[c].issuer
  BY DEF TokenInv, TokenTypeOK, AccountTable, Issue
<1>2. c \in Code /\ stat[c] \in StatRow
  BY <1>1 DEF IsTable
<1>3. /\ issuer \in Name /\ issuer \in auth
      /\ q.amount > 0 /\ q.amount \in Int
      /\ s \in 0 .. MaxAmount /\ s <= stat[c].max_supply
      /\ q.prec = stat[c].prec
  BY <1>1, <1>2, TokenAssumption DEF Issue, Available, StatRow, Asset
<1>4. /\ stat' = Put(stat, c, [stat[c] EXCEPT !.supply = s])
      /\ AddBalanceOK(accounts, issuer, q)
      /\ accounts' = AddBalance(accounts, issuer, q, issuer)
      /\ existing' = existing
  BY DEF Issue
<1> HIDE DEF issuer, c, s
<1>5. Supplied(stat', c, s)
  BY <1>1, <1>3, <1>4, NewSupply
<1>6. Credited(accounts, accounts', issuer, q, issuer)
  BY <1>1, <1>3, <1>4, AddBalanceEffect
<1>7. Issued(auth, q, c, issuer)
  BY <1>1, <1>2, <1>3, <1>4, <1>5, <1>6 DEF Issued, s
<1> QED BY <1>7 DEF c, issuer

\* issue: the supply and the issuer's balance grow by the same amount.
LEMMA IssueInv ==
  ASSUME TokenInv, NEW auth \in SUBSET existing, NEW to, NEW q \in Asset, Issue(auth, to, q)
  PROVE  TokenInv'
<1> DEFINE c == q.code
           issuer == stat[c].issuer
           s == stat[c].supply + q.amount
<1>0. Issued(auth, q, c, issuer)
  BY IssueEffect
<1> HIDE DEF issuer, c
<1>1. /\ IsTable(stat, Code, StatRow) /\ AccountTable(accounts)
      /\ existing \subseteq Name /\ UNCHANGED existing
      /\ c = q.code /\ c \in DOMAIN stat /\ c \in Code /\ stat[c] \in StatRow
      /\ issuer \in Name /\ issuer \in existing
      /\ q.amount > 0 /\ q.amount \in Int /\ q.prec = stat[c].prec
      /\ s \in 0 .. MaxAmount /\ s <= stat[c].max_supply
      /\ Supplied(stat', c, s) /\ Credited(accounts, accounts', issuer, q, issuer)
  BY <1>0 DEF Issued, TokenInv, TokenTypeOK, AccountTable
<1> HIDE DEF s
<1>2. TokenTypeOK'
  BY <1>1 DEF TokenTypeOK, AccountTable, Supplied, Credited
<1>3. SupplyIsHeld'
  <2> SUFFICES ASSUME NEW d \in Code
               PROVE  TotalIn(accounts', d) = IF d \in DOMAIN stat' THEN stat'[d].supply ELSE 0
    BY DEF SupplyIsHeld
  <2>1. CASE d = c
    <3>1. TotalIn(accounts', c) = TotalIn(accounts, c) - HeldIn(accounts, issuer, c)
                                  + HeldIn(accounts', issuer, c)
      BY <1>1, TotalChange DEF Credited
    <3>2. TotalIn(accounts, c) \in Nat /\ HeldIn(accounts, issuer, c) \in Nat
      BY <1>1, TotalBounds, HeldInType
    <3>3. TotalIn(accounts, c) = stat[c].supply
      BY <1>1 DEF TokenInv, SupplyIsHeld
    <3>4. TotalIn(accounts', c) = stat[c].supply + q.amount
      BY <1>1, <3>1, <3>2, <3>3 DEF Credited
    <3> QED BY <1>1, <2>1, <3>4 DEF s, Supplied
  <2>2. CASE d # c
    <3>1. TotalIn(accounts', d) = TotalIn(accounts, d)
      BY <1>1, <2>2, TotalSame DEF Credited
    <3> QED BY <1>1, <2>2, <3>1 DEF TokenInv, SupplyIsHeld, Supplied
  <2> QED BY <2>1, <2>2
<1>4. RowsMatchStat'
  <2> SUFFICES ASSUME NEW k \in DOMAIN accounts'
               PROVE  /\ k[1] \in existing' /\ k[2] \in DOMAIN stat'
                      /\ accounts'[k].prec = stat'[k[2]].prec
    BY DEF RowsMatchStat
  <2>1. CASE k = <<issuer, c>>
    BY <1>1, <2>1 DEF Supplied, Credited
  <2>2. CASE k # <<issuer, c>>
    <3>1. k \in DOMAIN accounts
      BY <1>1, <2>2 DEF Credited
    <3>2. /\ k[1] \in existing /\ k[2] \in DOMAIN stat
          /\ accounts[k].prec = stat[k[2]].prec
      BY <3>1 DEF TokenInv, RowsMatchStat
    <3>3. stat'[k[2]].prec = stat[k[2]].prec
      BY <1>1, <3>2 DEF Supplied
    <3> QED BY <1>1, <3>1, <3>2, <3>3 DEF Supplied, Credited
  <2> QED BY <2>1, <2>2
<1>5. SupplyCapped'
  BY <1>1 DEF TokenInv, SupplyCapped, Supplied
<1> QED BY <1>2, <1>3, <1>4, <1>5 DEF TokenInv

\* What retire does: the supply and the issuer's balance shrink by q.  The
\* issuer's balance is part of the supply, which so stays natural.
Retired(auth, q, c, issuer) ==
    /\ c = q.code /\ c \in DOMAIN stat /\ c \in Code /\ stat[c] \in StatRow
    /\ issuer = stat[c].issuer /\ issuer \in Name /\ issuer \in auth
    /\ q.amount > 0 /\ q.amount \in Int
    /\ stat[c].supply - q.amount \in 0 .. MaxAmount
    /\ Supplied(stat', c, stat[c].supply - q.amount)
    /\ Debited(accounts, accounts', issuer, q)
    /\ UNCHANGED existing

\* retire does that.
LEMMA RetireEffect ==
  ASSUME TokenInv, NEW auth, NEW q \in Asset, Retire(auth, q)
  PROVE  Retired(auth, q, q.code, stat[q.code].issuer)
<1> DEFINE c == q.code
           issuer == stat[c].issuer
           s == stat[c].supply - q.amount
<1>1. /\ IsTable(stat, Code, StatRow) /\ AccountTable(accounts)
      /\ c \in DOMAIN stat /\ c = q.code /\ issuer = stat[c].issuer
      /\ issuer \in auth
      /\ q.amount > 0 /\ q.amount \in Int
      /\ SubBalanceOK(accounts, issuer, q)
      /\ accounts' = SubBalance(accounts, issuer, q)
      /\ stat' = Put(stat, c, [stat[c] EXCEPT !.supply = s])
      /\ existing' = existing
  BY DEF TokenInv, TokenTypeOK, AccountTable, Retire, Asset
<1>2. c \in Code /\ stat[c] \in StatRow /\ issuer \in Name
  BY <1>1 DEF IsTable, StatRow
<1>3. TotalIn(accounts, c) = stat[c].supply
  BY <1>1, <1>2 DEF TokenInv, SupplyIsHeld
<1>4. s = stat[c].supply - q.amount /\ stat[c].supply \in 0 .. MaxAmount
  BY <1>2 DEF StatRow
<1> HIDE DEF issuer, c, s
<1>5. Debited(accounts, accounts', issuer, q)
  BY <1>1, <1>2, SubBalanceEffect
<1>6. s \in 0 .. MaxAmount
  <2>1. HeldIn(accounts, issuer, c) <= TotalIn(accounts, c) /\ HeldIn(accounts, issuer, c) \in Nat
    BY <1>1, <1>2, TotalBounds, HeldInType
  <2>2. q.amount <= HeldIn(accounts, issuer, c)
    BY <1>1, <1>5, <2>1 DEF Debited
  <2> QED BY <1>1, <1>3, <1>4, <2>1, <2>2, TokenAssumption
<1>7. Supplied(stat', c, s)
  BY <1>1, <1>6, NewSupply
<1>8. Retired(auth, q, c, issuer)
  BY <1>1, <1>2, <1>4, <1>5, <1>6, <1>7 DEF Retired
<1> QED BY <1>8 DEF c, issuer

\* retire: the supply and the issuer's balance shrink by the same amount.
LEMMA RetireInv ==
  ASSUME TokenInv, NEW auth, NEW q \in Asset, Retire(auth, q)
  PROVE  TokenInv'
<1> DEFINE c == q.code
           issuer == stat[c].issuer
           s == stat[c].supply - q.amount
<1>1. Retired(auth, q, c, issuer)
  BY RetireEffect
<1> HIDE DEF issuer, c
<1>2. /\ IsTable(stat, Code, StatRow) /\ AccountTable(accounts) /\ UNCHANGED existing
      /\ c = q.code /\ c \in DOMAIN stat /\ c \in Code /\ stat[c] \in StatRow
      /\ issuer \in Name
      /\ q.amount > 0 /\ q.amount \in Int
      /\ s = stat[c].supply - q.amount /\ stat[c].supply \in 0 .. MaxAmount
      /\ s \in 0 .. MaxAmount
      /\ Supplied(stat', c, s) /\ Debited(accounts, accounts', issuer, q)
  BY <1>1 DEF Retired, TokenInv, TokenTypeOK, AccountTable, StatRow
<1>3. TotalIn(accounts, c) = stat[c].supply
  BY <1>2 DEF TokenInv, SupplyIsHeld
<1> HIDE DEF s
<1>4. TokenTypeOK'
  BY <1>2 DEF TokenInv, TokenTypeOK, AccountTable, Supplied, Debited
<1>5. SupplyIsHeld'
  <2> SUFFICES ASSUME NEW d \in Code
               PROVE  TotalIn(accounts', d) = IF d \in DOMAIN stat' THEN stat'[d].supply ELSE 0
    BY DEF SupplyIsHeld
  <2>1. CASE d = c
    <3>1. TotalIn(accounts', c) = TotalIn(accounts, c) - HeldIn(accounts, issuer, c)
                                  + HeldIn(accounts', issuer, c)
      BY <1>2, TotalChange DEF Debited
    <3>2. HeldIn(accounts, issuer, c) \in Nat
      BY <1>2, HeldInType
    <3>3. TotalIn(accounts', c) = stat[c].supply - q.amount
      BY <1>2, <1>3, <1>2, <3>1, <3>2 DEF Debited
    <3> QED BY <1>2, <2>1, <3>3 DEF Supplied
  <2>2. CASE d # c
    <3>1. TotalIn(accounts', d) = TotalIn(accounts, d)
      BY <1>2, <2>2, TotalSame DEF Debited
    <3> QED BY <1>2, <2>2, <3>1 DEF TokenInv, SupplyIsHeld, Supplied
  <2> QED BY <2>1, <2>2
<1>6. RowsMatchStat'
  <2> SUFFICES ASSUME NEW k \in DOMAIN accounts'
               PROVE  /\ k[1] \in existing' /\ k[2] \in DOMAIN stat'
                      /\ accounts'[k].prec = stat'[k[2]].prec
    BY DEF RowsMatchStat
  <2>1. k \in DOMAIN accounts /\ accounts'[k].prec = accounts[k].prec
    BY <1>2 DEF Debited
  <2>2. /\ k[1] \in existing /\ k[2] \in DOMAIN stat
        /\ accounts[k].prec = stat[k[2]].prec
    BY <2>1 DEF TokenInv, RowsMatchStat
  <2>3. stat'[k[2]].prec = stat[k[2]].prec /\ DOMAIN stat' = DOMAIN stat
    BY <1>2, <2>2 DEF Supplied
  <2> QED BY <1>2, <2>1, <2>2, <2>3
<1>7. SupplyCapped'
  <2>1. stat[c].supply <= stat[c].max_supply /\ stat[c].max_supply \in Int
    BY <1>2 DEF TokenInv, SupplyCapped, StatRow
  <2>2. s <= stat[c].max_supply
    BY <1>2, <2>1
  <2> QED BY <1>2, <2>2 DEF TokenInv, SupplyCapped, Supplied
<1> QED BY <1>4, <1>5, <1>6, <1>7 DEF TokenInv

\* What transfer does: q moves, and a new row of the receiver is paid for by
\* the receiver, if it signed, or else by the sender, who did.
Transferred(t, mid, u, from, to, q, payer) ==
    /\ from # to /\ payer \in Name
    /\ q.amount > 0 /\ q.amount \in Int
    /\ Debited(t, mid, from, q)
    /\ Credited(mid, u, to, q, payer)

\* The two halves of a transfer in any two tables do that.
LEMMA TransferTables ==
  ASSUME NEW t, AccountTable(t), NEW from \in Name, NEW to \in Name, NEW q \in Asset,
         from # to, q.amount > 0, SubBalanceOK(t, from, q), AddBalanceOK(t, to, q),
         NEW payer \in Name
  PROVE  Transferred(t, SubBalance(t, from, q),
                     AddBalance(SubBalance(t, from, q), to, q, payer), from, to, q, payer)
<1> DEFINE mid == SubBalance(t, from, q)
<1>1. AddBalanceOK(mid, to, q)
  BY DEF AddBalanceOK, SubBalance, SubBalanceOK, Put
<1>2. Debited(t, mid, from, q)
  BY SubBalanceEffect
<1> HIDE DEF mid
<1>3. Credited(mid, AddBalance(mid, to, q, payer), to, q, payer)
  <2>1. AccountTable(mid)
    BY <1>2 DEF Debited
  <2> QED BY <1>1, <2>1, AddBalanceEffect
<1>4. q.amount \in Int
  BY DEF Asset
<1>5. Transferred(t, mid, AddBalance(mid, to, q, payer), from, to, q, payer)
  BY <1>2, <1>3, <1>4 DEF Transferred
<1> QED BY <1>5 DEF mid

\* transfer does that.
LEMMA TransferEffect ==
  ASSUME AccountTable(accounts), NEW auth, NEW from \in Name, NEW to \in Name, NEW q \in Asset,
         Transfer(auth, from, to, q)
  PROVE  Transferred(accounts, SubBalance(accounts, from, q), accounts', from, to, q,
                     RowPayer(auth, from, to))
<1> DEFINE payer == RowPayer(auth, from, to)
           mid == SubBalance(accounts, from, q)
<1>1. /\ from # to /\ q.amount > 0
      /\ SubBalanceOK(accounts, from, q) /\ AddBalanceOK(accounts, to, q)
      /\ accounts' = AddBalance(mid, to, q, payer) /\ payer \in Name
  BY DEF Transfer, TransferOK, RowPayer
<1> HIDE DEF payer
<1>2. Transferred(accounts, mid, AddBalance(mid, to, q, payer), from, to, q, payer)
  BY <1>1, TransferTables
<1> QED BY <1>1, <1>2 DEF payer

\* One balance loses what another gains, while accounts may be added.
LEMMA TransferredInv ==
  ASSUME TokenInv, NEW mid, NEW from \in Name, NEW to \in Name, NEW q \in Asset, NEW payer,
         Transferred(accounts, mid, accounts', from, to, q, payer),
         to \in existing, q.code \in DOMAIN stat, q.prec = stat[q.code].prec,
         UNCHANGED stat, existing \subseteq existing', existing' \subseteq Name
  PROVE  TokenInv'
<1> DEFINE c == q.code
<1>1. /\ AccountTable(accounts)
      /\ to \in existing /\ existing \subseteq existing' /\ existing' \subseteq Name
      /\ c \in DOMAIN stat /\ c \in Code /\ c = q.code
      /\ q.prec = stat[c].prec
      /\ UNCHANGED stat
  BY DEF TokenInv, TokenTypeOK, AccountTable, Asset
<1>2. Transferred(accounts, mid, accounts', from, to, q, payer)
  OBVIOUS
<1> HIDE DEF c
<1>3. Debited(accounts, mid, from, q) /\ from # to /\ q.amount > 0 /\ q.amount \in Int
  BY <1>2 DEF Transferred
<1>4. Credited(mid, accounts', to, q, payer)
  BY <1>2 DEF Transferred
<1>5. TokenTypeOK'
  BY <1>1, <1>4 DEF TokenInv, TokenTypeOK, AccountTable, Credited
<1>6. SupplyIsHeld'
  <2> SUFFICES ASSUME NEW d \in Code PROVE TotalIn(accounts', d) = TotalIn(accounts, d)
    BY <1>1 DEF TokenInv, SupplyIsHeld
  <2>0. AccountTable(mid) /\ AccountTable(accounts')
    BY <1>3, <1>4 DEF Debited, Credited
  <2>1. CASE d = c
    <3>1. TotalIn(mid, c) = TotalIn(accounts, c) - HeldIn(accounts, from, c) + HeldIn(mid, from, c)
      BY <1>1, <1>3, <2>0, TotalChange DEF Debited
    <3>2. TotalIn(accounts', c) = TotalIn(mid, c) - HeldIn(mid, to, c) + HeldIn(accounts', to, c)
      BY <1>1, <1>4, <2>0, TotalChange DEF Credited
    <3>3. /\ TotalIn(accounts, c) \in Nat
          /\ HeldIn(accounts, from, c) \in Nat /\ HeldIn(mid, to, c) \in Nat
      BY <1>1, <2>0, TotalBounds, HeldInType
    <3>4. /\ HeldIn(mid, from, c) = HeldIn(accounts, from, c) - q.amount
          /\ HeldIn(accounts', to, c) = HeldIn(mid, to, c) + q.amount
      BY <1>1, <1>3, <1>4 DEF Debited, Credited
    <3> QED BY <1>1, <1>3, <2>1, <3>1, <3>2, <3>3, <3>4
  <2>2. CASE d # c
    <3>1. TotalIn(mid, d) = TotalIn(accounts, d)
      BY <1>1, <1>3, <2>2, TotalSame DEF Debited
    <3>2. TotalIn(accounts', d) = TotalIn(mid, d)
      BY <1>1, <1>4, <2>2, TotalSame DEF Credited
    <3> QED BY <3>1, <3>2
  <2> QED BY <2>1, <2>2
<1>7. RowsMatchStat'
  <2> SUFFICES ASSUME NEW k \in DOMAIN accounts'
               PROVE  /\ k[1] \in existing /\ k[2] \in DOMAIN stat
                      /\ accounts'[k].prec = stat[k[2]].prec
    BY <1>1 DEF RowsMatchStat
  <2>1. CASE k = <<to, c>>
    BY <1>1, <1>4, <2>1 DEF Credited
  <2>2. CASE k # <<to, c>>
    <3>1. k \in DOMAIN accounts
      BY <1>1, <1>3, <1>4, <2>2 DEF Debited, Credited
    <3>2. accounts'[k].prec = accounts[k].prec
      BY <1>3, <1>4, <3>1 DEF Debited, Credited
    <3> QED BY <3>1, <3>2 DEF TokenInv, RowsMatchStat
  <2> QED BY <2>1, <2>2
<1>8. SupplyCapped'
  BY <1>1 DEF TokenInv, SupplyCapped
<1> QED BY <1>5, <1>6, <1>7, <1>8 DEF TokenInv

\* transfer is of that kind.
LEMMA TransferInv ==
  ASSUME TokenInv, NEW auth, NEW from \in Name, NEW to \in Name, NEW q \in Asset,
         Transfer(auth, from, to, q)
  PROVE  TokenInv'
<1>1. /\ AccountTable(accounts) /\ existing \subseteq Name
      /\ to \in existing /\ q.code \in DOMAIN stat /\ q.prec = stat[q.code].prec
      /\ UNCHANGED <<existing, stat>>
  BY DEF TokenInv, TokenTypeOK, AccountTable, Transfer, TransferOK
<1>2. Transferred(accounts, SubBalance(accounts, from, q), accounts', from, to, q,
                  RowPayer(auth, from, to))
  BY <1>1, TransferEffect
<1> QED BY <1>1, <1>2, TransferredInv

\* Rows may come and go as long as nothing held changes and every row is of an
\* existing owner, of a known code and in its precision.
LEMMA SameHoldings ==
  ASSUME TokenInv, AccountTable(accounts'), UNCHANGED stat, existing \subseteq existing',
         existing' \subseteq Name,
         \A n \in Name, d \in Code : HeldIn(accounts', n, d) = HeldIn(accounts, n, d),
         \A k \in DOMAIN accounts' :
            \/ k \in DOMAIN accounts /\ accounts'[k] = accounts[k]
            \/ /\ k[1] \in existing /\ k[2] \in DOMAIN stat
               /\ accounts'[k].prec = stat[k[2]].prec
  PROVE  TokenInv'
<1>1. TokenTypeOK'
  BY DEF TokenInv, TokenTypeOK, AccountTable
<1>2. SupplyIsHeld'
  <2> SUFFICES ASSUME NEW d \in Code PROVE TotalIn(accounts', d) = TotalIn(accounts, d)
    BY DEF TokenInv, SupplyIsHeld
  <2> QED BY TotalSame
<1>3. RowsMatchStat'
  BY DEF TokenInv, RowsMatchStat
<1>4. SupplyCapped'
  BY DEF TokenInv, SupplyCapped
<1> QED BY <1>1, <1>2, <1>3, <1>4 DEF TokenInv

\* open: a new row holds nothing.
LEMMA OpenInv ==
  ASSUME TokenInv, NEW auth, NEW owner \in Name, NEW symbol \in Symbol, NEW payer \in Name,
         Open(auth, owner, symbol, payer)
  PROVE  TokenInv'
<1> DEFINE k == <<owner, symbol.code>>
           r == [amount |-> 0, prec |-> symbol.prec, payer |-> payer]
           K == Name \X Code
<1>1. /\ AccountTable(accounts) /\ UNCHANGED <<existing, stat>> /\ existing \subseteq Name
      /\ k \in K /\ r \in AccountRow /\ r.amount = 0
      /\ k[1] \in existing /\ k[2] \in DOMAIN stat /\ r.prec = stat[k[2]].prec
      /\ accounts' = IF k \in DOMAIN accounts THEN accounts ELSE Put(accounts, k, r)
  BY TokenAssumption DEF TokenInv, TokenTypeOK, AccountTable, Open, Symbol, AccountRow
<1>2. CASE k \in DOMAIN accounts
  BY <1>1, <1>2, SameHoldings
<1>3. CASE k \notin DOMAIN accounts
  <2> HIDE DEF k, r, K
  <2>1. IsTable(accounts, K, AccountRow)
    BY <1>1 DEF AccountTable, K
  <2>2. Written(accounts, accounts', K, AccountRow, k, r)
    BY <1>1, <1>3, <2>1, PutTable
  <2>3. AccountTable(accounts')
    BY <2>2 DEF Written, AccountTable, K
  <2>4. \A n \in Name, d \in Code : HeldIn(accounts', n, d) = HeldIn(accounts, n, d)
    <3> SUFFICES ASSUME NEW n \in Name, NEW d \in Code
                 PROVE  HeldIn(accounts', n, d) = HeldIn(accounts, n, d)
      OBVIOUS
    <3>1. CASE <<n, d>> = k
      BY <1>1, <1>3, <2>2, <3>1 DEF HeldIn, Written
    <3>2. CASE <<n, d>> # k
      BY <2>2, <3>2 DEF HeldIn, Written
    <3> QED BY <3>1, <3>2
  <2>5. \A x \in DOMAIN accounts' :
          \/ x \in DOMAIN accounts /\ accounts'[x] = accounts[x]
          \/ x[1] \in existing /\ x[2] \in DOMAIN stat /\ accounts'[x].prec = stat[x[2]].prec
    BY <1>1, <1>3, <2>2 DEF Written
  <2> QED BY <1>1, <2>3, <2>4, <2>5, SameHoldings
<1> QED BY <1>2, <1>3

\* close: the erased row held nothing.
LEMMA CloseInv ==
  ASSUME TokenInv, NEW auth, NEW owner \in Name, NEW symbol \in Symbol, Close(auth, owner, symbol)
  PROVE  TokenInv'
<1> DEFINE k == <<owner, symbol.code>>
<1>1. /\ AccountTable(accounts) /\ UNCHANGED <<existing, stat>> /\ existing \subseteq Name
      /\ k \in DOMAIN accounts /\ accounts[k].amount = 0
      /\ accounts' = Drop(accounts, k)
  BY DEF TokenInv, TokenTypeOK, AccountTable, Close
<1> HIDE DEF k
<1>2. /\ AccountTable(accounts')
      /\ DOMAIN accounts' = DOMAIN accounts \ {k}
      /\ \A x \in DOMAIN accounts \ {k} : accounts'[x] = accounts[x]
  BY <1>1 DEF AccountTable, IsTable, Drop
<1>3. \A n \in Name, d \in Code : HeldIn(accounts', n, d) = HeldIn(accounts, n, d)
  <2> SUFFICES ASSUME NEW n \in Name, NEW d \in Code
               PROVE  HeldIn(accounts', n, d) = HeldIn(accounts, n, d)
    OBVIOUS
  <2>1. CASE <<n, d>> = k
    BY <1>1, <1>2, <2>1 DEF HeldIn
  <2>2. CASE <<n, d>> # k
    BY <1>2, <2>2 DEF HeldIn
  <2> QED BY <2>1, <2>2
<1> QED BY <1>1, <1>2, <1>3, SameHoldings

\* A new account holds nothing yet.
LEMMA NewAccountInv ==
  ASSUME TokenInv, NEW n \in Name, ChainNewAccount(n), UNCHANGED <<stat, accounts>>
  PROVE  TokenInv'
<1>1. /\ AccountTable(accounts) /\ existing \subseteq Name
      /\ existing' = existing \cup {n} /\ UNCHANGED <<stat, accounts>>
  BY DEF TokenInv, TokenTypeOK, AccountTable, ChainNewAccount
<1> QED BY <1>1, SameHoldings

-----------------------------------------------------------------------------
(* The specification. *)

\* Every step keeps the invariant.
LEMMA NextInv == TokenInv /\ [TokenNext]_tokenVars => TokenInv'
<1> SUFFICES ASSUME TokenInv, [TokenNext]_tokenVars PROVE TokenInv'
  OBVIOUS
<1>1. ASSUME NEW auth \in SUBSET existing, TokenStep(auth) PROVE TokenInv'
  <2>1. ASSUME NEW n \in Name, NEW q \in Asset, Create(auth, n, q) PROVE TokenInv'
    BY <2>1, CreateInv
  <2>2. ASSUME NEW n \in Name, NEW q \in Asset, Issue(auth, n, q) PROVE TokenInv'
    BY <2>2, IssueInv
  <2>3. ASSUME NEW q \in Asset, Retire(auth, q) PROVE TokenInv'
    BY <2>3, RetireInv
  <2>4. ASSUME NEW from \in Name, NEW to \in Name, NEW q \in Asset, Transfer(auth, from, to, q)
        PROVE  TokenInv'
    BY <2>4, TransferInv
  <2>5. ASSUME NEW owner \in Name, NEW payer \in Name, NEW s \in Symbol,
               Open(auth, owner, s, payer)
        PROVE  TokenInv'
    BY <2>5, OpenInv
  <2>6. ASSUME NEW owner \in Name, NEW s \in Symbol, Close(auth, owner, s) PROVE TokenInv'
    BY <2>6, CloseInv
  <2> QED BY <1>1, <2>1, <2>2, <2>3, <2>4, <2>5, <2>6 DEF TokenStep
<1>2. ASSUME NEW n \in Name, ChainNewAccount(n), UNCHANGED <<stat, accounts>> PROVE TokenInv'
  BY <1>2, NewAccountInv
<1>3. CASE UNCHANGED tokenVars
  BY <1>3 DEF tokenVars, TokenInv, TokenTypeOK, SupplyIsHeld, RowsMatchStat, SupplyCapped
<1> QED BY <1>1, <1>2, <1>3 DEF TokenNext

\* The tables of eosio.token are well formed in every reachable state.
THEOREM TokenTypeCorrect == TokenSpec => []TokenTypeOK
<1>1. TokenInv => TokenTypeOK
  BY DEF TokenInv
<1> QED BY InitInv, NextInv, <1>1, PTL DEF TokenSpec

\* The balances of every token add up to its supply in every reachable state.
THEOREM SupplyConserved == TokenSpec => []SupplyIsHeld
<1>1. TokenInv => SupplyIsHeld
  BY DEF TokenInv
<1> QED BY InitInv, NextInv, <1>1, PTL DEF TokenSpec

\* Every balance row is of a created token and in its precision.
THEOREM RowsAlwaysMatch == TokenSpec => []RowsMatchStat
<1>1. TokenInv => RowsMatchStat
  BY DEF TokenInv
<1> QED BY InitInv, NextInv, <1>1, PTL DEF TokenSpec

\* No supply ever passes its maximum.
THEOREM SupplyAlwaysCapped == TokenSpec => []SupplyCapped
<1>1. TokenInv => SupplyCapped
  BY DEF TokenInv
<1> QED BY InitInv, NextInv, <1>1, PTL DEF TokenSpec

-----------------------------------------------------------------------------
(* Who signs. *)

\* What an owner who does not sign holds does not shrink.
LEMMA HoldersKeep ==
  ASSUME TokenInv, NEW auth, TokenStep(auth), NEW owner \in Name, owner \notin auth,
         NEW c \in Code
  PROVE  HeldIn(accounts', owner, c) >= HeldIn(accounts, owner, c)
<1>1. AccountTable(accounts) /\ HeldIn(accounts, owner, c) \in Nat
  BY HeldInType DEF TokenInv, TokenTypeOK, AccountTable
<1>2. CASE HeldIn(accounts', owner, c) = HeldIn(accounts, owner, c)
  BY <1>1, <1>2
<1>3. ASSUME NEW n, NEW q, Create(auth, n, q)
      PROVE  HeldIn(accounts', owner, c) >= HeldIn(accounts, owner, c)
  <2>1. accounts' = accounts
    BY <1>3 DEF Create
  <2> QED BY <1>2, <2>1
<1>4. ASSUME NEW n, NEW q \in Asset, Issue(auth, n, q)
      PROVE  HeldIn(accounts', owner, c) >= HeldIn(accounts, owner, c)
  <2>1. Issued(auth, q, q.code, stat[q.code].issuer)
    BY <1>4, IssueEffect
  <2>2. owner # stat[q.code].issuer
    BY <2>1 DEF Issued
  <2>3. HeldIn(accounts', owner, c) = HeldIn(accounts, owner, c)
    BY <2>1, <2>2 DEF Issued, Credited
  <2> QED BY <1>2, <2>3
<1>5. ASSUME NEW q \in Asset, Retire(auth, q)
      PROVE  HeldIn(accounts', owner, c) >= HeldIn(accounts, owner, c)
  <2>1. Retired(auth, q, q.code, stat[q.code].issuer)
    BY <1>5, RetireEffect
  <2>2. owner # stat[q.code].issuer
    BY <2>1 DEF Retired
  <2>3. HeldIn(accounts', owner, c) = HeldIn(accounts, owner, c)
    BY <2>1, <2>2 DEF Retired, Debited
  <2> QED BY <1>2, <2>3
<1>6. ASSUME NEW from \in Name, NEW to \in Name, NEW q \in Asset, Transfer(auth, from, to, q)
      PROVE  HeldIn(accounts', owner, c) >= HeldIn(accounts, owner, c)
  <2> DEFINE mid == SubBalance(accounts, from, q)
             payer == RowPayer(auth, from, to)
  <2>1. Transferred(accounts, mid, accounts', from, to, q, payer) /\ owner # from
    BY <1>1, <1>6, TransferEffect DEF Transfer, TransferOK
  <2> HIDE DEF mid, payer
  <2>2. HeldIn(mid, owner, c) = HeldIn(accounts, owner, c)
    BY <2>1 DEF Transferred, Debited
  <2>3. \/ HeldIn(accounts', owner, c) = HeldIn(mid, owner, c)
        \/ HeldIn(accounts', owner, c) = HeldIn(mid, owner, c) + q.amount
    BY <2>1 DEF Transferred, Credited
  <2>4. q.amount \in Int /\ q.amount > 0
    BY <2>1 DEF Transferred
  <2> QED BY <1>1, <2>2, <2>3, <2>4
<1>7. ASSUME NEW n \in Name, NEW payer, NEW s \in Symbol, Open(auth, n, s, payer)
      PROVE  HeldIn(accounts', owner, c) >= HeldIn(accounts, owner, c)
  <2>1. HeldIn(accounts', owner, c) = HeldIn(accounts, owner, c)
    BY <1>7 DEF Open, HeldIn, Put
  <2> QED BY <1>2, <2>1
<1>8. ASSUME NEW n \in Name, NEW s \in Symbol, Close(auth, n, s)
      PROVE  HeldIn(accounts', owner, c) >= HeldIn(accounts, owner, c)
  <2>1. HeldIn(accounts', owner, c) = HeldIn(accounts, owner, c)
    BY <1>8 DEF Close, HeldIn, Drop
  <2> QED BY <1>2, <2>1
<1> QED BY <1>3, <1>4, <1>5, <1>6, <1>7, <1>8 DEF TokenStep

\* An action bills nobody new for a row but an account that signed it.
LEMMA PayersSign ==
  ASSUME TokenInv, NEW auth, TokenStep(auth), NEW k \in DOMAIN accounts'
  PROVE  \/ k \in DOMAIN accounts /\ accounts'[k].payer = accounts[k].payer
         \/ accounts'[k].payer \in auth
<1> DEFINE Goal == \/ k \in DOMAIN accounts /\ accounts'[k].payer = accounts[k].payer
                   \/ accounts'[k].payer \in auth
<1>1. AccountTable(accounts)
  BY DEF TokenInv, TokenTypeOK, AccountTable
<1>2. ASSUME NEW n, NEW q, Create(auth, n, q) PROVE Goal
  BY <1>2 DEF Create
<1>3. ASSUME NEW n, NEW q \in Asset, Issue(auth, n, q) PROVE Goal
  <2>1. Issued(auth, q, q.code, stat[q.code].issuer)
    BY <1>3, IssueEffect
  <2> QED BY <2>1 DEF Issued, Credited
<1>4. ASSUME NEW q \in Asset, Retire(auth, q) PROVE Goal
  <2>1. Retired(auth, q, q.code, stat[q.code].issuer)
    BY <1>4, RetireEffect
  <2> QED BY <2>1 DEF Retired, Debited
<1>5. ASSUME NEW from \in Name, NEW to \in Name, NEW q \in Asset, Transfer(auth, from, to, q)
      PROVE  Goal
  <2> DEFINE mid == SubBalance(accounts, from, q)
             payer == RowPayer(auth, from, to)
  <2>1. Transferred(accounts, mid, accounts', from, to, q, payer)
    BY <1>1, <1>5, TransferEffect
  <2>2. from \in auth /\ payer \in auth
    BY <1>5 DEF Transfer, TransferOK, RowPayer
  <2> HIDE DEF mid, payer
  <2>3. k \in DOMAIN mid => \/ k \in DOMAIN accounts /\ mid[k].payer = accounts[k].payer
                            \/ mid[k].payer \in auth
    BY <2>1, <2>2 DEF Transferred, Debited
  <2>4. \/ k \in DOMAIN mid /\ accounts'[k].payer = mid[k].payer
        \/ accounts'[k].payer = payer
    BY <2>1 DEF Transferred, Credited
  <2> QED BY <2>1, <2>2, <2>3, <2>4 DEF Transferred, Debited
<1>6. ASSUME NEW n \in Name, NEW payer, NEW s \in Symbol, Open(auth, n, s, payer) PROVE Goal
  BY <1>6 DEF Open, Put
<1>7. ASSUME NEW n \in Name, NEW s \in Symbol, Close(auth, n, s) PROVE Goal
  BY <1>7 DEF Close, Drop
<1> QED BY <1>2, <1>3, <1>4, <1>5, <1>6, <1>7 DEF TokenStep

\* Nobody's balance shrinks in a step that they did not sign.
THEOREM DebitsAreSigned == TokenSpec => DebitsSigned
<1>1. TokenInv /\ [TokenNext]_tokenVars
        => [\A owner \in Name, c \in Code :
              Held(owner, c)' < Held(owner, c) =>
                  \A auth \in SUBSET (existing \ {owner}) : ~TokenStep(auth)]_tokenVars
  <2> SUFFICES ASSUME TokenInv, NEW owner \in Name, NEW c \in Code,
                      Held(owner, c)' < Held(owner, c),
                      NEW auth \in SUBSET (existing \ {owner}), TokenStep(auth)
               PROVE  FALSE
    OBVIOUS
  <2>1. HeldIn(accounts', owner, c) >= HeldIn(accounts, owner, c)
    BY HoldersKeep
  <2>2. HeldIn(accounts', owner, c) \in Nat /\ HeldIn(accounts, owner, c) \in Nat
    <3>1. AccountTable(accounts) /\ AccountTable(accounts')
      <4>1. [TokenNext]_tokenVars => TokenInv'
        BY NextInv
      <4>2. TokenNext
        BY DEF TokenNext
      <4> QED BY <4>1, <4>2 DEF TokenInv, TokenTypeOK, AccountTable
    <3> QED BY <3>1, HeldInType
  <2> QED BY <2>1, <2>2 DEF Held
<1> QED BY InitInv, NextInv, <1>1, PTL DEF TokenSpec, DebitsSigned

\* Nobody becomes the payer of a row in a step that they did not sign.
THEOREM PayersAreSigned == TokenSpec => PayersSigned
<1>1. TokenInv /\ [TokenNext]_tokenVars
        => [\A k \in DOMAIN accounts' :
              \A payer \in Payer(k)' \ Payer(k) :
                  \A auth \in SUBSET (existing \ {payer}) : ~TokenStep(auth)]_tokenVars
  <2> SUFFICES ASSUME TokenInv, NEW k \in DOMAIN accounts', NEW payer \in Payer(k)' \ Payer(k),
                      NEW auth \in SUBSET (existing \ {payer}), TokenStep(auth)
               PROVE  FALSE
    OBVIOUS
  <2> QED BY PayersSign DEF Payer
<1> QED BY InitInv, NextInv, <1>1, PTL DEF TokenSpec, PayersSigned

-----------------------------------------------------------------------------
(* The ledger. *)

LedgerTokens(s) == [c \in DOMAIN s |-> [issuer |-> s[c].issuer, cap |-> s[c].max_supply]]
LedgerIssued(s) == [c \in DOMAIN s |-> s[c].supply]
LedgerHeld(t) == [k \in Name \X Code |-> HeldIn(t, k[1], k[2])]

\* One balance changes in the ledger as it does in the accounts tables.
LEMMA HeldShifts ==
  ASSUME NEW t, NEW u, NEW owner \in Name, NEW c \in Code, NEW x,
         HeldIn(u, owner, c) = HeldIn(t, owner, c) + x,
         \A n \in Name, d \in Code :
            <<n, d>> # <<owner, c>> => HeldIn(u, n, d) = HeldIn(t, n, d)
  PROVE  /\ LedgerHeld(t)[<<owner, c>>] = HeldIn(t, owner, c)
         /\ LedgerHeld(u) = [LedgerHeld(t) EXCEPT ![<<owner, c>>] = @ + x]
<1>1. LedgerHeld(t)[<<owner, c>>] = HeldIn(t, owner, c)
  BY DEF LedgerHeld
<1>2. \A k \in Name \X Code :
        HeldIn(u, k[1], k[2]) = IF k = <<owner, c>> THEN HeldIn(t, owner, c) + x
                                ELSE HeldIn(t, k[1], k[2])
  OBVIOUS
<1>3. [LedgerHeld(t) EXCEPT ![<<owner, c>>] = @ + x]
        = [k \in Name \X Code |-> IF k = <<owner, c>> THEN HeldIn(t, owner, c) + x
                                  ELSE HeldIn(t, k[1], k[2])]
  BY <1>1 DEF LedgerHeld
<1>4. LedgerHeld(u) = [LedgerHeld(t) EXCEPT ![<<owner, c>>] = @ + x]
  BY <1>2, <1>3 DEF LedgerHeld
<1> QED BY <1>1, <1>4

\* The rows of stat after a change of one supply, in the ledger.
LEMMA SupplyShifts ==
  ASSUME NEW c \in DOMAIN stat, NEW x, Supplied(stat', c, stat[c].supply + x)
  PROVE  /\ LedgerTokens(stat') = LedgerTokens(stat)
         /\ LedgerIssued(stat') = [LedgerIssued(stat) EXCEPT ![c] = @ + x]
<1>1. /\ DOMAIN stat' = DOMAIN stat
      /\ \A d \in DOMAIN stat : /\ stat'[d].issuer = stat[d].issuer
                                /\ stat'[d].max_supply = stat[d].max_supply
                                /\ stat'[d].supply = IF d = c THEN stat[c].supply + x
                                                     ELSE stat[d].supply
  BY DEF Supplied
<1>2. LedgerTokens(stat') = LedgerTokens(stat)
  BY <1>1 DEF LedgerTokens
<1>3. LedgerIssued(stat') = [LedgerIssued(stat) EXCEPT ![c] = @ + x]
  BY <1>1 DEF LedgerIssued
<1> QED BY <1>2, <1>3

\* create founds a token.
LEMMA CreateFounds ==
  ASSUME TokenInv, NEW auth, NEW issuer \in Name, NEW q \in Asset, Create(auth, issuer, q)
  PROVE  Ledger!Found(q.code, issuer, q.amount)
<1> DEFINE c == q.code
           r == [supply |-> 0, max_supply |-> q.amount, prec |-> q.prec, issuer |-> issuer]
<1>1. /\ c \notin DOMAIN stat /\ stat' = Put(stat, c, r) /\ UNCHANGED accounts
      /\ r.issuer = issuer /\ r.max_supply = q.amount /\ r.supply = 0
  BY DEF Create
<1> HIDE DEF c, r
<1>2. /\ DOMAIN stat' = DOMAIN stat \cup {c} /\ stat'[c] = r
      /\ \A d \in DOMAIN stat : stat'[d] = stat[d]
  BY <1>1 DEF Put
<1>3. LedgerTokens(stat') = Put(LedgerTokens(stat), c, [issuer |-> issuer, cap |-> q.amount])
  BY <1>1, <1>2 DEF LedgerTokens, Put
<1>4. LedgerIssued(stat') = Put(LedgerIssued(stat), c, 0)
  BY <1>1, <1>2 DEF LedgerIssued, Put
<1>5. LedgerHeld(accounts') = LedgerHeld(accounts)
  BY <1>1
<1>6. c \notin DOMAIN LedgerTokens(stat)
  BY <1>1 DEF LedgerTokens
<1>7. Ledger!Found(c, issuer, q.amount)
  BY <1>3, <1>4, <1>5, <1>6
     DEF Ledger!Found, Ledger!Put, Put, LedgerTokens, LedgerIssued, LedgerHeld, Held
<1> QED BY <1>7 DEF c

\* What issue and retire do is minting.
LEMMA ChangeMints ==
  ASSUME NEW c \in DOMAIN stat, NEW x \in Int, c \in Code, stat[c] \in StatRow,
         stat[c].issuer \in Name,
         Supplied(stat', c, stat[c].supply + x),
         stat[c].supply + x >= 0, stat[c].supply + x <= stat[c].max_supply,
         HeldIn(accounts, stat[c].issuer, c) + x >= 0,
         HeldIn(accounts', stat[c].issuer, c) = HeldIn(accounts, stat[c].issuer, c) + x,
         \A n \in Name, d \in Code :
            <<n, d>> # <<stat[c].issuer, c>> => HeldIn(accounts', n, d) = HeldIn(accounts, n, d)
  PROVE  Ledger!Mint(c, x)
<1>1. /\ LedgerTokens(stat') = LedgerTokens(stat)
      /\ LedgerIssued(stat') = [LedgerIssued(stat) EXCEPT ![c] = @ + x]
  BY SupplyShifts
<1>2. /\ LedgerHeld(accounts)[<<stat[c].issuer, c>>] = HeldIn(accounts, stat[c].issuer, c)
      /\ LedgerHeld(accounts') = [LedgerHeld(accounts) EXCEPT ![<<stat[c].issuer, c>>] = @ + x]
  <2> DEFINE issuer == stat[c].issuer
  <2>1. /\ issuer \in Name
        /\ HeldIn(accounts', issuer, c) = HeldIn(accounts, issuer, c) + x
        /\ \A n \in Name, d \in Code :
             <<n, d>> # <<issuer, c>> => HeldIn(accounts', n, d) = HeldIn(accounts, n, d)
    OBVIOUS
  <2> HIDE DEF issuer
  <2>2. /\ LedgerHeld(accounts)[<<issuer, c>>] = HeldIn(accounts, issuer, c)
        /\ LedgerHeld(accounts') = [LedgerHeld(accounts) EXCEPT ![<<issuer, c>>] = @ + x]
    BY <2>1, HeldShifts
  <2> QED BY <2>2 DEF issuer
<1>3. /\ c \in DOMAIN LedgerTokens(stat)
      /\ LedgerTokens(stat)[c].issuer = stat[c].issuer
      /\ LedgerTokens(stat)[c].cap = stat[c].max_supply
      /\ LedgerIssued(stat)[c] = stat[c].supply
  BY DEF LedgerTokens, LedgerIssued
<1>4. LedgerIssued(stat)[c] + x \in 0 .. LedgerTokens(stat)[c].cap
  BY <1>3, TokenAssumption DEF StatRow
<1>5. LedgerHeld(accounts)[<<LedgerTokens(stat)[c].issuer, c>>] + x >= 0
  BY <1>2, <1>3
<1>6. LedgerHeld(accounts')
        = [LedgerHeld(accounts) EXCEPT ![<<LedgerTokens(stat)[c].issuer, c>>] = @ + x]
  BY <1>2, <1>3
<1> QED BY <1>1, <1>3, <1>4, <1>5, <1>6
        DEF Ledger!Mint, LedgerTokens, LedgerIssued, LedgerHeld, Held

\* Taking from one balance and adding to another is moving tokens.
LEMMA TransferredIsMove ==
  ASSUME AccountTable(accounts), UNCHANGED stat, NEW mid, NEW payer,
         NEW from \in Name, NEW to \in Name, NEW q \in Asset, q.code \in DOMAIN stat,
         Transferred(accounts, mid, accounts', from, to, q, payer)
  PROVE  Ledger!Move(q.code, from, to, q.amount)
<1> DEFINE c == q.code
           n == q.amount
<1>1. AccountTable(accounts) /\ c \in Code /\ c \in DOMAIN stat /\ UNCHANGED stat
  BY DEF Asset
<1>2. Transferred(accounts, mid, accounts', from, to, q, payer)
  OBVIOUS
<1>3. from # to /\ n \in Int /\ n > 0
  BY <1>2 DEF Transferred
<1>4. /\ HeldIn(accounts, from, c) >= n
      /\ HeldIn(mid, from, c) = HeldIn(accounts, from, c) - n
      /\ \A m \in Name, d \in Code :
            <<m, d>> # <<from, c>> => HeldIn(mid, m, d) = HeldIn(accounts, m, d)
  BY <1>2 DEF Transferred, Debited
<1>5. /\ HeldIn(accounts', to, c) = HeldIn(mid, to, c) + n
      /\ \A m \in Name, d \in Code :
            <<m, d>> # <<to, c>> => HeldIn(accounts', m, d) = HeldIn(mid, m, d)
  BY <1>2 DEF Transferred, Credited
<1>6. HeldIn(accounts, from, c) \in Nat
  BY <1>1, HeldInType
<1> HIDE DEF c, n
<1>7. HeldIn(mid, from, c) = HeldIn(accounts, from, c) + (-n)
  BY <1>3, <1>4, <1>6
<1>8. /\ LedgerHeld(accounts)[<<from, c>>] = HeldIn(accounts, from, c)
      /\ LedgerHeld(mid) = [LedgerHeld(accounts) EXCEPT ![<<from, c>>] = @ + (-n)]
  BY <1>1, <1>4, <1>7, HeldShifts
<1>9. LedgerHeld(accounts') = [LedgerHeld(mid) EXCEPT ![<<to, c>>] = @ + n]
  BY <1>1, <1>5, HeldShifts
<1>10. HeldIn(accounts, from, c) + (-n) = HeldIn(accounts, from, c) - n
  BY <1>3, <1>6
<1>11. LedgerHeld(accounts')
         = [LedgerHeld(accounts) EXCEPT ![<<from, c>>] = @ - n, ![<<to, c>>] = @ + n]
  <2>1. LedgerHeld(accounts)[<<from, c>>] + (-n) = LedgerHeld(accounts)[<<from, c>>] - n
    BY <1>8, <1>10
  <2>3. <<from, c>> # <<to, c>>
    BY <1>3
  <2> DEFINE h == LedgerHeld(accounts)
             h1 == LedgerHeld(mid)
             h2 == LedgerHeld(accounts')
             a == <<from, c>>
             b == <<to, c>>
  <2>4. /\ a # b /\ h[a] + (-n) = h[a] - n
        /\ h1 = [h EXCEPT ![a] = @ + (-n)]
        /\ h2 = [h1 EXCEPT ![b] = @ + n]
    BY <1>8, <1>9, <2>1, <2>3
  <2> HIDE DEF h, h1, h2, a, b
  <2>5. h2 = [h EXCEPT ![a] = @ - n, ![b] = @ + n]
    <3>1. h1[b] = h[b]
      BY <2>4
    <3>2. DOMAIN h1 = DOMAIN h /\ DOMAIN h2 = DOMAIN h
      BY <2>4
    <3> QED BY <2>4, <3>1, <3>2
  <2> QED BY <2>5 DEF h, h1, h2, a, b
<1>12. n <= LedgerHeld(accounts)[<<from, c>>]
  BY <1>3, <1>4, <1>6, <1>8
<1>13. Ledger!Move(c, from, to, n)
  BY <1>1, <1>3, <1>11, <1>12 DEF Ledger!Move, LedgerHeld, Held
<1> QED BY <1>13 DEF c, n

\* transfer moves tokens.
LEMMA TransferMoves ==
  ASSUME TokenInv, NEW auth, NEW from \in Name, NEW to \in Name, NEW q \in Asset,
         Transfer(auth, from, to, q)
  PROVE  Ledger!Move(q.code, from, to, q.amount)
<1> DEFINE mid == SubBalance(accounts, from, q)
           payer == RowPayer(auth, from, to)
<1>1. AccountTable(accounts) /\ q.code \in DOMAIN stat /\ UNCHANGED stat
  BY DEF TokenInv, TokenTypeOK, AccountTable, Transfer, TransferOK
<1>2. Transferred(accounts, mid, accounts', from, to, q, payer)
  BY <1>1, TransferEffect
<1> HIDE DEF mid, payer
<1> QED BY <1>1, <1>2, TransferredIsMove

\* Every step of the contract is one of the ledger, or moves nothing.
LEMMA LedgerStep ==
  ASSUME TokenInv, [TokenNext]_tokenVars
  PROVE  [Ledger!Next]_(Ledger!vars)
<1>0. AccountTable(accounts)
  BY DEF TokenInv, TokenTypeOK, AccountTable
<1>1. ASSUME UNCHANGED stat,
             \A n \in Name, d \in Code : HeldIn(accounts', n, d) = HeldIn(accounts, n, d)
      PROVE  UNCHANGED Ledger!vars
  BY <1>1 DEF Ledger!vars, Held
<1>2. ASSUME NEW auth, NEW n \in Name, NEW q \in Asset, Create(auth, n, q) PROVE Ledger!Next
  <2>1. q.code \in Code /\ q.amount \in 1 .. MaxAmount
    BY <1>2, TokenAssumption DEF Create, Asset
  <2>2. Ledger!Found(q.code, n, q.amount)
    BY <1>2, CreateFounds
  <2> QED BY <2>1, <2>2 DEF Ledger!Next
<1>3. ASSUME NEW auth, NEW n \in Name, NEW q \in Asset, Issue(auth, n, q) PROVE Ledger!Next
  <2> DEFINE c == q.code
             x == q.amount
  <2>1. Issued(auth, q, c, stat[c].issuer)
    BY <1>3, IssueEffect
  <2>2. /\ c \in DOMAIN stat /\ c \in Code /\ stat[c] \in StatRow /\ stat[c].issuer \in Name
        /\ x \in Int /\ x > 0 /\ x \in -MaxAmount .. MaxAmount
        /\ stat[c].supply + x >= 0 /\ stat[c].supply + x <= stat[c].max_supply
        /\ Supplied(stat', c, stat[c].supply + x)
    BY <2>1, TokenAssumption DEF Issued, Asset
  <2>3. /\ HeldIn(accounts', stat[c].issuer, c) = HeldIn(accounts, stat[c].issuer, c) + x
        /\ \A m \in Name, d \in Code :
             <<m, d>> # <<stat[c].issuer, c>> => HeldIn(accounts', m, d) = HeldIn(accounts, m, d)
    BY <2>1 DEF Issued, Credited
  <2> HIDE DEF c, x
  <2>4. HeldIn(accounts, stat[c].issuer, c) + x >= 0
    <3>1. HeldIn(accounts, stat[c].issuer, c) \in Nat
      BY <1>0, <2>2, HeldInType
    <3> QED BY <2>2, <3>1
  <2>5. Ledger!Mint(c, x)
    BY <2>2, <2>3, <2>4, ChangeMints
  <2> QED BY <2>2, <2>5 DEF Ledger!Next
<1>4. ASSUME NEW auth, NEW q \in Asset, Retire(auth, q) PROVE Ledger!Next
  <2> DEFINE c == q.code
             a == q.amount
             x == -a
  <2>1. Retired(auth, q, c, stat[c].issuer)
    BY <1>4, RetireEffect
  <2>2. /\ c \in DOMAIN stat /\ c \in Code /\ stat[c] \in StatRow /\ stat[c].issuer \in Name
        /\ a \in Int /\ a > 0 /\ a \in -MaxAmount .. MaxAmount
        /\ stat[c].supply - a \in 0 .. MaxAmount
        /\ Supplied(stat', c, stat[c].supply - a)
    BY <2>1 DEF Retired, Asset
  <2>3. /\ HeldIn(accounts, stat[c].issuer, c) >= a
        /\ HeldIn(accounts', stat[c].issuer, c) = HeldIn(accounts, stat[c].issuer, c) - a
        /\ \A m \in Name, d \in Code :
             <<m, d>> # <<stat[c].issuer, c>> => HeldIn(accounts', m, d) = HeldIn(accounts, m, d)
    BY <2>1 DEF Retired, Debited
  <2>4. stat[c].supply <= stat[c].max_supply
    BY <2>2 DEF TokenInv, SupplyCapped
  <2>5. /\ stat[c].supply \in Int /\ stat[c].max_supply \in Int
        /\ HeldIn(accounts, stat[c].issuer, c) \in Nat
    BY <1>0, <2>2, HeldInType DEF StatRow
  <2> HIDE DEF c, a
  <2>6. /\ x \in Int /\ x \in -MaxAmount .. MaxAmount
        /\ stat[c].supply + x = stat[c].supply - a
        /\ stat[c].supply + x >= 0 /\ stat[c].supply + x <= stat[c].max_supply
        /\ HeldIn(accounts, stat[c].issuer, c) + x = HeldIn(accounts, stat[c].issuer, c) - a
        /\ HeldIn(accounts, stat[c].issuer, c) + x >= 0
    BY <2>2, <2>3, <2>4, <2>5, TokenAssumption
  <2> HIDE DEF x
  <2>7. Supplied(stat', c, stat[c].supply + x)
    BY <2>2, <2>6
  <2>8. Ledger!Mint(c, x)
    BY <2>2, <2>3, <2>6, <2>7, ChangeMints
  <2> QED BY <2>2, <2>6, <2>8 DEF Ledger!Next
<1>5. ASSUME NEW auth, NEW from \in Name, NEW to \in Name, NEW q \in Asset,
             Transfer(auth, from, to, q)
      PROVE  Ledger!Next
  <2>1. q.code \in Code /\ q.amount \in 1 .. MaxAmount
    BY <1>5, TokenAssumption DEF Transfer, TransferOK, Asset
  <2>2. Ledger!Move(q.code, from, to, q.amount)
    BY <1>5, TransferMoves
  <2> QED BY <2>1, <2>2 DEF Ledger!Next
<1>6. ASSUME NEW auth, NEW owner \in Name, NEW payer, NEW s \in Symbol,
             Open(auth, owner, s, payer)
      PROVE  UNCHANGED Ledger!vars
  <2>1. /\ UNCHANGED stat
        /\ \A n \in Name, d \in Code : HeldIn(accounts', n, d) = HeldIn(accounts, n, d)
    BY <1>6 DEF Open, HeldIn, Put
  <2> QED BY <1>1, <2>1
<1>7. ASSUME NEW auth, NEW owner \in Name, NEW s \in Symbol, Close(auth, owner, s)
      PROVE  UNCHANGED Ledger!vars
  <2>1. /\ UNCHANGED stat
        /\ \A n \in Name, d \in Code : HeldIn(accounts', n, d) = HeldIn(accounts, n, d)
    BY <1>7 DEF Close, HeldIn, Drop
  <2> QED BY <1>1, <2>1
<1>8. CASE UNCHANGED <<stat, accounts>>
  BY <1>1, <1>8
<1> QED BY <1>2, <1>3, <1>4, <1>5, <1>6, <1>7, <1>8 DEF TokenNext, TokenStep, tokenVars

\* At the start nothing is founded or held.
LEMMA LedgerInit == TokenInit => Ledger!Init
<1> SUFFICES ASSUME TokenInit PROVE Ledger!Init
  OBVIOUS
<1>1. stat = NoRows /\ accounts = NoRows /\ DOMAIN NoRows = {}
  BY DEF TokenInit, NoRows
<1>2. LedgerTokens(stat) = Ledger!NoRows /\ LedgerIssued(stat) = Ledger!NoRows
  BY <1>1 DEF LedgerTokens, LedgerIssued, Ledger!NoRows
<1>3. LedgerHeld(accounts) = [k \in Name \X Code |-> 0]
  BY <1>1 DEF LedgerHeld, HeldIn
<1> QED BY <1>2, <1>3 DEF Ledger!Init, LedgerTokens, LedgerIssued, LedgerHeld, Held

\* eosio.token implements the ledger: every action founds a token, mints in the
\* hands of its issuer, moves tokens between holders, or changes no holding.
THEOREM TokenImplementsLedger == TokenSpec => ImplementsLedger
<1>1. TokenInv /\ [TokenNext]_tokenVars => [Ledger!Next]_(Ledger!vars)
  BY LedgerStep
<1> QED BY InitInv, NextInv, LedgerInit, <1>1, PTL DEF TokenSpec, ImplementsLedger, Ledger!Spec
=============================================================================
