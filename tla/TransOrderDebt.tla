--------------------------- MODULE TransOrderDebt ---------------------------
(***************************************************************************)
(* transorderdebt: three tables of records (transfers, orders, debts) kept *)
(* by the contract's own account.  A row has a key the table hands out and *)
(* an id that actions look it up by; nothing but that look-up keeps the    *)
(* ids of a table distinct.                                                *)
(*                                                                         *)
(* A table is a function from keys to rows [id, content].  The texts of a  *)
(* record and its timestamp, which nothing reads, are left out.            *)
(***************************************************************************)
EXTENDS ChainAccounts

CONSTANTS
    RecordsSelf,      \* get_self() of transorderdebt
    TransId, OrderId, DebtId,
    Money,            \* the assets that actions name, valid or not
    Party,            \* bound: the accounts that actions name
    MaxKey            \* the last key available_primary_key() gives, 2^64 - 3

ASSUME RecordsAssumption == RecordsSelf \in Name /\ Party \subseteq Name /\ MaxKey \in Nat

VARIABLES transrecords, orders, debts     \* the three tables

recordVars == <<transrecords, orders, debts>>

TransContent == [from : Name, to : Name, quantity : Money, fee : Money]
OrderContent == [account : Name, merchant : Name]
DebtContent == [debtor : Name, creditor : Name, quantity : Money, fee : Money]

-----------------------------------------------------------------------------
\* The keys of the rows with this id, as the secondary index finds them.
With(t, id) == {k \in DOMAIN t : t[k].id = id}

Least(S) == CHOOSE k \in S : \A l \in S : k <= l

\* available_primary_key(): one more than the last key (of the rows there are
\* now: each action makes a new table object).
AvailableKey(t) == IF DOMAIN t = {} THEN 0
                   ELSE 1 + CHOOSE k \in DOMAIN t : \A l \in DOMAIN t : l <= k

\* Mutant: a record is added without looking for its id.
KeyAfterAll(t, id) == AvailableKey(t)

\* The key of the row an upsert writes.
KeyFor(t, id) == IF With(t, id) = {} THEN AvailableKey(t) ELSE Least(With(t, id))

\* The three upserts: t2 is t with a row of this id and content.
Upserted(t, t2, id, content) ==
    /\ KeyFor(t, id) <= MaxKey
    /\ t2 = Put(t, KeyFor(t, id), [id |-> id, content |-> content])

\* The three erases.
Erased(t, t2, id) ==
    /\ With(t, id) # {}
    /\ t2 = Drop(t, Least(With(t, id)))

\* Mutant: the accounts of a record are not looked up.
PartiesDiffer(a, b, quantity, fee) ==
    /\ a # b
    /\ quantity.amount > 0 /\ fee.amount >= 0
    /\ quantity.symbol = fee.symbol

\* What transupsert and debtupsert check of a record.
Acceptable(a, b, quantity, fee) ==
    /\ a # b
    /\ {a, b} \subseteq existing
    /\ quantity.amount > 0 /\ fee.amount >= 0
    /\ quantity.symbol = fee.symbol

-----------------------------------------------------------------------------
TransUpsert(auth, trans_id, from, to, quantity, fee) ==
    /\ RecordsSelf \in auth
    /\ Acceptable(from, to, quantity, fee)
    /\ Upserted(transrecords, transrecords', trans_id,
                [from |-> from, to |-> to, quantity |-> quantity, fee |-> fee])
    /\ UNCHANGED <<existing, orders, debts>>

TransErase(auth, trans_id) ==
    /\ RecordsSelf \in auth
    /\ Erased(transrecords, transrecords', trans_id)
    /\ UNCHANGED <<existing, orders, debts>>

\* The accounts of an order need not exist.
OrderUpsert(auth, order_id, account, merchant) ==
    /\ RecordsSelf \in auth
    /\ Upserted(orders, orders', order_id, [account |-> account, merchant |-> merchant])
    /\ UNCHANGED <<existing, transrecords, debts>>

OrderErase(auth, order_id) ==
    /\ RecordsSelf \in auth
    /\ Erased(orders, orders', order_id)
    /\ UNCHANGED <<existing, transrecords, debts>>

DebtUpsert(auth, debt_id, debtor, creditor, quantity, fee) ==
    /\ RecordsSelf \in auth
    /\ Acceptable(debtor, creditor, quantity, fee)
    /\ Upserted(debts, debts', debt_id,
                [debtor |-> debtor, creditor |-> creditor, quantity |-> quantity, fee |-> fee])
    /\ UNCHANGED <<existing, transrecords, orders>>

DebtErase(auth, debt_id) ==
    /\ RecordsSelf \in auth
    /\ Erased(debts, debts', debt_id)
    /\ UNCHANGED <<existing, transrecords, orders>>

RecordsInit == transrecords = NoRows /\ orders = NoRows /\ debts = NoRows

\* The actions that carry the permissions of auth.
RecordsStep(auth) ==
    \/ \E id \in TransId, from, to \in Party, q, f \in Money :
         TransUpsert(auth, id, from, to, q, f)
    \/ \E id \in TransId : TransErase(auth, id)
    \/ \E id \in OrderId, a, m \in Party : OrderUpsert(auth, id, a, m)
    \/ \E id \in OrderId : OrderErase(auth, id)
    \/ \E id \in DebtId, d, c \in Party, q, f \in Money : DebtUpsert(auth, id, d, c, q, f)
    \/ \E id \in DebtId : DebtErase(auth, id)

-----------------------------------------------------------------------------
Rows(Id, Content) == [id : Id, content : Content]

Between(a, b, r) == a # b /\ {a, b} \subseteq existing /\ r.quantity.symbol = r.fee.symbol

\* The records are well formed, and what was checked of one stays true of it:
\* its parties are two existing accounts, its amounts of one symbol.
RecordsTypeOK ==
    /\ IsTable(transrecords, 0 .. MaxKey, Rows(TransId, TransContent))
    /\ IsTable(orders, 0 .. MaxKey, Rows(OrderId, OrderContent))
    /\ IsTable(debts, 0 .. MaxKey, Rows(DebtId, DebtContent))
    /\ \A k \in DOMAIN transrecords :
         LET r == transrecords[k].content IN Between(r.from, r.to, r)
    /\ \A k \in DOMAIN debts :
         LET r == debts[k].content IN Between(r.debtor, r.creditor, r)

\* The rows of t in the order of their keys.
Listing(t) ==
    [i \in 1 .. Cardinality(DOMAIN t) |->
        t[CHOOSE k \in DOMAIN t : Cardinality({l \in DOMAIN t : l < k}) = i - 1]]

TransBook == INSTANCE RecordBook WITH
    Id <- TransId, Content <- TransContent, book <- Listing(transrecords)
OrderBook == INSTANCE RecordBook WITH
    Id <- OrderId, Content <- OrderContent, book <- Listing(orders)
DebtBook == INSTANCE RecordBook WITH
    Id <- DebtId, Content <- DebtContent, book <- Listing(debts)

\* Each table keeps the promise of RecordBook although its keys are handed out
\* again: the key of an erased last row goes to the next new record, while a gap
\* before the last row stays.
KeepBooks == TransBook!Spec /\ OrderBook!Spec /\ DebtBook!Spec
=============================================================================
