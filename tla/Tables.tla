------------------------------- MODULE Tables -------------------------------
(***************************************************************************)
(* eosio::multi_index tables.  A table is a function whose domain is the   *)
(* set of primary keys that have a row; find(k) != end() is k \in DOMAIN.  *)
(***************************************************************************)

\* A table with no rows.
NoRows == [k \in {} |-> 0]

\* emplace (k is new) or modify (k has a row): afterwards k has row r.
Put(t, k, r) == [x \in DOMAIN t \cup {k} |-> IF x = k THEN r ELSE t[x]]

\* erase: afterwards k has no row.
Drop(t, k) == [x \in DOMAIN t \ {k} |-> t[x]]

\* The row of k when there is one, and the value d where the code goes on
\* with a default instead.
RowOr(t, k, d) == IF k \in DOMAIN t THEN t[k] ELSE d

\* t is a table with keys in K and rows in R.
IsTable(t, K, R) == DOMAIN t \subseteq K /\ t \in [DOMAIN t -> R]
=============================================================================
