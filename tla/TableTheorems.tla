--------------------------- MODULE TableTheorems ---------------------------
(***************************************************************************)
(* Facts about tables: what writing and erasing a row does to one.         *)
(***************************************************************************)
EXTENDS Tables, TLAPS

\* u is the table t after the row r was written at k.
Written(t, u, K, R, k, r) ==
    /\ IsTable(u, K, R)
    /\ DOMAIN u = DOMAIN t \cup {k}
    /\ u[k] = r
    /\ \A x \in DOMAIN t \ {k} : u[x] = t[x]

\* Writing a row of the right kind keeps a table well formed.
LEMMA PutTable ==
  ASSUME NEW K, NEW R, NEW t, IsTable(t, K, R), NEW k \in K, NEW r \in R
  PROVE  Written(t, Put(t, k, r), K, R, k, r)
BY DEF IsTable, Put, Written

\* u is the table t after the row at k, if there was one, was erased.
Removed(t, u, K, R, k) ==
    /\ IsTable(u, K, R)
    /\ DOMAIN u = DOMAIN t \ {k}
    /\ \A x \in DOMAIN t \ {k} : u[x] = t[x]

\* Erasing a row keeps a table well formed.
LEMMA DropTable ==
  ASSUME NEW K, NEW R, NEW t, IsTable(t, K, R), NEW k
  PROVE  Removed(t, Drop(t, k), K, R, k)
BY DEF IsTable, Drop, Removed

\* A table without rows is well formed.
LEMMA NoRowsTable ==
  ASSUME NEW K, NEW R
  PROVE  IsTable(NoRows, K, R) /\ DOMAIN NoRows = {}
BY DEF IsTable, NoRows
=============================================================================
