--------------------------- MODULE ChainAccounts ---------------------------
(***************************************************************************)
(* What every contract sees of the chain: account names and is_account().  *)
(***************************************************************************)
EXTENDS Tables, Sums

CONSTANT Name         \* account names that actions mention

ASSUME NameAssumption == IsFiniteSet(Name)

VARIABLE existing     \* the names is_account() says yes to

\* The chain's own newaccount: n is a name nobody has.
ChainNewAccount(n) ==
    /\ n \notin existing
    /\ existing' = existing \cup {n}
=============================================================================
