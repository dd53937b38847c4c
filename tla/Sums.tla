-------------------------------- MODULE Sums --------------------------------
(***************************************************************************)
(* The sum of a function with natural values, as the number of units it    *)
(* hands out: x gets the f[x] distinct units <<x, 1>>, ..., <<x, f[x]>>.   *)
(* Defined this way (and not by recursion) so that facts about sums follow *)
(* from the cardinality theorems.                                          *)
(***************************************************************************)
EXTENDS Integers, FiniteSets

UnitsOf(f, x) == {x} \X (1 .. f[x])

Units(f) == UNION {UnitsOf(f, x) : x \in DOMAIN f}

SumOver(f) == Cardinality(Units(f))
=============================================================================
