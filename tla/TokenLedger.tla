---------------------------- MODULE TokenLedger ----------------------------
(***************************************************************************)
(* What a token contract promises: tokens with a cap and an issuer, and    *)
(* holders.  Only issuing and retiring change how much there is of a       *)
(* token, and only in the hands of its issuer; anything else moves tokens  *)
(* from one holder to another.                                             *)
(***************************************************************************)
EXTENDS Integers, Tables

CONSTANTS Name, Code, MaxAmount

VARIABLES
    tokens,     \* founded tokens -> their cap and issuer
    issued,     \* how much of each token there is
    held        \* <<holder, token>> -> what the holder has

vars == <<tokens, issued, held>>

Init == tokens = NoRows /\ issued = NoRows /\ held = [k \in Name \X Code |-> 0]

Found(c, issuer, cap) ==
    /\ c \notin DOMAIN tokens
    /\ tokens' = Put(tokens, c, [issuer |-> issuer, cap |-> cap])
    /\ issued' = Put(issued, c, 0)
    /\ UNCHANGED held

\* n more tokens, or -n fewer.
Mint(c, n) ==
    /\ c \in DOMAIN tokens
    /\ issued[c] + n \in 0 .. tokens[c].cap
    /\ held[<<tokens[c].issuer, c>>] + n >= 0
    /\ issued' = [issued EXCEPT ![c] = @ + n]
    /\ held' = [held EXCEPT ![<<tokens[c].issuer, c>>] = @ + n]
    /\ UNCHANGED tokens

Move(c, from, to, n) ==
    /\ c \in DOMAIN tokens
    /\ from # to
    /\ n <= held[<<from, c>>]
    /\ held' = [held EXCEPT ![<<from, c>>] = @ - n, ![<<to, c>>] = @ + n]
    /\ UNCHANGED <<tokens, issued>>

Next ==
    \/ \E c \in Code, issuer \in Name, cap \in 1 .. MaxAmount : Found(c, issuer, cap)
    \/ \E c \in Code, n \in -MaxAmount .. MaxAmount : Mint(c, n)
    \/ \E c \in Code, from, to \in Name, n \in 1 .. MaxAmount : Move(c, from, to, n)

Spec == Init /\ [][Next]_vars
=============================================================================
