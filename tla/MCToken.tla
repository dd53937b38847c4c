------------------------------ MODULE MCToken ------------------------------
EXTENDS EosioToken
=============================================================================
