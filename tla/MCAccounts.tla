----------------------------- MODULE MCAccounts -----------------------------
EXTENDS Accounts, TLC

Symmetry == Permutations(Sessions) \union Permutations(Requests)
=============================================================================
