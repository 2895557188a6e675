---- MODULE MCAccounts ----
EXTENDS Accounts, TLC
RequestSymmetry == Permutations(Requests)
====
