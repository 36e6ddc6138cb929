---------------------------- MODULE MCConnTable ----------------------------
(* Small instances of ConnTable.                                           *)
EXTENDS ConnTable, TLC

Symmetry == Permutations(Client)
============================================================================
