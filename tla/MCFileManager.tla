--------------------------- MODULE MCFileManager ---------------------------
(* Small instances of FileManager.                                         *)
EXTENDS FileManager, TLC

Symmetry == Permutations(Upload) \union Permutations(Name) \union Permutations(Temp)
============================================================================
