SPECIFICATION Spec
CONSTANTS
  Upload = {u1, u2, u3}
  Name = {n1, n2}
  Temp = {t1, t2}
  NoFile = NoFile
  Ops = {"do_add", "do_replace", "do_rename", "do_delete", "do_newdir", "do_perm", "none"}
  Entries = {NoFile, "old", "tree"}
  Size = 1
SYMMETRY Symmetry
CHECK_DEADLOCK FALSE
INVARIANTS TypeOK StoredWhole NothingLeftOver AddedStays ReplacedWhole
