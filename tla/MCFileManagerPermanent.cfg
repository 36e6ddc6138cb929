SPECIFICATION Spec
CONSTANTS
  Upload = {u1, u2}
  Name = {n1, n2}
  Temp = {t1, t2}
  NoFile = NoFile
  Ops = {"do_add", "do_replace", "none"}
  Entries = {NoFile, "old", "tree"}
  Size = 1
CHECK_DEADLOCK FALSE
PROPERTY Permanent
