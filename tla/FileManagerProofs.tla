------------------------- MODULE FileManagerProofs -------------------------
(* Proofs of the properties of FileManager, for any number of requests,     *)
(* names and pieces, and any folder at the start.                           *)
EXTENDS FileManager, TLAPS

Open(u) == fileDesc[u] = "open"

\* How the fields of a request go together.
Uploading ==
  \A u \in Upload :
    /\ Open(u) => /\ phase[u] = "body" /\ filePath[u] \in Path
                  /\ stored[u] = sent[u] /\ Uploads(req[u].op)
    /\ phase[u] = "head" => stored[u] = sent[u]
    /\ reply[u] = "pending" <=> phase[u] # "ended"

StoredIn(p) == \E u \in Upload : dir[p] = u /\ Stored(u)

\* The file of an upload in progress: under its name is what it wrote or, when another
\* upload has replaced that, a stored file; no two uploads have the same name, and none
\* has that of a file that was there at the start.
Owned ==
  Only(Ops \ {"do_rename", "do_delete"}) =>
    \A u \in Upload :
      Open(u) => /\ filePath[u] \notin old
                 /\ dir[filePath[u]] = u \/ StoredIn(filePath[u])
                 /\ \A v \in Upload : Open(v) /\ v # u => filePath[v] # filePath[u]

\* If files are only added, it is its own.
OwnedAdding ==
  Only({"do_add", "do_newdir", "do_perm", "none"}) =>
    \A u \in Upload : Open(u) => dir[filePath[u]] = u

DirInv == Owned /\ OwnedAdding /\ NothingLeftOver /\ AddedStays /\ ReplacedWhole

Inv == TypeOK /\ Uploading /\ StoredWhole /\ DirInv

\* What a request names.
LEMMA RequestNames ==
  ASSUME NEW r \in Requests
  PROVE  /\ r.op \in Ops /\ r.file \in Path
         /\ Uploads(r.op) \/ r.op \in {"do_newdir", "do_perm"} => r.file \in Name
         /\ r.op \in {"do_replace", "do_rename"} => r.target \in Name
  BY OpsAssumption DEF Requests, Path, Uploads

\* An upload is none of the other entries.
LEMMA UploadIsNone ==
  ASSUME NEW u \in Upload
  PROVE  /\ u # NoFile /\ u \notin {"old", "dir", "tree"}
         /\ NoFile \notin {"old", "dir", "tree"}
  BY UploadAssumption, NameAssumption

LEMMA InitInv == Init => Inv
<1> SUFFICES ASSUME Init PROVE Inv OBVIOUS
<1>1. TypeOK BY EntriesAssumption, SizeAssumption DEF Init, TypeOK, Path
<1>2. Uploading /\ StoredWhole /\ Owned /\ OwnedAdding
  BY DEF Init, Uploading, StoredWhole, Owned, OwnedAdding, Open, Stored
<1>3. NothingLeftOver
  <2>1. \A p \in Path : dir[p] \in {NoFile, "old", "dir", "tree"}
    BY EntriesAssumption DEF Init
  <2> QED BY <2>1, UploadIsNone DEF NothingLeftOver
<1>4. AddedStays /\ ReplacedWhole
  BY DEF Init, AddedStays, ReplacedWhole, Stored, Path
<1> QED BY <1>1, <1>2, <1>3, <1>4 DEF Inv, DirInv

----------------------------------------------------------------------------
(* The ways the directory changes.                                         *)

\* Nothing changes that it depends on.
LEMMA DirKept ==
  ASSUME DirInv, UNCHANGED <<dir, old, req, killed>>,
         \A u \in Upload : Stored(u)' <=> Stored(u),
         \A u \in Upload : Open(u)' => Open(u) /\ filePath'[u] = filePath[u],
         \A u \in Upload : Open(u) => Open(u)' \/ \A p \in Path : dir[p] # u
  PROVE  DirInv'
<1>1. Owned' BY DEF DirInv, Owned, Only, StoredIn
<1>2. OwnedAdding' BY DEF DirInv, OwnedAdding, Only
<1>3. NothingLeftOver' BY DEF DirInv, NothingLeftOver, Only, Open
<1>4. AddedStays' BY DEF DirInv, AddedStays, Only
<1>5. ReplacedWhole' BY DEF DirInv, ReplacedWhole, Only
<1> QED BY <1>1, <1>2, <1>3, <1>4, <1>5 DEF DirInv

\* A request to rename or delete makes no promise.
LEMMA NoPromise ==
  ASSUME NEW u \in Upload, req[u].op \in {"do_rename", "do_delete"}, UNCHANGED req
  PROVE  DirInv'
  BY DEF DirInv, Owned, OwnedAdding, NothingLeftOver, AddedStays, ReplacedWhole, Only

\* An upload loses its file.
LEMMA Removed ==
  ASSUME Inv, NEW u \in Upload, dir' = Freed(u),
         fileDesc' = [fileDesc EXCEPT ![u] = "none"],
         UNCHANGED <<old, req, filePath, killed>>,
         \A v \in Upload : Stored(v)' <=> Stored(v)
  PROVE  DirInv'
<1>1. TypeOK /\ Uploading /\ DirInv BY DEF Inv
<1>2. /\ ~Open(u)'
      /\ \A v \in Upload : v # u => (Open(v)' <=> Open(v)) /\ filePath'[v] = filePath[v]
  BY <1>1 DEF Open, TypeOK
<1>3. CASE ~Open(u)
  BY <1>1, <1>2, <1>3, DirKept DEF Freed, Open
<1>4. CASE Open(u)
  <2> DEFINE p == filePath[u]
  <2>1. /\ p \in Path /\ dir' = Unlinked(p)
        /\ dir \in [Path -> Upload \union {NoFile, "old", "dir", "tree"}]
    BY <1>1, <1>4 DEF Uploading, Freed, Open, TypeOK
  <2>2. /\ \A q \in Path : dir'[q] = dir[q] \/ (q = p /\ dir'[q] = NoFile)
        /\ \A v \in Upload : dir'[p] # v
    BY <2>1, UploadIsNone DEF Unlinked, Subdirs
  <2> HIDE DEF p
  <2>3. Owned'
    BY <1>1, <1>2, <1>4, <2>2 DEF p, DirInv, Owned, Only, StoredIn, Uploading
  <2>4. OwnedAdding'
    BY <1>1, <1>2, <1>4, <2>2 DEF p, DirInv, OwnedAdding, Only, Uploading
  <2>5. NothingLeftOver'
    BY <1>1, <1>2, <1>4, <2>2, UploadIsNone DEF p, DirInv, NothingLeftOver, Only, Open
  <2>6. AddedStays'
    <3> SUFFICES ASSUME Only({"do_add", "do_newdir", "do_perm", "none"})
                 PROVE  /\ \A v \in Upload : Stored(v) => dir'[req[v].file] = v
                        /\ \A n \in old : dir'[n] = "old"
      BY DEF AddedStays, Only
    <3>1. dir[p] = u /\ ~Stored(u)
      BY <1>1, <1>4 DEF p, DirInv, OwnedAdding, Uploading, Stored
    <3>2. \A v \in Upload : Stored(v) => dir[req[v].file] = v /\ req[v].file \in Path
      BY <1>1, RequestNames DEF DirInv, AddedStays, TypeOK
    <3>3. \A n \in old : dir[n] = "old" /\ n \in Path
      BY <1>1 DEF DirInv, AddedStays, TypeOK, Path
    <3> QED BY <2>2, <3>1, <3>2, <3>3, UploadIsNone
  <2>7. ReplacedWhole'
    BY <1>1, <1>2, <1>4, <2>2 DEF p, DirInv, ReplacedWhole, Owned, Only, TypeOK, Path
  <2> QED BY <2>3, <2>4, <2>5, <2>6, <2>7 DEF DirInv
<1> QED BY <1>3, <1>4

\* An upload gets its name.
LEMMA Placed ==
  ASSUME Inv, NEW u \in Upload, NEW target \in Name, NEW replaceIfExists \in BOOLEAN,
         Open(u), Placeable(u, target, replaceIfExists), dir' = Moved(filePath[u], target),
         IF replaceIfExists THEN req[u].op = "do_replace"
         ELSE req[u].op = "do_add" /\ target = req[u].file,
         fileDesc' = [fileDesc EXCEPT ![u] = "none"],
         UNCHANGED <<old, req, filePath, killed>>,
         \A v \in Upload : Stored(v)' <=> Stored(v) \/ v = u
  PROVE  DirInv'
<1> DEFINE p == filePath[u]
<1>1. TypeOK /\ Uploading /\ DirInv BY DEF Inv
<1>2. /\ ~Open(u)'
      /\ \A v \in Upload : v # u => (Open(v)' <=> Open(v)) /\ filePath'[v] = filePath[v]
  BY <1>1 DEF Open, TypeOK
<1>3. /\ p \in Path /\ target \in Path
      /\ dir \in [Path -> Upload \union {NoFile, "old", "dir", "tree"}]
  BY <1>1 DEF Uploading, TypeOK, Path
<1>4. /\ \A q \in Path : q \notin {p, target} => dir'[q] = dir[q]
      /\ dir'[target] = dir[p]
      /\ p # target => dir'[p] = NoFile
  BY <1>3 DEF Moved
<1>5. p # target /\ ~replaceIfExists => dir[target] = NoFile
  BY DEF Placeable, CanLink
<1>6. \A v \in Upload : v # u => (Stored(v)' <=> Stored(v))
  OBVIOUS
<1>7. Stored(u)' /\ ~Stored(u)
  BY <1>1 DEF Uploading, Stored
<1>13. ~replaceIfExists => target = req[u].file
  OBVIOUS
<1> HIDE DEF p
<1>8. Owned'
  <2> SUFFICES ASSUME Only(Ops \ {"do_rename", "do_delete"}), NEW v \in Upload, Open(v)'
               PROVE  /\ filePath[v] \notin old
                      /\ dir'[filePath[v]] = v \/ StoredIn(filePath[v])'
                      /\ \A w \in Upload : Open(w)' /\ w # v => filePath[w] # filePath[v]
    BY DEF Owned, Only
  <2>1. v # u /\ Open(v) /\ filePath[v] \in Path BY <1>1, <1>2 DEF Uploading
  <2>2. /\ filePath[v] \notin old /\ filePath[v] # p
        /\ dir[p] = u \/ StoredIn(p)
        /\ dir[filePath[v]] = v \/ StoredIn(filePath[v])
        /\ \A w \in Upload : Open(w) /\ w # v => filePath[w] # filePath[v]
    BY <1>1, <2>1 DEF p, DirInv, Owned
  <2>3. StoredIn(target)' BY <1>4, <1>6, <1>7, <2>2 DEF StoredIn
  <2>4. dir'[filePath[v]] = v \/ StoredIn(filePath[v])'
    BY <1>4, <1>6, <1>7, <2>1, <2>2, <2>3 DEF StoredIn
  <2> QED BY <1>2, <2>2, <2>4
<1>9. OwnedAdding'
  <2> SUFFICES ASSUME Only({"do_add", "do_newdir", "do_perm", "none"}), NEW v \in Upload,
                      Open(v)'
               PROVE  dir'[filePath[v]] = v
    BY <1>2 DEF OwnedAdding, Only
  <2>1. v # u /\ Open(v) /\ filePath[v] \in Path BY <1>1, <1>2 DEF Uploading
  <2>2. dir[filePath[v]] = v /\ dir[p] = u BY <1>1, <2>1 DEF p, DirInv, OwnedAdding
  <2>3. ~replaceIfExists BY DEF Only
  <2> QED BY <1>4, <1>5, <2>1, <2>2, <2>3, UploadIsNone
<1>10. NothingLeftOver'
  <2> SUFFICES ASSUME Only(Ops \ {"do_rename", "do_delete"}), NEW v \in Upload, NEW q \in Path,
                      dir'[q] = v
               PROVE  \/ Open(v)' /\ filePath[v] = q
                      \/ Stored(v)' /\ q \in Name
                      \/ v \in killed
    BY DEF NothingLeftOver, Only, Open
  <2>1. \A r \in Path : dir[r] = v => \/ Open(v) /\ filePath[v] = r
                                      \/ Stored(v) /\ r \in Name
                                      \/ v \in killed
    BY <1>1 DEF DirInv, NothingLeftOver, Open
  <2>2. Open(v) /\ v # u => filePath[v] # p
    BY <1>1 DEF p, DirInv, Owned
  <2>3. CASE q = target
    BY <1>3, <1>4, <1>6, <1>7, <2>1, <2>2, <2>3
  <2>4. CASE q # target
    <3>1. q # p /\ dir[q] = v BY <1>4, <2>4, UploadIsNone
    <3> QED BY <1>2, <1>6, <1>7, <2>1, <3>1 DEF p
  <2> QED BY <2>3, <2>4
<1>11. AddedStays'
  <2> SUFFICES ASSUME Only({"do_add", "do_newdir", "do_perm", "none"})
               PROVE  /\ \A v \in Upload : Stored(v)' => dir'[req[v].file] = v
                      /\ \A n \in old : dir'[n] = "old"
    BY DEF AddedStays, Only
  <2>1. dir[p] = u /\ ~replaceIfExists
    BY <1>1 DEF p, DirInv, OwnedAdding, Only
  <2>2. \A v \in Upload : Stored(v) => dir[req[v].file] = v /\ req[v].file \in Path
    BY <1>1, RequestNames DEF DirInv, AddedStays, TypeOK
  <2>3. \A n \in old : dir[n] = "old" /\ n \in Path
    BY <1>1 DEF DirInv, AddedStays, TypeOK, Path
  <2>4. ASSUME NEW v \in Upload, Stored(v)' PROVE dir'[req[v].file] = v
    <3>1. CASE v = u BY <1>4, <1>13, <2>1, <3>1
    <3>2. CASE v # u
      <4>1. dir[req[v].file] = v /\ req[v].file \in Path BY <1>6, <2>2, <2>4, <3>2
      <4>2. req[v].file \notin {p, target} BY <1>5, <2>1, <3>2, <4>1, UploadIsNone
      <4> QED BY <1>4, <4>1, <4>2
    <3> QED BY <3>1, <3>2
  <2>5. ASSUME NEW n \in old PROVE dir'[n] = "old"
    <3>1. u # "old" /\ NoFile # "old" BY UploadIsNone
    <3>2. n \notin {p, target} BY <1>5, <2>1, <2>3, <3>1
    <3> QED BY <1>4, <2>3, <3>2
  <2> QED BY <2>4, <2>5
<1>12. ReplacedWhole'
  <2> SUFFICES ASSUME Only(Ops \ {"do_rename", "do_delete"}), NEW n \in old
               PROVE  dir'[n] = "old" \/ StoredIn(n)'
    BY DEF ReplacedWhole, Only, StoredIn
  <2>1. n \in Path /\ n # p /\ (dir[n] = "old" \/ StoredIn(n)) /\ (dir[p] = u \/ StoredIn(p))
    BY <1>1 DEF p, DirInv, Owned, ReplacedWhole, StoredIn, TypeOK, Path
  <2> QED BY <1>4, <1>6, <1>7, <2>1 DEF StoredIn
<1> QED BY <1>8, <1>9, <1>10, <1>11, <1>12 DEF DirInv

----------------------------------------------------------------------------
(* The actions.                                                            *)

LEMMA OpenInv == ASSUME Inv, NEW u \in Upload, OpenFile(u) PROVE Inv'
<1>1. TypeOK /\ Uploading /\ StoredWhole /\ DirInv BY DEF Inv
<1>2. /\ phase[u] = "head" /\ phase' = [phase EXCEPT ![u] = "body"]
      /\ Uploads(req[u].op) /\ req[u].file \in Name
      /\ UNCHANGED <<old, req, sent, stored, reply, killed>>
      /\ ~Open(u) /\ stored[u] = sent[u] /\ ~Stored(u)
  BY <1>1, RequestNames DEF OpenFile, TypeOK, Uploading, Stored
<1>3. \A v \in Upload : Stored(v)' <=> Stored(v)
  BY <1>2 DEF Stored
<1>4. StoredWhole' BY <1>1, <1>2, <1>3 DEF StoredWhole
<1>6. CASE /\ Created(u)
           /\ dir' = [dir EXCEPT ![filePath'[u]] = u]
           /\ fileDesc' = [fileDesc EXCEPT ![u] = "open"]
  <2> DEFINE p == filePath'[u]
  <2>1. PICK t \in Path : dir[t] = NoFile /\ filePath' = [filePath EXCEPT ![u] = t]
    BY <1>2, <1>6 DEF Created, Path
  <2>2. p = t BY <1>1, <2>1 DEF TypeOK
  <2> HIDE DEF p
  <2>3. /\ dir' = [dir EXCEPT ![t] = u] /\ dir[t] = NoFile
        /\ dir'[t] = u /\ \A q \in Path : q # t => dir'[q] = dir[q]
    BY <1>1, <1>6, <2>1, <2>2 DEF p, TypeOK
  <2>4. /\ Open(u)' /\ filePath'[u] = t
        /\ \A v \in Upload : v # u => (Open(v)' <=> Open(v)) /\ filePath'[v] = filePath[v]
    BY <1>1, <1>6, <2>1 DEF TypeOK, Open
  <2>5. TypeOK' BY <1>1, <1>2, <1>6, <2>1, <2>3 DEF TypeOK
  <2>6. Uploading' BY <1>1, <1>2, <1>6, <2>4 DEF Uploading, TypeOK
  <2>7. Owned'
    <3> SUFFICES ASSUME Only(Ops \ {"do_rename", "do_delete"}), NEW v \in Upload, Open(v)'
                 PROVE  /\ filePath'[v] \notin old
                        /\ dir'[filePath'[v]] = v \/ StoredIn(filePath[v])'
                        /\ \A w \in Upload : Open(w)' /\ w # v => filePath'[w] # filePath'[v]
      BY <1>2 DEF Owned, Only
    <3>1. \A w \in Upload :
            Open(w) /\ w # u => /\ filePath[w] \in Path /\ filePath[w] \notin old
                                /\ dir[filePath[w]] = w \/ StoredIn(filePath[w])
      BY <1>1 DEF Uploading, DirInv, Owned
    <3>2. \A w \in Upload : Open(w) /\ w # u => filePath[w] # t
      BY <2>1, <3>1, UploadIsNone DEF StoredIn
    <3>3. t \notin old
      BY <1>1, <2>1, UploadIsNone DEF DirInv, ReplacedWhole
    <3>4. CASE v = u BY <2>3, <2>4, <3>2, <3>3, <3>4
    <3>5. CASE v # u
      <4>1. Open(v) /\ filePath'[v] = filePath[v] BY <2>4, <3>5
      <4>2. dir'[filePath[v]] = dir[filePath[v]] BY <2>3, <3>1, <3>2, <3>5, <4>1
      <4>3. \A w \in Upload : Open(w) /\ w # v => filePath[w] # filePath[v]
        BY <1>1, <4>1 DEF DirInv, Owned
      <4>4. dir'[filePath'[v]] = v \/ StoredIn(filePath[v])'
        BY <1>3, <3>1, <3>5, <4>1, <4>2 DEF StoredIn
      <4>5. ASSUME NEW w \in Upload, Open(w)', w # v PROVE filePath'[w] # filePath'[v]
        <5>1. CASE w = u BY <2>4, <3>2, <3>5, <4>1, <5>1
        <5>2. CASE w # u BY <2>4, <4>1, <4>3, <4>5, <5>2
        <5> QED BY <5>1, <5>2
      <4>6. filePath'[v] \notin old BY <3>1, <3>5, <4>1
      <4>7. \A w \in Upload : Open(w)' /\ w # v => filePath'[w] # filePath'[v] BY <4>5
      <4> QED BY <4>4, <4>6, <4>7
    <3> QED BY <3>4, <3>5
  <2>8. OwnedAdding'
    <3> SUFFICES ASSUME Only({"do_add", "do_newdir", "do_perm", "none"}), NEW v \in Upload,
                        Open(v)'
                 PROVE  dir'[filePath'[v]] = v
      BY <1>2 DEF OwnedAdding, Only
    <3>1. CASE v = u BY <2>3, <2>4, <3>1
    <3>2. CASE v # u
      <4>1. /\ filePath'[v] = filePath[v] /\ filePath[v] \in Path /\ dir[filePath[v]] = v
        BY <1>1, <2>4, <3>2 DEF Uploading, DirInv, OwnedAdding
      <4> QED BY <2>3, <4>1, UploadIsNone
    <3> QED BY <3>1, <3>2
  <2>9. NothingLeftOver'
    BY <1>1, <1>2, <1>3, <2>3, <2>4, UploadIsNone DEF DirInv, NothingLeftOver, Only, Open
  <2>10. AddedStays'
    <3> SUFFICES ASSUME Only({"do_add", "do_newdir", "do_perm", "none"})
                 PROVE  /\ \A v \in Upload : Stored(v) => dir'[req[v].file] = v
                        /\ \A n \in old : dir'[n] = "old"
      BY <1>2, <1>3 DEF AddedStays, Only
    <3>1. \A v \in Upload : Stored(v) => dir[req[v].file] = v /\ req[v].file \in Path
      BY <1>1, RequestNames DEF DirInv, AddedStays, TypeOK
    <3>2. \A n \in old : dir[n] = "old" /\ n \in Path
      BY <1>1 DEF DirInv, AddedStays, TypeOK, Path
    <3> QED BY <2>3, <3>1, <3>2, UploadIsNone
  <2>11. ReplacedWhole'
    <3> SUFFICES ASSUME Only(Ops \ {"do_rename", "do_delete"}), NEW n \in old
                 PROVE  dir'[n] = "old" \/ StoredIn(n)'
      BY <1>2 DEF ReplacedWhole, Only, StoredIn
    <3>1. n \in Path /\ (dir[n] = "old" \/ StoredIn(n))
      BY <1>1 DEF DirInv, ReplacedWhole, StoredIn, TypeOK, Path
    <3>2. n # t BY <2>1, <3>1, UploadIsNone DEF StoredIn
    <3> QED BY <1>3, <2>3, <3>1, <3>2 DEF StoredIn
  <2> QED BY <1>4, <2>5, <2>6, <2>7, <2>8, <2>9, <2>10, <2>11 DEF Inv, DirInv
<1>7. CASE filePath' = [filePath EXCEPT ![u] = req[u].file] /\ UNCHANGED <<dir, fileDesc>>
  <2>1. TypeOK' BY <1>1, <1>2, <1>7 DEF TypeOK, Path
  <2>2. \A v \in Upload : /\ Open(v)' <=> Open(v)
                          /\ Open(v) => filePath'[v] = filePath[v]
    BY <1>1, <1>2, <1>7 DEF TypeOK, Open
  <2>3. Uploading' BY <1>1, <1>2, <2>2 DEF Uploading, TypeOK
  <2>4. DirInv' BY <1>1, <1>2, <1>3, <1>7, <2>2, DirKept
  <2> QED BY <1>4, <2>1, <2>3, <2>4 DEF Inv
<1> QED BY <1>6, <1>7 DEF OpenFile

LEMMA AppendInv == ASSUME Inv, NEW u \in Upload, AppendData(u) PROVE Inv'
<1>1. TypeOK /\ Uploading /\ StoredWhole /\ DirInv BY DEF Inv
<1>2. /\ phase[u] = "body" /\ sent[u] < Size /\ sent' = [sent EXCEPT ![u] = @ + 1]
      /\ UNCHANGED <<old, req, phase, filePath, reply, killed>>
      /\ sent[u] \in Nat /\ stored[u] \in 0 .. sent[u] /\ ~Stored(u)
  BY <1>1, SizeAssumption DEF AppendData, TypeOK, Uploading, Stored
<1>3. \A v \in Upload : Stored(v)' <=> Stored(v)
  BY <1>2 DEF Stored
<1>4. sent' \in [Upload -> 0 .. Size] /\ sent'[u] = sent[u] + 1
  BY <1>1, <1>2, SizeAssumption DEF TypeOK
<1>5. CASE fileDesc[u] = "open" /\ StorePiece(u)
  <2>1. /\ stored' = [stored EXCEPT ![u] = @ + 1] /\ UNCHANGED <<dir, fileDesc>>
        /\ stored[u] = sent[u]
    BY <1>1, <1>5 DEF StorePiece, Uploading, Open
  <2>2. TypeOK' BY <1>1, <1>2, <1>4, <2>1 DEF TypeOK
  <2>6. /\ stored'[u] = sent'[u]
        /\ \A v \in Upload : v # u => stored'[v] = stored[v] /\ sent'[v] = sent[v]
    BY <1>1, <1>2, <1>4, <2>1 DEF TypeOK
  <2>3. Uploading' BY <1>1, <1>2, <2>1, <2>6 DEF Uploading, Open
  <2>4. StoredWhole' BY <1>1, <1>2, <1>3, <2>1 DEF StoredWhole, TypeOK
  <2>5. DirInv' BY <1>1, <1>2, <1>3, <2>1, DirKept DEF Open
  <2> QED BY <2>2, <2>3, <2>4, <2>5 DEF Inv
<1>6. CASE fileDesc[u] = "open" /\ StoreFailed(u)
  <2>1. /\ dir' = Freed(u) /\ fileDesc' = [fileDesc EXCEPT ![u] = "none"] /\ UNCHANGED stored
        /\ filePath[u] \in Path
    BY <1>1, <1>6 DEF StoreFailed, Freed, Uploading, Open
  <2>2. TypeOK' BY <1>1, <1>2, <1>4, <2>1 DEF TypeOK, Freed, Unlinked
  <2>6. /\ fileDesc'[u] # "open" /\ phase[u] # "head"
        /\ \A v \in Upload : v # u => fileDesc'[v] = fileDesc[v] /\ sent'[v] = sent[v]
    BY <1>1, <1>2, <2>1 DEF TypeOK
  <2>3. Uploading' BY <1>1, <1>2, <2>1, <2>6 DEF Uploading, Open
  <2>4. StoredWhole' BY <1>1, <1>3, <2>1 DEF StoredWhole
  <2>5. DirInv' BY <1>2, <1>3, <2>1, Removed
  <2> QED BY <2>2, <2>3, <2>4, <2>5 DEF Inv
<1>7. CASE fileDesc[u] # "open" /\ UNCHANGED <<dir, stored, fileDesc>>
  <2>1. TypeOK' BY <1>1, <1>2, <1>4, <1>7 DEF TypeOK
  <2>2. Uploading' BY <1>1, <1>2, <1>7 DEF Uploading, TypeOK, Open
  <2>3. StoredWhole' BY <1>1, <1>3, <1>7 DEF StoredWhole
  <2>4. DirInv' BY <1>1, <1>2, <1>3, <1>7, DirKept DEF Open
  <2> QED BY <2>1, <2>2, <2>3, <2>4 DEF Inv
<1> QED BY <1>5, <1>6, <1>7 DEF AppendData

\* The end of a request with any answer, as far as its fields go.
LEMMA EndInv ==
  ASSUME Inv, NEW u \in Upload, phase[u] # "ended", End(u),
         NEW answer \in {"ok", "error", "none"}, reply' = [reply EXCEPT ![u] = answer],
         dir' \in [Path -> Upload \union {NoFile, "old", "dir", "tree"}],
         answer = "ok" /\ req[u].op \in {"do_add", "do_replace"} => stored[u] = Size,
         DirInv'
  PROVE  Inv'
<1>1. TypeOK /\ Uploading /\ StoredWhole BY DEF Inv
<1>2. /\ phase' = [phase EXCEPT ![u] = "ended"] /\ fileDesc' = [fileDesc EXCEPT ![u] = "none"]
      /\ UNCHANGED <<old, req, sent, stored, filePath, killed>>
  BY DEF End
<1>3. TypeOK' BY <1>1, <1>2 DEF TypeOK
<1>4. Uploading' BY <1>1, <1>2 DEF Uploading, TypeOK, Open
<1>5. StoredWhole' BY <1>1, <1>2 DEF StoredWhole, Stored, TypeOK
<1> QED BY <1>3, <1>4, <1>5 DEF Inv

\* An upload that is not stored.
LEMMA NotStoredInv ==
  ASSUME Inv, NEW u \in Upload, phase[u] # "ended", End(u),
         NEW answer \in {"ok", "error", "none"}, reply' = [reply EXCEPT ![u] = answer],
         dir' = Freed(u), answer = "ok" => req[u].op \notin {"do_add", "do_replace"}
  PROVE  Inv'
<1>1. TypeOK /\ Uploading BY DEF Inv
<1>2. \A v \in Upload : Stored(v)' <=> Stored(v)
  BY <1>1 DEF Stored, Uploading, TypeOK, End
<1>3. DirInv' BY <1>2, Removed DEF End
<1>4. dir' \in [Path -> Upload \union {NoFile, "old", "dir", "tree"}]
  BY <1>1 DEF TypeOK, Freed, Unlinked
<1> QED BY <1>3, <1>4, EndInv

LEMMA FinishInv ==
  ASSUME Inv, NEW u \in Upload, phase[u] = "body", sent[u] = Size, End(u),
         AddNewFile(u) \/ ReplaceFile(u)
  PROVE  Inv'
<1>1. TypeOK /\ Uploading BY DEF Inv
<1>2. PICK target \in Name, replaceIfExists \in BOOLEAN :
        /\ IF replaceIfExists THEN req[u].op = "do_replace"
           ELSE req[u].op = "do_add" /\ target = req[u].file
        /\ FinishUpload(u, target, replaceIfExists)
  <2>1. /\ req[u].op \in {"do_add"} => req[u].file \in Name
        /\ req[u].op = "do_replace" => req[u].target \in Name
    BY <1>1, RequestNames DEF TypeOK, Uploads
  <2>2. CASE AddNewFile(u) BY <2>1, <2>2 DEF AddNewFile
  <2>3. CASE ReplaceFile(u) BY <2>1, <2>3 DEF ReplaceFile
  <2> QED BY <2>2, <2>3
<1>3. CASE /\ Open(u) /\ Placeable(u, target, replaceIfExists)
           /\ dir' = Moved(filePath[u], target) /\ Answer(u, "ok")
  <2>1. dir' = Moved(filePath[u], target) /\ reply' = [reply EXCEPT ![u] = "ok"]
    BY <1>3 DEF Answer
  <2>2. filePath[u] \in Path /\ stored[u] = Size
    BY <1>1, <1>3 DEF Uploading
  <2>3. \A v \in Upload : Stored(v)' <=> Stored(v) \/ v = u
    BY <1>1, <1>2, <2>1 DEF Stored, TypeOK, End
  <2>4. DirInv' BY <1>2, <1>3, <2>1, <2>3, Placed DEF End
  <2>5. dir' \in [Path -> Upload \union {NoFile, "old", "dir", "tree"}]
    BY <1>1, <2>1, <2>2 DEF TypeOK, Moved, Path
  <2> QED BY <2>1, <2>2, <2>4, <2>5, EndInv
<1>4. CASE dir' = Freed(u) /\ Answer(u, "error")
  <2>1. dir' = Freed(u) /\ reply' = [reply EXCEPT ![u] = "error"]
    BY <1>4 DEF Answer
  <2> QED BY <2>1, NotStoredInv
<1> QED BY <1>2, <1>3, <1>4 DEF FinishUpload, Open

\* A subdirectory is new.
LEMMA NewdirKept ==
  ASSUME Inv, NEW u \in Upload, End(u), ~Open(u), CreateNewdir(u)
  PROVE  DirInv'
<1>1. TypeOK /\ Uploading /\ DirInv BY DEF Inv
<1>2. /\ \A v \in Upload : Open(v)' <=> Open(v)
      /\ UNCHANGED <<old, req, filePath, killed>>
  BY <1>1 DEF End, Open, TypeOK
<1>3. \A v \in Upload : Stored(v)' <=> Stored(v)
  BY <1>1 DEF CreateNewdir, Answer, Stored, TypeOK, End
<1>4. CASE UNCHANGED dir
  BY <1>1, <1>2, <1>3, <1>4, DirKept
<1>5. CASE dir[req[u].file] = NoFile /\ dir' = [dir EXCEPT ![req[u].file] = "dir"]
  <2> DEFINE p == req[u].file
  <2>1. p \in Path BY <1>1, RequestNames DEF TypeOK
  <2>2. /\ dir[p] = NoFile /\ dir'[p] = "dir"
        /\ \A q \in Path : q # p => dir'[q] = dir[q]
    BY <1>1, <1>5, <2>1 DEF TypeOK
  <2> HIDE DEF p
  <2>3. "dir" \notin Upload /\ NoFile \notin Upload /\ NoFile # "old"
    BY UploadAssumption, NameAssumption
  <2>4. Owned'
    <3> SUFFICES ASSUME Only(Ops \ {"do_rename", "do_delete"}), NEW v \in Upload, Open(v)
                 PROVE  /\ filePath[v] \notin old
                        /\ dir'[filePath[v]] = v \/ StoredIn(filePath[v])'
                        /\ \A w \in Upload : Open(w) /\ w # v => filePath[w] # filePath[v]
      BY <1>2 DEF Owned, Only
    <3>1. /\ filePath[v] \notin old /\ filePath[v] \in Path
          /\ dir[filePath[v]] = v \/ StoredIn(filePath[v])
          /\ \A w \in Upload : Open(w) /\ w # v => filePath[w] # filePath[v]
      BY <1>1 DEF DirInv, Owned, Uploading
    <3>2. filePath[v] # p BY <2>2, <2>3, <3>1 DEF StoredIn
    <3> QED BY <1>2, <1>3, <2>2, <3>1, <3>2 DEF StoredIn
  <2>5. OwnedAdding'
    BY <1>1, <1>2, <2>2, <2>3 DEF DirInv, OwnedAdding, Only, Uploading
  <2>6. NothingLeftOver'
    BY <1>1, <1>2, <1>3, <2>2, <2>3 DEF DirInv, NothingLeftOver, Only, Open
  <2>7. AddedStays'
    <3> SUFFICES ASSUME Only({"do_add", "do_newdir", "do_perm", "none"})
                 PROVE  /\ \A v \in Upload : Stored(v) => dir'[req[v].file] = v
                        /\ \A n \in old : dir'[n] = "old"
      BY <1>2, <1>3 DEF AddedStays, Only
    <3>1. \A v \in Upload : Stored(v) => dir[req[v].file] = v /\ req[v].file \in Path
      BY <1>1, RequestNames DEF DirInv, AddedStays, TypeOK
    <3>2. \A n \in old : dir[n] = "old" /\ n \in Path
      BY <1>1 DEF DirInv, AddedStays, TypeOK, Path
    <3> QED BY <2>2, <2>3, <3>1, <3>2
  <2>8. ReplacedWhole'
    <3> SUFFICES ASSUME Only(Ops \ {"do_rename", "do_delete"}), NEW n \in old
                 PROVE  dir'[n] = "old" \/ StoredIn(n)'
      BY <1>2 DEF ReplacedWhole, Only, StoredIn
    <3>1. n \in Path /\ (dir[n] = "old" \/ StoredIn(n))
      BY <1>1 DEF DirInv, ReplacedWhole, StoredIn, TypeOK, Path
    <3>2. n # p BY <2>2, <2>3, <3>1 DEF StoredIn
    <3> QED BY <1>3, <2>2, <3>1, <3>2 DEF StoredIn
  <2> QED BY <2>4, <2>5, <2>6, <2>7, <2>8 DEF DirInv
<1> QED BY <1>4, <1>5 DEF CreateNewdir

LEMMA PostInv == ASSUME Inv, NEW u \in Upload, ProcessPost(u) PROVE Inv'
<1>1. TypeOK /\ Uploading /\ DirInv /\ End(u) BY DEF Inv, ProcessPost
<1>2. /\ phase[u] # "ended" /\ (Uploads(req[u].op) => phase[u] = "body" /\ sent[u] = Size)
      /\ req[u] \in Requests /\ (~Uploads(req[u].op) => ~Open(u))
  BY <1>1 DEF ProcessPost, TypeOK, Uploading
<1>3. CASE AddNewFile(u) \/ ReplaceFile(u)
  BY <1>1, <1>2, <1>3, FinishInv DEF AddNewFile, ReplaceFile, Uploads
<1>4. CASE RenameFile(u)
  <2>1. req[u].file \in Path /\ req[u].target \in Path /\ req[u].op = "do_rename"
    BY <1>2, <1>4, RequestNames DEF RenameFile, Path
  <2>2. dir' \in [Path -> Upload \union {NoFile, "old", "dir", "tree"}]
    BY <1>1, <1>4, <2>1 DEF RenameFile, TypeOK, Moved
  <2>3. DirInv' BY <1>1, <2>1, NoPromise DEF End
  <2>4. PICK answer \in {"ok", "error"} : reply' = [reply EXCEPT ![u] = answer]
    BY <1>4 DEF RenameFile, Answer
  <2> QED BY <1>1, <1>2, <2>1, <2>2, <2>3, <2>4, EndInv
<1>5. CASE CreateNewdir(u)
  <2>1. req[u].file \in Path /\ req[u].op = "do_newdir" /\ ~Open(u)
    BY <1>2, <1>5, RequestNames DEF CreateNewdir, Uploads
  <2>2. dir' \in [Path -> Upload \union {NoFile, "old", "dir", "tree"}]
    BY <1>1, <1>5, <2>1 DEF CreateNewdir, TypeOK
  <2>3. DirInv' BY <1>1, <1>5, <2>1, NewdirKept
  <2>4. PICK answer \in {"ok", "error"} : reply' = [reply EXCEPT ![u] = answer]
    BY <1>5 DEF CreateNewdir, Answer
  <2> QED BY <1>1, <1>2, <2>1, <2>2, <2>3, <2>4, EndInv
<1>6. CASE DeleteFile(u)
  <2>1. req[u].file \in Path /\ req[u].op = "do_delete"
    BY <1>2, <1>6, RequestNames DEF DeleteFile
  <2>2. dir' \in [Path -> Upload \union {NoFile, "old", "dir", "tree"}]
    BY <1>1, <1>6, <2>1 DEF DeleteFile, TypeOK
  <2>3. DirInv' BY <1>1, <2>1, NoPromise DEF End
  <2>4. PICK answer \in {"ok", "error"} : reply' = [reply EXCEPT ![u] = answer]
    BY <1>6 DEF DeleteFile, Answer
  <2> QED BY <1>1, <1>2, <2>1, <2>2, <2>3, <2>4, EndInv
<1>7. CASE ChmodFile(u)
  <2>1. req[u].op = "do_perm" /\ ~Open(u) /\ dir' = Freed(u)
    BY <1>2, <1>7 DEF ChmodFile, Uploads, Freed, Open
  <2>2. PICK answer \in {"ok", "error"} : reply' = [reply EXCEPT ![u] = answer]
    BY <1>7 DEF ChmodFile, Answer
  <2> QED BY <1>1, <1>2, <2>1, <2>2, NotStoredInv
<1>8. CASE NoOperation(u)
  BY <1>1, <1>2, <1>8, NotStoredInv DEF NoOperation, Answer
<1> QED BY <1>3, <1>4, <1>5, <1>6, <1>7, <1>8 DEF ProcessPost

LEMMA AbortInv == ASSUME Inv, NEW u \in Upload, Abort(u) PROVE Inv'
  BY NotStoredInv DEF Abort

\* The end of the server leaves at most one more name of a file that an upload wrote.
LEMMA KillInv ==
  ASSUME Inv, NEW entries, Kill(entries),
         \/ entries = dir
         \/ \E u \in Upload, p \in Name :
              /\ Open(u) /\ req[u].op = "do_add" /\ dir[p] = NoFile
              /\ entries = [dir EXCEPT ![p] = dir[filePath[u]]]
  PROVE  Inv'
<1>1. TypeOK /\ Uploading /\ StoredWhole /\ DirInv BY DEF Inv
<1>2. /\ killed = {} /\ killed' = InProgress /\ dir' = entries
      /\ UNCHANGED <<old, req, sent, stored, filePath>>
      /\ \A u \in Upload : ~Open(u)'
      /\ \A u \in Upload : Open(u) => u \in InProgress
  BY <1>1 DEF Kill, Open, Uploading, InProgress
<1>3. \A u \in Upload : Stored(u)' <=> Stored(u)
  BY <1>1 DEF Kill, Stored, InProgress, Uploading
<1>4. PICK p \in Path :
        /\ dir' \in [Path -> Upload \union {NoFile, "old", "dir", "tree"}]
        /\ \A q \in Path : q # p => dir'[q] = dir[q]
        /\ \/ dir'[p] = dir[p]
           \/ /\ dir[p] = NoFile /\ p \in Name
              /\ \E u \in Upload : Open(u) /\ dir'[p] = dir[filePath[u]] /\ filePath[u] \in Path
  <2>1. CASE entries = dir
    <3>1. PICK u \in Upload : TRUE BY DEF Kill, InProgress
    <3>2. req[u].file \in Path BY <1>1, RequestNames DEF TypeOK
    <3> QED BY <1>1, <1>2, <2>1, <3>2 DEF TypeOK
  <2>2. CASE \E u \in Upload, p \in Name :
               /\ Open(u) /\ req[u].op = "do_add" /\ dir[p] = NoFile
               /\ entries = [dir EXCEPT ![p] = dir[filePath[u]]]
    <3>1. PICK u \in Upload, p \in Name :
            /\ Open(u) /\ dir[p] = NoFile
            /\ entries = [dir EXCEPT ![p] = dir[filePath[u]]]
      BY <2>2
    <3>2. filePath[u] \in Path /\ p \in Path BY <1>1, <3>1 DEF Uploading, Path
    <3>3. /\ dir' \in [Path -> Upload \union {NoFile, "old", "dir", "tree"}]
          /\ \A q \in Path : q # p => dir'[q] = dir[q]
          /\ dir'[p] = dir[filePath[u]]
      BY <1>1, <1>2, <3>1, <3>2 DEF TypeOK
    <3> QED BY <3>1, <3>2, <3>3
  <2> QED BY <2>1, <2>2
<1>5. TypeOK'
  BY <1>1, <1>2, <1>4 DEF TypeOK, Kill, InProgress
<1>6. Uploading' BY <1>1, <1>2 DEF Uploading, Kill, InProgress
<1>7. StoredWhole' BY <1>1, <1>2, <1>3 DEF StoredWhole
<1>8. Owned' /\ OwnedAdding' BY <1>2 DEF Owned, OwnedAdding
<1>9. NothingLeftOver'
  <2> SUFFICES ASSUME Only(Ops \ {"do_rename", "do_delete"}), NEW v \in Upload, NEW q \in Path,
                      dir'[q] = v
               PROVE  (Stored(v) /\ q \in Name) \/ v \in killed'
    BY <1>2, <1>3 DEF NothingLeftOver, Only
  <2>1. \A r \in Path : dir[r] = v => Open(v) \/ (Stored(v) /\ r \in Name)
    BY <1>1, <1>2 DEF DirInv, NothingLeftOver, Open
  <2>2. CASE dir[q] = v BY <1>2, <2>1, <2>2
  <2>3. CASE dir[q] # v
    <3>1. q \in Name /\ \E r \in Path : dir[r] = v BY <1>4, <2>3
    <3> QED BY <1>2, <2>1, <3>1
  <2> QED BY <2>2, <2>3
<1>10. AddedStays'
  <2> SUFFICES ASSUME Only({"do_add", "do_newdir", "do_perm", "none"})
               PROVE  /\ \A v \in Upload : Stored(v) => dir'[req[v].file] = v
                      /\ \A n \in old : dir'[n] = "old"
    BY <1>2, <1>3 DEF AddedStays, Only
  <2>1. \A v \in Upload : Stored(v) => dir[req[v].file] = v /\ req[v].file \in Path
    BY <1>1, RequestNames DEF DirInv, AddedStays, TypeOK
  <2>2. \A n \in old : dir[n] = "old" /\ n \in Path
    BY <1>1 DEF DirInv, AddedStays, TypeOK, Path
  <2>3. NoFile \notin Upload \union {"old"} BY UploadAssumption, NameAssumption
  <2> QED BY <1>4, <2>1, <2>2, <2>3
<1>11. ReplacedWhole'
  <2> SUFFICES ASSUME Only(Ops \ {"do_rename", "do_delete"}), NEW n \in old
               PROVE  dir'[n] = "old" \/ StoredIn(n)'
    BY <1>2 DEF ReplacedWhole, Only, StoredIn
  <2>1. n \in Path /\ (dir[n] = "old" \/ StoredIn(n))
    BY <1>1 DEF DirInv, ReplacedWhole, StoredIn, TypeOK, Path
  <2>2. dir[n] # NoFile BY <2>1, UploadIsNone, NameAssumption DEF StoredIn
  <2>3. dir'[n] = dir[n] BY <1>4, <2>1, <2>2
  <2> QED BY <1>3, <2>1, <2>3 DEF StoredIn
<1> QED BY <1>5, <1>6, <1>7, <1>8, <1>9, <1>10, <1>11 DEF Inv, DirInv

LEMMA NextInv == Inv /\ [Next]_vars => Inv'
<1> SUFFICES ASSUME Inv, [Next]_vars PROVE Inv' OBVIOUS
<1>1. TypeOK /\ Uploading BY DEF Inv
<1>2. ASSUME NEW u \in Upload, OpenFile(u) \/ AppendData(u) \/ ProcessPost(u) \/ Abort(u)
      PROVE  Inv'
  BY <1>2, OpenInv, AppendInv, PostInv, AbortInv
<1>3. ASSUME NEW u \in Upload, KillBetween(u) PROVE Inv'
  <2>1. /\ Open(u) /\ req[u].op = "do_add" /\ dir[req[u].file] = NoFile
        /\ Kill([dir EXCEPT ![req[u].file] = dir[filePath[u]]])
    BY <1>3 DEF KillBetween, CanLink, Open
  <2>2. req[u].file \in Name BY <1>1, <2>1, RequestNames DEF TypeOK, Uploads
  <2> QED BY <2>1, <2>2, KillInv
<1>4. CASE Kill(dir) BY <1>4, KillInv
<1>5. CASE UNCHANGED vars
  <2>1. TypeOK' BY <1>1, <1>5 DEF TypeOK, vars
  <2>2. Uploading' /\ StoredWhole'
    BY <1>5 DEF Inv, Uploading, StoredWhole, Stored, Open, vars
  <2>3. DirInv' BY <1>5, DirKept DEF Inv, Stored, Open, vars
  <2> QED BY <2>1, <2>2, <2>3 DEF Inv
<1> QED BY <1>2, <1>3, <1>4, <1>5 DEF Next

LEMMA Invariant == Spec => []Inv
  BY InitInv, NextInv, PTL DEF Spec

----------------------------------------------------------------------------
(* The properties.                                                         *)

\* The variables have their types.
THEOREM FilesTypeCorrect == Spec => []TypeOK
<1>1. Inv => TypeOK BY DEF Inv
<1> QED BY <1>1, Invariant, PTL

\* cpart_finishUpload reports success only for a file that it has whole.
THEOREM UploadsStoredWhole == Spec => []StoredWhole
<1>1. Inv => StoredWhole BY DEF Inv
<1> QED BY <1>1, Invariant, PTL

\* A part of a file, and a temporary name, stays only if the server was killed.
THEOREM NoPartStays == Spec => []NothingLeftOver
<1>1. Inv => NothingLeftOver BY DEF Inv, DirInv
<1> QED BY <1>1, Invariant, PTL

\* Uploads that only add files do not disturb each other.
THEOREM AddedFilesStay == Spec => []AddedStays
<1>1. Inv => AddedStays BY DEF Inv, DirInv
<1> QED BY <1>1, Invariant, PTL

\* The name of a file that is replaced always has a whole file.
THEOREM ReplacedInOneStep == Spec => []ReplacedWhole
<1>1. Inv => ReplacedWhole BY DEF Inv, DirInv
<1> QED BY <1>1, Invariant, PTL
============================================================================
