---------------------------- MODULE FileManager ----------------------------
(* POST requests on one folder (filemanager.c) and the uploaded files they  *)
(* carry (contentpart.c), several at a time: the server goes from one        *)
(* connection to another between any two pieces of a body, and each handler  *)
(* works on the directory itself.  Every request here may modify (Access has *)
(* the decision).                                                           *)
(*                                                                          *)
(* A directory entry names the upload whose bytes it holds, a file that was  *)
(* there before ("old"), a subdirectory that is empty ("dir") or is not       *)
(* ("tree"), or nothing.  The server may be killed and started again: what it *)
(* was doing is lost, and what it wrote stays.                              *)
EXTENDS Naturals

CONSTANTS
  Upload,   \* the requests
  Name,     \* names a client gives to files
  Temp,     \* names mkstemp gives ("fmgrXXXXXX")
  NoFile,   \* no such entry; no filePathName
  Ops,      \* what the requests may ask for
  Entries,  \* what may be there at the start
  Size      \* bound: pieces of an uploaded file

ASSUME NameAssumption == /\ Name \intersect Temp = {}
                         /\ NoFile \notin Name \union Temp \union {"old", "dir", "tree"}
ASSUME OpsAssumption == Ops \subseteq {"do_add", "do_replace", "do_rename", "do_delete",
                                       "do_newdir", "do_perm", "none"}
ASSUME EntriesAssumption == Entries \subseteq {NoFile, "old", "dir", "tree"}
ASSUME SizeAssumption == Size \in Nat
ASSUME UploadAssumption == Upload \intersect {NoFile, "old", "dir", "tree"} = {}

Path == Name \union Temp

VARIABLES
  dir,       \* the directory
  old,       \* the names of the files at the start
  req,       \* what each request asks for: op, file (the name of the uploaded file, else
             \* the "file" field), target (the name to replace or the new name)
  phase,     \* "head": no byte of the file part was seen; "body"; "ended"
  sent,      \* pieces of the file that came
  stored,    \* pieces of it that were written
  fileDesc,  \* cpart->fileDesc: "open" or "none"
  filePath,  \* cpart->filePathName
  reply,     \* what the client is told: "pending", "ok", "error", or "none" if it went away
  killed     \* ghost: the requests in progress when the server was killed

vars == <<dir, old, req, phase, sent, stored, fileDesc, filePath, reply, killed>>

\* "none": a form without any of the buttons
Uploads(op) == op \in {"do_add", "do_replace", "none"}

Requests ==
  [op : Ops \intersect {"do_add", "none"}, file : Name, target : {NoFile}]
  \union [op : Ops \intersect {"do_replace"}, file : Name, target : Name]
  \union [op : Ops \intersect {"do_rename"}, file : Path, target : Name]
  \union [op : Ops \intersect {"do_delete"}, file : Path, target : {NoFile}]
  \union [op : Ops \intersect {"do_newdir", "do_perm"}, file : Name, target : {NoFile}]

Init ==
  /\ \E entries \in [Name -> Entries] :
       /\ dir = [p \in Path |-> IF p \in Name THEN entries[p] ELSE NoFile]
       /\ old = {n \in Name : entries[n] = "old"}
  /\ req \in [Upload -> Requests]
  /\ phase = [u \in Upload |-> "head"]
  /\ sent = [u \in Upload |-> 0] /\ stored = [u \in Upload |-> 0]
  /\ fileDesc = [u \in Upload |-> "none"]
  /\ filePath = [u \in Upload |-> NoFile]
  /\ reply = [u \in Upload |-> "pending"] /\ killed = {}

----------------------------------------------------------------------------
(* The system calls on the directory: the entry a call needs and what it    *)
(* leaves.  With it, a call may still fail (EACCES, EROFS, EIO...); only the  *)
(* unlink of a file that the request itself made does not.                  *)

Subdirs == {"dir", "tree"}

Unlinked(p) == IF dir[p] \in Subdirs THEN dir ELSE [dir EXCEPT ![p] = NoFile]

Moved(p, q) == IF p = q THEN dir ELSE [dir EXCEPT ![q] = dir[p], ![p] = NoFile]

CanLink(p, q) == dir[p] \notin Subdirs \union {NoFile} /\ dir[q] = NoFile

CanRename(p, q) ==
  /\ dir[p] # NoFile
  /\ \/ p = q
     \/ dir[p] \in Subdirs /\ dir[q] \in {NoFile, "dir"}
     \/ dir[p] \notin Subdirs /\ dir[q] \notin Subdirs

----------------------------------------------------------------------------
(* Wrong variants of definitions below, none of them part of Spec: each one *)
(* breaks a property, which shows that the property can fail.              *)

\* the offset is not moved after a partial write
StorePieceAgain(u) ==
  /\ stored' = [stored EXCEPT ![u] = @ + 2]
  /\ UNCHANGED <<dir, fileDesc>>

\* a write error leaves the descriptor open
StoreFailedKept(u) ==
  /\ dir' = Unlinked(filePath[u])
  /\ UNCHANGED <<stored, fileDesc>>

\* the file is not removed with the part
FreedKept(u) == dir

\* link() replaces
PlaceableAnyway(u, target, replaceIfExists) == dir[filePath[u]] \notin Subdirs \union {NoFile}

\* the file is opened without O_EXCL
CreatedOver(u) == filePath' = [filePath EXCEPT ![u] = req[u].file]

----------------------------------------------------------------------------
(* cpart_appendData.                                                       *)

\* O_CREAT | O_EXCL, and mkstemp when the name is taken
Created(u) ==
  IF dir[req[u].file] = NoFile
  THEN filePath' = [filePath EXCEPT ![u] = req[u].file]
  ELSE \E t \in Temp : dir[t] = NoFile /\ filePath' = [filePath EXCEPT ![u] = t]

\* the header of the file part is complete
OpenFile(u) ==
  /\ phase[u] = "head" /\ Uploads(req[u].op)
  /\ phase' = [phase EXCEPT ![u] = "body"]
  /\ \/ /\ Created(u)
        /\ dir' = [dir EXCEPT ![filePath'[u]] = u]
        /\ fileDesc' = [fileDesc EXCEPT ![u] = "open"]
     \/ /\ filePath' = [filePath EXCEPT ![u] = req[u].file]
        /\ UNCHANGED <<dir, fileDesc>>   \* cpart->sysErrNo is set
  /\ UNCHANGED <<old, req, sent, stored, reply, killed>>

StorePiece(u) ==
  /\ stored' = [stored EXCEPT ![u] = @ + 1]
  /\ UNCHANGED <<dir, fileDesc>>

StoreFailed(u) ==
  /\ dir' = Unlinked(filePath[u])
  /\ fileDesc' = [fileDesc EXCEPT ![u] = "none"]
  /\ UNCHANGED stored

\* a piece of the file; dropped when there is no descriptor
AppendData(u) ==
  /\ phase[u] = "body" /\ sent[u] < Size
  /\ sent' = [sent EXCEPT ![u] = @ + 1]
  /\ IF fileDesc[u] = "open" THEN StorePiece(u) \/ StoreFailed(u)
                             ELSE UNCHANGED <<dir, stored, fileDesc>>
  /\ UNCHANGED <<old, req, phase, filePath, reply, killed>>

----------------------------------------------------------------------------
(* filemgr_processPost when the body is complete, and mpdata_free.         *)

\* cpart_free: the directory without the upload's file
Freed(u) == IF fileDesc[u] = "open" THEN Unlinked(filePath[u]) ELSE dir

Placeable(u, target, replaceIfExists) ==
  \/ filePath[u] = target
  \/ replaceIfExists /\ CanRename(filePath[u], target)
  \/ ~replaceIfExists /\ CanLink(filePath[u], target)

Answer(u, answer) == reply' = [reply EXCEPT ![u] = answer]

\* cpart_finishUpload; a file that has its name already needs no call
FinishUpload(u, target, replaceIfExists) ==
  \/ /\ fileDesc[u] = "open" /\ Placeable(u, target, replaceIfExists)
     /\ dir' = Moved(filePath[u], target) /\ Answer(u, "ok")
  \/ /\ fileDesc[u] = "open" => filePath[u] # target
     /\ dir' = Freed(u) /\ Answer(u, "error")

AddNewFile(u) == req[u].op = "do_add" /\ FinishUpload(u, req[u].file, FALSE)

ReplaceFile(u) == req[u].op = "do_replace" /\ FinishUpload(u, req[u].target, TRUE)

RenameFile(u) ==
  /\ req[u].op = "do_rename"
  /\ \/ /\ CanRename(req[u].file, req[u].target)
        /\ dir' = Moved(req[u].file, req[u].target) /\ Answer(u, "ok")
     \/ UNCHANGED dir /\ Answer(u, "error")

CreateNewdir(u) ==
  /\ req[u].op = "do_newdir"
  /\ \/ /\ dir[req[u].file] = NoFile
        /\ dir' = [dir EXCEPT ![req[u].file] = "dir"] /\ Answer(u, "ok")
     \/ UNCHANGED dir /\ Answer(u, "error")

\* delete_file: unlink, and rmdir for a subdirectory; del_recursive takes no such file
\* for no error, and of a tree that it cannot delete completely it leaves a tree or an
\* empty subdirectory
DeleteFile(u) ==
  /\ req[u].op = "do_delete"
  /\ \E recursively \in BOOLEAN :
       LET file == req[u].file
           emptied == {e \in {"dir"} : recursively /\ dir[file] = "tree"}
       IN \/ /\ recursively \/ dir[file] \notin {NoFile, "tree"}
             /\ dir' = [dir EXCEPT ![file] = NoFile] /\ Answer(u, "ok")
          \/ /\ \E left \in {dir[file]} \union emptied : dir' = [dir EXCEPT ![file] = left]
             /\ Answer(u, "error")

ChmodFile(u) ==
  /\ req[u].op = "do_perm"
  /\ UNCHANGED dir
  /\ \/ dir[req[u].file] # NoFile /\ Answer(u, "ok")
     \/ Answer(u, "error")

NoOperation(u) ==
  /\ req[u].op = "none"
  /\ dir' = Freed(u) /\ Answer(u, "ok")

End(u) ==
  /\ phase' = [phase EXCEPT ![u] = "ended"]
  /\ fileDesc' = [fileDesc EXCEPT ![u] = "none"]
  /\ UNCHANGED <<old, req, sent, stored, filePath, killed>>

ProcessPost(u) ==
  /\ phase[u] = IF Uploads(req[u].op) THEN "body" ELSE "head"
  /\ Uploads(req[u].op) => sent[u] = Size
  /\ \/ AddNewFile(u) \/ ReplaceFile(u) \/ RenameFile(u) \/ CreateNewdir(u)
     \/ DeleteFile(u) \/ ChmodFile(u) \/ NoOperation(u)
  /\ End(u)

\* the connection closes first: conn_free comes to filemgr_free
Abort(u) ==
  /\ phase[u] # "ended"
  /\ dir' = Freed(u) /\ reply' = [reply EXCEPT ![u] = "none"]
  /\ End(u)

InProgress == {u \in Upload : phase[u] = "body"}

\* the server is killed (bound: once), and another one started
Kill(entries) ==
  /\ killed = {} /\ InProgress # {}
  /\ killed' = InProgress
  /\ dir' = entries
  /\ phase' = [u \in Upload |-> IF u \in InProgress THEN "ended" ELSE phase[u]]
  /\ fileDesc' = [u \in Upload |-> "none"]
  /\ reply' = [u \in Upload |-> IF u \in InProgress THEN "none" ELSE reply[u]]
  /\ UNCHANGED <<old, req, sent, stored, filePath>>

\* between link() and unlink() of cpart_finishUpload
KillBetween(u) ==
  /\ phase[u] = "body" /\ sent[u] = Size /\ req[u].op = "do_add" /\ fileDesc[u] = "open"
  /\ filePath[u] # req[u].file /\ CanLink(filePath[u], req[u].file)
  /\ Kill([dir EXCEPT ![req[u].file] = dir[filePath[u]]])

Next ==
  \/ \E u \in Upload : \/ OpenFile(u) \/ AppendData(u) \/ ProcessPost(u) \/ Abort(u)
                       \/ KillBetween(u)
  \/ Kill(dir)

Spec == Init /\ [][Next]_vars

----------------------------------------------------------------------------
(* Properties.                                                             *)

TypeOK ==
  /\ dir \in [Path -> Upload \union {NoFile, "old", "dir", "tree"}]
  /\ old \subseteq Name
  /\ req \in [Upload -> Requests]
  /\ phase \in [Upload -> {"head", "body", "ended"}]
  /\ sent \in [Upload -> 0 .. Size] /\ stored \in [Upload -> 0 .. Size]
  /\ \A u \in Upload : stored[u] <= sent[u]
  /\ fileDesc \in [Upload -> {"open", "none"}]
  /\ filePath \in [Upload -> Path \union {NoFile}]
  /\ reply \in [Upload -> {"pending", "ok", "error", "none"}]
  /\ killed \subseteq {u \in Upload : phase[u] = "ended" /\ reply[u] = "none"}

Only(ops) == \A u \in Upload : req[u].op \in ops

Stored(u) == req[u].op \in {"do_add", "do_replace"} /\ reply[u] = "ok"

\* "the whole body was stored in output file successfully": an upload that is
\* reported as done wrote every piece of its file.
StoredWhole == \A u \in Upload : Stored(u) => stored[u] = Size

\* As long as nobody renames or deletes, what an upload wrote is in the directory
\* either while the upload is in progress, where it will be finished or removed, or
\* because it is stored, and then under a name that a client gave: no part of a
\* failed or abandoned upload stays and no temporary name does, unless the server was
\* killed.
NothingLeftOver ==
  Only(Ops \ {"do_rename", "do_delete"}) =>
    \A u \in Upload, p \in Path :
      dir[p] = u => \/ fileDesc[u] = "open" /\ filePath[u] = p
                    \/ Stored(u) /\ p \in Name
                    \/ u \in killed

\* If files are only added, a stored file and a file that was there keep their
\* names, whatever the uploads that came at the same time do and when the server is
\* killed.
AddedStays ==
  Only({"do_add", "do_newdir", "do_perm", "none"}) =>
    /\ \A u \in Upload : Stored(u) => dir[req[u].file] = u
    /\ \A n \in old : dir[n] = "old"

\* A file is replaced in one step: its name never is missing and never stands for
\* a part of an upload, even when the server is killed.
ReplacedWhole ==
  Only(Ops \ {"do_rename", "do_delete"}) =>
    \A n \in old : dir[n] = "old" \/ \E u \in Upload : dir[n] = u /\ Stored(u)

\* cpart_finishUpload "makes the output file permanent (i.e. causes that file will
\* be not deleted at object destruction)": a stored file leaves its name only by a
\* request to replace, rename or delete it.
Permanent ==
  [][\A u \in Upload, p \in Path :
       Stored(u) /\ dir[p] = u /\ dir'[p] # u =>
         \E v \in Upload : /\ reply[v] = "pending" /\ reply'[v] = "ok"
                           /\ req[v].op \in {"do_replace", "do_rename", "do_delete"}]_vars
============================================================================
