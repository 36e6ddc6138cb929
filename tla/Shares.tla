------------------------------- MODULE Shares -------------------------------
(* What the shares, the index patterns and the CGI patterns of the           *)
(* configuration make of the path of a URL (fmconfig.c).                      *)
(*                                                                          *)
(* A path is the sequence of what is between its slashes: "/a/" is           *)
(* <<"", "a", "">> and "" is <<"">>.  A pattern of fnmatch is the set of the   *)
(* names that match it; a pattern with slashes, a sequence of them.          *)
EXTENDS Integers, SequencesExt

CONSTANTS
  Empty,    \* "": the name before the first slash, behind the last and between two in a row
  Tree,     \* the file system: from the names of a path to [type, readable]
  NoPath    \* no such path

ASSUME EmptyAssumption == Empty \in STRING

ASSUME TreeAssumption ==
  /\ IsFiniteSet(DOMAIN Tree)
  /\ \A names \in DOMAIN Tree : /\ names \in Seq(STRING \ {Empty})
                               /\ Tree[names] \in [type : {"dir", "file"}, readable : BOOLEAN]
  /\ NoPath \notin Seq(STRING)

\* dch_trimTrailing(.., '/')
TrimSlashes(path) ==
  SubSeq(path, 1, Max({1} \union {i \in 1 .. Len(path) : path[i] # Empty}))

----------------------------------------------------------------------------
(* The file system.                                                        *)

\* the names on the way from the root; "//" is "/"
Names(path) ==
  FoldLeft(LAMBDA names, name : IF name = Empty THEN names ELSE Append(names, name), <<>>, path)

IsFile(names) == names \in DOMAIN Tree /\ Tree[names].type = "file"

stat(path) ==
  LET names == Names(path)
  IN IF \/ \E n \in 1 .. Len(names) - 1 : IsFile(SubSeq(names, 1, n))
        \/ IsFile(names) /\ Last(path) = Empty
     THEN "ENOTDIR"
     ELSE IF names \in DOMAIN Tree THEN Tree[names].type ELSE "ENOENT"

Entries(names) == {Last(p) : p \in {q \in DOMAIN Tree : q # <<>> /\ Front(q) = names}}

----------------------------------------------------------------------------
(* Shares: a sequence of [url, sys].                                       *)

NoShare == [url |-> <<>>, sys |-> <<>>]

\* wrong: names are compared up to the end of the share's only
CoversAnyhow(share, urlPath) ==
  /\ Len(share.url) <= Len(urlPath)
  /\ Front(share.url) = SubSeq(urlPath, 1, Len(share.url) - 1)

Covers(share, urlPath) == IsPrefix(share.url, urlPath)

BestShare(shares, urlPath) ==
  FoldLeft(LAMBDA best, share :
             IF Covers(share, urlPath) /\ Len(share.url) > Len(best.url) THEN share ELSE best,
           NoShare, shares)

config_getSysPathForUrlPath(shares, path) ==
  LET urlPath == IF path = <<Empty, Empty>> THEN <<Empty>> ELSE path
      best == BestShare(shares, urlPath)
  IN IF best = NoShare THEN NoPath
     ELSE best.sys \o SubSeq(urlPath, Len(best.url) + 1, Len(urlPath))

\* the names of the shares below a path
Beyond(url, path) ==
  LET below == SubSeq(url, Len(TrimSlashes(path)) + 1, Len(url))
  IN IF IsStrictPrefix(TrimSlashes(path), url) THEN Names(below) ELSE <<>>

\* wrong: the last share that begins with a name says what it is
LastDecidesEntry(shares, path, name) ==
  Max({i \in DOMAIN shares : Beyond(shares[i].url, path) # <<>>
                                  /\ Head(Beyond(shares[i].url, path)) = name})

FirstDecidesEntry(shares, path, name) ==
  Min({i \in DOMAIN shares : Beyond(shares[i].url, path) # <<>>
                               /\ Head(Beyond(shares[i].url, path)) = name})

\* {} for no folder
config_getSubSharesForPath(shares, path) ==
  LET found == {i \in DOMAIN shares : Beyond(shares[i].url, path) # <<>>}
      isDir(i) == Len(Beyond(shares[i].url, path)) > 1 \/ stat(shares[i].sys) # "file"
  IN {[name |-> n, isDir |-> isDir(FirstDecidesEntry(shares, path, n))] :
        n \in {Head(Beyond(shares[i].url, path)) : i \in found}}

----------------------------------------------------------------------------
(* Index files and CGI programs.                                           *)

\* wrong: the first file in the folder that is an index file
FirstMatches(index, best, name) ==
  IF best.file = NoPath THEN {i \in DOMAIN index : name \in index[i]} ELSE {}

\* a later entry has to match an earlier pattern
BetterMatches(index, best, name) == {i \in 1 .. best.rank - 1 : name \in index[i]}

\* the entries in the order of readdir; NoPath for none
config_getIndexFile(index, dir, entries) ==
  FoldLeft(LAMBDA best, name :
             LET matching == BetterMatches(index, best, name)
             IN IF matching # {} /\ stat(Names(dir) \o <<name>>) = "file"
                THEN [rank |-> Min(matching), file |-> Names(dir) \o <<name>>]
                ELSE best,
           [rank |-> Len(index) + 1, file |-> NoPath], entries).file

\* a pattern with a slash at its beginning has "" as its first name
config_isCGI(cgi, urlPath) ==
  \E p \in DOMAIN cgi :
    LET matches(path) == Len(path) = Len(cgi[p]) /\ \A i \in DOMAIN path : path[i] \in cgi[p][i]
    IN IF cgi[p][1] = {Empty} /\ Len(cgi[p]) > 1 THEN matches(urlPath)
       ELSE \E i \in 2 .. Len(urlPath) : matches(SubSeq(urlPath, i, Len(urlPath)))

IsScript(shares, cgi, url) ==
  LET sysPath == config_getSysPathForUrlPath(shares, url)
  IN /\ config_isCGI(cgi, IF url = <<Empty>> THEN <<Empty, Empty>> ELSE url)
     /\ sysPath # NoPath /\ stat(sysPath) = "file"

\* how much of the path names a CGI program with a path behind it, or 0
config_findCGI(shares, cgi, urlPath) ==
  Max({0} \union {n \in 1 .. Len(urlPath) - 1 : IsScript(shares, cgi, SubSeq(urlPath, 1, n))})
=============================================================================
