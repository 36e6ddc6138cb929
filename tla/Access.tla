------------------------------- MODULE Access ------------------------------
(* What a request gets: the configuration as it is read (fmconfig.c), and one *)
(* request, or a second one with a form of the page the first one got, from   *)
(* its header to its page, as requestheader.c, auth.c, reqhandler.c and       *)
(* filemanager.c decide.  The state of the login comes from the Authorization *)
(* lines of the header, and of the trailer that a chunked body has: what is   *)
(* decided at the end of the header is older than what is decided at the end  *)
(* of the request.                                                          *)
EXTENDS Shares

CONSTANTS
  Cases,      \* what may be asked of which server: [conf, method, path, form, mode, lines]
  Given,      \* credentials a client may give: [user, secret, fits]
  Welcome     \* the path of welcome.html

\* A path has at least one name, the name before its first slash.
Path == Seq(STRING) \ {<<>>}

Line ==
  [name : {"/"}, value : [url : Path, sys : Path]]
    \union [name : {"index"}, value : Seq(SUBSET STRING)]
    \union [name : {"cgi"}, value : Seq(Seq(SUBSET STRING))]
    \union [name : {"dirops", "guestops"}, value : STRING]
    \union [name : {"credentials"}, value : [user : STRING, secret : STRING]]

\* No request has an empty path ("GET  HTTP/1.1"): the code reads in front of it, and no
\* slash is found in it.
ASSUME CasesAssumption ==
  \A c \in Cases : c.conf \in Seq(Line) /\ c.path \in Path \ {<<Empty>>} /\ c.lines \in Nat

ASSUME WelcomeAssumption == Welcome \in Path

VARIABLES
  conf, read,           \* the lines of the configuration, and how many have been read
  shares, index, cgi,   \* what they say
  availOps, guestOps,   \* "dirops" and "guestops"
  credentials,
  method, path,         \* of the request
  form,         \* its body: "none", or a form with this button
  mode,         \* of the folder when the request is processed: "W_OK", "read_only", "gone"
  lines,        \* bound: Authorization lines of the request
  auths,        \* those that came
  loginState,   \* req->loginState
  section,      \* what is read: "config", "head", "body" (and its trailer), "finished"
  handler,      \* "none", "response" (nothing is left to decide), "cgiexe" or "filemgr"
  served,       \* the names of the file, folder or CGI program, or NoPath
  scriptName,   \* the part of the path that names the CGI program, or NoPath
  destDir,      \* where the multipart parser writes uploaded files, or "none"
  page,         \* what the client gets, with a login button or the forms to change a folder
  folder,       \* was the request let change it?
  shown         \* what the page showed that the form comes from

options == <<conf, read, shares, index, cgi, availOps, guestOps, credentials>>

request == <<method, path, form, mode, lines, shown>>

vars == <<options, request, auths, loginState, section, handler, served, scriptName,
          destDir, page, folder>>

Page(kind) == [kind |-> kind, shows |-> {}]

Init ==
  /\ \E c \in Cases : /\ conf = c.conf /\ method = c.method /\ path = c.path
                      /\ form = c.form /\ mode = c.mode /\ lines = c.lines
  /\ read = 0 /\ shares = <<>> /\ index = <<>> /\ cgi = <<>> /\ credentials = <<>>
  /\ availOps = "all" /\ guestOps = "all"
  /\ auths = <<>> /\ loginState = "LOGGED_OUT"
  /\ section = "config" /\ handler = "none"
  /\ served = NoPath /\ scriptName = NoPath /\ destDir = "none"
  /\ page = Page("none") /\ folder = "unchanged" /\ shown = {}

----------------------------------------------------------------------------
(* The configuration.                                                      *)

OneOf(value, values) == IF value \in values THEN value ELSE "none"

\* wrong: an empty value adds nothing and clears nothing
AddedOnly(patterns, value) == patterns \o value

\* patterns are collected, and an empty value clears them
Collected(patterns, value) == IF value = <<>> THEN <<>> ELSE patterns \o value

\* parseFile: a line
ParseLine ==
  /\ section = "config" /\ read < Len(conf)
  /\ read' = read + 1
  /\ LET line == conf[read + 1]
         is(name) == line.name = name
     IN /\ shares' = IF is("/") THEN Append(shares, [url |-> TrimSlashes(line.value.url),
                                                     sys |-> TrimSlashes(line.value.sys)])
                     ELSE shares
        /\ index' = IF is("index") THEN Collected(index, line.value) ELSE index
        /\ cgi' = IF is("cgi") THEN Collected(cgi, line.value) ELSE cgi
        /\ availOps' = IF is("dirops") THEN OneOf(line.value, {"all", "listing"}) ELSE availOps
        /\ guestOps' = IF is("guestops") THEN OneOf(line.value, {"all", "listing", "file"})
                       ELSE guestOps
        /\ credentials' = IF is("credentials") THEN Append(credentials, line.value)
                          ELSE credentials
  /\ UNCHANGED <<conf, request, auths, loginState, section, handler, served, scriptName,
                 destDir, page, folder>>

\* config_parse: behind the last line
EndConfig ==
  /\ section = "config" /\ read = Len(conf) /\ section' = "head"
  /\ shares' = IF shares = <<>> THEN <<[url |-> <<Empty>>, sys |-> Welcome]>> ELSE shares
  /\ UNCHANGED <<conf, read, index, cgi, availOps, guestOps, credentials, request, auths,
                 loginState, handler, served, scriptName, destDir, page, folder>>

----------------------------------------------------------------------------
(* Rights.                                                                 *)

isActionAvailable(pa) ==
  \/ pa = "SERVE_PAGE"
  \/ pa = "LIST_FOLDER" /\ availOps # "none"
  \/ pa = "MODIFY" /\ availOps = "all"

isActionAllowed(pa) ==
  /\ isActionAvailable(pa)
  /\ \/ loginState = "LOGGED_IN"
     \/ guestOps = "all"
     \/ pa = "SERVE_PAGE" /\ guestOps # "none"
     \/ pa = "LIST_FOLDER" /\ guestOps = "listing"

\* wrong: only what is available is looked at
LoginGivesWhatIs == availOps # "none"

givesLoginMorePrivileges ==
  \/ guestOps = "none"
  \/ guestOps = "file" /\ availOps # "none"
  \/ guestOps = "listing" /\ availOps = "all"

isWorthPuttingLogOnButton == loginState = "LOGGED_OUT" /\ givesLoginMorePrivileges

----------------------------------------------------------------------------
(* The header and the trailer.                                             *)

\* the first credentials of the user
config_getDigestAuthCredential(user) ==
  {credentials[i] : i \in {j \in DOMAIN credentials :
                            /\ credentials[j].user = user
                            /\ \A k \in 1 .. j - 1 : credentials[k].user # user}}

\* the digest is that of the user's secret and of this request
auth_isClientAuthorized(given) ==
  given.fits /\ \E c \in config_getDigestAuthCredential(given.user) : c.secret = given.secret

\* wrong: the last line decides
LastDecides(given) == IF auth_isClientAuthorized(given) THEN "LOGGED_IN" ELSE "LOGIN_FAIL"

\* wrong: what is not right is not noticed
FailIsNothing(given) == IF auth_isClientAuthorized(given) THEN "LOGGED_IN" ELSE loginState

checkAuthorization(given) ==
  IF loginState # "LOGGED_OUT" THEN loginState
  ELSE IF auth_isClientAuthorized(given) THEN "LOGGED_IN" ELSE "LOGIN_FAIL"

AuthorizationLine ==
  /\ section \in {"head", "body"} /\ Len(auths) < lines
  /\ \E given \in Given :
       /\ auths' = Append(auths, given)
       /\ loginState' = checkAuthorization(given)
  /\ UNCHANGED <<options, request, section, handler, served, scriptName, destDir, page, folder>>

----------------------------------------------------------------------------
(* doProcessRequest.                                                       *)

Found(kind, names, url) == [kind |-> kind, names |-> names, url |-> url]

\* what a path names: "nothing", the "shares" below it, a "folder", "file" or "program"
Lookup(urlPath) ==
  LET sysPath == config_getSysPathForUrlPath(shares, urlPath)
      cut == config_findCGI(shares, cgi, urlPath)
      exeUrl == SubSeq(urlPath, 1, cut)
  IN IF sysPath = NoPath
     THEN Found(IF config_getSubSharesForPath(shares, urlPath) = {} THEN "nothing" ELSE "shares",
                NoPath, NoPath)
     ELSE IF stat(sysPath) = "dir" THEN Found("folder", Names(sysPath), NoPath)
     ELSE IF stat(sysPath) = "file" /\ config_isCGI(cgi, urlPath)
     THEN Found("program", Names(sysPath), urlPath)
     ELSE IF stat(sysPath) = "file" THEN Found("file", Names(sysPath), NoPath)
     ELSE IF stat(sysPath) = "ENOTDIR" /\ cut > 0
     THEN Found("program", Names(config_getSysPathForUrlPath(shares, exeUrl)), exeUrl)
     ELSE Found("nothing", NoPath, NoPath)

\* "/../" in the path or "/.." at its end
GoesUp == \E i \in 2 .. Len(path) : path[i] = ".."

MayServe == loginState # "LOGIN_FAIL" /\ isActionAllowed("SERVE_PAGE")

\* a response that says no more than this
Answer(kind) ==
  /\ handler' = "response" /\ page' = Page(kind)
  /\ UNCHANGED <<served, scriptName, destDir>>

\* processFileReq
AnswerFile(names) ==
  \/ /\ Tree[names].readable
     /\ handler' = "response" /\ page' = Page("file") /\ served' = names
     /\ UNCHANGED <<scriptName, destDir>>
  \/ ~Tree[names].readable /\ Answer("forbidden")

RunProgram(found) ==
  /\ handler' = "cgiexe" /\ page' = Page("program")
  /\ served' = found.names /\ scriptName' = found.url
  /\ UNCHANGED destDir

\* wrong: the parser is given the folder whoever asks
OpensAlways(names) == names # NoPath

\* filemgr_new: the multipart parser gets the folder only of a client that may modify,
\* and a list of shares has none
Opens(names) == names # NoPath /\ form # "none" /\ isActionAllowed("MODIFY")

ManageFolder(names) ==
  /\ handler' = "filemgr" /\ served' = names
  /\ destDir' = IF Opens(names) THEN "folder" ELSE "none"
  /\ UNCHANGED <<scriptName, page>>

OpenFolder(names) ==
  \/ ~Tree[names].readable /\ Answer("forbidden")
  \/ /\ Tree[names].readable
     /\ \E entries \in SetToSeqs(Entries(names)) :
          LET file == config_getIndexFile(index, names, entries)
          IN \/ file # NoPath /\ AnswerFile(file)
             \/ file = NoPath /\ ManageFolder(names)

Process ==
  LET found == Lookup(path)
      isFolder == found.kind \in {"folder", "shares"}
  IN \/ found.kind = "nothing" /\ Answer("missing")
     \/ isFolder /\ Last(path) # Empty /\ Answer("moved")
     \/ found.kind = "folder" /\ Last(path) = Empty /\ OpenFolder(found.names)
     \/ found.kind = "shares" /\ Last(path) = Empty /\ ManageFolder(NoPath)
     \/ found.kind = "file" /\ AnswerFile(found.names)
     \/ found.kind = "program" /\ RunProgram(found)

\* reqhdlr_new
EndHead ==
  /\ section = "head" /\ section' = "body"
  /\ \/ method \notin {"GET", "HEAD", "POST"} /\ Answer("not_allowed")
     \/ method \in {"GET", "HEAD", "POST"} /\ ~MayServe /\ Answer("unauthorized")
     \/ method \in {"GET", "HEAD", "POST"} /\ MayServe /\ GoesUp /\ Answer("forbidden")
     \/ method \in {"GET", "HEAD", "POST"} /\ MayServe /\ ~GoesUp /\ Process
  /\ UNCHANGED <<options, request, auths, loginState, folder>>

----------------------------------------------------------------------------
(* The request is read.                                                    *)

\* wrong: the button asks for a login of those, too, who have one
AsksAlways ==
  \/ form = "do_login"
  \/ form # "none" /\ isActionAvailable("MODIFY") /\ ~isActionAllowed("MODIFY")

\* filemgr_processPost: PR_REQUIRE_AUTH
RequiresAuth ==
  \/ form = "do_login" /\ loginState # "LOGGED_IN"
  \/ form \notin {"none", "do_login"} /\ isActionAvailable("MODIFY") /\ ~isActionAllowed("MODIFY")

Modifies == form \in {"do_upload", "do_change"} /\ isActionAllowed("MODIFY")

\* wrong: the right is enough
ControlsForAll == isActionAllowed("MODIFY")

\* isModifiable
Controls == served # NoPath /\ isActionAllowed("MODIFY") /\ mode = "W_OK"

LoginButton == {x \in {"login"} : method # "HEAD" /\ isWorthPuttingLogOnButton}

\* printFolderContents: the button, and the forms to change the folder
Shown == LoginButton \union {x \in {"controls"} : method # "HEAD" /\ Controls}

\* processFolderReq: the page; a folder that is gone by now is an error
FolderPage ==
  IF ~isActionAllowed("LIST_FOLDER") THEN [kind |-> "not_found", shows |-> LoginButton]
  ELSE IF served # NoPath /\ mode = "gone" THEN Page("missing")
  ELSE [kind |-> "listing", shows |-> Shown]

\* format_path is given the null path of a list of shares; an upload has no file there
Crashes == form = "do_change" /\ Modifies /\ served = NoPath

\* reqhdlr_requestReadCompleted
Complete ==
  /\ section = "body" /\ section' = "finished"
  /\ \/ /\ handler \in {"response", "cgiexe"}
        /\ UNCHANGED <<page, folder>>
     \/ /\ handler = "filemgr" /\ method = "POST" /\ RequiresAuth
        /\ page' = Page("unauthorized")
        /\ UNCHANGED folder
     \/ /\ handler = "filemgr" /\ method = "POST" /\ ~RequiresAuth /\ Crashes
        /\ page' = Page("crash")
        /\ UNCHANGED folder
     \/ /\ handler = "filemgr" /\ ~(method = "POST" /\ (RequiresAuth \/ Crashes))
        /\ page' = FolderPage
        /\ folder' = IF method = "POST" /\ Modifies THEN "changed" ELSE folder
  /\ UNCHANGED <<options, request, auths, loginState, handler, served, scriptName, destDir>>

\* the client uses a form of the page, which has the URL of the page, and sends the
\* credentials again that it sent before
UseForm ==
  /\ section = "finished" /\ shown = {} /\ page.shows # {}
  /\ method' = "POST"
  /\ form' \in (IF "login" \in page.shows THEN {"do_login"} ELSE {})
               \union (IF "controls" \in page.shows THEN {"do_upload", "do_change"} ELSE {})
  /\ shown' = page.shows
  /\ section' = "head" /\ handler' = "none" /\ served' = NoPath /\ destDir' = "none"
  /\ page' = Page("none") /\ folder' = "unchanged"
  /\ UNCHANGED <<options, path, mode, lines, auths, loginState, scriptName>>

Next == ParseLine \/ EndConfig \/ AuthorizationLine \/ EndHead \/ Complete \/ UseForm

Spec == Init /\ [][Next]_vars

----------------------------------------------------------------------------
(* Properties.                                                             *)

TypeOK ==
  /\ availOps \in {"none", "listing", "all"}
  /\ guestOps \in {"none", "file", "listing", "all"}
  /\ lines \in Nat /\ auths \in Seq(Given) /\ Len(auths) <= lines
  /\ loginState \in {"LOGGED_OUT", "LOGGED_IN", "LOGIN_FAIL"}
  /\ loginState = "LOGGED_OUT" <=> auths = <<>>
  /\ section \in {"config", "head", "body", "finished"}
  /\ handler \in {"none", "response", "cgiexe", "filemgr"}
  /\ destDir \in {"folder", "none"} /\ folder \in {"unchanged", "changed"}
  /\ page \in [kind : {"none", "unauthorized", "not_allowed", "forbidden", "missing", "moved",
                       "file", "program", "listing", "not_found", "crash"},
               shows : SUBSET {"login", "controls"}]
  /\ page.kind = "none" => handler \in {"none", "filemgr"}
  /\ shown \subseteq {"login", "controls"}

\* What the options say when the lines up to here are read, as default.conf has it:
\* the last "dirops" and "guestops" decide, an unknown value is "none", patterns are
\* accumulated from the last empty value on, and the shares and credentials are those
\* listed, in that order.
ValuesOf(some, name) ==
  FoldLeft(LAMBDA values, line : IF line.name = name THEN Append(values, line.value) ELSE values,
           <<>>, some)

Values(name) == ValuesOf(SubSeq(conf, 1, read), name)

LastOf(values, default) == IF values = <<>> THEN default ELSE Last(values)

Accumulated(values) ==
  LET cleared == Max({0} \union {i \in DOMAIN values : values[i] = <<>>})
  IN FlattenSeq(SubSeq(values, cleared + 1, Len(values)))

OptionsAsRead ==
  /\ availOps = OneOf(LastOf(Values("dirops"), "all"), {"all", "listing"})
  /\ guestOps = OneOf(LastOf(Values("guestops"), "all"), {"all", "listing", "file"})
  /\ index = Accumulated(Values("index")) /\ cgi = Accumulated(Values("cgi"))
  /\ credentials = Values("credentials")
  /\ shares =
       IF section # "config" /\ Values("/") = <<>> THEN <<[url |-> <<Empty>>, sys |-> Welcome]>>
       ELSE [i \in DOMAIN Values("/") |-> [url |-> TrimSlashes(Values("/")[i].url),
                                           sys |-> TrimSlashes(Values("/")[i].sys)]]

\* "Any matching credentials are granting access": the first Authorization line of the
\* request matches one of the lines of the configuration.
LoggedIn ==
  /\ auths # <<>> /\ Head(auths).fits
  /\ \E c \in ToSet(credentials) : c.user = Head(auths).user /\ c.secret = Head(auths).secret

\* The code looks at the first line of a user only, and does not know those who match
\* another one.  What is said below of a client it does not refuse is said of users with
\* one password.
OnePassword(user) ==
  \A c, d \in ToSet(credentials) : c.user = user /\ d.user = user => c.secret = d.secret

Known == LoggedIn /\ OnePassword(Head(auths).user)

\* default.conf on dirops and guestops: a folder is changed or listed, and a form
\* to change it is shown, only where dirops has that for everybody; and for a client
\* that is not logged in, only where guestops has it.
RightsAsConfigured ==
  /\ page.kind = "listing" => /\ availOps \in {"listing", "all"}
                              /\ LoggedIn \/ guestOps \in {"listing", "all"}
  /\ folder = "changed" \/ "controls" \in page.shows =>
       availOps = "all" /\ (LoggedIn \/ guestOps = "all")
  /\ page.kind \in {"file", "program"} => LoggedIn \/ guestOps # "none"

\* What a request uploaded is not refused at its end: the right the file was opened
\* with still holds when the form is processed, whatever the trailer said.
UploadStillAllowed == destDir = "folder" /\ page.kind = "unauthorized" => form = "do_login"

\* Nobody is asked to log in who gave credentials that match, those of a user with one
\* password (credentials in the trailer may come after that).
RefusedOnlyGuests ==
  [][page.kind = "none" /\ page'.kind = "unauthorized" => ~Known]_vars

\* The login button is on a page exactly when "client might be interested with log
\* in": the client gave no credentials, and there is a page it would get or a form
\* it would see with them, and does not now; the answer to HEAD has neither.
MoreWithLogin ==
  \/ guestOps = "none"
  \/ availOps # "none" /\ guestOps \notin {"listing", "all"}
  \/ availOps = "all" /\ guestOps # "all"

ButtonIsUseful ==
  page.kind \in {"listing", "not_found"} /\ method # "HEAD" =>
    ("login" \in page.shows <=> auths = <<>> /\ MoreWithLogin)

\* A form of a page can be sent: without credentials, or with those of a user with one
\* password, that match and that the page was got with, a form to change a folder is not
\* refused and does not stop the server, and the login button asks for a login.
OwnFormsWork ==
  shown # {} /\ section = "finished" /\ (auths = <<>> \/ Known) =>
    /\ page.kind # "crash"
    /\ page.kind = "unauthorized" <=> form = "do_login" /\ ~LoggedIn

\* "Among all shares matching request, such with longest URL path is taken": what is served,
\* run or managed is what the rest of the URL names there or, for a folder, a file in it; and
\* the rest does not go up from there.  Of shares with the same URL path, welcome.html has
\* the one defined later and the code takes the first; nothing is said of that here.
ServedFromBestShare ==
  served # NoPath =>
    LET url == IF page.kind = "program" THEN scriptName ELSE path
        begins(i) == IsPrefix(shares[i].url, url)
    IN \E i \in DOMAIN shares :
         LET rest == SubSeq(url, Len(shares[i].url) + 1, Len(url))
             named == Names(shares[i].sys \o rest)
         IN /\ begins(i)
            /\ \A j \in DOMAIN shares :
                 begins(j) => Len(shares[j].url) <= Len(shares[i].url)
            /\ \/ served = named
               \/ Last(path) = Empty /\ page.kind = "file" /\ Front(served) = named
            /\ \A k \in DOMAIN rest : rest[k] # ".."

\* "In case when more than one index file exists in directory, the file listed earlier
\* on index parameter is taken": whatever the order of the directory is; and a folder
\* is managed only when there is none.
Rank(name) == Min({Len(index) + 1} \union {i \in DOMAIN index : name \in index[i]})

IndexIsFirst ==
  LET found == Lookup(path)
      rank == IF page.kind = "file" THEN Rank(Last(served)) ELSE Len(index) + 1
  IN served # NoPath /\ found.kind = "folder" =>
       \A name \in Entries(found.names) : IsFile(Append(found.names, name)) => rank <= Rank(name)

\* Every entry of a list of shares leads to something, if the shares do, none lies below
\* one that is a file, and none has two slashes in a row in its URL path: the link has a
\* slash at its end for a directory.
PlainShares ==
  \A s, t \in DOMAIN shares :
    /\ stat(shares[s].sys) \in {"file", "dir"}
    /\ IsStrictPrefix(shares[s].url, shares[t].url) => stat(shares[s].sys) = "dir"
    /\ Empty \notin ToSet(Tail(shares[s].url))

Linked(entry) ==
  TrimSlashes(path) \o (IF entry.isDir THEN <<entry.name, Empty>> ELSE <<entry.name>>)

ListedIsReachable ==
  page.kind = "listing" /\ served = NoPath /\ PlainShares =>
    \A entry \in config_getSubSharesForPath(shares, path) :
      Lookup(Linked(entry)).kind # "nothing"
=============================================================================
