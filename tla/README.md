# Formal models of filemanager-httpd

filemanager-httpd is a small HTTP server in C: one process, one thread, non-blocking
sockets, one `select()`. It serves files and folder pages, runs CGI programs, and lets
clients change folders with HTML forms. These modules model how it drives its
connections, how requests are read from bytes, how a response and an upload go through it,
what a URL names, and who may do what; TLC checks
them on small instances and TLAPS proves the main results for every value of the
constants. File names below are those under `src/src/`.

## 1. The system

| part | state it keeps | operations | what makes it correct |
|---|---|---|---|
| main loop (`main.c`) | the table of connections, ordered by idle time | accept, one pass of `conn_processDataReady` calls, compaction, eviction of an idle connection when the table is full | no connection is lost, freed or processed twice; a full table makes room if it can, and takes the most idle one; nobody waits for ever |
| server connection (`serverconnection.c`) | read state `rrs`, read buffer, request header, chunk counters, handler | read, assemble the header, give the body to the handler, send the response, go on with the next request | a body goes whole and in order to its own handler; responses come in the order of the requests; nothing readable is forgotten in the buffer; the call returns what the main loop relies on |
| waiting (`datareadyselector.c`, `dataprocessingresult.c`) | `fd_set`s built anew for each `select` | await read, await write | all that can happen next is awaited, and only open descriptors |
| request handler (`reqhandler.c`) | one of file manager, CGI, response sender | choose by path, method and rights; take the body; give the response | one response per request; released with its pipes |
| CGI executor (`cgiexecutor.c`) | the pid, two pipes, the program's header | start, write the body, close, read the header, hand over the output | no deadlock between server and program; each pipe end closed once |
| response sender (`responsesender.c`, `membuf.c`) | header, body in memory, file or pipe, a buffer, bytes left | write, fill the buffer, pad, frame in chunks | the message has the length it promised, whatever the file does |
| file manager and uploads (`filemanager.c`, `contentpart.c`) | per upload: a descriptor and a file name | add, replace, rename, delete, create a folder, permissions | what is reported stored is stored; no parts stay; the old file stays until the new one is there |
| multipart parser (`multipartdata.c`) | position, matched bytes of the delimiter, the parts | append a piece | the cuts do not matter |
| access rights (`fmconfig.c`, `requestheader.c`) | `dirops`, `guestops`; login state of a request | look at an Authorization line, decide | what is allowed is what the configuration says; decisions of one request agree; a form that a page shows can be sent |
| request and MIME headers (`requestheader.c`, `dataheader.c`, `datachunk.c`) | lines so far | append a piece, take a value or a parameter | the cuts do not matter |
| shares, index files, CGI lookup, configuration file (`fmconfig.c`) | lists read at the start | read a line, look up | repeated options as documented; the best share, the first index pattern; what is listed can be reached |
| digest authentication (`auth.c`, `md5calc.c`) | none | a verdict on a line | the verdict is an input, see section 6 |
| response buffer and pages (`respbuf.c`, `folder.c`), buffers, log, command line, content types | none that outlives a call | formatting, output | not modelled, see section 6 |

How they interact: the main loop calls `conn_processDataReady` for every open connection
in each pass. The call reads until the socket blocks or the request is complete, gives
body pieces to the request handler, which passes them to the multipart parser or to the
pipe of a CGI program, and asks the handler to progress its response, which the response
sender writes. Whatever blocks leaves a descriptor in a `DataProcessingResult`; at the
end of the call these go to the selector. All connections share the directory tree and
nothing else.

What is hard about it: partial reads and writes at every level, pipelined requests
left in a buffer that no event announces, a response that ends before its request was
read, two pipes to a program that may do anything, a file that changes while it is sent,
delimiters and headers that a read may cut at any byte,
uploads that interleave piece by piece on one folder and may be cut short by the end of the
server, an in-place reordering of the table
while it is walked, and decisions about rights that are taken twice in one request. There
is no timeout and no persistent state apart from the files. `PROJECT.json` lists the
places under "hazards".

## 2. The modules

| module | what it is | models |
|---|---|---|
| `ConnContract` | what one call of `conn_processDataReady` promises to the main loop | `serverconnection.h` |
| `ConnTable` | accept loop, pass over the table, eviction; built on `ConnContract!Admissible` | `mainloop` |
| `Connection` | one connection in detail, with its handler and CGI program; implements `ConnContract` | `serverconnection.c`, parts of `reqhandler.c`, `cgiexecutor.c` |
| `ResponseSender` | one response on its way to the socket | `responsesender.c` |
| `FileManager` | several requests at a time to one folder | `filemanager.c`, `contentpart.c` |
| `HeaderLines` | operators: lines from pieces, the first line of a request, values and parameters | `requestheader.c`, `dataheader.c`, `datachunk.c` |
| `Multipart` | operators: the parser of multipart bodies, and a parser of the whole body | `multipartdata.c`, `contentpart.c` |
| `RequestReader` | a connection that reads requests byte by byte, built on the two | `serverconnection.c` |
| `Shares` | operators: what a URL path names | `fmconfig.c` |
| `Access` | the configuration line by line, and a request from its header to its page, then a form of that page; built on `Shares` | `fmconfig.c`, `requestheader.c`, `auth.c`, `reqhandler.c`, `filemanager.c` |
| `ConnTableProofs`, `ConnectionProofs`, `ResponseSenderProofs`, `FileManagerProofs`, `MultipartProofs`, `ReaderProofs`, `AccessProofs` | theorems and proofs | |
| `SequenceFacts` | lemmas about sequences, greatest and least elements, folds and loops | |
| `MCConnTable`, `MCConnection`, `MCFileManager`, `MCRequestReader`, `MCAccess` | definitions for TLC | |

`ConnTable` and `Connection` are two halves joined by `ConnContract`: `ConnTable` allows a
connection everything that the contract allows, and the property `ContractMet` of
`Connection` says that it does no more. What holds for the table with any such
connection then holds with the real one. `Connection` and `RequestReader` are two views of the same
functions: the first has every system call and the handler, but bytes are tokens; the second has
every byte, but a read always finds what it needs and a response is sent at once.

Some definitions in each module are wrong variants of others (their names say what is
wrong: `BodyBlockedLossy`, `FreedKept`, ...). They are not part of any `Spec`. Putting one
in the place of its original breaks the property that `PROJECT.json` names under
"mutants", which shows that the property can fail.

### ConnTable

`connections`, `busyConnections` and the counters are the variables of `mainloop`; a
connection is named by the client at its other end. `pc` says whether the loop is in
`select`, in the accept loop or in the pass. `Process` is one iteration of the `for` of
line 68: `Outcomes` says what the call may do, from the events on the descriptors, what was awaited and the
argument `closeIfIdle`, and `KeepBusy`, `KeepIdle` and `Drop` are the three cases of the
`switch`. `AppendBusy` is lines 87 to 89. A failing `accept` (`AcceptError`) ends the
accept loop as an empty queue does, because the test of line 61 is never true. `ready` has what is there on
the descriptors of a connection, and `awaits` what its latest call gave to the selector (`Waits`: lines 254 to 263 of
`serverconnection.c`). `Select` ends only for what is both (`Awaited`): while a request is complete and its response waits
for a CGI program or for room in the socket, or while its body waits for a full pipe, the socket is not among the descriptors
to read, and a client that sends or leaves wakes nobody. `idleAge`
is a ghost: it counts passes in which the connection was idle, up to `IdleCap`.

### Connection

One action per `read`, per `write`, and per piece that is taken out of the read buffer, so
the client and the CGI program run between any two of them. `rrs`, `header`, `chunkHdr`,
`bodyLen`, `bodyReadLen`, `handler` are the fields of `ServerConnection`, `dpr` is the
`DataProcessingResult`, `buf` is `readBuffer` from `readOffset` to `readSize`. `pc` follows
`conn_processDataReady`: the inner loop ("input"), `reqhdlr_progressResponse` ("answer"), the
end of the outer loop ("done"), the return, `select`. `cgi` has both pipes, each with its two
ends. Bytes are tokens that carry the number of their request. What the client sends is given
token by token: `toSend` is the next one, and `After` says what a request has behind a token (its header is
two tokens; a body is either plain or in chunks, the first of one byte). The handler's kind is an
input: "FILE" is any response that is there at once, "FOLDER" one that is made when the
request is complete, "CGI" a program (`Access` says which of them a request gets). The answer to
HEAD (`onlyHead`) has no body. The process may die of a null handler, of the
sanity check of line 230, of `select` failing on a closed descriptor, or, in `NullBody`, of the buffer
that the answer to HEAD does not have and that the output of a CGI program is appended to.

### ResponseSender

`buf` is what is left in the buffer: size line, bytes, padding, CRLF, last chunk, in that
order. `header`, `nbytes` and `fileDesc` are the fields of `ResponseSender`. `FillBuffer`,
`ReadFile` and `LoopEnds` are `fillBuffer`; the `Write...` actions write a token each, which
covers every partial `write`. `peer` is a decoder of what is written: it becomes "bad" at the first byte
that does not fit the message. The file may be truncated or grow, a read may fail,
the program may write any number of bytes and end.

### FileManager

`dir` maps a name to the upload whose bytes are there. `OpenFile`, `StorePiece`,
`FinishUpload` and `Freed` are `cpart_appendData`, `cpart_finishUpload` and `cpart_free`;
`ProcessPost` is `filemgr_processPost` with one definition per operation. `Abort` is a
connection that ends before its request does. An upload knows its file by name only, as
in the code. `link` and `rename` follow POSIX for a directory on the way. Beyond that, `open`, `write`, `link`, `rename`, `mkdir`,
`rmdir`, `chmod` and the `unlink` of `do_delete` may each fail for a reason of its own (no permission, a read-only file system, an
I/O error); only the `unlink` of a file that the same request created is taken to succeed.
A subdirectory is empty ("dir") or not ("tree"); what `del_recursive` cannot delete completely
is still a tree, or an emptied subdirectory. `Kill` is the end of the server at any moment, by a signal or a crash, and the start of
another one: files stay as they are, and nothing cleans up. `KillBetween` is the same between the `link` and
the `unlink` of `cpart_finishUpload`, which otherwise are one step.

### HeaderLines, Multipart, RequestReader

`RequestReader` has one action per read of any length (`Read`), one for a CGI program that takes more
(`Again`), and one that sends the response (`Answered`, which keeps what is left in the
buffer). A call of `appendData` is `ReadHead`, `appendBodyData`, `ReadTrailer` one after the other, as in the
code: each does nothing unless `rrs` is its own. `ReadChunkHeader` and `ChunkSize` are the loop over a chunk
header, with the two bytes behind the chunk before that `chunkHdr` counts; a size is taken modulo
`Wrap`, since it is an unsigned of 32 bits. `HeaderLines!appendLines` is
`reqhdr_appendData` and `datahdr_appendData`, which differ in the first line only.
A loop of the code is `Repeated(Step, n, x)`: `n` rounds of `Step`, where a round that finds nothing to
do changes nothing, so `n` only has to be large enough. For lines and pieces of a body it is the number of line feeds in the data, plus one,
since every round but the last takes a line (or a chunk with the line of the next size): that this is enough is part of what is
proved for the reader (`LinesEndRead`, `BodyEndRead`). The parser of forms has two rounds for each line, one up to a delimiter and
one for what ends its line; parameters and the bytes of a path are no more than the bytes of their line.
`Multipart!mpdata_appendData` is the parser: `Resume` goes on with a delimiter that a cut divided,
`NotDelimiter` gives back what turned out to be content, `Content` and `NewPart` are the two
positions of the parser, and `Scan` is the loop; `cpart_appendData` reads the header of a part
and its names.

The client is written down the other way round: `Bytes` makes the bytes of a request from its lines,
its body and its framing. `Reference` is a second parser of forms, which has the whole body: `AllSections` cuts it
at its delimiters, and `ReadByte` reads the header and the content of a part byte by byte, with no piece and no
delimiter to think of. The properties compare what the server has read with these two. Of the parser's own parts
`PartsSeen` is what there is to see: those with a complete header, with their lines, names and contents. (The parser makes a
part for each piece that it gets in the line of a delimiter; all but the last of these stay without a header, and the code looks for parts
by name.) What a client may send is `SentAssumption`: its lines have no line feed and do not
end with a carriage return, its first line is one that `decodeRequestStartLine` takes for what it means, and the framing is the one
the header names (`Framed`): chunks whose sizes are not 0, less than `Wrap` and add up to the body, or a length that no
other header line contradicts. Requests that break these rules have no meaning that the code could miss. `Filled` is about
forms: their fields are those that `Reference` finds, and the body is one of `IsForm`, where the line of a
delimiter has a hyphen only as its first byte, as behind the last part. That is what clients write, and the last of the observations
in section 4 says why it matters.

A byte is a string, and a string also stands for a word that the parsers do not look into ("HTTP/",
"Content-Length", the boundary): a cut within such a word is a cut within a line, which the
other bytes already show.

### Shares, Access

A path is the sequence of the names between its slashes, so a trailing slash is a last name "", which is the constant `Empty`.
`config_getSysPathForUrlPath`, `config_getSubSharesForPath`, `config_getIndexFile`, `config_isCGI`
and `config_findCGI` are the functions of `fmconfig.c`; a pattern of `fnmatch` is the set of the
names that match. `stat` works on `Tree`, a fixed file system.

`Access` reads the configuration (`ParseLine`, `EndConfig`), then a request.
`checkAuthorization` is the state of the login after one more Authorization line;
`AuthorizationLine` may happen in the header and in the trailer, `EndHead` is
`reqhdlr_new` with `doProcessRequest` (`Lookup` and `Process`), `Complete` is `reqhdlr_requestReadCompleted` with
`filemgr_processPost` and `filemgr_printFolderContents` behind it. `UseForm` is the client that uses a form of the page
it got. `isActionAvailable`, `isActionAllowed` and
`givesLoginMorePrivileges` are translated branch by branch: the code has the rights twice, once
as they are used and once for the login button, and `ButtonIsUseful` says that they agree. Entries of
a folder come in any order, as `readdir` gives them.

## 3. What is checked

| run | bounds | result |
|---|---|---|
| `table` | 3 clients, `MaxClients` 3, `IdleCap` 2, symmetry | the type invariant; `EachOpenOnce`, `AtCapacityNoneIdle`, `OrderedByIdleAge`, `EvictsMostIdle` hold |
| `table_live` | 3 clients, `MaxClients` 2, events "data" and "resp" | `WaitingIsAccepted`, `EventIsProcessed` hold |
| `table_evict` | as `table` | `EvictedReadNothing` is violated (finding 1) |
| `connection` | 5 pipelined pairs, pipe and socket of 1 token, reads of up to 3 | `BodyIsOwn`, `ResponsesInOrder`, `NoForgottenInput`, `NoInternalError`, `PipesInUse` and the refinement `ContractMet` hold |
| `connection_live` | 2 scripts of 2 and 3 requests | `AllAnswered` holds |
| `connection_handler` | a file and a body of 1 token | `HandlerOutlivesBody` is violated (finding 2) |
| `connection_stale` | a CGI program and a body of 2 tokens | `AwaitedIsOpen` is violated (finding 3) |
| `sender` | buffer of 3, socket of 2, files of up to 4, memory of 1 | `Framed`, `WholeWhenDone`, `Delivered`, `WaitIsSet`, `ResponseEnds` hold |
| `files` | 3 requests of all operations, each of which may fail, 2 names, 2 temporary names, files, trees or nothing at the start, uploads of 1 piece, one kill | `StoredWhole`, `NothingLeftOver`, `AddedStays`, `ReplacedWhole` hold |
| `files_permanent` | 2 uploads | `Permanent` is violated (finding 4) |
| `reader` | bodies of up to 4 tokens behind 3 beginnings; a form whole and in two chunks cut at every third byte; 4 pipelined pairs; `Wrap` 256 | `RequestsAsSent`, `PartsAsWhole`, `FormAsSent` hold |
| `access` | 5 sites and 25 paths; 12 pairs of `dirops` and `guestops`, 2 users, one with two passwords, 3 Authorization lines | `OptionsAsRead`, `RightsAsConfigured`, `UploadStillAllowed`, `RefusedOnlyGuests`, `ButtonIsUseful`, `OwnFormsWork`, `ServedFromBestShare`, `IndexIsFirst`, `ListedIsReachable` hold |

Why the bounds are enough:

- `table`: three elements are the least in which an idle, a busy and a closed connection
  stand in every order, so that an element is moved over a gap, and an idle one stands
  between busy ones when the table is full. Ages up to 2 tell "idle now", "idle before" and
  "idle for longer" apart. `table_live` has room for two of three clients, so that the
  listening socket is not always watched, and "data" and "resp", so that some connections wait for their socket and some for
  something else; it leaves "eof" out for size, which stands on the socket beside "data" and is awaited with it.
- `connection`: with pipes and sockets of one token every write but the first of an
  exchange blocks, and a read of up to three tokens takes the end of one request together with
  the start of the next. The scripts have each kind of handler first and second,
  each coding, a chunked body with two chunks, "Connection: close", and HEAD of a folder and of a program. A CGI program writes
  its header and one more token.
- `sender`: a buffer of 3 against a file of up to 4 needs two fillings; a file may be
  shorter than one filling, shorter than promised or longer.
- `files`: three requests are the least in which one takes the name another one left to a
  third; two temporary names are enough for all but one of them, and a third one that finds none
  fails as `mkstemp` may. One piece per file suffices
  for "nothing", "a part" (a piece that failed to be written) and "all".
- `reader`: a token is a byte of the delimiter (a hyphen is also the byte of content), or a whole delimiter with what ends
  its line, the last one or another; bodies are those of `IsForm`. Bodies begin at their first byte, within the header of a part, or within its content, so
  that four tokens have a delimiter that breaks off in each of its bytes next to a true one, in each of
  these places. The delimiter `CR LF -- boundary` is three
  bytes long here; the parser treats the bytes behind LF alike. Reads end at every byte, so each
  CRLF, each chunk size and each header line is cut in every place. `Wrap` is larger than any body.
- `access`: sites have a share of "/", one below another, two with the same URL,
  one that only begins like another by name, one with a doubled slash, and none; files that may not be read, index files that are
  directories, programs with a path behind them. Paths go to each of these with and without a slash. The first
  line decides, so two Authorization lines show a change of mind and the third that it stays. The user "ann" has two
  lines of credentials, "bob" has one.

Deadlock is checked where the system never stops (`ConnTable`). The other models end:
a connection is closed, a response sent, requests answered, the client's bytes read.

### Fairness

- `ConnTable`: weak fairness of the loop, which is one thread that waits only in `select` (where it goes on when something
  awaited is there),
  and strong fairness of `Accept`: accept does not fail for ever while a client
  waits. `WaitingIsAccepted` further assumes that the server keeps having room: nothing in
  the code makes a busy client leave, so it is an assumption of the property, not of the specification. `EventIsProcessed` is
  about what a connection waits for; nothing is promised of the rest.
- `Connection`: the server goes on when it can; the client sends what it has and reads
  what it gets; a CGI program reads its input and ends. There are no timeouts, so without
  these a request may stay unanswered for good, as it may in the code. `AllAnswered` has no
  eviction, no body behind a finished response, and CGI programs that answer after they read their input,
  since findings 2 and 3 end the server otherwise.
- `ResponseSender`: the sender is called again when `select` says so, the peer reads or
  closes, a CGI program ends its output.

## 4. What the checks found

1. `serverconnection.h:29-30` says that `closeIfIdle` closes a connection that "is in idle
   state and no data was read"; the code also closes one that just had a request answered
   (`serverconnection.c:250`).
2. A request whose response is complete before its body is read (a POST to a regular
   file) finds its handler freed: `reqhdlr_processData` and
   `reqhdlr_requestReadCompleted` get a null pointer (`serverconnection.c:89`).
3. The descriptor of a full CGI pipe is noted before the response is finished and given to
   `select` after the pipe was closed (`serverconnection.c:258`); `select` fails with
   `EBADF`, which ends the server.
4. An upload removes its unfinished file by name (`contentpart.c:199`), also when another
   request has replaced that name in between, and was told that its file is stored.

In three more places the code does not do what a document says. They have no run of their own; the models do what the code
does, and the properties beside them say nothing of these cases:

- `default.conf:78-79` says that with several credentials "Any matching credentials are granting access". Only the first line of a
  user is looked at (`fmconfig.c:435-443`, `config_getDigestAuthCredential` in `Access`): a client that gives the second password
  of a user is not logged in. In the `access` run that is "ann" with "s2". `LoggedIn` is what the
  document says; `RefusedOnlyGuests` and `OwnFormsWork` are stated for users with one password (`Known`).
- `welcome.html:83-84` says that of several shares with the same URL path "the share defined later is taken". The code keeps the first
  (`fmconfig.c:253`). The `access` run has such a pair, "/f"; `ServedFromBestShare` says what is common to both, that
  a share with the longest URL path is taken.
- `welcome.html:111-119` says that files that match a pattern of `cgi` are programs to execute. When such a file is the index file of a
  folder, it is served as a file (`processFolderReq`). The look-up of `Access` has this (`Process`).

These contradict no comment or document, or the models leave them out on purpose:

- HEAD of a CGI program ends the server as soon as the header of the program is complete, or its output
  ends: the answer has no buffer to append to, and what was read behind the header is appended even when that is
  nothing (`cgiexecutor.c:262`, `270`). It is `NullBody` in `Connection`, and `NoInternalError` leaves it out by name.
- A body of unknown length for a CGI program goes to a temporary file first, and nothing sets that file
  back to its beginning for the program (`cgiexecutor.c:57`).
- A client that leaves while its CGI program is silent, or while the pipe to it is full, is not noticed: its socket is not watched then
  (`serverconnection.c:192-193`, `255-262`), and it keeps its place in the table until the program does something.
- The URL of a share with a doubled slash is listed under a name that leads nowhere; `ListedIsReachable` is stated
  for shares without (`PlainShares`).
- The parser of forms takes a hyphen for the end of the form when it is the first byte that it gets behind a delimiter, also when that
  byte is only the first of a piece, further on in the line (`multipartdata.c:76`). So a line like `--boundary; x-y` would be read in one
  way or another as a read cuts it. RFC 2046 has only white space there, and no client sends anything else;
  `IsForm` leaves such bodies out.
- An empty path, as in `GET  HTTP/1.1`, makes `queryFile[strlen(queryFile)-1]` read in front of the string (`reqhandler.c:225`);
  `Access` has no such request (`CasesAssumption`).

The `connection` run stays meaningful beside 2 and 3: the model stops where the process would
stop, and the properties hold up to there and on every other path.

## 5. What is proved

The proofs hold for all values of the constants, under the assumptions on constants that
the modules name (`MaxClients \in Nat`, `BufCap \in Nat \ {0}`, `NoConn \notin Client`, and so on).

`ConnTableProofs`. The inductive invariant `Inv` is `TypeOK`, `EachOpenOnce`, and `Shape`:
outside the pass the counters are 0, within it `idleConnCount + busyConnCount <= i <= connCount`,
and a client is in the accept queue at most once and not while its connection is open. Without the
inequality the move of an idle connection could overwrite an element that is not yet visited. `TypeCorrect` and `TableCorrect` follow. `FullInv` adds
what a pass through a full table has done so far: it has met busy connections only, all of
them in the middle of a request, so that the index still is the one at which `closeIfIdle` is
set, or it has freed an element already (`RoomMade`); `AtCapacityNoneIdle` itself; and the
order of the ones kept as idle and of the ones not visited, the former being one pass older,
with age 0 for the busy ones (`Ordered`). These give
`RoomIsMade`, `TableOrdered` and, for the step of `Process`, `EvictionFair`.

`ConnectionProofs`. Any number of requests of any length, any sizes of the buffers, any cut of the input, and a client
and CGI programs that do what they like. The one assumption beyond positive sizes is that `NULL` is none of the
values it stands beside (`NullAssumption`). None of the properties is inductive. `Inv` adds to `TypeOK`,
`ResponsesInOrder` and `NoInternalError`:

- `InputInv`: what is in the read buffer, followed by what is in the socket, followed by what the client sends next,
  goes on as the requests do (`After`);
- `ParseInv`: the next token of it, if there is one, is what the parser takes it for (`Awaited`), and the
  counters are those of the request that `header` holds. From the two follows that no token is
  taken for another's, and so `BodyIsOwn`;
- `OutInv`: what is left of the current response goes on where the client's stream ends (`Rest`), and between two
  responses the next request is the one behind the last that was answered;
- `PipeInv`: there are pipes only for a handler of a CGI program, and none to write to once the request is read;
- `WaitInv`: which descriptors can be noted in `dpr` at each place of the loop. A request that is complete has none, hence
  `NoInternalError`; and a server that leaves the inner loop has the request complete or waits for what it lacks, hence `NoForgottenInput`;
- `CallInv`: a call that found `RRS_IDLE` and read nothing leaves it so, as no input is in the buffer then. This is
  what `ContractMet` needs.

There are lemmas for the input (`InputSent`, `InputCut`, `InputRead`, `InputTaken`) and the output (`OutputWritten`,
`OutputCut`), and one per action. For the refinement, `Return` is shown to be a `Call` of `ConnContract` and every other step to stutter.
`HandlerOutlivesBody` and `AwaitedIsOpen` do not hold (findings 2 and 3): the deaths they describe are steps like
others here, and the theorems hold with them.

`ResponseSenderProofs`. `IInv` is `TypeOK`, `Shape` (which fields may be non-zero in
which state of `pc`), `Decoded` (the state of the peer's decoder is a function of what is
still in the buffer and in `nbytes`: it expects exactly what is left to be written) and
`Counted` (bytes the peer has, plus bytes in the buffer, plus bytes being read are what was read from
the source). `Framed` alone is not inductive, since it says nothing of what the buffer
still holds. There is one lemma per action; `SenderTypeCorrect`, `MessageFramed`,
`MessageWhole`, `AllDelivered` and `AwaitCorrect` follow.

`FileManagerProofs`. Any number of requests, names, temporary names and pieces, and any folder at the start;
an upload is not one of the other things that a name may stand for (`UploadAssumption`), and a temporary
name is none that a client gives (`NameAssumption`). `Inv` is `TypeOK`, `StoredWhole` and `Uploading` (how the fields of one
request go together: an open file has a name and everything that was sent is in it), then what holds of the
folder. `Owned` is the heart of it: under the name of an upload in progress is what it wrote, or a stored file
when another request has replaced that; no two uploads in progress have one name, and none has that of an old
file. So what `cpart_free` unlinks by name is never a part of another upload nor a file of the start. `OwnedAdding` says more where files are only
added: it is always its own. There are lemmas for the ways the folder changes (`Created`, `Removed`, `Placed`, `NewdirKept`,
`KillInv`), and one per action; `FilesTypeCorrect`, `UploadsStoredWhole`, `NoPartStays`, `AddedFilesStay` and
`ReplacedInOneStep` follow.

`ReaderProofs`. For any `Sent` and any `Wrap` under the two assumptions of `RequestReader`: any number of requests of any length, any
lines, chunks and trailers, any cut, and a CGI program that takes what it likes of what it is given. `RequestsAsSent` is
not inductive: it says what was read, and nothing of where in the bytes the reader is. `ReaderInv` says that
the requests read so far are those sent (`AsSent`) and that what is left to read, `conn.buf` followed by
the bytes not yet fed, is what the requests leave at this place (`Where`). Behind the last request that is nothing. Within a
request `InRequest` says it for each of its phases:

- `InHead` and `InTrailer`: there are lists `H` and `R`, of the headers that are held after each line and of the bytes
  that are left behind it (`IsHead`), and for one of the lines what is held of it (`cur`) followed by what is left is the line and its
  end (`AtLine`). The carriage return is the difficulty: it may already be part of `cur` when the line feed is still to come.
- `InBody`: with a length, the body taken followed by what is left is the body and what is behind it (`TakesAll`). With chunks there are
  lists `S` and `C`, of what is left before the size of each chunk and within it (`IsChunking`), and `TakesChunks` says that the reader is in the
  two bytes before a size, in its digits, or in a chunk, and that `bodyLen` is the sum of the sizes up to there.
- `IsRead`: the request is complete, with header and body, and what is left is what was sent behind it.

Each of the three parts of `appendData` goes on from its phase or leaves the request alone (`HeadStep`, `BodyStep`, `TrailerStep`, together
`RequestStep`); `ReaderRead`, `ReaderAgain` and `ReaderAnswered` are the actions. The loops are shown by the values they go through
(`LinesRead`, `ChunksTaken`, `AllTaken`). That the rounds of `Repeated` suffice is a proof of its own, from the number of line ends
that are left after each round (`LineEndsBehind`): the loop over lines ends with nothing or with the header complete (`LinesEndRead`), the
loop over pieces with nothing, with the body complete, or with a CGI program that takes no more (`BodyEndRead`). From it follows
`HeldInv`: between two calls `conn.buf` holds bytes only of a complete request, or of a body that a CGI program holds up. The last parts of
`RequestsAsSent`, that nothing complete is left unread and that input waits only for a CGI program or for the answer, are `HeldInv` and
that something is left of every request that is not complete (`MoreLeft`, `NoneLeft`). What else is needed is arithmetic of sequences and numbers: `DigitsValue` (`strtoul` gives back the number that a client wrote, for every number),
`SumRun` and `KeptRun` for the folds, `LengthIs` for the value of `Content-Length`. `MpDataIn` of
`MultipartProofs` is the part of `ReaderTypes` that is about the parser of forms.

`PartsAsWhole` says nothing of the bytes of a delimiter that the parser has put aside, nor of requests that are complete, so it
is not inductive either. `FormInv` is, on top of `ReaderInv`:

- `FormTaken`: the parser of a form is behind the body that was taken (`FormAt` of `MultipartProofs`, below);
- `HasHandler`: a request has no handler before its header is complete, and then the one of its first line. So the pieces of a body all go
  to one parser, which was new at the first of them; the lines of a trailer leave the first line alone (`NextLineKeeps`, `SameRequest`);
- `GotGood`: of each request that was read the parser is behind its body, and the last one is the one that `conn` holds.

`TakeBodyGood` is the piece, `NextPieceGood` to `ReadTrailerGood` carry it through the loops of `appendData`, `FormKept` through the
actions. `FormsRead` gives `FormInv`. `FormsAre` says, with `ReaderSound`, that the body of a form that was read is the body that was sent, which is one of `IsForm`.
`FormWhole` (`PartsAsWhole`) and `FormSent` (`FormAsSent`) follow.

`MultipartProofs`. For any body that is one of `IsForm`, and any cut of it: a parser that has taken `s`, piece by piece, shows the parts that the reference finds in `s`. The
invariant `FormAt(m, s, rest)` says where among the delimiters the parser is:

- `AtEnd`: it met the hyphen behind a delimiter, and the sections before it are the parts;
- `AtBoundary`: it is in the line of a delimiter, before its end. This is where `IsForm` is needed, for a piece that begins here;
- `Reading`: it is in a text `t`, behind the line of a delimiter or before the first one; `Pends` says that there is no whole delimiter in `t`, and that the last
  `delimMatchPart` bytes are those that may become one; `InText` says that the last part has what is before these.

`rest` is what the loop has still to scan; bytes can be pending only when it is empty. The parts are compared
by `LikePart` and `LikeHeader`: the header of a part that was read in pieces is that of a reading byte by byte, which is a fold and so
does not see the pieces. The sections of the reference are treated apart (`ReferenceIs`): `IsCutUp(s, q, tail)` says that the sections of `s` are those
of `q`, behind each of which a delimiter follows, and a last one, `tail`, that may grow; `RefOf(q)` is what the former show. `FormBegins`, `FormTakes` and
`FormSeen` are what `ReaderProofs` uses: a new parser is at the beginning of every form, a piece moves it by that piece (`ResumeGood` for a delimiter that
the cut divided, `NextGood` for a round of the loop, `ScanEnds` for the number of rounds), and what it shows is the `Reference`.
`FormBefore` says that what was taken of a form is one of `IsForm` too, which makes the invariant hold of every beginning of a body.

`SequenceFacts`. The induction theorems of the library take an operator as parameter, which the provers cannot instantiate, so
induction is over a set here: `NaturalsFrom0` and `UpTo` say of a set of numbers that has 0 and, with each number, the next,
what it contains, and each use defines the set it needs. A `FoldLeft` is
a function that is chosen to be equal to its own unfolding; `FoldExists` shows that there is one (the function that
takes the first `k` elements to the result of `k` steps), and `FoldRuns` that whatever is chosen goes through the same
results (`Follows`, `IsRun`). With these two, each fold of the models gets a lemma `...Run`: there is a sequence of values
that begins with the base, ends with the result and makes the step of the loop in between. `LoopExists` does the same for the function that
`Repeated` chooses. All else is proved from that,
as one proves a loop, by an invariant.

`AccessProofs` begins with the operators of `Shares`. For any list of shares, any index patterns and any file system: `BestShareIs` and `SysPathIs` (the loop of
`config_getSysPathForUrlPath` ends with the first of the shares with the longest URL path that begins the path; its invariant is that of
the shares met so far the best is held), `IndexFileIs` (that of `config_getIndexFile` ends with a file of least rank, in whatever order the entries come;
its invariant relates the rank that is held to the entries met so far), `CutIs` (what `config_findCGI` cuts off names a program), and `EntryLeads`
(the link of an entry of a list of shares is found again, if every share is there, none lies below a share that is a file, and no URL path
of a share has two slashes in a row, which is `Plain`: the share that made the entry begins the link, unless the link is a folder
of shares again, and no better share has a file there). `NamesReal`, `NamesOfReal` and `NamesOfSlash` are about the names of a path,
`TrimLink` and `BeyondIs` about slashes at its end.

Then the specification. For any configuration file, any file system and any request. There are three invariants, one on top of the other:

- `Inv` adds to the rules about rights that the state of the login is the verdict
  on the first line (`Login`), and what the decision at the end of the header implies
  (`Decided`). It needs nothing of the look-ups. `AccessTypeCorrect`, `ConfigurationRules`,
  `UploadRightHolds`, `ButtonCorrect` and `LoggedInServed` follow.
- `ConfigInv` is `OptionsAsRead` with the types of what is read (`Configured`). `ValuesMore`, `FlattenMore` and `AccumulatedMore` say what one more line
  adds to the values of an option, to a list of lists and to the patterns since the last empty value. `OptionsRead` follows.
- `PlaceInv` says how what is served was found: `Placed` (a folder that is managed has no index file and may be read; a file is
  what the path names or the first index file of the folder it names; a program is what the path or the part before the cut names), and `Forms` (a form comes from a page of a folder
  that is managed, with the rights it needs, and a request with it gets to that folder again). Neither is
  inductive without `Inv` and `ConfigInv`. `LookupIs` puts the lemmas about `Shares` together. `BestShareServes`, `IndexFirst`,
  `ListedReachable` and `OwnFormsAccepted` follow. `ListedReachable` has the three conditions of `EntryLeads` as the premise
  `PlainShares`; the one on slashes leaves out a real failure of the code (section 4).

The assumptions are that names in the file system are not empty and the file system is finite (`TreeAssumption`), that
a path has at least the name before its first slash which is not the only one if it is empty, and a line of the configuration a value of its kind
(`CasesAssumption`, `WelcomeAssumption`), and that the empty name, `Empty`, is a string.

Only checked by TLC: liveness (`WaitingIsAccepted`, `EventIsProcessed`, `AllAnswered`,
`ResponseEnds`), which the prover does not do. Every safety and action property of a run that passes is stated by a theorem, and so
is the refinement.

## 6. What is not modelled, and why

- The Digest computation and MD5: pure arithmetic; whether a digest fits the secret and the request is an
  input (`fits` in `Access`).
- The syntax of a line of the configuration, the order of the files in a configuration directory, and the
  options `port`, `user`, `maxclients` other than the number of places (`MaxClients`).
- Pages, HTML, response headers, logging, content types, command line: formatting only. What
  matters of a page, its button, forms and links, is in `Access`.
- `mainloop_inetd`: one connection without a table; `Connection` covers it.
- `fork`, the environment of a CGI program, and the temporary file for a body of
  unknown length.
- What is in a tree that `do_delete` removes, and a rename from one folder to another.
- Symbolic links and other kinds of files.
- Time: calls that take long (`sleep(2)` after a wrong login, `open` of a FIFO) return at once.

## 7. Plan

Done: `ConnContract` and `ConnTable` with proofs, `Connection` with proofs and the
refinement, `ResponseSender` and `FileManager` with proofs, `HeaderLines`, `Multipart` and `RequestReader` with proofs of
the reading of requests and of forms, `Shares` and `Access` with proofs.

Next, most important first:

- the child of the CGI executor with its temporary file, and a header of the program that comes in pieces;
- the tree that `del_recursive` walks while other requests change it;
- an abstract folder, with one step per finished request, that `FileManager` implements for requests that add.
