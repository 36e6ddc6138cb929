----------------------------- MODULE Connection -----------------------------
(* One connection of the server from accept to close: serverconnection.c    *)
(* with the handler it drives (reqhandler.c), a CGI program's two pipes     *)
(* (cgiexecutor.c), the response (responsesender.c) and what it asks select *)
(* for (dataprocessingresult.c, datareadyselector.c).                       *)
(*                                                                          *)
(* One action per system call on a descriptor or per piece of input that is *)
(* taken from the read buffer, so the client and the CGI program run        *)
(* between any two of them.  Bytes are abstracted to tokens: a token of     *)
(* input carries the number k of its request, a token of output the number  *)
(* of the request it answers.                                               *)
EXTENDS Naturals, Sequences

CONSTANTS
  NULL,        \* the null pointer
  Scripts,     \* set of sequences of requests; the client sends one of them
  PipeCap,     \* tokens a pipe holds
  SockCap,     \* tokens the socket's send buffer holds
  BufSize,     \* tokens one read() of the socket gives at most
  CgiOut,      \* tokens of body a CGI program writes at most
  CgiEager,    \* whether a CGI program may answer before the end of its input
  ClientStays, \* the client does not close first
  MayEvict     \* whether the main loop may pass closeIfIdle

ASSUME CapAssumption == {PipeCap, SockCap, BufSize} \subseteq Nat \ {0}
ASSUME CgiOutAssumption == CgiOut \in Nat
ASSUME FlagAssumption == {CgiEager, ClientStays, MayEvict} \subseteq BOOLEAN

\* kind: what reqhdlr_new makes of the request: "FILE" stands for every response
\* that is ready at once (a file, a redirect, an error page); close: HTTP/1.0 or
\* "Connection: close"; onlyHead: HEAD
Kinds == {"FILE", "FOLDER", "CGI"}
Request == [kind : Kinds, onlyHead : BOOLEAN, body : Nat,
            chunked : BOOLEAN, close : BOOLEAN]

ASSUME ScriptsAssumption == \A s \in Scripts : s \in Seq(Request)

VARIABLES
  script,       \* the client's requests
  toSend,       \* what the client sends next
  clientOpen,   \* the client has not closed the connection
  got,          \* tokens the client received
  toServer,     \* tokens sent and not yet read by the server
  toClient,     \* the socket's send buffer
  pc,           \* where conn_processDataReady stands
  rrs,          \* conn->rrs
  buf,          \* readBuffer between readOffset and readSize
  header,       \* conn->header: the request it holds, or NULL
  chunkHdr,     \* conn->chunkHdr # NULL
  bodyLen, bodyReadLen,
  handler,      \* conn->handler
  body,         \* ghost: the pieces the current handler took
  dpr,          \* the DataProcessingResult
  closeIfIdle,  \* the argument of the current call
  didRead,      \* read() gave data in the current call
  entry,        \* ghost: rrs at the start of the current call
  call,         \* ghost: the latest finished call
  cgi,          \* the CGI program and its pipes
  crash         \* how the process ended, or "none"

client == <<script, toSend, clientOpen, got>>
net == <<toServer, toClient>>
parse == <<rrs, buf, header, chunkHdr, bodyLen, bodyReadLen, body>>
invocation == <<closeIfIdle, didRead, entry, call>>
vars == <<client, net, pc, parse, handler, dpr, invocation, cgi, crash>>

----------------------------------------------------------------------------
(* What the client sends. *)

Tokens == [t : {"line", "head", "chunk", "data", "end", "none"}, k : Nat, n : Nat]

Token(t, k, n) == [t |-> t, k |-> k, n |-> n]

NoToken == Token("none", 0, 0)

Line(k) == IF k \in DOMAIN script THEN Token("line", k, 0) ELSE NoToken

\* the size of the chunk behind n bytes of a body: one byte, then all the rest
ChunkSize(k, n) == IF n = 0 /\ script[k].body > 0 THEN 1 ELSE script[k].body - n

\* What a request has behind the token m: its header comes in two pieces; of "data", n
\* is the place in the body, of "chunk" the place of the byte before it.
After(m) ==
  LET k == m.k
      r == script[k]
  IN  CASE m.t = "line" -> Token("head", k, 0)
        [] m.t = "head" -> IF r.chunked THEN Token("chunk", k, 0)
                           ELSE IF r.body > 0 THEN Token("data", k, 1) ELSE Line(k + 1)
        [] m.t = "chunk" -> IF m.n < r.body THEN Token("data", k, m.n + 1)
                            ELSE Token("end", k, 0)
        [] m.t = "data" -> IF r.chunked /\ m.n \in {1, r.body} THEN Token("chunk", k, m.n)
                           ELSE IF m.n < r.body THEN Token("data", k, m.n + 1) ELSE Line(k + 1)
        [] m.t = "end" -> Line(k + 1)

----------------------------------------------------------------------------
(* Records. *)

ReadStates == {"IDLE", "READ_HEAD", "READ_BODY", "READ_TRAILER", "READ_FINISHED"}
Results == {"CONN_IDLE", "CONN_BUSY", "CONN_TO_CLOSE"}

READY == [state |-> "READY", fd |-> NULL]
Awaits == {READY} \union [state : {"AWAIT_READ", "AWAIT_WRITE"},
                          fd : {"socket", "cgi_in", "cgi_out"}]
AwaitRead(fd) == [state |-> "AWAIT_READ", fd |-> fd]
AwaitWrite(fd) == [state |-> "AWAIT_WRITE", fd |-> fd]

dpr_init == [closeConn |-> FALSE, req |-> READY, resp |-> READY]

Programs == [runs : BOOLEAN, in : 0 .. PipeCap, inWr : BOOLEAN, inRd : BOOLEAN,
             out : Seq({"head", "data"}), outWr : BOOLEAN, outRd : BOOLEAN, wrote : Nat]

NoCgi == [runs |-> FALSE, in |-> 0, inWr |-> FALSE, inRd |-> FALSE,
          out |-> << >>, outWr |-> FALSE, outRd |-> FALSE, wrote |-> 0]

\* resp: the ResponseSender: the tokens in memory, and whether more come from the
\* CGI program's output (nbytes # 0)
Outputs == [k : Nat, u : {"head", "data", "last"}]
Responses == [queue : Seq(Outputs), more : BOOLEAN]
Handlers == [kind : Kinds, resp : {NULL} \union Responses]

ASSUME NullAssumption == NULL \notin Nat \union Responses \union Handlers

Handler(kind, resp) == [kind |-> kind, resp |-> resp]
Page(k) == [queue |-> <<[k |-> k, u |-> "head"], [k |-> k, u |-> "last"]>>, more |-> FALSE]
CgiPage(k) == [queue |-> <<[k |-> k, u |-> "head"]>>, more |-> TRUE]

Init ==
  /\ script \in Scripts
  /\ toSend = Line(1)
  /\ clientOpen = TRUE /\ got = << >>
  /\ toServer = << >> /\ toClient = << >>
  /\ pc = "begin"
  /\ rrs = "READ_HEAD" /\ buf = << >> /\ header = NULL /\ chunkHdr = FALSE
  /\ bodyLen = 0 /\ bodyReadLen = 0 /\ body = << >>
  /\ handler = NULL
  /\ dpr = dpr_init
  /\ closeIfIdle = FALSE /\ didRead = FALSE /\ entry = "READ_HEAD"
  /\ call = [didRead |-> FALSE, closeIfIdle |-> FALSE, result |-> "CONN_BUSY"]
  /\ cgi = NoCgi
  /\ crash = "none"

----------------------------------------------------------------------------
(* The client, and the CGI program (neither is in the repository). *)

Send ==
  /\ clientOpen /\ toSend # NoToken
  /\ toServer' = Append(toServer, toSend)
  /\ toSend' = After(toSend)
  /\ UNCHANGED <<script, clientOpen, got, toClient, pc, parse, handler, dpr, invocation,
                 cgi, crash>>

Receive ==
  /\ clientOpen /\ toClient # << >>
  /\ got' = Append(got, Head(toClient))
  /\ toClient' = Tail(toClient)
  /\ UNCHANGED <<script, toSend, clientOpen, toServer, pc, parse, handler, dpr, invocation,
                 cgi, crash>>

\* a reset loses what the server has not read
ClientClose ==
  /\ clientOpen /\ ~ClientStays
  /\ clientOpen' = FALSE
  /\ toServer' \in {toServer, << >>}
  /\ toClient' = << >>
  /\ UNCHANGED <<script, toSend, got, pc, parse, handler, dpr, invocation, cgi, crash>>

CgiStep ==
  /\ cgi.runs
  /\ UNCHANGED <<client, net, pc, parse, handler, dpr, invocation, crash>>

MayAnswer == CgiEager \/ (~cgi.inWr /\ cgi.in = 0)

CgiRead == CgiStep /\ cgi.in > 0 /\ cgi' = [cgi EXCEPT !.in = @ - 1]

\* the header first, then the body
CgiWrite ==
  /\ CgiStep /\ MayAnswer /\ cgi.outWr
  /\ cgi.wrote <= CgiOut /\ Len(cgi.out) < PipeCap
  /\ cgi' = [cgi EXCEPT !.out = Append(@, IF cgi.wrote = 0 THEN "head" ELSE "data"),
                        !.wrote = @ + 1]

CgiCloseOutput == CgiStep /\ MayAnswer /\ cgi.outWr /\ cgi' = [cgi EXCEPT !.outWr = FALSE]

CgiExit ==
  /\ CgiStep /\ MayAnswer
  /\ cgi' = [cgi EXCEPT !.runs = FALSE, !.outWr = FALSE, !.inRd = FALSE, !.in = 0]

Environment == Send \/ Receive \/ ClientClose \/ CgiRead \/ CgiWrite \/ CgiCloseOutput \/ CgiExit

----------------------------------------------------------------------------
(* Wrong variants of definitions below, none of them part of Spec: each one *)
(* breaks a property, which shows that the property can fail.              *)

\* the body is not limited to the length announced
MoreBodyUnlimited == rrs = "READ_BODY"

\* what the full pipe did not take counts as processed
BodyBlockedLossy ==
  /\ pc = "input" /\ ~dpr.closeConn /\ dpr.req = READY /\ buf # << >>
  /\ rrs = "READ_BODY" /\ bodyReadLen < bodyLen
  /\ handler # NULL /\ cgi.inWr /\ cgi.inRd /\ cgi.in = PipeCap
  /\ dpr' = [dpr EXCEPT !.req = AwaitWrite("cgi_in")]
  /\ buf' = Tail(buf) /\ bodyReadLen' = bodyReadLen + 1
  /\ UNCHANGED <<client, net, pc, rrs, header, chunkHdr, bodyLen, body, handler, invocation,
                 cgi, crash>>

\* the next request begins before the response is sent
NotCompleteEarly == dpr.closeConn \/ rrs # "READ_FINISHED"

\* the call ends with the request, whatever is left in the buffer
NextRequestLater ==
  /\ pc = "done" /\ ~dpr.closeConn /\ rrs = "READ_FINISHED" /\ handler = NULL
  /\ ~script[header].close
  /\ rrs' = "IDLE" /\ header' = NULL /\ chunkHdr' = FALSE
  /\ bodyLen' = 0 /\ bodyReadLen' = 0
  /\ pc' = "return"
  /\ UNCHANGED <<client, net, body, handler, invocation, cgi, buf, dpr, crash>>

\* the end of a CGI program's output leaves out the last chunk
FillUnterminated ==
  /\ pc = "answer" /\ handler # NULL /\ handler.resp # NULL
  /\ handler.resp.queue = << >> /\ handler.resp.more
  /\ \/ /\ cgi.out # << >>
        /\ handler' = [handler EXCEPT !.resp.queue = <<[k |-> header, u |-> "data"]>>]
        /\ cgi' = [cgi EXCEPT !.out = Tail(@)]
        /\ UNCHANGED <<dpr, pc>>
     \/ /\ cgi.out = << >> /\ ~cgi.outWr
        /\ handler' = [handler EXCEPT !.resp.more = FALSE]
        /\ cgi' = [cgi EXCEPT !.outRd = FALSE]
        /\ UNCHANGED <<dpr, pc>>
     \/ /\ cgi.out = << >> /\ cgi.outWr
        /\ dpr' = [dpr EXCEPT !.resp = AwaitRead("cgi_out")]
        /\ pc' = "done" /\ UNCHANGED <<handler, cgi>>
  /\ UNCHANGED <<client, net, parse, invocation, crash>>

\* the program's input stays open
InputClosedNever(h, c) == c

\* only a connection that was idle for the whole call is evicted
EvictedVeryIdle == ~dpr.closeConn /\ closeIfIdle /\ rrs = "IDLE" /\ entry = "IDLE" /\ ~didRead

\* select is not asked about the program's output
ReadyWithoutCgi(a) ==
  \/ a = AwaitRead("socket") /\ (toServer # << >> \/ ~clientOpen)
  \/ a = AwaitWrite("socket") /\ (Len(toClient) < SockCap \/ ~clientOpen)
  \/ a = AwaitWrite("cgi_in") /\ (cgi.in < PipeCap \/ ~cgi.inRd)

----------------------------------------------------------------------------
(* The request handler. *)

reqhdlr_new(k) == Handler(script[k].kind, IF script[k].kind = "FILE" THEN Page(k) ELSE NULL)

CgiStarted == [runs |-> TRUE, in |-> 0, inWr |-> TRUE, inRd |-> TRUE,
               out |-> << >>, outWr |-> TRUE, outRd |-> TRUE, wrote |-> 0]

\* reqhdlr_requestReadCompleted: what it does to the handler and to the pipes
Completed(h, k) == IF h.kind = "FOLDER" THEN [h EXCEPT !.resp = Page(k)] ELSE h
InputClosed(h, c) == IF h.kind = "CGI" THEN [c EXCEPT !.inWr = FALSE] ELSE c

----------------------------------------------------------------------------
(* conn_processDataReady: the inner loop (lines 192 to 217). *)

Begin ==
  /\ pc = "begin"
  /\ pc' = "input"
  /\ dpr' = dpr_init
  /\ entry' = rrs /\ didRead' = FALSE
  /\ closeIfIdle' \in IF MayEvict THEN BOOLEAN ELSE {FALSE}
  /\ UNCHANGED <<client, net, parse, handler, call, cgi, crash>>

InputLoop == pc = "input" /\ ~dpr.closeConn /\ dpr.req = READY /\ rrs # "READ_FINISHED"

ReadSocket ==
  /\ InputLoop /\ buf = << >> /\ toServer # << >>
  /\ LET n == IF Len(toServer) < BufSize THEN Len(toServer) ELSE BufSize IN
       /\ buf' = SubSeq(toServer, 1, n)
       /\ toServer' = SubSeq(toServer, n + 1, Len(toServer))
  /\ didRead' = TRUE
  /\ UNCHANGED <<client, toClient, pc, rrs, header, chunkHdr, bodyLen, bodyReadLen, body,
                 handler, dpr, closeIfIdle, entry, call, cgi, crash>>

\* EWOULDBLOCK, or end of input or an error
ReadNothing ==
  /\ InputLoop /\ buf = << >> /\ toServer = << >>
  /\ dpr' = IF clientOpen THEN [dpr EXCEPT !.req = AwaitRead("socket")]
                          ELSE [dpr EXCEPT !.closeConn = TRUE]
  /\ UNCHANGED <<client, net, pc, parse, handler, invocation, cgi, crash>>

Die(how) ==
  /\ crash' = how /\ pc' = "crashed"
  /\ UNCHANGED <<client, net, parse, handler, dpr, invocation, cgi>>

\* takes the next token from the buffer
Take == /\ InputLoop /\ buf # << >>
        /\ buf' = Tail(buf)
        /\ UNCHANGED <<client, net, pc, dpr, invocation, crash>>

\* appendData, lines 133 to 162: a piece of the header
HeadPiece ==
  /\ rrs \in {"IDLE", "READ_HEAD"} /\ Take
  /\ Head(buf).t # "head"
  /\ rrs' = "READ_HEAD" /\ header' = Head(buf).k
  /\ UNCHANGED <<chunkHdr, bodyLen, bodyReadLen, body, handler, cgi>>

\* the end of the header: onFinishedHeader
HeadEnd ==
  /\ rrs \in {"IDLE", "READ_HEAD"} /\ Take
  /\ Head(buf).t = "head"
  /\ LET k == Head(buf).k
         h == reqhdlr_new(k)
         c == IF h.kind = "CGI" THEN CgiStarted ELSE NoCgi
         hasBody == script[k].chunked \/ script[k].body > 0
     IN  /\ header' = k
         /\ chunkHdr' = script[k].chunked
         /\ bodyLen' = IF script[k].chunked THEN bodyLen ELSE script[k].body
         /\ rrs' = IF hasBody THEN "READ_BODY" ELSE "READ_FINISHED"
         /\ handler' = IF hasBody THEN h ELSE Completed(h, k)
         /\ cgi' = IF hasBody THEN c ELSE InputClosed(h, c)
  /\ body' = << >>
  /\ UNCHANGED bodyReadLen

MoreBody == rrs = "READ_BODY" /\ bodyReadLen < bodyLen

\* cgiexe_processData: the pipe is full
BodyBlocked ==
  /\ InputLoop /\ buf # << >> /\ MoreBody
  /\ handler # NULL /\ cgi.inWr /\ cgi.inRd /\ cgi.in = PipeCap
  /\ dpr' = [dpr EXCEPT !.req = AwaitWrite("cgi_in")]
  /\ UNCHANGED <<client, net, pc, parse, handler, invocation, cgi, crash>>

\* reqhdlr_processData takes it; a CGI program that closed its input gets nothing
\* more; the last byte of a Content-Length completes the request
BodyPiece ==
  /\ MoreBody /\ Take
  /\ handler # NULL /\ ~(cgi.inWr /\ cgi.inRd /\ cgi.in = PipeCap)
  /\ bodyReadLen' = bodyReadLen + 1
  /\ body' = Append(body, Head(buf))
  /\ LET c == IF ~cgi.inWr THEN cgi
              ELSE IF cgi.inRd THEN [cgi EXCEPT !.in = @ + 1]
              ELSE [cgi EXCEPT !.inWr = FALSE]
         completes == ~chunkHdr /\ bodyReadLen + 1 = bodyLen
     IN  /\ rrs' = IF completes THEN "READ_FINISHED" ELSE rrs
         /\ handler' = IF completes THEN Completed(handler, header) ELSE handler
         /\ cgi' = IF completes THEN InputClosed(handler, c) ELSE c
  /\ UNCHANGED <<header, chunkHdr, bodyLen>>

\* a chunk's size; zero ends the body
ChunkHeader ==
  /\ rrs = "READ_BODY" /\ bodyReadLen = bodyLen /\ Take
  /\ LET n == IF Head(buf).t = "chunk" THEN ChunkSize(Head(buf).k, Head(buf).n) ELSE 0 IN
       /\ bodyLen' = bodyLen + n
       /\ rrs' = IF n = 0 THEN "READ_TRAILER" ELSE rrs
  /\ UNCHANGED <<header, chunkHdr, bodyReadLen, body, handler, cgi>>

TrailerEnd ==
  /\ rrs = "READ_TRAILER" /\ Take
  /\ Head(buf).t = "end" /\ handler # NULL
  /\ rrs' = "READ_FINISHED"
  /\ handler' = Completed(handler, header)
  /\ cgi' = InputClosed(handler, cgi)
  /\ UNCHANGED <<header, chunkHdr, bodyLen, bodyReadLen, body>>

\* the response is sent and the handler freed, and the request goes on:
\* reqhdlr_processData and reqhdlr_requestReadCompleted get a null pointer
NullHandler ==
  /\ InputLoop /\ buf # << >> /\ handler = NULL
  /\ MoreBody \/ (rrs = "READ_TRAILER" /\ Head(buf).t = "end")
  /\ Die("null handler")

InputDone ==
  /\ pc = "input" /\ ~InputLoop
  /\ pc' = IF ~dpr.closeConn /\ handler # NULL THEN "answer" ELSE "done"
  /\ UNCHANGED <<client, net, parse, handler, dpr, invocation, cgi, crash>>

Input == \/ Begin \/ ReadSocket \/ ReadNothing \/ HeadPiece \/ HeadEnd \/ BodyBlocked
         \/ BodyPiece \/ ChunkHeader \/ TrailerEnd \/ NullHandler \/ InputDone

----------------------------------------------------------------------------
(* reqhdlr_progressResponse: the response of a CGI program and rsndr_send. *)

Answering == pc = "answer" /\ handler # NULL

Answer == Answering /\ UNCHANGED <<client, toServer, parse, invocation, crash>>

\* the call returns false: it waits for the descriptor
Await(r) == dpr' = [dpr EXCEPT !.resp = r] /\ pc' = "done" /\ UNCHANGED <<toClient, handler, cgi>>

\* the call returns true: reqhdlr_free closes what is left of the pipes
Finished == handler' = NULL /\ cgi' = NoCgi /\ pc' = "done"

SetResp(r) == handler' = [handler EXCEPT !.resp = r]

NoResponseYet ==
  /\ Answer /\ handler.resp = NULL /\ handler.kind # "CGI"
  /\ pc' = "done"
  /\ UNCHANGED <<toClient, handler, dpr, cgi>>

\* cgiexe_getResponse: the program's header, the end of its output, or neither
CgiHeader ==
  /\ Answer /\ handler.resp = NULL /\ handler.kind = "CGI"
  /\ \/ /\ cgi.out # << >> /\ ~script[header].onlyHead
        /\ SetResp(CgiPage(header)) /\ cgi' = [cgi EXCEPT !.out = Tail(@)]
        /\ UNCHANGED <<toClient, dpr, pc>>
     \/ /\ cgi.out = << >> /\ ~cgi.outWr /\ ~script[header].onlyHead
        /\ SetResp(Page(header)) /\ cgi' = [cgi EXCEPT !.outRd = FALSE]
        /\ UNCHANGED <<toClient, dpr, pc>>
     \/ /\ cgi.out = << >> /\ cgi.outWr
        /\ Await(AwaitRead("cgi_out"))

\* cgiexe_getResponse adds to the body, and the response to HEAD has none
NullBody ==
  /\ Answering /\ handler.resp = NULL /\ handler.kind = "CGI" /\ script[header].onlyHead
  /\ cgi.out # << >> \/ ~cgi.outWr
  /\ Die("null body")

HasQueue == Answering /\ handler.resp # NULL /\ handler.resp.queue # << >>

\* write() on the socket takes a token; a peer that closed may not get it
Write ==
  /\ Answer /\ HasQueue
  /\ Len(toClient) < SockCap \/ ~clientOpen
  /\ toClient' = IF clientOpen THEN Append(toClient, Head(handler.resp.queue)) ELSE toClient
  /\ SetResp([handler.resp EXCEPT !.queue = Tail(@)])
  /\ UNCHANGED <<pc, dpr, cgi>>

WriteBlocked ==
  /\ Answer /\ HasQueue /\ clientOpen /\ Len(toClient) = SockCap
  /\ Await(AwaitWrite("socket"))

\* ECONNRESET, EPIPE
WriteError ==
  /\ Answer /\ HasQueue /\ ~clientOpen
  /\ dpr' = [dpr EXCEPT !.closeConn = TRUE]
  /\ Finished
  /\ UNCHANGED toClient

\* fillBuffer, from the program's output: a chunk, the last chunk, or neither
Fill ==
  /\ Answer /\ handler.resp # NULL /\ handler.resp.queue = << >> /\ handler.resp.more
  /\ \/ /\ cgi.out # << >>
        /\ SetResp([handler.resp EXCEPT !.queue = <<[k |-> header, u |-> "data"]>>])
        /\ cgi' = [cgi EXCEPT !.out = Tail(@)]
        /\ UNCHANGED <<toClient, dpr, pc>>
     \/ /\ cgi.out = << >> /\ ~cgi.outWr
        /\ SetResp([queue |-> <<[k |-> header, u |-> "last"]>>, more |-> FALSE])
        /\ cgi' = [cgi EXCEPT !.outRd = FALSE]
        /\ UNCHANGED <<toClient, dpr, pc>>
     \/ /\ cgi.out = << >> /\ cgi.outWr
        /\ Await(AwaitRead("cgi_out"))

Sent ==
  /\ Answer /\ handler.resp # NULL /\ handler.resp.queue = << >> /\ ~handler.resp.more
  /\ Finished
  /\ UNCHANGED <<toClient, dpr>>

Response == NoResponseYet \/ CgiHeader \/ NullBody \/ Write \/ WriteBlocked \/ WriteError
            \/ Fill \/ Sent

----------------------------------------------------------------------------
(* The end of the outer loop (lines 225 to 265), conn_free, and select. *)

NotComplete == dpr.closeConn \/ rrs # "READ_FINISHED" \/ handler # NULL

Done == pc = "done" /\ UNCHANGED <<client, net, body, handler, invocation, cgi>>

\* log_fatal("INTERNAL ERROR: ..."): a complete request with a descriptor to wait for
Insane == ~NotComplete /\ (dpr.req # READY \/ dpr.resp # READY)

LeaveLoop ==
  /\ Done
  /\ ~NotComplete /\ ~Insane => script[header].close
  /\ dpr' = [dpr EXCEPT !.closeConn = @ \/ ~NotComplete]
  /\ crash' = IF Insane THEN "INTERNAL ERROR" ELSE crash
  /\ pc' = IF Insane THEN "crashed" ELSE "return"
  /\ UNCHANGED <<rrs, buf, header, chunkHdr, bodyLen, bodyReadLen>>

\* "re-intialize", and on with what is left in the buffer
NextRequest ==
  /\ Done /\ ~NotComplete /\ ~Insane /\ ~script[header].close
  /\ rrs' = "IDLE" /\ header' = NULL /\ chunkHdr' = FALSE
  /\ bodyLen' = 0 /\ bodyReadLen' = 0
  /\ pc' = "input"
  /\ UNCHANGED <<buf, dpr, crash>>

\* "closing even when not isVeryIdle"
Evicted == ~dpr.closeConn /\ closeIfIdle /\ rrs = "IDLE"

Return ==
  /\ pc = "return"
  /\ LET result == IF dpr.closeConn \/ Evicted THEN "CONN_TO_CLOSE"
                   ELSE IF entry = "IDLE" /\ ~didRead THEN "CONN_IDLE" ELSE "CONN_BUSY"
     IN  /\ call' = [didRead |-> didRead, closeIfIdle |-> closeIfIdle, result |-> result]
         /\ \/ result # "CONN_TO_CLOSE" /\ pc' = "select" /\ UNCHANGED <<buf, handler, cgi>>
            \/ /\ result = "CONN_TO_CLOSE" /\ pc' = "closed"
               /\ buf' = << >> /\ handler' = NULL /\ cgi' = NoCgi
  /\ UNCHANGED <<client, net, rrs, header, chunkHdr, bodyLen, bodyReadLen, body, dpr,
                 closeIfIdle, didRead, entry, crash>>

Ready(a) ==
  \/ a = AwaitRead("socket") /\ (toServer # << >> \/ ~clientOpen)
  \/ a = AwaitWrite("socket") /\ (Len(toClient) < SockCap \/ ~clientOpen)
  \/ a = AwaitRead("cgi_out") /\ (cgi.out # << >> \/ ~cgi.outWr)
  \/ a = AwaitWrite("cgi_in") /\ (cgi.in < PipeCap \/ ~cgi.inRd)

\* the pipe was closed after it was set down as the descriptor to wait for
Stale == dpr.req = AwaitWrite("cgi_in") /\ ~cgi.inWr

Select ==
  /\ pc = "select" /\ ~Stale
  /\ Ready(dpr.req) \/ Ready(dpr.resp)
  /\ pc' = "begin"
  /\ UNCHANGED <<client, net, parse, handler, dpr, invocation, cgi, crash>>

\* select returned for another connection
SelectOther ==
  /\ pc = "select" /\ ~Stale
  /\ pc' = "begin"
  /\ UNCHANGED <<client, net, parse, handler, dpr, invocation, cgi, crash>>

\* select fails with EBADF: log_fatal
SelectFails == pc = "select" /\ Stale /\ Die("EBADF")

Server == \/ Input \/ Response \/ LeaveLoop \/ NextRequest \/ Return
          \/ Select \/ SelectFails

Next == Environment \/ Server \/ SelectOther

Spec == Init /\ [][Next]_vars

\* The server runs while it has something to do; the client sends all of its
\* requests and reads the answers; a CGI program reads its input and ends.
FairSpec ==
  Spec /\ WF_vars(Server) /\ WF_vars(Send) /\ WF_vars(Receive)
       /\ WF_vars(CgiRead) /\ WF_vars(CgiExit)

----------------------------------------------------------------------------
(* Properties. *)

TypeOK ==
  /\ script \in Scripts /\ clientOpen \in BOOLEAN
  /\ toSend \in Tokens
  /\ toServer \in Seq(Tokens) /\ buf \in Seq(Tokens) /\ body \in Seq(Tokens)
  /\ got \in Seq(Outputs) /\ toClient \in Seq(Outputs) /\ Len(toClient) <= SockCap
  /\ pc \in {"begin", "input", "answer", "done", "return", "select", "closed", "crashed"}
  /\ rrs \in ReadStates /\ entry \in ReadStates
  /\ header \in {NULL} \union DOMAIN script
  /\ chunkHdr \in BOOLEAN /\ closeIfIdle \in BOOLEAN /\ didRead \in BOOLEAN
  /\ bodyLen \in Nat /\ bodyReadLen \in 0 .. bodyLen
  /\ handler \in {NULL} \union Handlers
  /\ dpr \in [closeConn : BOOLEAN, req : Awaits, resp : Awaits]
  /\ call \in [didRead : BOOLEAN, closeIfIdle : BOOLEAN, result : Results]
  /\ cgi \in Programs /\ Len(cgi.out) <= PipeCap

\* What a handler is given is the body of its own request from the first byte on,
\* in order, whatever pieces it came in and however often the CGI pipe was full;
\* and all of it is there when the request counts as read.  Nothing of the next
\* pipelined request bleeds into it.
BodyIsOwn ==
  handler # NULL =>
    /\ \A p \in 1 .. Len(body) : body[p] = Token("data", header, p)
    /\ rrs = "READ_FINISHED" => Len(body) = script[header].body

\* The client gets whole responses, one per request, in the order of the requests.
Stream == got \o toClient

ResponsesInOrder ==
  \A p \in 1 .. Len(Stream) :
    LET before == IF p = 1 THEN [k |-> 0, u |-> "last"] ELSE Stream[p - 1] IN
    IF before.u = "last" THEN Stream[p] = [k |-> before.k + 1, u |-> "head"]
                         ELSE Stream[p].k = before.k /\ Stream[p].u # "head"

\* When the server waits, no input it could take is left in its own buffer (no
\* event would come for it): a piece there waits for room in the CGI pipe, or for
\* the response to the request before it.
NoForgottenInput ==
  pc = "select" /\ buf # << >> =>
    rrs = "READ_FINISHED" \/ (rrs = "READ_BODY" /\ dpr.req = AwaitWrite("cgi_in"))

\* The sanity check of line 230 never fails: a request whose response is sent and
\* whose input is read leaves no descriptor to wait for.
NoInternalError == crash # "INTERNAL ERROR"

\* A waiting server holds an end of a pipe only for a handler that still uses it,
\* and a CGI program whose request is read will find the end of its input.
PipesInUse ==
  pc \in {"select", "closed"} =>
    /\ cgi.inWr \/ cgi.outRd => handler # NULL /\ handler.kind = "CGI"
    /\ rrs = "READ_FINISHED" => ~cgi.inWr

\* What the main loop relies on.
InCall == \/ pc \in {"input", "answer", "done", "return"}
          \/ crash \in {"null handler", "null body", "INTERNAL ERROR"}
Contract == INSTANCE ConnContract
  WITH rrs <- IF (IF InCall THEN entry ELSE rrs) = "IDLE" THEN "RRS_IDLE" ELSE "IN_REQUEST",
       call <- call
ContractMet == Contract!Spec

\* cgiexecutor.h:39: "The moment of response availability is unrelated to request
\* processing progress": a handler takes the body also after its response is sent.
HandlerOutlivesBody == crash # "null handler"

\* dataprocessingresult: a descriptor to wait for is an open one.
AwaitedIsOpen == pc = "select" => ~Stale

\* Every request is answered, up to one that closes the connection, if the client
\* and the CGI programs do their part.
Expected == {k \in DOMAIN script : \A j \in 1 .. (k - 1) : ~script[j].close}
AllAnswered ==
  <>(\A k \in Expected : \E p \in DOMAIN got : got[p] = [k |-> k, u |-> "last"])
=============================================================================
