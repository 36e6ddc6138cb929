--------------------------- MODULE ResponseSender ---------------------------
(* How one response goes to the socket (responsesender.c): the header with the *)
(* length it promises, then the body, from memory, from a regular file or, in  *)
(* chunks, from the pipe of a CGI program.  The file may change and the pipe   *)
(* may end at any time, the socket's buffer may be full between any two writes. *)
(*                                                                             *)
(* Bytes are counted, not stored; a chunk's size line, its closing CRLF and    *)
(* the last chunk are one token each, and so is the header.  A decoder reads    *)
(* these tokens as they are written to the socket.                             *)
EXTENDS Integers

CONSTANTS
  BufCap,     \* bytes fillBuffer puts into the buffer at most (65536)
  SockCap,    \* tokens the socket's send buffer holds
  MaxMem,     \* bound: bytes of body in memory
  MaxFile,    \* bound: bytes of a file, bytes a CGI program writes
  MayFail,    \* whether read() of the file may fail
  PeerStays   \* the peer does not close

ASSUME CapAssumption == BufCap \in Nat \ {0} /\ SockCap \in Nat \ {0}
ASSUME BoundAssumption == MaxMem \in Nat /\ MaxFile \in Nat
ASSUME FlagAssumption == MayFail \in BOOLEAN /\ PeerStays \in BOOLEAN

VARIABLES
  resp,       \* what rsndr_new was given: method ("HEAD": no body; "GET" for the others),
              \* mem (bytes in memory), kind ("none", "regular", "pipe"), size (fstat)
  fileSize,   \* bytes in the file now, or written to the pipe so far
  fileOff,    \* bytes read of it
  writer,     \* the other end of the pipe: "open" or "closed"
  source,     \* ghost: "damaged" once the file was shorter than promised or a read failed
  header,     \* "unsent": rsndr->header # NULL; or "sent"
  buf,        \* what is left from dataOffset to dataSize, in this order: size (of the
              \* chunk; 0 if none), bytes, zeros (padding), crlf (0 or 1),
              \* last (0 or 1, the last chunk)
  nbytes,     \* rsndr->nbytes
  fileDesc,   \* rsndr->fileDesc: "open" or "none"
  filled,     \* filledCount, without the 10 bytes kept for the chunk's size
  pc,         \* "send" and "fill": in rsndr_send, in fillBuffer's reading loop;
              \* "wait": it returned false; "done": it returned true;
              \* "failed": it returned true and set dpr->closeConn
  await,      \* dpr->respState
  inFlight,   \* tokens in the socket's send buffer
  peerSocket, \* "open" or "closed"
  peer        \* the decoder

file == <<fileSize, fileOff, writer, source>>
sender == <<resp, header, buf, nbytes, fileDesc, filled, pc, await>>
vars == <<sender, file, inFlight, peerSocket, peer>>

\* fileDesc is not a regular file: Transfer-Encoding: chunked
Chunked == -1

Buffer(n, bytes, zeros, crlf, last) ==
  [size |-> n, bytes |-> bytes, zeros |-> zeros, crlf |-> crlf, last |-> last]
NoData == Buffer(0, 0, 0, 0, 0)
Chunk(n, last) == Buffer(n, n, 0, IF n > 0 THEN 1 ELSE 0, last)
Plain(n, zeros) == Buffer(0, n, zeros, 0, 0)

----------------------------------------------------------------------------
(* A decoder of HTTP/1.1 messages, and the rest of the outside world.      *)

Peer(st, left, bytes, zeros) == [st |-> st, left |-> left, bytes |-> bytes, zeros |-> zeros]
PeerAtStart == Peer("head", 0, 0, 0)
PeerBad(p) == Peer("bad", p.left, p.bytes, p.zeros)

\* promised: the Content-Length, or Chunked
PeerHeader(p, method, promised) ==
  IF p.st # "head" THEN PeerBad(p)
  ELSE IF method # "HEAD" /\ promised = Chunked THEN Peer("size", 0, 0, 0)
  ELSE IF method # "HEAD" /\ promised > 0 THEN Peer("length", promised, 0, 0)
  ELSE Peer("done", 0, 0, 0)

PeerSize(p, n) ==
  IF p.st = "size" THEN Peer("data", n, p.bytes, p.zeros) ELSE PeerBad(p)

\* zero: 1 for a padding byte, else 0
PeerByte(p, zero) ==
  LET after == IF p.st = "data" THEN "crlf" ELSE "done" IN
  IF p.st \notin {"length", "data"} THEN PeerBad(p)
  ELSE Peer(IF p.left = 1 THEN after ELSE p.st, p.left - 1, p.bytes + 1, p.zeros + zero)

PeerCrlf(p) == IF p.st = "crlf" THEN Peer("size", 0, p.bytes, p.zeros) ELSE PeerBad(p)

PeerLast(p) == IF p.st = "size" THEN Peer("done", 0, p.bytes, p.zeros) ELSE PeerBad(p)

PeerReads ==
  /\ inFlight > 0 /\ inFlight' = inFlight - 1
  /\ UNCHANGED <<sender, file, peerSocket, peer>>

PeerCloses ==
  /\ ~PeerStays /\ peerSocket = "open" /\ peerSocket' = "closed"
  /\ UNCHANGED <<sender, file, inFlight, peer>>

\* another process, or an upload to this server, truncates or extends the file
FileChanges ==
  /\ resp.kind = "regular"
  /\ \E n \in 0 .. MaxFile :
       /\ n # fileSize
       /\ fileSize' = n
       /\ source' = IF n < resp.size THEN "damaged" ELSE source
  /\ UNCHANGED <<sender, fileOff, writer, inFlight, peerSocket, peer>>

CgiWrites ==
  /\ writer = "open" /\ fileSize < MaxFile
  /\ fileSize' = fileSize + 1
  /\ UNCHANGED <<sender, fileOff, writer, source, inFlight, peerSocket, peer>>

CgiEnds ==
  /\ writer = "open" /\ writer' = "closed"
  /\ UNCHANGED <<sender, fileSize, fileOff, source, inFlight, peerSocket, peer>>

Environment == PeerReads \/ PeerCloses \/ FileChanges \/ CgiWrites \/ CgiEnds

----------------------------------------------------------------------------
(* Wrong variants of definitions below, none of them part of Spec: each one *)
(* breaks a property, which shows that the property can fail.              *)

\* the body in memory is not counted
PromisedFileOnly == IF resp.kind = "pipe" THEN Chunked ELSE resp.size

\* the buffer's size is asked for, not what is left of the promise
ToFillWhole == BufCap

\* a pipe that is empty for now counts as ended
AtEndWhenEmpty == fileSize - fileOff <= 0

\* the descriptor to wait for is not set
WriteBlocksUnset ==
  /\ pc = "send" /\ (header = "unsent" \/ buf # NoData) /\ peerSocket = "open" /\ inFlight = SockCap
  /\ pc' = "wait"
  /\ UNCHANGED <<resp, file, header, buf, nbytes, fileDesc, filled, await,
                 inFlight, peerSocket, peer>>

\* the end of a file ends the body: no padding, no last chunk
LoopEndsShort(closes) ==
  /\ pc = "fill"
  /\ fileDesc' = IF closes THEN "none" ELSE fileDesc
  /\ buf' = IF nbytes = Chunked THEN Chunk(filled, 0) ELSE Plain(filled, 0)
  /\ nbytes' = IF closes THEN 0 ELSE IF nbytes = Chunked THEN Chunked ELSE nbytes - filled
  /\ IF buf' = NoData /\ ~closes THEN await' = "AWAIT_READ" /\ pc' = "wait"
                                 ELSE pc' = "send" /\ UNCHANGED await
  /\ filled' = 0
  /\ UNCHANGED <<resp, header, inFlight, peerSocket, peer, fileSize, fileOff,
                 writer>>

\* no padding: the rest of the promise is still read from the closed file
LoopEndsUnpadded(closes) ==
  /\ pc = "fill"
  /\ fileDesc' = IF closes THEN "none" ELSE fileDesc
  /\ IF nbytes = Chunked
     THEN /\ buf' = Chunk(filled, IF closes THEN 1 ELSE 0)
          /\ nbytes' = IF closes THEN 0 ELSE Chunked
     ELSE /\ buf' = Plain(filled, 0)
          /\ nbytes' = nbytes - filled
  /\ IF buf' = NoData THEN await' = "AWAIT_READ" /\ pc' = "wait"
                      ELSE pc' = "send" /\ UNCHANGED await
  /\ filled' = 0
  /\ UNCHANGED <<resp, header, inFlight, peerSocket, peer, fileSize, fileOff,
                 writer>>

----------------------------------------------------------------------------
(* rsndr_new.                                                              *)

Promised == IF resp.kind = "pipe" THEN Chunked ELSE resp.mem + resp.size

\* nothing of the body is in memory for HEAD; processFileReq opens no file for it,
\* and a response from memory has no file
Responses ==
  {r \in [method : {"HEAD", "GET"}, mem : 0 .. MaxMem, kind : {"none", "regular", "pipe"},
          size : 0 .. MaxFile] :
     /\ r.method = "HEAD" => r.mem = 0 /\ r.kind = "none"
     /\ r.kind # "regular" => r.size = 0}

Init ==
  /\ resp \in Responses
  /\ fileSize = resp.size /\ fileOff = 0 /\ source = "whole"
  /\ writer = IF resp.kind = "pipe" THEN "open" ELSE "closed"
  /\ header = "unsent"
  /\ nbytes = IF resp.kind = "pipe" THEN Chunked ELSE resp.size
  /\ fileDesc = IF nbytes # 0 THEN "open" ELSE "none"
  /\ buf = IF resp.kind = "pipe" THEN Chunk(resp.mem, 0) ELSE Plain(resp.mem, 0)
  /\ filled = 0
  /\ pc = "send"
  /\ await = "READY"
  /\ inFlight = 0 /\ peerSocket = "open"
  /\ peer = PeerAtStart

----------------------------------------------------------------------------
(* rsndr_send: one action per write() of a token, per read() of the file.   *)

Pending == header = "unsent" \/ buf # NoData

\* write() takes a token; the first one after the peer closed may vanish
Write ==
  /\ pc = "send"
  /\ inFlight < SockCap \/ peerSocket = "closed"
  /\ inFlight' = IF peerSocket = "open" THEN inFlight + 1 ELSE inFlight
  /\ UNCHANGED <<resp, file, nbytes, fileDesc, filled, pc, await, peerSocket>>

WriteHeader ==
  /\ Write /\ header = "unsent"
  /\ header' = "sent"
  /\ peer' = PeerHeader(peer, resp.method, Promised)
  /\ UNCHANGED buf

WriteBody == Write /\ header = "sent" /\ UNCHANGED header

WriteSize ==
  /\ WriteBody /\ buf.size > 0
  /\ peer' = PeerSize(peer, buf.size)
  /\ buf' = Buffer(0, buf.bytes, buf.zeros, buf.crlf, buf.last)

WriteByte ==
  /\ WriteBody /\ buf.size = 0 /\ buf.bytes > 0
  /\ peer' = PeerByte(peer, 0)
  /\ buf' = Buffer(0, buf.bytes - 1, buf.zeros, buf.crlf, buf.last)

WriteZero ==
  /\ WriteBody /\ buf.size = 0 /\ buf.bytes = 0 /\ buf.zeros > 0
  /\ peer' = PeerByte(peer, 1)
  /\ buf' = Buffer(0, 0, buf.zeros - 1, buf.crlf, buf.last)

WriteCrlf ==
  /\ WriteBody /\ buf.size = 0 /\ buf.bytes = 0 /\ buf.crlf = 1
  /\ peer' = PeerCrlf(peer)
  /\ buf' = Buffer(0, 0, buf.zeros, 0, buf.last)

WriteLast ==
  /\ WriteBody /\ buf.size = 0 /\ buf.bytes = 0 /\ buf.crlf = 0 /\ buf.last = 1
  /\ peer' = PeerLast(peer)
  /\ buf' = Buffer(0, 0, buf.zeros, 0, 0)

\* EWOULDBLOCK
WriteBlocks ==
  /\ pc = "send" /\ Pending /\ peerSocket = "open" /\ inFlight = SockCap
  /\ await' = "AWAIT_WRITE" /\ pc' = "wait"
  /\ UNCHANGED <<resp, file, header, buf, nbytes, fileDesc, filled, inFlight,
                 peerSocket, peer>>

\* ECONNRESET, EPIPE
WriteFails ==
  /\ pc = "send" /\ Pending /\ peerSocket = "closed"
  /\ pc' = "failed"
  /\ UNCHANGED <<resp, file, header, buf, nbytes, fileDesc, filled, await, inFlight,
                 peerSocket, peer>>

Finished ==
  /\ pc = "send" /\ ~Pending /\ nbytes = 0
  /\ pc' = "done"
  /\ UNCHANGED <<resp, file, header, buf, nbytes, fileDesc, filled, await,
                 inFlight, peerSocket, peer>>

\* the caller comes back with a new DataProcessingResult: select found what was
\* awaited, or something of another connection
Resume ==
  /\ pc = "wait"
  /\ await' = "READY" /\ pc' = "send"
  /\ UNCHANGED <<resp, file, header, buf, nbytes, fileDesc, filled, inFlight,
                 peerSocket, peer>>

----------------------------------------------------------------------------
(* fillBuffer.                                                             *)

ToFill == IF nbytes = Chunked \/ nbytes > BufCap THEN BufCap ELSE nbytes

Available == fileSize - fileOff

AtEnd == Available <= 0 /\ writer = "closed"

FillBuffer ==
  /\ pc = "send" /\ ~Pending /\ nbytes # 0
  /\ filled' = 0 /\ pc' = "fill"
  /\ UNCHANGED <<resp, file, header, buf, nbytes, fileDesc, await, inFlight,
                 peerSocket, peer>>

ReadFile ==
  /\ pc = "fill" /\ fileDesc = "open"
  /\ \E n \in 1 .. (ToFill - filled) :
       /\ n <= Available
       /\ filled' = filled + n
       /\ fileOff' = fileOff + n
  /\ UNCHANGED <<resp, fileSize, writer, source, header, buf, nbytes, fileDesc, pc, await, inFlight,
                 peerSocket, peer>>

\* What follows the loop; closes: a read gave the end of the file or an error.  A
\* regular file is padded from then on up to its promised size (lines 90 to 108); a
\* pipe's chunk is framed and the last chunk added (lines 117 to 141).
LoopEnds(closes) ==
  /\ pc = "fill"
  /\ fileDesc' = IF closes THEN "none" ELSE fileDesc
  /\ LET zeros == IF fileDesc' = "none" THEN ToFill - filled ELSE 0 IN
       IF nbytes = Chunked
       THEN /\ buf' = Chunk(filled, IF closes THEN 1 ELSE 0)
            /\ nbytes' = IF closes THEN 0 ELSE Chunked
       ELSE /\ buf' = Plain(filled, zeros)
            /\ nbytes' = nbytes - (filled + zeros)
  /\ IF buf' = NoData THEN await' = "AWAIT_READ" /\ pc' = "wait"
                      ELSE pc' = "send" /\ UNCHANGED await
  /\ filled' = 0
  /\ UNCHANGED <<resp, header, inFlight, peerSocket, peer, fileSize, fileOff,
                 writer>>

\* the buffer is full, or the file was closed before
ReadEnough == (filled = ToFill \/ fileDesc = "none") /\ LoopEnds(FALSE) /\ UNCHANGED source

ReadShort == fileDesc = "open" /\ filled < ToFill

ReadEof == ReadShort /\ AtEnd /\ LoopEnds(TRUE) /\ UNCHANGED source

ReadFails == MayFail /\ ReadShort /\ LoopEnds(TRUE) /\ source' = "damaged"

\* EWOULDBLOCK, which a regular file never gives
ReadBlocks ==
  /\ ReadShort /\ Available = 0 /\ writer = "open"
  /\ LoopEnds(FALSE)
  /\ UNCHANGED source

Send == \/ WriteHeader \/ WriteSize \/ WriteByte \/ WriteZero \/ WriteCrlf \/ WriteLast
        \/ WriteBlocks \/ WriteFails \/ Finished
        \/ FillBuffer \/ ReadFile \/ ReadEnough \/ ReadEof \/ ReadFails \/ ReadBlocks

Next == Environment \/ Send \/ Resume

Spec == Init /\ [][Next]_vars

\* what select waits for
Ready == \/ await = "AWAIT_WRITE" /\ (inFlight < SockCap \/ peerSocket = "closed")
         \/ await = "AWAIT_READ" /\ (Available # 0 \/ writer = "closed")

\* The server goes on when select says so; the peer reads; a CGI program ends.
FairSpec == /\ Spec /\ WF_vars(Send) /\ WF_vars(Ready /\ Resume)
            /\ WF_vars(PeerReads) /\ WF_vars(CgiEnds)

----------------------------------------------------------------------------
(* Properties.                                                             *)

TypeOK ==
  /\ resp \in Responses
  /\ fileSize \in Nat /\ fileOff \in Nat /\ source \in {"whole", "damaged"}
  /\ writer \in {"open", "closed"} /\ fileDesc \in {"open", "none"}
  /\ header \in {"unsent", "sent"}
  /\ buf \in [size : Nat, bytes : Nat, zeros : Nat, crlf : {0, 1}, last : {0, 1}]
  /\ nbytes \in {Chunked} \union 0 .. MaxFile
  /\ filled \in 0 .. BufCap
  /\ pc \in {"send", "fill", "wait", "done", "failed"}
  /\ await \in {"READY", "AWAIT_READ", "AWAIT_WRITE"}
  /\ inFlight \in 0 .. SockCap /\ peerSocket \in {"open", "closed"}
  /\ peer \in [st : {"head", "length", "size", "data", "crlf", "done", "bad"},
               left : Nat, bytes : Nat, zeros : Nat]

\* What the peer gets is a well-formed message at every moment, whatever happens to
\* the file or the pipe meanwhile: never a byte beyond the length promised or the
\* chunk announced, never a chunk or a second end after the end.
Framed == peer.st # "bad"

\* rsndr_send returns true without closeConn only when the peer has the message to
\* its end: the connection can carry the next response.
WholeWhenDone == pc = "done" => peer.st = "done"

\* A file that was not truncated and a CGI program's whole output arrive byte for
\* byte: nothing is lost, sent twice or padded, however the reads were cut.
Delivered ==
  pc = "done" /\ source = "whole" =>
    /\ peer.zeros = 0
    /\ peer.bytes = resp.mem + (IF resp.kind = "pipe" THEN fileSize ELSE resp.size)

\* "When not finished, the DataProcessingResult.respState and respAwaitFd are set
\* appropriately" (responsesender.h:32-33): for the socket while something is
\* pending, else for a pipe that is still open.
WaitIsSet ==
  pc = "wait" => IF Pending THEN await = "AWAIT_WRITE"
                 ELSE await = "AWAIT_READ" /\ fileDesc = "open" /\ nbytes = Chunked

\* The response ends, however the file changes meanwhile.
ResponseEnds == <>(pc \in {"done", "failed"})
=============================================================================
