---------------------- MODULE ResponseSenderProofs ----------------------
(* Theorems about ResponseSender, for every size of the buffers and of the *)
(* body, every partial read and write and every change of the file.       *)
EXTENDS ResponseSender, TLAPS

Pipe == resp.kind = "pipe"

(* Which combinations of the sender's fields occur. *)
Shape ==
  /\ writer = "open" => Pipe
  /\ Pipe => fileOff <= fileSize
  /\ source = "whole" => fileSize >= resp.size
  /\ nbytes = Chunked => Pipe /\ fileDesc = "open"
  /\ Pipe /\ nbytes = 0 => fileDesc = "none"
  /\ Pipe => nbytes \in {Chunked, 0} /\ buf.zeros = 0
  /\ ~Pipe => buf.size = 0 /\ buf.crlf = 0 /\ buf.last = 0
  /\ resp.kind = "none" => nbytes = 0
  /\ pc = "fill" => header = "sent" /\ buf = NoData /\ nbytes # 0 /\ filled <= ToFill
  /\ pc # "fill" => filled = 0
  /\ pc = "done" => ~Pending /\ nbytes = 0
  /\ pc = "wait" => IF Pending THEN await = "AWAIT_WRITE"
                    ELSE await = "AWAIT_READ" /\ fileDesc = "open" /\ nbytes = Chunked

(* What the decoder has to get still is what the sender has still to send. *)
Left == buf.bytes + buf.zeros + nbytes

InHeader ==
  header = "unsent" => /\ peer = PeerAtStart
                       /\ Pipe => nbytes = Chunked /\ buf = Chunk(resp.mem, 0)
                       /\ ~Pipe => Left = resp.mem + resp.size

InLength ==
  ~Pipe /\ header = "sent" => /\ peer.left = Left
                              /\ peer.st = IF Left = 0 THEN "done" ELSE "length"

InChunks ==
  Pipe => /\ nbytes = Chunked => buf.last = 0
          /\ buf.size > 0 => buf.bytes = buf.size
          /\ buf.bytes > 0 => buf.crlf = 1
          /\ buf.crlf = 1 => buf.last = 1 \/ nbytes = Chunked
          /\ header = "sent" =>
               peer.st = IF buf.size > 0 THEN "size"
                         ELSE IF buf.bytes > 0 THEN "data"
                         ELSE IF buf.crlf = 1 THEN "crlf"
                         ELSE IF buf.last = 1 \/ nbytes = Chunked THEN "size" ELSE "done"
          /\ peer.st = "data" => peer.left = buf.bytes

Decoded == /\ InHeader /\ InLength /\ InChunks
           /\ resp.method = "HEAD" => buf = NoData /\ nbytes = 0

(* While the file was neither truncated nor failed, every byte read of it is *)
(* in the buffer or at the peer, and what was not read is still promised.    *)
Counted ==
  source = "whole" =>
    /\ peer.zeros = 0 /\ buf.zeros = 0
    /\ peer.bytes + buf.bytes + filled = resp.mem + fileOff
    /\ Pipe /\ fileDesc = "none" => fileOff = fileSize /\ writer = "closed"
    /\ ~Pipe => /\ fileOff - filled + nbytes = resp.size
                /\ nbytes # 0 => fileDesc = "open"

IInv == TypeOK /\ Shape /\ Decoded /\ Counted

USE CapAssumption, BoundAssumption, FlagAssumption
USE DEF Chunked

LEMMA ResponsesFacts ==
  ASSUME NEW r \in Responses
  PROVE  /\ r \in [method : {"HEAD", "GET"}, mem : Nat, kind : {"none", "regular", "pipe"}, size : Nat]
         /\ r.mem \in 0 .. MaxMem /\ r.size \in 0 .. MaxFile
         /\ r.method = "HEAD" => r.mem = 0 /\ r.kind = "none"
         /\ r.kind # "regular" => r.size = 0
  BY DEF Responses

LEMMA InitInv == Init => IInv
<1> SUFFICES ASSUME Init PROVE IInv
  OBVIOUS
<1> USE DEF Init, Chunk, Plain, Buffer, NoData, Peer, PeerAtStart, Pipe
<1>1. /\ resp.mem \in Nat /\ resp.size \in 0 .. MaxFile /\ resp.size \in Nat
      /\ resp.kind \in {"none", "regular", "pipe"}
      /\ resp.method = "HEAD" => resp.mem = 0 /\ resp.kind = "none"
      /\ resp.kind # "regular" => resp.size = 0
  BY ResponsesFacts
<1>2. TypeOK
  BY <1>1 DEF TypeOK
<1>3. Shape
  BY <1>1 DEF Shape, Pending
<1>4. Decoded
  BY <1>1 DEF Decoded, InHeader, InLength, InChunks, Left
<1>5. Counted
  BY <1>1 DEF Counted
<1> QED BY <1>2, <1>3, <1>4, <1>5 DEF IInv

(* The outside world moves neither the sender nor the decoder. *)
LEMMA EnvironmentInv == IInv /\ Environment => IInv'
<1> SUFFICES ASSUME IInv, Environment PROVE IInv'
  OBVIOUS
<1>1. /\ UNCHANGED <<sender, fileOff, peer>>
      /\ fileSize' \in Nat
      /\ source' \in {"whole", "damaged"}
      /\ source' = "whole" => source = "whole" /\ fileSize' >= resp.size
      /\ writer' \in {"open", "closed"} /\ (writer' = "open" => writer = "open")
      /\ Pipe => fileSize' >= fileSize /\ (writer = "closed" => fileSize' = fileSize)
      /\ inFlight' \in 0 .. SockCap /\ peerSocket' \in {"open", "closed"}
  <2> USE DEF IInv, TypeOK, Shape, Pipe, sender, file
  <2>1. CASE PeerReads
    BY <2>1 DEF PeerReads
  <2>2. CASE PeerCloses
    BY <2>2 DEF PeerCloses
  <2>3. CASE FileChanges
    BY <2>3, ResponsesFacts DEF FileChanges
  <2>4. CASE CgiWrites
    BY <2>4, ResponsesFacts DEF CgiWrites
  <2>5. CASE CgiEnds
    BY <2>5 DEF CgiEnds
  <2> QED BY <2>1, <2>2, <2>3, <2>4, <2>5 DEF Environment
<1>2. TypeOK'
  BY <1>1 DEF IInv, TypeOK, sender
<1>3. Shape'
  BY <1>1, ResponsesFacts DEF IInv, TypeOK, Shape, Pipe, Pending, ToFill, sender
<1>4. Decoded'
  BY <1>1 DEF IInv, Decoded, InHeader, InLength, InChunks, Left, Pipe, sender
<1>5. Counted'
  BY <1>1 DEF IInv, TypeOK, Counted, Shape, Pipe, sender
<1> QED BY <1>2, <1>3, <1>4, <1>5 DEF IInv

(* One token is written.  What every such step leaves alone comes first.  *)
BufferType == [size : Nat, bytes : Nat, zeros : Nat, crlf : {0, 1}, last : {0, 1}]
PeerType == [st : {"head", "length", "size", "data", "crlf", "done", "bad"},
             left : Nat, bytes : Nat, zeros : Nat]

LEMMA NoDataFields ==
  ASSUME NEW r \in BufferType
  PROVE  r = NoData <=> /\ r.size = 0 /\ r.bytes = 0 /\ r.zeros = 0
                        /\ r.crlf = 0 /\ r.last = 0
  BY DEF BufferType, NoData, Buffer

LEMMA WriteFrame ==
  ASSUME IInv, Write, header' = "sent", buf' \in BufferType, peer' \in PeerType,
         Pipe => buf'.zeros = 0,
         ~Pipe => buf'.size = 0 /\ buf'.crlf = 0 /\ buf'.last = 0
  PROVE  TypeOK' /\ Shape'
<1>1. /\ UNCHANGED <<resp, fileSize, fileOff, writer, source, nbytes, fileDesc, filled, pc, await,
                     peerSocket>>
      /\ pc = "send" /\ inFlight' \in 0 .. SockCap
  BY DEF Write, IInv, TypeOK, file
<1>2. TypeOK'
  BY <1>1 DEF IInv, TypeOK, BufferType, PeerType
<1>3. Shape'
  BY <1>1 DEF IInv, Shape, Pipe
<1> QED BY <1>2, <1>3

LEMMA WriteBodyFrame ==
  ASSUME IInv, WriteBody, buf # NoData
  PROVE  /\ UNCHANGED <<resp, fileSize, fileOff, writer, source, nbytes, fileDesc, filled, pc, await,
                        peerSocket>>
         /\ pc = "send" /\ header = "sent" /\ header' = "sent" /\ filled = 0
         /\ resp.method # "HEAD"
         /\ buf \in BufferType /\ peer \in PeerType
         /\ nbytes \in {-1} \union Nat /\ fileOff \in Nat /\ fileSize \in Nat
         /\ Pipe => nbytes \in {-1, 0} /\ buf.zeros = 0
         /\ ~Pipe => buf.size = 0 /\ buf.crlf = 0 /\ buf.last = 0 /\ nbytes # -1
  BY DEF WriteBody, Write, IInv, TypeOK, Shape, Decoded, BufferType, PeerType, file

LEMMA WriteHeaderInv == IInv /\ WriteHeader => IInv'
<1> SUFFICES ASSUME IInv, WriteHeader PROVE IInv'
  OBVIOUS
<1>1. /\ UNCHANGED <<resp, fileSize, fileOff, writer, source, nbytes, fileDesc, filled, pc, await,
                     peerSocket, buf>>
      /\ header = "unsent" /\ header' = "sent"
      /\ peer = Peer("head", 0, 0, 0)
      /\ peer' = PeerHeader(peer, resp.method, Promised)
      /\ buf \in BufferType /\ resp \in Responses
  <2>1. peer = Peer("head", 0, 0, 0)
    BY DEF WriteHeader, IInv, Decoded, InHeader, PeerAtStart
  <2>2. buf \in BufferType /\ resp \in Responses
    BY DEF IInv, TypeOK, BufferType
  <2> QED BY <2>1, <2>2 DEF WriteHeader, Write, file
<1>2. /\ Pipe => nbytes = -1 /\ buf.zeros = 0 /\ resp.method # "HEAD"
      /\ ~Pipe => /\ Left = resp.mem + resp.size /\ nbytes \in Nat
                  /\ buf.size = 0 /\ buf.crlf = 0 /\ buf.last = 0
      /\ resp.method = "HEAD" => buf = NoData /\ nbytes = 0
      /\ resp.mem \in Nat /\ resp.size \in Nat
  <2>1. /\ resp.mem \in Nat /\ resp.size \in Nat
        /\ resp.method = "HEAD" => resp.kind = "none"
    BY <1>1, ResponsesFacts
  <2>2. /\ Pipe => nbytes = -1
        /\ ~Pipe => Left = resp.mem + resp.size
        /\ resp.method = "HEAD" => buf = NoData /\ nbytes = 0
    BY <1>1 DEF IInv, Decoded, InHeader
  <2>3. /\ Pipe => buf.zeros = 0
        /\ ~Pipe => nbytes \in Nat /\ buf.size = 0 /\ buf.crlf = 0 /\ buf.last = 0
    BY DEF IInv, TypeOK, Shape
  <2> QED BY <2>1, <2>2, <2>3 DEF Pipe
<1>3. /\ Pipe => peer' = Peer("size", 0, 0, 0)
      /\ ~Pipe => peer' = IF Left = 0 THEN Peer("done", 0, 0, 0) ELSE Peer("length", Left, 0, 0)
  <2>1. CASE Pipe
    BY <1>1, <1>2, <2>1 DEF PeerHeader, Promised, Peer, Pipe
  <2>2. CASE ~Pipe /\ resp.method = "HEAD"
    <3>1. Left = 0
      BY <1>2, <2>2 DEF Left, NoData, Buffer
    <3> QED BY <1>1, <1>2, <2>2, <3>1 DEF PeerHeader, Promised, Peer, Pipe
  <2>3. CASE ~Pipe /\ resp.method # "HEAD"
    <3>1. Promised = Left /\ Left \in Nat
      BY <1>2, <2>3 DEF Promised, Pipe
    <3>2. PeerHeader(peer, resp.method, Left) =
            IF Left = 0 THEN Peer("done", 0, 0, 0) ELSE Peer("length", Left, 0, 0)
      <4> HIDE DEF Left
      <4> QED BY <1>1, <2>3, <3>1 DEF PeerHeader, Peer
    <3> QED BY <1>1, <2>3, <3>1, <3>2
  <2> QED BY <2>1, <2>2, <2>3
<1>4. ~Pipe => Left \in Nat
  BY <1>1, <1>2 DEF Left, BufferType
<1>5. /\ peer' \in PeerType
      /\ Pipe => peer'.st = "size"
      /\ ~Pipe => /\ peer'.left = Left
                  /\ peer'.st = IF Left = 0 THEN "done" ELSE "length"
      /\ peer'.bytes = 0 /\ peer'.zeros = 0
  <2> HIDE DEF Left
  <2> QED BY <1>3, <1>4 DEF Peer, PeerType
<1>6. TypeOK' /\ Shape'
  BY <1>1, <1>2, <1>5, WriteFrame DEF WriteHeader
<1>7. Decoded'
  <2>1. InHeader' /\ (resp'.method = "HEAD" => buf' = NoData /\ nbytes' = 0)
    BY <1>1, <1>2 DEF InHeader
  <2>2. InLength'
    BY <1>1, <1>5 DEF InLength, Left, Pipe
  <2>3. InChunks'
    <3>1. Pipe => /\ buf.last = 0
                  /\ buf.size > 0 => buf.bytes = buf.size
                  /\ buf.bytes > 0 => buf.crlf = 1
                  /\ buf.size = 0 => buf.bytes = 0 /\ buf.crlf = 0
      <4>1. Pipe => buf = Chunk(resp.mem, 0)
        BY <1>1 DEF IInv, Decoded, InHeader
      <4> QED BY <1>2, <4>1 DEF Chunk, Buffer
    <3> QED BY <1>1, <1>2, <1>5, <3>1 DEF InChunks, Pipe, BufferType
  <2> QED BY <2>1, <2>2, <2>3 DEF Decoded
<1>8. Counted'
  BY <1>1, <1>5 DEF IInv, Counted, Pipe, Peer
<1> QED BY <1>6, <1>7, <1>8 DEF IInv

LEMMA WriteSizeInv == IInv /\ WriteSize => IInv'
<1> SUFFICES ASSUME IInv, WriteSize PROVE IInv'
  OBVIOUS
<1>1. buf # NoData /\ WriteBody
  BY DEF WriteSize, NoData, Buffer
<1>2. buf \in BufferType /\ peer \in PeerType
  BY <1>1, WriteBodyFrame
<1>3. Pipe /\ peer.st = "size" /\ buf.bytes = buf.size /\ buf.size > 0 /\ buf.crlf = 1
  BY <1>1, WriteBodyFrame DEF WriteSize, IInv, Decoded, InLength, InChunks, Left, BufferType, PeerType
<1>4. /\ buf' \in BufferType
      /\ buf'.size = 0 /\ buf'.bytes = buf.bytes /\ buf'.zeros = buf.zeros /\ buf'.crlf = buf.crlf /\ buf'.last = buf.last
  BY <1>2, <1>3 DEF WriteSize, BufferType, Buffer
<1>5. /\ peer' \in PeerType
      /\ peer'.st = "data" /\ peer'.left = buf.size /\ peer'.bytes = peer.bytes /\ peer'.zeros = peer.zeros
  BY <1>2, <1>3 DEF WriteSize, PeerSize, Peer, PeerType, BufferType
<1>6. TypeOK' /\ Shape'
  BY <1>1, <1>3, <1>4, <1>5, WriteFrame, WriteBodyFrame DEF WriteBody
<1>7. Decoded'
  <2>1. InHeader' /\ (resp'.method = "HEAD" => buf' = NoData /\ nbytes' = 0)
    BY <1>1, WriteBodyFrame DEF InHeader
  <2>2. InLength'
    BY <1>1, <1>3, <1>4, <1>5, WriteBodyFrame
       DEF IInv, Decoded, InLength, Left, Pipe, BufferType, PeerType
  <2>3. InChunks'
    <3>1. Pipe => /\ nbytes = -1 => buf.last = 0
                  /\ buf.size > 0 => buf.bytes = buf.size
                  /\ buf.bytes > 0 => buf.crlf = 1
                  /\ buf.crlf = 1 => buf.last = 1 \/ nbytes = -1
      BY DEF IInv, Decoded, InChunks
    <3> QED BY <1>1, <1>3, <1>4, <1>5, <3>1, WriteBodyFrame DEF InChunks, Pipe, BufferType, PeerType
  <2> QED BY <2>1, <2>2, <2>3 DEF Decoded
<1>8. Counted'
  BY <1>1, <1>3, <1>4, <1>5, WriteBodyFrame DEF IInv, Counted, Pipe, BufferType, PeerType
<1> QED BY <1>6, <1>7, <1>8 DEF IInv

LEMMA WriteByteInv == IInv /\ WriteByte => IInv'
<1> SUFFICES ASSUME IInv, WriteByte PROVE IInv'
  OBVIOUS
<1>1. buf # NoData /\ WriteBody
  BY DEF WriteByte, NoData, Buffer
<1>2. buf \in BufferType /\ peer \in PeerType
  BY <1>1, WriteBodyFrame
<1>3. /\ buf.size = 0 /\ buf.bytes > 0 /\ peer.left > 0
      /\ peer.st = IF Pipe THEN "data" ELSE "length"
      /\ Pipe => peer.left = buf.bytes /\ buf.crlf = 1
  BY <1>1, WriteBodyFrame DEF WriteByte, IInv, Decoded, InLength, InChunks, Left, BufferType, PeerType
<1>4. /\ buf' \in BufferType
      /\ buf'.size = 0 /\ buf'.bytes = buf.bytes - 1 /\ buf'.zeros = buf.zeros /\ buf'.crlf = buf.crlf /\ buf'.last = buf.last
  BY <1>2, <1>3 DEF WriteByte, BufferType, Buffer
<1>5. /\ peer' \in PeerType
      /\ peer'.st = (IF peer.left > 1 THEN peer.st ELSE IF Pipe THEN "crlf" ELSE "done") /\ peer'.left = peer.left - 1 /\ peer'.bytes = peer.bytes + 1 /\ peer'.zeros = peer.zeros
  BY <1>2, <1>3 DEF WriteByte, PeerByte, Peer, PeerType, BufferType
<1>6. TypeOK' /\ Shape'
  BY <1>1, <1>3, <1>4, <1>5, WriteFrame, WriteBodyFrame DEF WriteBody
<1>7. Decoded'
  <2>1. InHeader' /\ (resp'.method = "HEAD" => buf' = NoData /\ nbytes' = 0)
    BY <1>1, WriteBodyFrame DEF InHeader
  <2>2. InLength'
    BY <1>1, <1>3, <1>4, <1>5, WriteBodyFrame
       DEF IInv, Decoded, InLength, Left, Pipe, BufferType, PeerType
  <2>3. InChunks'
    <3>1. Pipe => /\ nbytes = -1 => buf.last = 0
                  /\ buf.size > 0 => buf.bytes = buf.size
                  /\ buf.bytes > 0 => buf.crlf = 1
                  /\ buf.crlf = 1 => buf.last = 1 \/ nbytes = -1
      BY DEF IInv, Decoded, InChunks
    <3> QED BY <1>1, <1>3, <1>4, <1>5, <3>1, WriteBodyFrame DEF InChunks, Pipe, BufferType, PeerType
  <2> QED BY <2>1, <2>2, <2>3 DEF Decoded
<1>8. Counted'
  BY <1>1, <1>3, <1>4, <1>5, WriteBodyFrame DEF IInv, Counted, Pipe, BufferType, PeerType
<1> QED BY <1>6, <1>7, <1>8 DEF IInv

LEMMA WriteZeroInv == IInv /\ WriteZero => IInv'
<1> SUFFICES ASSUME IInv, WriteZero PROVE IInv'
  OBVIOUS
<1>1. buf # NoData /\ WriteBody
  BY DEF WriteZero, NoData, Buffer
<1>2. buf \in BufferType /\ peer \in PeerType
  BY <1>1, WriteBodyFrame
<1>3. /\ ~Pipe /\ buf.size = 0 /\ buf.bytes = 0 /\ buf.zeros > 0
      /\ peer.left > 0 /\ peer.st = "length"
  BY <1>1, WriteBodyFrame DEF WriteZero, IInv, Decoded, InLength, InChunks, Left, BufferType, PeerType
<1>4. /\ buf' \in BufferType
      /\ buf'.size = 0 /\ buf'.bytes = 0 /\ buf'.zeros = buf.zeros - 1 /\ buf'.crlf = buf.crlf /\ buf'.last = buf.last
  BY <1>2, <1>3 DEF WriteZero, BufferType, Buffer
<1>5. /\ peer' \in PeerType
      /\ peer'.st = (IF peer.left > 1 THEN "length" ELSE "done") /\ peer'.left = peer.left - 1 /\ peer'.bytes = peer.bytes + 1 /\ peer'.zeros = peer.zeros + 1
  BY <1>2, <1>3 DEF WriteZero, PeerByte, Peer, PeerType, BufferType
<1>6. TypeOK' /\ Shape'
  BY <1>1, <1>3, <1>4, <1>5, WriteFrame, WriteBodyFrame DEF WriteBody
<1>7. Decoded'
  <2>1. InHeader' /\ (resp'.method = "HEAD" => buf' = NoData /\ nbytes' = 0)
    BY <1>1, WriteBodyFrame DEF InHeader
  <2>2. InLength'
    BY <1>1, <1>3, <1>4, <1>5, WriteBodyFrame
       DEF IInv, Decoded, InLength, Left, Pipe, BufferType, PeerType
  <2>3. InChunks'
    <3>1. Pipe => /\ nbytes = -1 => buf.last = 0
                  /\ buf.size > 0 => buf.bytes = buf.size
                  /\ buf.bytes > 0 => buf.crlf = 1
                  /\ buf.crlf = 1 => buf.last = 1 \/ nbytes = -1
      BY DEF IInv, Decoded, InChunks
    <3> QED BY <1>1, <1>3, <1>4, <1>5, <3>1, WriteBodyFrame DEF InChunks, Pipe, BufferType, PeerType
  <2> QED BY <2>1, <2>2, <2>3 DEF Decoded
<1>8. Counted'
  BY <1>1, <1>3, <1>4, <1>5, WriteBodyFrame DEF IInv, Counted, Pipe, BufferType, PeerType
<1> QED BY <1>6, <1>7, <1>8 DEF IInv

LEMMA WriteCrlfInv == IInv /\ WriteCrlf => IInv'
<1> SUFFICES ASSUME IInv, WriteCrlf PROVE IInv'
  OBVIOUS
<1>1. buf # NoData /\ WriteBody
  BY DEF WriteCrlf, NoData, Buffer
<1>2. buf \in BufferType /\ peer \in PeerType
  BY <1>1, WriteBodyFrame
<1>3. Pipe /\ peer.st = "crlf" /\ buf.size = 0 /\ buf.bytes = 0 /\ buf.crlf = 1
  BY <1>1, WriteBodyFrame DEF WriteCrlf, IInv, Decoded, InLength, InChunks, Left, BufferType, PeerType
<1>4. /\ buf' \in BufferType
      /\ buf'.size = 0 /\ buf'.bytes = 0 /\ buf'.zeros = buf.zeros /\ buf'.crlf = 0 /\ buf'.last = buf.last
  BY <1>2, <1>3 DEF WriteCrlf, BufferType, Buffer
<1>5. /\ peer' \in PeerType
      /\ peer'.st = "size" /\ peer'.left = 0 /\ peer'.bytes = peer.bytes /\ peer'.zeros = peer.zeros
  BY <1>2, <1>3 DEF WriteCrlf, PeerCrlf, Peer, PeerType, BufferType
<1>6. TypeOK' /\ Shape'
  BY <1>1, <1>3, <1>4, <1>5, WriteFrame, WriteBodyFrame DEF WriteBody
<1>7. Decoded'
  <2>1. InHeader' /\ (resp'.method = "HEAD" => buf' = NoData /\ nbytes' = 0)
    BY <1>1, WriteBodyFrame DEF InHeader
  <2>2. InLength'
    BY <1>1, <1>3, <1>4, <1>5, WriteBodyFrame
       DEF IInv, Decoded, InLength, Left, Pipe, BufferType, PeerType
  <2>3. InChunks'
    <3>1. Pipe => /\ nbytes = -1 => buf.last = 0
                  /\ buf.size > 0 => buf.bytes = buf.size
                  /\ buf.bytes > 0 => buf.crlf = 1
                  /\ buf.crlf = 1 => buf.last = 1 \/ nbytes = -1
      BY DEF IInv, Decoded, InChunks
    <3> QED BY <1>1, <1>3, <1>4, <1>5, <3>1, WriteBodyFrame DEF InChunks, Pipe, BufferType, PeerType
  <2> QED BY <2>1, <2>2, <2>3 DEF Decoded
<1>8. Counted'
  BY <1>1, <1>3, <1>4, <1>5, WriteBodyFrame DEF IInv, Counted, Pipe, BufferType, PeerType
<1> QED BY <1>6, <1>7, <1>8 DEF IInv

LEMMA WriteLastInv == IInv /\ WriteLast => IInv'
<1> SUFFICES ASSUME IInv, WriteLast PROVE IInv'
  OBVIOUS
<1>1. buf # NoData /\ WriteBody
  BY DEF WriteLast, NoData, Buffer
<1>2. buf \in BufferType /\ peer \in PeerType
  BY <1>1, WriteBodyFrame
<1>3. Pipe /\ nbytes = 0 /\ peer.st = "size" /\ buf.size = 0 /\ buf.bytes = 0 /\ buf.crlf = 0 /\ buf.last = 1
  BY <1>1, WriteBodyFrame DEF WriteLast, IInv, Decoded, InLength, InChunks, Left, BufferType, PeerType
<1>4. /\ buf' \in BufferType
      /\ buf'.size = 0 /\ buf'.bytes = 0 /\ buf'.zeros = buf.zeros /\ buf'.crlf = 0 /\ buf'.last = 0
  BY <1>2, <1>3 DEF WriteLast, BufferType, Buffer
<1>5. /\ peer' \in PeerType
      /\ peer'.st = "done" /\ peer'.left = 0 /\ peer'.bytes = peer.bytes /\ peer'.zeros = peer.zeros
  BY <1>2, <1>3 DEF WriteLast, PeerLast, Peer, PeerType, BufferType
<1>6. TypeOK' /\ Shape'
  BY <1>1, <1>3, <1>4, <1>5, WriteFrame, WriteBodyFrame DEF WriteBody
<1>7. Decoded'
  <2>1. InHeader' /\ (resp'.method = "HEAD" => buf' = NoData /\ nbytes' = 0)
    BY <1>1, WriteBodyFrame DEF InHeader
  <2>2. InLength'
    BY <1>1, <1>3, <1>4, <1>5, WriteBodyFrame
       DEF IInv, Decoded, InLength, Left, Pipe, BufferType, PeerType
  <2>3. InChunks'
    <3>1. Pipe => /\ nbytes = -1 => buf.last = 0
                  /\ buf.size > 0 => buf.bytes = buf.size
                  /\ buf.bytes > 0 => buf.crlf = 1
                  /\ buf.crlf = 1 => buf.last = 1 \/ nbytes = -1
      BY DEF IInv, Decoded, InChunks
    <3> QED BY <1>1, <1>3, <1>4, <1>5, <3>1, WriteBodyFrame DEF InChunks, Pipe, BufferType, PeerType
  <2> QED BY <2>1, <2>2, <2>3 DEF Decoded
<1>8. Counted'
  BY <1>1, <1>3, <1>4, <1>5, WriteBodyFrame DEF IInv, Counted, Pipe, BufferType, PeerType
<1> QED BY <1>6, <1>7, <1>8 DEF IInv

(* rsndr_send returns, is called again, or turns to the file. *)
LEMMA ControlInv ==
  IInv /\ (WriteBlocks \/ WriteFails \/ Finished \/ Resume \/ FillBuffer) => IInv'
<1> SUFFICES ASSUME IInv, WriteBlocks \/ WriteFails \/ Finished \/ Resume \/ FillBuffer
             PROVE IInv'
  OBVIOUS
<1>1. /\ UNCHANGED <<resp, fileSize, fileOff, writer, source, header, buf, nbytes, fileDesc,
                     inFlight, peerSocket, peer>>
      /\ filled = 0 /\ filled' = 0
      /\ pc' \in {"send", "fill", "wait", "done", "failed"}
      /\ await' \in {"READY", "AWAIT_READ", "AWAIT_WRITE"}
      /\ pc' = "done" => ~Pending /\ nbytes = 0
      /\ pc' = "wait" => Pending /\ await' = "AWAIT_WRITE"
      /\ pc' = "fill" => ~Pending /\ nbytes # 0
  <2>1. pc # "fill" => filled = 0
    BY DEF IInv, Shape
  <2> USE <2>1 DEF file
  <2>2. CASE WriteBlocks
    BY <2>2 DEF WriteBlocks
  <2>3. CASE WriteFails
    BY <2>3 DEF WriteFails, IInv, TypeOK
  <2>4. CASE Finished
    BY <2>4 DEF Finished, IInv, TypeOK
  <2>5. CASE Resume
    BY <2>5 DEF Resume
  <2>6. CASE FillBuffer
    BY <2>6 DEF FillBuffer, IInv, TypeOK
  <2> QED BY <2>2, <2>3, <2>4, <2>5, <2>6
<1>2. TypeOK'
  BY <1>1 DEF IInv, TypeOK
<1>3. Shape'
  <2>1. pc' = "fill" => header = "sent" /\ buf = NoData /\ 0 <= ToFill
    BY <1>1 DEF IInv, TypeOK, Pending, ToFill
  <2>2. Pending' <=> Pending
    BY <1>1 DEF Pending
  <2>3. ToFill' = ToFill
    BY <1>1 DEF ToFill
  <2> HIDE DEF Pending, ToFill
  <2> QED BY <1>1, <2>1, <2>2, <2>3 DEF IInv, Shape, Pipe
<1>4. Decoded'
  BY <1>1 DEF IInv, Decoded, InHeader, InLength, InChunks, Left, Pipe
<1>5. Counted'
  BY <1>1 DEF IInv, Counted, Pipe
<1> QED BY <1>2, <1>3, <1>4, <1>5 DEF IInv

LEMMA FillFacts ==
  ASSUME IInv, pc = "fill"
  PROVE  /\ header = "sent" /\ buf \in BufferType /\ peer \in PeerType
         /\ buf = NoData /\ buf.size = 0 /\ buf.bytes = 0 /\ buf.zeros = 0
         /\ buf.crlf = 0 /\ buf.last = 0
         /\ nbytes # 0 /\ nbytes \in {-1} \union 0 .. MaxFile
         /\ resp.method # "HEAD" /\ resp.size \in Nat /\ resp.mem \in Nat
         /\ ToFill \in 1 .. BufCap /\ filled \in 0 .. ToFill
         /\ fileOff \in Nat /\ fileSize \in Nat
         /\ Pipe => nbytes = -1 /\ fileDesc = "open" /\ peer.st = "size" /\ ToFill = BufCap
         /\ ~Pipe => /\ nbytes > 0 /\ peer.st = "length" /\ peer.left = nbytes
                     /\ ToFill <= nbytes
<1>1. /\ header = "sent" /\ buf = NoData /\ nbytes # 0 /\ filled <= ToFill
      /\ Pipe => nbytes \in {-1, 0}
      /\ nbytes = -1 => Pipe /\ fileDesc = "open"
  BY DEF IInv, Shape
<1>2. /\ buf \in BufferType /\ peer \in PeerType
      /\ nbytes \in {-1} \union 0 .. MaxFile
      /\ fileOff \in Nat /\ fileSize \in Nat /\ filled \in 0 .. BufCap
      /\ resp.size \in Nat /\ resp.mem \in Nat
  BY ResponsesFacts DEF IInv, TypeOK, BufferType, PeerType
<1>3. buf.size = 0 /\ buf.bytes = 0 /\ buf.zeros = 0 /\ buf.crlf = 0 /\ buf.last = 0
  BY <1>1 DEF NoData, Buffer
<1>4. resp.method # "HEAD"
  BY <1>1 DEF IInv, Decoded
<1>5. ToFill \in 1 .. BufCap /\ (nbytes > 0 => ToFill <= nbytes) /\ (nbytes = -1 => ToFill = BufCap)
  BY <1>1, <1>2 DEF ToFill
<1>6. Pipe => peer.st = "size"
  BY <1>1, <1>3 DEF IInv, Decoded, InChunks
<1>7. ~Pipe => nbytes > 0 /\ peer.st = "length" /\ peer.left = nbytes
  BY <1>1, <1>2, <1>3 DEF IInv, Decoded, InLength, Left
<1> HIDE DEF ToFill
<1> QED BY <1>1, <1>2, <1>3, <1>4, <1>5, <1>6, <1>7

LEMMA ReadFileInv == IInv /\ ReadFile => IInv'
<1> SUFFICES ASSUME IInv, ReadFile PROVE IInv'
  OBVIOUS
<1>1. PICK n \in 1 .. (ToFill - filled) :
        n <= Available /\ filled' = filled + n /\ fileOff' = fileOff + n
  BY DEF ReadFile
<1>2. /\ UNCHANGED <<resp, fileSize, writer, source, header, buf, nbytes, fileDesc, pc, await,
                     inFlight, peerSocket, peer>>
      /\ pc = "fill" /\ fileDesc = "open"
  BY DEF ReadFile
<1>3. /\ filled' \in 0 .. BufCap /\ filled' <= ToFill /\ fileOff' \in Nat
      /\ fileOff' <= fileSize /\ fileOff' - filled' = fileOff - filled
  BY <1>1, <1>2, FillFacts DEF Available
<1>4. TypeOK'
  BY <1>2, <1>3 DEF IInv, TypeOK
<1>5. Shape'
  BY <1>2, <1>3 DEF IInv, Shape, Pipe, Pending, ToFill
<1>6. Decoded'
  BY <1>2 DEF IInv, Decoded, InHeader, InLength, InChunks, Left, Pipe
<1>7. Counted'
  BY <1>1, <1>2, <1>3, FillFacts DEF IInv, Counted, Pipe, PeerType
<1> QED BY <1>4, <1>5, <1>6, <1>7 DEF IInv

(* What follows the reading loop, however the loop was left.  A file that is *)
(* not damaged never ends before its promise is read; a pipe's end means that *)
(* its program wrote all it has.                                            *)
LEMMA LoopEndsInv ==
  ASSUME IInv, NEW closes \in BOOLEAN, LoopEnds(closes), source' \in {"whole", "damaged"},
         closes \/ Pipe \/ filled = ToFill \/ fileDesc = "none",
         Pipe /\ ~closes /\ filled = 0 => fileDesc = "open",
         source' = "whole" => source = "whole" /\ (closes => AtEnd /\ filled < ToFill)
  PROVE  IInv'
<1> DEFINE z == IF fileDesc' = "none" THEN ToFill - filled ELSE 0
<1>1. /\ UNCHANGED <<resp, header, inFlight, peerSocket, peer, fileSize, fileOff, writer>>
      /\ pc = "fill" /\ filled' = 0
      /\ fileDesc' = IF closes THEN "none" ELSE fileDesc
      /\ Pipe => /\ buf' = Chunk(filled, IF closes THEN 1 ELSE 0)
                 /\ nbytes' = IF closes THEN 0 ELSE -1
      /\ ~Pipe => buf' = Plain(filled, z) /\ nbytes' = nbytes - (filled + z)
      /\ buf' = NoData => await' = "AWAIT_READ" /\ pc' = "wait"
      /\ buf' # NoData => await' = await /\ pc' = "send"
  <2>1. pc = "fill"
    BY DEF LoopEnds
  <2> QED BY <2>1, FillFacts DEF LoopEnds
<1>2. /\ fileDesc \in {"open", "none"} /\ await \in {"READY", "AWAIT_READ", "AWAIT_WRITE"}
      /\ resp.kind = "none" => nbytes = 0
      /\ Pipe => fileOff <= fileSize
      /\ writer = "open" => Pipe
      /\ source = "whole" => fileSize >= resp.size
  BY DEF IInv, TypeOK, Shape
<1>3. /\ z \in Nat /\ filled + z <= ToFill
      /\ ~Pipe => filled + z = ToFill
  BY <1>1, <1>2, FillFacts
<1> HIDE DEF z, ToFill
<1>4. /\ buf' \in BufferType
      /\ buf'.bytes = filled /\ nbytes' \in {-1} \union 0 .. MaxFile
      /\ Pipe => /\ buf'.size = filled /\ buf'.zeros = 0
                 /\ buf'.crlf = (IF filled > 0 THEN 1 ELSE 0)
                 /\ buf'.last = (IF closes THEN 1 ELSE 0)
      /\ ~Pipe => /\ buf'.size = 0 /\ buf'.zeros = z /\ buf'.crlf = 0 /\ buf'.last = 0
                  /\ nbytes' \in 0 .. MaxFile /\ nbytes' = nbytes - (filled + z)
  <2>1. CASE Pipe
    BY <1>1, <2>1, FillFacts DEF Chunk, Buffer, BufferType
  <2>2. CASE ~Pipe
    <3>1. filled \in Nat /\ z \in Nat /\ nbytes - (filled + z) \in 0 .. MaxFile
      BY <1>1, <1>3, <2>2, FillFacts
    <3> QED BY <1>1, <2>2, <3>1 DEF Plain, Buffer, BufferType
  <2> QED BY <2>1, <2>2
<1>5. buf' = NoData => Pipe /\ ~closes /\ filled = 0 /\ fileDesc' = "open" /\ nbytes' = -1
  BY <1>1, <1>3, <1>4, FillFacts, NoDataFields
<1>6. Pending' <=> buf' # NoData
  BY <1>1, FillFacts DEF Pending
<1>7. TypeOK'
  BY <1>1, <1>2, <1>4 DEF IInv, TypeOK, BufferType
<1>8. Shape'
  <2>1. /\ (nbytes = -1 => Pipe /\ fileDesc = "open")'
        /\ (Pipe => nbytes \in {-1, 0} /\ buf.zeros = 0)'
        /\ (Pipe /\ nbytes = 0 => fileDesc = "none")'
        /\ (~Pipe => buf.size = 0 /\ buf.crlf = 0 /\ buf.last = 0)'
    BY <1>1, <1>4, FillFacts DEF Pipe
  <2>2. /\ (writer = "open" => Pipe)' /\ (Pipe => fileOff <= fileSize)'
        /\ (source = "whole" => fileSize >= resp.size)'
        /\ (resp.kind = "none" => nbytes = 0)'
    BY <1>1, <1>2, FillFacts DEF Pipe
  <2>3. /\ pc' \in {"wait", "send"} /\ filled' = 0
        /\ pc' = "wait" => ~Pending' /\ await' = "AWAIT_READ" /\ fileDesc' = "open" /\ nbytes' = -1
    BY <1>1, <1>5, <1>6
  <2> HIDE DEF Pending
  <2> QED BY <2>1, <2>2, <2>3 DEF Shape
<1>9. Decoded'
  <2>1. InHeader' /\ (resp'.method = "HEAD" => buf' = NoData /\ nbytes' = 0)
    BY <1>1, FillFacts DEF InHeader
  <2>2. InLength'
    BY <1>1, <1>3, <1>4, FillFacts DEF InLength, Left, Pipe
  <2>3. InChunks'
    BY <1>1, <1>4, FillFacts DEF InChunks, Pipe
  <2> QED BY <2>1, <2>2, <2>3 DEF Decoded
<1>10. Counted'
  <2> SUFFICES ASSUME source' = "whole" PROVE Counted'
    BY DEF Counted
  <2>1. /\ source = "whole" /\ peer.zeros = 0
        /\ peer.bytes + buf.bytes + filled = resp.mem + fileOff
        /\ ~Pipe => fileOff - filled + nbytes = resp.size /\ fileDesc = "open"
    BY FillFacts, <1>1 DEF IInv, Counted
  <2>2. ~Pipe => ~closes
    BY <1>2, <2>1, FillFacts, <1>1 DEF AtEnd, Available
  <2>3. Pipe /\ closes => fileOff = fileSize /\ writer = "closed"
    BY <1>2, FillFacts, <1>1 DEF AtEnd, Available
  <2>4. ~Pipe => z = 0 /\ filled = ToFill
    BY <1>1, <1>3, <2>1, <2>2, FillFacts DEF z
  <2> QED BY <1>1, <1>4, <2>1, <2>2, <2>3, <2>4, FillFacts DEF Counted, Pipe, PeerType
<1> QED BY <1>7, <1>8, <1>9, <1>10 DEF IInv

LEMMA ReadEndsInv == IInv /\ (ReadEnough \/ ReadEof \/ ReadFails \/ ReadBlocks) => IInv'
<1> SUFFICES ASSUME IInv, ReadEnough \/ ReadEof \/ ReadFails \/ ReadBlocks PROVE IInv'
  OBVIOUS
<1> HIDE DEF ToFill
<1>1. /\ source \in {"whole", "damaged"}
      /\ writer = "open" => Pipe
      /\ nbytes = -1 => fileDesc = "open"
      /\ Pipe /\ pc = "fill" => fileDesc = "open"
  BY FillFacts DEF IInv, TypeOK, Shape
<1>2. CASE ReadEnough
  <2>1. LoopEnds(FALSE) /\ pc = "fill"
    BY <1>2 DEF ReadEnough, LoopEnds
  <2> QED BY <1>1, <1>2, <2>1, LoopEndsInv DEF ReadEnough
<1>3. CASE ReadEof
  BY <1>1, <1>3, LoopEndsInv, FillFacts DEF ReadEof, ReadShort
<1>4. CASE ReadFails
  BY <1>1, <1>4, LoopEndsInv DEF ReadFails, ReadShort
<1>5. CASE ReadBlocks
  BY <1>1, <1>5, LoopEndsInv DEF ReadBlocks, ReadShort
<1> QED BY <1>2, <1>3, <1>4, <1>5

LEMMA NextInv == IInv /\ [Next]_vars => IInv'
<1>1. ASSUME IInv, UNCHANGED vars PROVE IInv'
  <2>1. UNCHANGED <<resp, fileSize, fileOff, writer, source, header, buf, nbytes, fileDesc,
                    filled, pc, await, inFlight, peerSocket, peer>>
    BY <1>1 DEF vars, sender, file
  <2>2. TypeOK'
    BY <1>1, <2>1 DEF IInv, TypeOK
  <2>3. Shape'
    BY <1>1, <2>1 DEF IInv, Shape, Pipe, Pending, ToFill
  <2>4. Decoded' /\ Counted'
    BY <1>1, <2>1 DEF IInv, Decoded, Counted, InHeader, InLength, InChunks, Left, Pipe
  <2> QED BY <2>2, <2>3, <2>4 DEF IInv
<1> QED
  BY <1>1, EnvironmentInv, WriteHeaderInv, WriteSizeInv, WriteByteInv, WriteZeroInv,
     WriteCrlfInv, WriteLastInv, ControlInv, ReadFileInv, ReadEndsInv
     DEF Next, Send

LEMMA AlwaysIInv == Spec => []IInv
BY InitInv, NextInv, PTL DEF Spec

(* Every value of the sender's state has its type: what is left to send never *)
(* becomes negative, the buffer is never filled beyond its size.             *)
THEOREM SenderTypeCorrect == Spec => []TypeOK
BY AlwaysIInv, PTL DEF IInv

(* The peer never reads anything but a well-formed message, whatever happens *)
(* to the file or to the CGI program while it is sent.                      *)
THEOREM MessageFramed == Spec => []Framed
<1>1. IInv => Framed
  <2> SUFFICES ASSUME IInv PROVE Framed
    OBVIOUS
  <2>1. header \in {"unsent", "sent"}
    BY DEF IInv, TypeOK
  <2>2. CASE header = "unsent"
    BY <2>2 DEF IInv, Decoded, InHeader, PeerAtStart, Peer, Framed
  <2>3. CASE header = "sent" /\ Pipe
    BY <2>3 DEF IInv, Decoded, InChunks, Framed
  <2>4. CASE header = "sent" /\ ~Pipe
    BY <2>4 DEF IInv, Decoded, InLength, Framed
  <2> QED BY <2>1, <2>2, <2>3, <2>4
<1> QED BY <1>1, AlwaysIInv, PTL

LEMMA DoneFacts ==
  ASSUME IInv, pc = "done"
  PROVE  /\ header = "sent" /\ nbytes = 0 /\ filled = 0
         /\ buf.size = 0 /\ buf.bytes = 0 /\ buf.zeros = 0 /\ buf.crlf = 0 /\ buf.last = 0
<1>1. ~Pending /\ nbytes = 0 /\ filled = 0
  BY DEF IInv, Shape
<1> QED BY <1>1 DEF IInv, TypeOK, Pending, NoData, Buffer

(* When the sender reports the response sent, the peer has the whole message: *)
(* the connection may carry the next response.                               *)
THEOREM MessageWhole == Spec => []WholeWhenDone
<1>1. IInv => WholeWhenDone
  <2> SUFFICES ASSUME IInv, pc = "done" PROVE peer.st = "done"
    BY DEF WholeWhenDone
  <2>1. CASE Pipe
    BY <2>1, DoneFacts DEF IInv, Decoded, InChunks
  <2>2. CASE ~Pipe
    BY <2>2, DoneFacts DEF IInv, Decoded, InLength, Left
  <2> QED BY <2>1, <2>2
<1> QED BY <1>1, AlwaysIInv, PTL

(* However the reads and writes were cut, what the peer got is the body, byte *)
(* for byte, unless the file was truncated or a read failed.                 *)
THEOREM AllDelivered == Spec => []Delivered
<1>1. IInv => Delivered
  <2> SUFFICES ASSUME IInv, pc = "done", source = "whole"
               PROVE  /\ peer.zeros = 0
                      /\ peer.bytes = resp.mem + (IF resp.kind = "pipe" THEN fileSize ELSE resp.size)
    BY DEF Delivered
  <2>1. /\ peer \in PeerType /\ resp.mem \in Nat /\ resp.size \in Nat
        /\ fileOff \in Nat /\ fileSize \in Nat /\ fileDesc \in {"open", "none"}
    BY ResponsesFacts DEF IInv, TypeOK, PeerType
  <2>2. /\ peer.zeros = 0 /\ peer.bytes = resp.mem + fileOff
        /\ ~Pipe => fileOff = resp.size
        /\ Pipe /\ fileDesc = "none" => fileOff = fileSize
    BY <2>1, DoneFacts DEF IInv, Counted, PeerType
  <2>3. Pipe => fileDesc = "none"
    BY <2>1, DoneFacts DEF IInv, Shape
  <2> QED BY <2>1, <2>2, <2>3 DEF Pipe
<1> QED BY <1>1, AlwaysIInv, PTL

(* A sender that returned unfinished waits for what it needs next. *)
THEOREM AwaitCorrect == Spec => []WaitIsSet
<1>1. IInv => WaitIsSet
  BY DEF IInv, Shape, WaitIsSet
<1> QED BY <1>1, AlwaysIInv, PTL

=========================================================================
