---------------------------- MODULE RequestReader --------------------------
(* How requests are read from the bytes of a connection (serverconnection.c): *)
(* the header, the body with a length or in chunks, the trailer, and the next *)
(* request behind it, in pieces cut anywhere.  The body goes to the handler:   *)
(* to the parser of a form, or to a CGI program, which may take less than it    *)
(* is given.  What Connection has as tokens are bytes here.                   *)
EXTENDS Multipart

CONSTANTS
  Sent,   \* what clients send: sequences of requests, see Bytes
  Wrap    \* bound: 2^32, the size of a chunk that is cut to 0

ASSUME WrapAssumption == Wrap \in Nat \ {0}

VARIABLES
  sent,    \* the requests of the client
  wire,    \* their bytes
  ends,    \* ghost: where in them the requests end
  fed,     \* how many of them the server has read
  conn,    \* the connection
  got      \* ghost: the requests that have been read

vars == <<sent, wire, ends, fed, conn, got>>

----------------------------------------------------------------------------
(* What a client sends: [line, request, headers, trailer, eol, sizes, body,   *)
(* fields].  Behind the first line and the headers comes the body: in chunks   *)
(* of these sizes, or at once for sizes = <<>>.  request is what the first      *)
(* line says, and fields are those of a form, if the body is one: [name,       *)
(* fileName, content].                                                     *)

Lines(lines, eol) == FlattenSeq([i \in DOMAIN lines |-> lines[i] \o eol])

Digits(n, base) ==
  LET digits[k \in 0 .. n] == IF k < base THEN <<DigitList[k + 1]>>
                              ELSE Append(digits[k \div base], DigitList[(k % base) + 1])
  IN digits[n]

LengthLine(r) == IF r.body = <<>> \/ r.sizes # <<>> THEN <<>>
                 ELSE <<<<"Content-Length", "colon", "sp">> \o Digits(Len(r.body), 10)>>

Total(sizes) == FoldLeft(+, 0, sizes)

Chunks(r) ==
  LET before(k) == Total(SubSeq(r.sizes, 1, k - 1))
      chunk(k) == Digits(r.sizes[k], 16) \o Crlf
                    \o SubSeq(r.body, before(k) + 1, before(k) + r.sizes[k]) \o Crlf
  IN FlattenSeq([k \in DOMAIN r.sizes |-> chunk(k)])
       \o <<"0">> \o Crlf \o Lines(r.trailer, r.eol) \o r.eol

Bytes(r) ==
  Lines(<<r.line>> \o r.headers \o LengthLine(r) \o <<<<>>>>, r.eol)
    \o (IF r.sizes = <<>> THEN r.body ELSE Chunks(r))

\* the lines that are kept, those with a colon
Kept(lines) ==
  FoldLeft(LAMBDA kept, line : IF "colon" \in ToSet(line) THEN Append(kept, line) ELSE kept,
           <<>>, lines)

HeaderOf(r) == Kept(r.headers \o LengthLine(r))

\* a line of text, without its end
IsLine(line) == line # <<>> /\ Last(line) # "cr" /\ "lf" \notin ToSet(line)

\* which handler a request gets is modelled in Access: its method stands for that
HandlerOf(request) == Head(request.method)

\* the body is framed by its length or by its chunks, and the header says by which
Framed(r) ==
  /\ isChunkedTransferEncoding([reqhdr_new EXCEPT !.lines = HeaderOf(r)]) <=> r.sizes # <<>>
  /\ IF r.sizes = <<>>
     THEN \A i \in DOMAIN r.headers :
            NameOf(r.headers[i]) # <<"Content-Length">>
     ELSE Total(r.sizes) = Len(r.body)

\* the body of a form has the fields
Filled(r) ==
  /\ HandlerOf(r.request) = "FORM" => IsForm(r.body)
  /\ r.fields # <<>> => HandlerOf(r.request) = "FORM" /\ FieldsIn(Reference(r.body)) = r.fields

Request == [line : Seq(STRING), request : StartLine, headers : Seq(Seq(STRING)),
            trailer : Seq(Seq(STRING)), eol : {<<"lf">>, Crlf}, sizes : Seq(1 .. Wrap - 1),
            body : Seq(STRING), fields : Seq([name : Seq(STRING), fileName : Seq(STRING),
                                              content : Seq(STRING)])]

ASSUME SentAssumption ==
  \A s \in Sent : /\ s \in Seq(Request)
                  /\ \A k \in DOMAIN s :
                       /\ IsLine(s[k].line) /\ decodeRequestStartLine(s[k].line) = s[k].request
                       /\ \A i \in DOMAIN s[k].headers : IsLine(s[k].headers[i])
                       /\ \A i \in DOMAIN s[k].trailer : IsLine(s[k].trailer[i])
                       /\ Framed(s[k]) /\ Filled(s[k])

----------------------------------------------------------------------------
(* The connection.                                                         *)

\* conn_new; body is a ghost: what the handler took
conn_new == [rrs |-> "RRS_READ_HEAD", buf |-> <<>>, header |-> reqhdr_new, chunkHdr |-> <<>>,
             isChunked |-> FALSE, bodyLen |-> 0, bodyReadLen |-> 0, handler |-> "none",
             mpdata |-> mpdata_new, body |-> <<>>]

\* a first chunk has no CRLF before its size
StartBody(c, isChunked, len) ==
  [c EXCEPT !.handler = HandlerOf(c.header.request), !.mpdata = mpdata_new,
            !.isChunked = isChunked, !.chunkHdr = IF isChunked THEN Crlf ELSE <<>>,
            !.bodyLen = IF isChunked THEN 0 ELSE len,
            !.rrs = IF isChunked \/ len > 0 THEN "RRS_READ_BODY" ELSE "RRS_READ_FINISHED"]

onFinishedHeader(c) ==
  StartBody(c, isChunkedTransferEncoding(c.header), Number(getHeaderVal(c.header, "Content-Length"), 10))

AtMost(n, m) == IF n < m THEN n ELSE m

\* reqhdlr_processData: a piece of the body that the handler takes
TakeBody(c, n) ==
  LET d == SubSeq(c.buf, 1, n)
  IN [c EXCEPT !.buf = From(@, n + 1), !.bodyReadLen = @ + n, !.body = @ \o d,
               !.mpdata = IF c.handler = "FORM" THEN mpdata_appendData(@, d) ELSE @]

\* the size of the next chunk, which is 0 behind the last one
ChunkSize(c, line, chunkHdr) ==
  LET size == Number(From(chunkHdr, 3), 16) % Wrap
  IN [c EXCEPT !.buf = From(line, IndexOf({"lf"}, line) + 1), !.chunkHdr = <<>>,
               !.bodyLen = @ + size, !.rrs = IF size = 0 THEN "RRS_READ_TRAILER" ELSE @]

\* wrong: the two bytes are not skipped when a read ends between them
SkippedAtOnce(c) == IF c.chunkHdr = <<>> THEN AtMost(2, Len(c.buf)) ELSE 0

Skipped(c) == AtMost(2 - AtMost(2, Len(c.chunkHdr)), Len(c.buf))

\* two bytes behind the chunk before, and then a line with the size
ReadChunkHeader(c) ==
  LET line == From(c.buf, Skipped(c) + 1)
      eol == IndexOf({"lf"}, line)
      chunkHdr == c.chunkHdr \o SubSeq(c.buf, 1, Skipped(c)) \o Before(line, eol)
  IN IF eol = 0 THEN [c EXCEPT !.buf = <<>>, !.chunkHdr = chunkHdr]
     ELSE ChunkSize(c, line, chunkHdr)

\* behind a piece that was taken whole
BehindPiece(c) ==
  IF c.bodyReadLen < c.bodyLen THEN c
  ELSE IF c.isChunked THEN ReadChunkHeader(c)
  ELSE [c EXCEPT !.rrs = "RRS_READ_FINISHED"]

\* room: how much more the CGI program takes; when it has taken what it takes, another
\* step changes nothing
NextPiece(s) ==
  LET c == s.c
      add == AtMost(Len(c.buf), c.bodyLen - c.bodyReadLen)
      processed == IF c.handler = "CGI" THEN AtMost(add, s.room) ELSE add
      taken == TakeBody(c, processed)
  IN IF c.rrs # "RRS_READ_BODY" \/ c.buf = <<>> THEN s
     ELSE [c |-> IF processed < add THEN taken ELSE BehindPiece(taken),
           room |-> IF c.handler = "CGI" THEN s.room - processed ELSE s.room]

appendBodyData(c, room) ==
  Repeated(NextPiece, LineEnds(c.buf) + 1, [c |-> c, room |-> room]).c

WithHeader(c, read, rrs) == [c EXCEPT !.header = read.hdr, !.buf = read.rest, !.rrs = rrs]

ReadHead(c) ==
  LET read == appendLines(IF c.rrs = "RRS_IDLE" THEN reqhdr_new ELSE c.header, c.buf)
      c1 == WithHeader(c, read, "RRS_READ_HEAD")
  IN IF c.rrs \notin {"RRS_IDLE", "RRS_READ_HEAD"} THEN c
     ELSE IF read.finished THEN onFinishedHeader(c1) ELSE c1

ReadTrailer(c) ==
  LET read == appendLines(c.header, c.buf)
  IN IF c.rrs # "RRS_READ_TRAILER" \/ c.buf = <<>> THEN c
     ELSE WithHeader(c, read, IF read.finished THEN "RRS_READ_FINISHED" ELSE c.rrs)

----------------------------------------------------------------------------
(* Actions.                                                                *)

Init ==
  /\ sent \in Sent /\ fed = 0
  /\ LET bytes == [k \in DOMAIN sent |-> Bytes(sent[k])]
     IN /\ wire = FlattenSeq(bytes)
        /\ ends = [k \in DOMAIN sent |-> Len(FlattenSeq(SubSeq(bytes, 1, k)))]
  /\ conn = conn_new /\ got = <<>>

\* the request is complete when its reading is: [header, body, mpdata]
Completed(c) ==
  IF conn.rrs # "RRS_READ_FINISHED" /\ c.rrs = "RRS_READ_FINISHED"
  THEN Append(got, [header |-> c.header, body |-> c.body, mpdata |-> c.mpdata])
  ELSE got

\* appendData
AppendBuffer(c) ==
  LET head == ReadHead(c)
  IN \E room \in IF head.handler = "CGI" THEN 0 .. Len(head.buf) ELSE {0} :
       /\ conn' = ReadTrailer(appendBodyData(head, room))
       /\ got' = Completed(conn')

\* conn_processDataReady: a read, when nothing is left of the one before
Read ==
  /\ conn.rrs # "RRS_READ_FINISHED" /\ conn.buf = <<>>
  /\ \E n \in 1 .. Len(wire) - fed :
       /\ AppendBuffer([conn EXCEPT !.buf = SubSeq(wire, fed + 1, fed + n)])
       /\ fed' = fed + n
  /\ UNCHANGED <<sent, wire, ends>>

\* the CGI program takes more
Again ==
  /\ conn.rrs # "RRS_READ_FINISHED" /\ conn.buf # <<>>
  /\ AppendBuffer(conn)
  /\ UNCHANGED <<sent, wire, ends, fed>>

\* the response has been sent: re-initialize
Answered ==
  /\ conn.rrs = "RRS_READ_FINISHED"
  /\ conn' = [conn_new EXCEPT !.rrs = "RRS_IDLE", !.buf = conn.buf]
  /\ UNCHANGED <<sent, wire, ends, fed, got>>

Next == Read \/ Again \/ Answered

Spec == Init /\ [][Next]_vars

----------------------------------------------------------------------------
(* Properties.                                                             *)

TypeOK ==
  /\ sent \in Sent /\ fed \in 0 .. Len(wire)
  /\ conn.rrs \in {"RRS_IDLE", "RRS_READ_HEAD", "RRS_READ_BODY", "RRS_READ_TRAILER",
                   "RRS_READ_FINISHED"}
  /\ conn.bodyReadLen = Len(conn.body) /\ conn.bodyReadLen <= conn.bodyLen
  /\ conn.isChunked \in BOOLEAN
  /\ conn.mpdata.parsePos \in {"PP_BODY", "PP_GOT_BOUNDARY"}
  /\ conn.mpdata.delimMatchPart \in 0 .. Len(Delim) - 1
  /\ conn.mpdata.parsePos # "PP_BODY" => conn.mpdata.delimMatchPart = 0
  /\ conn.mpdata.epilogue \in BOOLEAN

\* However the bytes of the requests are cut, chunked and taken, the requests that are
\* read are those that were sent, in their order: the same first line, the same header
\* lines, the same body; the handler gets the bytes of its own request only; and none
\* is left unread when its last byte has come, unless input is held up, which only a CGI
\* program does that has not taken all of its body.
RequestsAsSent ==
  /\ Len(got) <= Len(sent)
  /\ \A k \in DOMAIN got : /\ got[k].header.request = sent[k].request
                           /\ got[k].header.lines =
                                HeaderOf(sent[k])
                                  \o (IF sent[k].sizes = <<>> THEN <<>> ELSE Kept(sent[k].trailer))
                           /\ got[k].body = sent[k].body
  /\ LET n == Len(got) + (IF conn.rrs = "RRS_READ_FINISHED" THEN 0 ELSE 1)
     IN IF n > Len(sent) THEN conn.body = <<>> ELSE n = 0 \/ IsPrefix(conn.body, sent[n].body)
  /\ conn.buf = <<>> =>
       \A k \in DOMAIN sent : ends[k] <= fed => k <= Len(got)
  /\ conn.buf # <<>> => \/ conn.rrs \in {"RRS_IDLE", "RRS_READ_FINISHED"}
                        \/ /\ conn.rrs = "RRS_READ_BODY" /\ conn.handler = "CGI"
                           /\ conn.bodyReadLen < conn.bodyLen

\* The parts of a form with a complete header are those of a parser that gets the whole
\* body in one piece: no byte of a file is lost, doubled or given to another field, no
\* line of a header is, and nothing of a boundary gets into a file.
PartsAsWhole ==
  conn.handler = "FORM" => PartsSeen(conn.mpdata.parts) = Reference(conn.body)

\* A form that is uploaded has the fields that were sent: the names, the names of the
\* files and the contents, through the cuts of the reads, the chunks and the boundaries.
FormAsSent ==
  \A k \in DOMAIN got :
    sent[k].fields # <<>> => FieldsIn(PartsSeen(got[k].mpdata.parts)) = sent[k].fields
=============================================================================
