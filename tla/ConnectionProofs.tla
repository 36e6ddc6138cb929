------------------------- MODULE ConnectionProofs -------------------------
(* Proofs of the properties of Connection, for any requests, any sizes of  *)
(* the buffers and pipes, and any cut of the input.                        *)
EXTENDS Connection, SequenceTheorems, TLAPS

\* All input that the server has still to parse, and the token it gets next, if any.
In == buf \o toServer
Tip == IF In # << >> THEN In[1] ELSE IF clientOpen THEN toSend ELSE NoToken

Valid(m) ==
  /\ m \in Tokens /\ m.t # "none" /\ m.k \in DOMAIN script
  /\ m.t = "data" => m.n \in 1 .. script[m.k].body
  /\ m.t = "chunk" => script[m.k].chunked /\ m.n \in 0 .. script[m.k].body

\* The input goes on as the client wrote it.
InputInv ==
  /\ toSend = NoToken \/ Valid(toSend)
  /\ pc # "closed" =>
       /\ \A i \in 1 .. Len(In) : Valid(In[i])
       /\ \A i \in 1 .. Len(In) - 1 : In[i + 1] = After(In[i])
       /\ clientOpen /\ In # << >> => toSend = After(In[Len(In)])

\* What the parser takes the next token for is what it is.
Awaited(m) ==
  CASE rrs = "IDLE" -> m.t = "line"
    [] rrs = "READ_HEAD" -> IF header = NULL THEN m.t = "line"
                            ELSE m = Token("head", header, 0)
    [] rrs = "READ_BODY" -> m = IF bodyReadLen < bodyLen
                                THEN Token("data", header, bodyReadLen + 1)
                                ELSE Token("chunk", header, bodyReadLen)
    [] rrs = "READ_TRAILER" -> m = Token("end", header, 0)
    [] rrs = "READ_FINISHED" -> m = Line(header + 1)

Counts ==
  LET r == script[header] IN
  /\ chunkHdr = r.chunked
  /\ bodyLen <= r.body
  /\ rrs = "READ_BODY" => IF chunkHdr THEN /\ bodyLen \in {0, 1, r.body}
                                           /\ bodyLen > 1 => bodyReadLen > 0
                          ELSE bodyReadLen < bodyLen /\ bodyLen = r.body
  /\ rrs # "READ_BODY" => bodyReadLen = r.body

ParseInv ==
  /\ pc # "closed" => Tip = NoToken \/ Awaited(Tip)
  /\ IF rrs \in {"IDLE", "READ_HEAD"} THEN bodyLen = 0 /\ bodyReadLen = 0 /\ handler = NULL
                                      ELSE header # NULL /\ Counts
  /\ rrs = "IDLE" => header = NULL
  /\ handler # NULL => /\ Len(body) = bodyReadLen
                       /\ \A p \in 1 .. Len(body) : body[p] = Token("data", header, p)
                       /\ handler.kind = "FOLDER" /\ rrs # "READ_FINISHED" => handler.resp = NULL

\* The last token the client got of responses or will get.
LastOut == IF Stream = << >> THEN [k |-> 0, u |-> "last"] ELSE Stream[Len(Stream)]

\* What is left of the response goes on where the client is.
Rest(r) ==
  \/ /\ ~r.more
     /\ \/ /\ r.queue = Page(header).queue
           /\ LastOut.u = "last" /\ header = LastOut.k + 1
        \/ /\ r.queue = <<[k |-> header, u |-> "last"]>>
           /\ LastOut.u # "last" /\ LastOut.k = header
        \/ /\ r.queue = << >>
           /\ LastOut.u = "last" /\ LastOut.k = header
  \/ /\ r.more
     /\ \/ /\ r.queue = <<[k |-> header, u |-> "head"]>>
           /\ LastOut.u = "last" /\ header = LastOut.k + 1
        \/ /\ r.queue \in {<< >>, <<[k |-> header, u |-> "data"]>>}
           /\ LastOut.u # "last" /\ LastOut.k = header

OutInv ==
  clientOpen /\ pc # "closed" =>
    IF handler = NULL
    THEN /\ LastOut.u = "last"
         /\ IF header = NULL THEN Tip = NoToken \/ Tip.k = LastOut.k + 1
            ELSE header = IF rrs = "READ_HEAD" THEN LastOut.k + 1 ELSE LastOut.k
    ELSE IF handler.resp = NULL THEN LastOut.u = "last" /\ header = LastOut.k + 1
    ELSE Rest(handler.resp)

\* Pipes are those of the handler.
PipeInv ==
  /\ cgi # NoCgi => handler # NULL /\ handler.kind = "CGI"
  /\ rrs = "READ_FINISHED" => ~cgi.inWr

\* The descriptors noted, and the input left when the call leaves the inner loop.
InnerLoopLeft == pc \in {"answer", "done", "return", "select"}

WaitInv ==
  /\ pc \in {"input", "answer", "done"} /\ dpr.req # READY => rrs # "READ_FINISHED"
  /\ pc \in {"input", "answer"} => dpr.resp = READY
  /\ pc = "answer" => handler # NULL
  /\ pc = "done" /\ dpr.resp # READY => handler # NULL
  /\ dpr.req = AwaitWrite("cgi_in") /\ pc # "begin" => rrs = "READ_BODY"
  /\ dpr.req = AwaitRead("socket") /\ pc # "begin" => buf = << >>
  /\ InnerLoopLeft /\ ~dpr.closeConn => dpr.req # READY \/ rrs = "READ_FINISHED"
  /\ dpr.req \in {READY, AwaitWrite("cgi_in"), AwaitRead("socket")}
  /\ pc = "select" => ~dpr.closeConn

CallInv ==
  /\ pc \in {"input", "answer", "done", "return"} /\ entry = "IDLE" /\ ~didRead =>
       rrs = "IDLE" /\ buf = << >>
  /\ pc \in {"begin", "select"} /\ rrs = "IDLE" => buf = << >>
  /\ call.result = "CONN_TO_CLOSE" => pc = "closed"
  /\ pc # "crashed" => crash = "none"

Inv == /\ TypeOK /\ InputInv /\ ParseInv /\ OutInv /\ PipeInv /\ WaitInv /\ CallInv
       /\ ResponsesInOrder /\ NoInternalError

----------------------------------------------------------------------------
(* Facts about sequences.                                                  *)

\* The first element of b moves to the end of a.
LEMMA MovedOver ==
  ASSUME NEW S, NEW a \in Seq(S), NEW b \in Seq(S), b # << >>
  PROVE  Append(a, Head(b)) \o Tail(b) = a \o b
<1>1. /\ Head(b) \in S /\ Tail(b) \in Seq(S) /\ Len(Tail(b)) = Len(b) - 1 /\ Head(b) = b[1]
      /\ \A i \in 1 .. Len(Tail(b)) : Tail(b)[i] = b[i + 1]
  BY HeadTailProperties
<1>2. /\ Append(a, Head(b)) \in Seq(S) /\ Len(Append(a, Head(b))) = Len(a) + 1
      /\ \A i \in 1 .. Len(a) : Append(a, Head(b))[i] = a[i]
      /\ Append(a, Head(b))[Len(a) + 1] = b[1]
  BY <1>1, AppendProperties
<1> DEFINE c == Append(a, Head(b))
<1>3. /\ c \o Tail(b) \in Seq(S) /\ Len(c \o Tail(b)) = Len(a) + Len(b)
      /\ \A i \in 1 .. Len(a) + Len(b) :
           (c \o Tail(b))[i] = IF i <= Len(a) + 1 THEN c[i] ELSE Tail(b)[i - (Len(a) + 1)]
  BY <1>1, <1>2, ConcatProperties
<1>4. /\ a \o b \in Seq(S) /\ Len(a \o b) = Len(a) + Len(b)
      /\ \A i \in 1 .. Len(a) + Len(b) : (a \o b)[i] = IF i <= Len(a) THEN a[i] ELSE b[i - Len(a)]
  BY ConcatProperties
<1>5. Len(a) \in Nat /\ Len(b) \in Nat /\ Len(b) > 0 BY EmptySeq, LenProperties
<1> HIDE DEF c
<1>6. \A i \in 1 .. Len(a) + Len(b) : (c \o Tail(b))[i] = (a \o b)[i]
  <2> SUFFICES ASSUME NEW i \in 1 .. Len(a) + Len(b)
               PROVE  (c \o Tail(b))[i] = (a \o b)[i]
    OBVIOUS
  <2>1. CASE i <= Len(a) BY <2>1, <1>2, <1>3, <1>4, <1>5 DEF c
  <2>2. CASE i = Len(a) + 1 BY <2>2, <1>2, <1>3, <1>4, <1>5 DEF c
  <2>3. CASE i > Len(a) + 1
    <3>1. i - (Len(a) + 1) \in 1 .. Len(Tail(b)) BY <2>3, <1>1, <1>5
    <3>2. Tail(b)[i - (Len(a) + 1)] = b[i - Len(a)] BY <3>1, <1>1, <1>5
    <3> QED BY <2>3, <3>2, <1>3, <1>4, <1>5
  <2>4. i <= Len(a) \/ i = Len(a) + 1 \/ i > Len(a) + 1 BY <1>5
  <2> QED BY <2>1, <2>2, <2>3, <2>4
<1> QED BY <1>3, <1>4, <1>6, SeqEqual DEF c

\* An element more at the end of a concatenation, and one less at its beginning.
LEMMA AppendedBehind ==
  ASSUME NEW S, NEW a \in Seq(S), NEW b \in Seq(S), NEW e \in S
  PROVE  a \o Append(b, e) = Append(a \o b, e)
<1>1. /\ Append(b, e) = b \o <<e>> /\ Append(a \o b, e) = (a \o b) \o <<e>>
  BY AppendIsConcat, ConcatProperties
<1>2. <<e>> \in Seq(S) OBVIOUS
<1> QED BY <1>1, <1>2, ConcatAssociative

LEMMA TakenBefore ==
  ASSUME NEW S, NEW a \in Seq(S), NEW b \in Seq(S), a # << >>
  PROVE  Tail(a) \o b = Tail(a \o b) /\ a \o b # << >> /\ (a \o b)[1] = Head(a)
<1>1. /\ Tail(a) \in Seq(S) /\ Len(Tail(a)) = Len(a) - 1 /\ Head(a) = a[1]
      /\ \A i \in 1 .. Len(Tail(a)) : Tail(a)[i] = a[i + 1]
  BY HeadTailProperties
<1>2. Len(a) \in Nat /\ Len(b) \in Nat /\ Len(a) > 0 BY EmptySeq, LenProperties
<1>3. /\ a \o b \in Seq(S) /\ Len(a \o b) = Len(a) + Len(b)
      /\ \A i \in 1 .. Len(a) + Len(b) : (a \o b)[i] = IF i <= Len(a) THEN a[i] ELSE b[i - Len(a)]
  BY ConcatProperties
<1>4. a \o b # << >> /\ (a \o b)[1] = Head(a)
  BY <1>1, <1>2, <1>3, EmptySeq
<1>5. /\ Tail(a \o b) \in Seq(S) /\ Len(Tail(a \o b)) = Len(a) + Len(b) - 1
      /\ \A i \in 1 .. Len(a) + Len(b) - 1 : Tail(a \o b)[i] = (a \o b)[i + 1]
  BY <1>3, <1>4, HeadTailProperties
<1>6. /\ Tail(a) \o b \in Seq(S) /\ Len(Tail(a) \o b) = Len(a) - 1 + Len(b)
      /\ \A i \in 1 .. Len(a) - 1 + Len(b) :
           (Tail(a) \o b)[i] = IF i <= Len(a) - 1 THEN Tail(a)[i] ELSE b[i - (Len(a) - 1)]
  BY <1>1, ConcatProperties
<1>7. \A i \in 1 .. Len(a) + Len(b) - 1 : Tail(a \o b)[i] = (Tail(a) \o b)[i]
  BY <1>1, <1>2, <1>3, <1>5, <1>6
<1> QED BY <1>2, <1>4, <1>5, <1>6, <1>7, SeqEqual

----------------------------------------------------------------------------
(* The input.                                                              *)

LEMMA ScriptIs ==
  ASSUME TypeOK
  PROVE  /\ DOMAIN script \subseteq Nat \ {0}
         /\ \A k \in DOMAIN script : script[k] \in Request
  BY ScriptsAssumption DEF TypeOK

LEMMA LineIs ==
  ASSUME TypeOK, NEW k \in Nat
  PROVE  /\ Line(k) = NoToken \/ (Valid(Line(k)) /\ Line(k) = Token("line", k, 0))
         /\ Line(k) \in Tokens
  BY DEF Line, Valid, Token, NoToken, Tokens

\* What follows a token of the client is one, too.
LEMMA AfterIs ==
  ASSUME TypeOK, NEW m, Valid(m)
  PROVE  /\ After(m) = NoToken \/ Valid(After(m))
         /\ After(m) \in Tokens
<1> DEFINE r == script[m.k]
<1>1. /\ m.k \in Nat /\ m.n \in Nat /\ r \in Request /\ m.k \in DOMAIN script
      /\ m.t \in {"line", "head", "chunk", "data", "end"}
  BY ScriptIs DEF Valid, Tokens
<1>2. r.body \in Nat /\ r.chunked \in BOOLEAN BY <1>1 DEF Request
<1>3. /\ Line(m.k + 1) = NoToken \/ Valid(Line(m.k + 1))
      /\ Line(m.k + 1) \in Tokens
  BY <1>1, LineIs
<1> USE DEF After, Valid, Token, Tokens
<1>4. CASE m.t = "line" BY <1>1, <1>4
<1>5. CASE m.t = "head" BY <1>1, <1>2, <1>3, <1>5
<1>6. CASE m.t = "chunk" BY <1>1, <1>2, <1>6
<1>7. CASE m.t = "data"
  <2>1. CASE r.chunked /\ m.n \in {1, r.body} BY <1>1, <1>2, <1>7, <2>1
  <2>2. CASE ~(r.chunked /\ m.n \in {1, r.body}) /\ m.n < r.body BY <1>1, <1>2, <1>7, <2>2
  <2>3. CASE ~(r.chunked /\ m.n \in {1, r.body}) /\ ~(m.n < r.body) BY <1>3, <1>7, <2>3
  <2> QED BY <2>1, <2>2, <2>3
<1>8. CASE m.t = "end" BY <1>1, <1>3, <1>8
<1> QED BY <1>1, <1>4, <1>5, <1>6, <1>7, <1>8

LEMMA InIs ==
  ASSUME TypeOK
  PROVE  In \in Seq(Tokens) /\ Len(In) \in Nat /\ (In # << >> <=> Len(In) > 0)
  BY ConcatProperties, EmptySeq DEF TypeOK, In

\* The server does not touch it.
LEMMA InputKept ==
  ASSUME InputInv, UNCHANGED <<script, toSend, clientOpen>>, In' = In,
         pc' = "closed" <=> pc = "closed"
  PROVE  InputInv' /\ Tip' = Tip
  BY DEF InputInv, Tip, Valid, After, Line

LEMMA InputSent ==
  ASSUME TypeOK, InputInv, Send
  PROVE  InputInv' /\ Tip' = Tip
<1> USE DEF Send
<1>1. toSend \in Tokens /\ Valid(toSend) /\ UNCHANGED <<script, buf, clientOpen, pc>>
  BY DEF TypeOK, InputInv, parse
<1>2. In' = Append(In, toSend) BY <1>1, AppendedBehind DEF In, TypeOK
<1>3. /\ In \in Seq(Tokens) /\ Len(In) \in Nat /\ (In # << >> <=> Len(In) > 0)
      /\ In' # << >> /\ Len(In') = Len(In) + 1
      /\ \A i \in 1 .. Len(In) : In'[i] = In[i]
      /\ In'[Len(In) + 1] = toSend
  BY <1>1, <1>2, InIs, AppendProperties
<1>4. /\ \A m : Valid(m)' <=> Valid(m)
      /\ \A m : After(m)' = After(m)
  BY <1>1 DEF Valid, After, Line
<1>5. Tip' = Tip BY <1>1, <1>3 DEF Tip
<1>6. toSend' = After(toSend) /\ (toSend' = NoToken \/ Valid(toSend')) BY <1>1, AfterIs
<1>7. ASSUME pc # "closed"
      PROVE  /\ \A i \in 1 .. Len(In') : Valid(In'[i])
             /\ \A i \in 1 .. Len(In') - 1 : In'[i + 1] = After(In'[i])
             /\ toSend' = After(In'[Len(In')])
  <2>1. \A i \in 1 .. Len(In') : i \in 1 .. Len(In) \/ i = Len(In) + 1 BY <1>3
  <2>2. /\ \A i \in 1 .. Len(In) : Valid(In[i])
        /\ \A i \in 1 .. Len(In) - 1 : In[i + 1] = After(In[i])
        /\ In # << >> => toSend = After(In[Len(In)])
    BY <1>7 DEF InputInv
  <2>3. \A i \in 1 .. Len(In') : Valid(In'[i]) BY <1>1, <1>3, <2>1, <2>2
  <2>4. ASSUME NEW i \in 1 .. Len(In') - 1 PROVE In'[i + 1] = After(In'[i])
    <3>1. CASE i \in 1 .. Len(In) - 1
      <4>1. i \in 1 .. Len(In) /\ i + 1 \in 1 .. Len(In) BY <1>3, <3>1
      <4> QED BY <1>3, <2>2, <3>1, <4>1
    <3>2. CASE i = Len(In)
      <4>1. i \in 1 .. Len(In) /\ In # << >> BY <1>3, <2>4, <3>2
      <4> QED BY <1>3, <2>2, <3>2, <4>1
    <3>3. i \in 1 .. Len(In) - 1 \/ i = Len(In) BY <1>3, <2>4
    <3> QED BY <3>1, <3>2, <3>3
  <2>5. toSend' = After(In'[Len(In')]) BY <1>3, <1>6
  <2> QED BY <2>3, <2>4, <2>5
<1> QED BY <1>1, <1>3, <1>4, <1>5, <1>6, <1>7 DEF InputInv

\* The connection is reset, and what was on the way may be lost.
LEMMA InputCut ==
  ASSUME TypeOK, InputInv, ClientClose
  PROVE  InputInv' /\ Tip' \in {Tip, NoToken}
<1>1. /\ UNCHANGED <<script, buf, toSend, pc>> /\ ~clientOpen' /\ toServer' \in {toServer, << >>}
      /\ clientOpen
  BY DEF ClientClose, parse
<1>2. /\ \A m : Valid(m)' <=> Valid(m)
      /\ \A m : After(m)' = After(m)
  BY <1>1 DEF Valid, After, Line
<1>3. CASE toServer' = toServer
  <2>1. In' = In BY <1>1, <1>3 DEF In
  <2> QED BY <1>1, <1>2, <2>1 DEF InputInv, Tip
<1>4. CASE toServer' = << >>
  <2>1. In' = buf /\ Len(buf) \in Nat /\ (buf # << >> => Len(buf) > 0)
    BY <1>1, <1>4, ConcatEmptySeq, EmptySeq, LenProperties DEF In, TypeOK
  <2>2. Len(In) >= Len(buf) /\ \A i \in 1 .. Len(buf) : buf[i] = In[i]
    BY ConcatProperties, LenProperties DEF In, TypeOK
  <2>3. buf # << >> => In # << >> BY <2>1, <2>2, InIs
  <2>4. InputInv' BY <1>1, <1>2, <2>1, <2>2, InIs DEF InputInv
  <2> QED BY <1>1, <2>1, <2>2, <2>3, <2>4 DEF Tip
<1> QED BY <1>1, <1>3, <1>4

\* read() moves it from the socket to the buffer.
LEMMA InputRead ==
  ASSUME TypeOK, InputInv, ReadSocket
  PROVE  /\ InputInv' /\ Tip' = Tip
         /\ buf' \in Seq(Tokens) /\ toServer' \in Seq(Tokens)
<1> DEFINE n == IF Len(toServer) < BufSize THEN Len(toServer) ELSE BufSize
<1>1. /\ UNCHANGED <<script, toSend, clientOpen, pc>> /\ buf = << >>
      /\ buf' = SubSeq(toServer, 1, n) /\ toServer' = SubSeq(toServer, n + 1, Len(toServer))
  BY DEF ReadSocket, client
<1>2. toServer \in Seq(Tokens) /\ Len(toServer) \in Nat /\ n \in 0 .. Len(toServer)
  BY CapAssumption, LenProperties DEF TypeOK
<1> HIDE DEF n
<1>3. buf' \in Seq(Tokens) /\ toServer' \in Seq(Tokens)
  BY <1>1, <1>2, SubSeqProperties, ElementOfSeq
<1>4. SubSeq(toServer, 1, n) \o SubSeq(toServer, n + 1, Len(toServer)) = SubSeq(toServer, 1, Len(toServer))
  <2>1. /\ 1 \in 1 .. Len(toServer) + 1 /\ n \in 1 - 1 .. Len(toServer)
        /\ Len(toServer) \in n .. Len(toServer)
    BY <1>2
  <2> QED BY <1>2, <2>1, ConcatAdjacentSubSeq
<1>5. SubSeq(toServer, 1, Len(toServer)) = toServer BY <1>2, SubSeqFull
<1>6. In' = In BY <1>1, <1>2, <1>4, <1>5, ConcatEmptySeq DEF In
<1> QED BY <1>1, <1>3, <1>6, InputKept

\* The parser takes the next token.
LEMMA InputTaken ==
  ASSUME TypeOK, InputInv, Take, UNCHANGED <<script, clientOpen, toSend, toServer, pc>>
  PROVE  /\ InputInv' /\ buf' \in Seq(Tokens)
         /\ Tip = Head(buf) /\ Valid(Tip) /\ Tip' \in {After(Tip), NoToken}
<1>1. buf # << >> /\ buf' = Tail(buf) /\ pc = "input" BY DEF Take, InputLoop
<1>2. buf' \in Seq(Tokens) BY <1>1, HeadTailProperties DEF TypeOK
<1>3. In' = Tail(In) /\ In # << >> /\ In[1] = Head(buf)
  <2>1. buf \in Seq(Tokens) /\ toServer \in Seq(Tokens) BY DEF TypeOK
  <2>2. /\ Tail(buf) \o toServer = Tail(buf \o toServer)
        /\ buf \o toServer # << >> /\ (buf \o toServer)[1] = Head(buf)
    BY <1>1, <2>1, TakenBefore
  <2> QED BY <1>1, <2>2 DEF In
<1>4. /\ In \in Seq(Tokens) /\ In' \in Seq(Tokens) /\ Len(In) \in Nat /\ Len(In) > 0
      /\ Len(In') = Len(In) - 1 /\ (In' # << >> <=> Len(In') > 0)
      /\ \A i \in 1 .. Len(In') : In'[i] = In[i + 1]
  <2>0. In # << >> BY <1>3
  <2>1. In \in Seq(Tokens) /\ Len(In) \in Nat /\ Len(In) > 0 BY <2>0, InIs
  <2>2. /\ Tail(In) \in Seq(Tokens) /\ Len(Tail(In)) = Len(In) - 1
        /\ \A i \in 1 .. Len(Tail(In)) : Tail(In)[i] = In[i + 1]
    BY <1>3, <2>1, HeadTailProperties
  <2>3. \A s \in Seq(Tokens) : s # << >> <=> Len(s) > 0 BY EmptySeq
  <2>4. Tail(In) # << >> <=> Len(Tail(In)) > 0 BY <2>2, <2>3
  <2> QED BY <1>3, <2>1, <2>2, <2>4
<1>5. /\ \A m : Valid(m)' <=> Valid(m)
      /\ \A m : After(m)' = After(m)
  BY DEF Valid, After, Line
<1>6. Tip = In[1] /\ Valid(Tip) BY <1>1, <1>3, <1>4 DEF Tip, InputInv
<1>7. InputInv'
  <2>1. \A i \in 1 .. Len(In') : Valid(In'[i]) BY <1>1, <1>4 DEF InputInv
  <2>2. \A i \in 1 .. Len(In') - 1 : In'[i + 1] = After(In'[i]) BY <1>1, <1>4 DEF InputInv
  <2>3. clientOpen /\ In' # << >> => toSend = After(In'[Len(In')]) BY <1>1, <1>4 DEF InputInv
  <2> QED BY <1>1, <1>5, <2>1, <2>2, <2>3 DEF InputInv
<1>8. Tip' \in {After(Tip), NoToken}
  <2>1. CASE In' # << >> BY <1>1, <1>4, <1>6, <2>1 DEF Tip, InputInv
  <2>2. CASE In' = << >>
    <3>1. Len(In) = 1 BY <1>4, <2>2
    <3> QED BY <1>1, <1>3, <1>6, <2>2, <3>1 DEF Tip, InputInv
  <2> QED BY <2>1, <2>2
<1> QED BY <1>2, <1>3, <1>6, <1>7, <1>8

----------------------------------------------------------------------------
(* The output.                                                             *)

LEMMA StreamIs ==
  ASSUME TypeOK
  PROVE  /\ Stream \in Seq(Outputs) /\ Len(Stream) \in Nat /\ (Stream # << >> <=> Len(Stream) > 0)
         /\ LastOut \in Outputs
<1>1. /\ Stream \in Seq(Outputs) /\ Len(Stream) \in Nat
      /\ (Stream # << >> <=> Len(Stream) > 0)
  BY ConcatProperties, EmptySeq DEF TypeOK, Stream
<1>2. LastOut \in Outputs
  <2>1. CASE Stream = << >> BY <2>1 DEF LastOut, Outputs
  <2>2. CASE Stream # << >> BY <1>1, <2>2, ElementOfSeq DEF LastOut
  <2> QED BY <2>1, <2>2
<1> QED BY <1>1, <1>2

LEMMA OutputKept ==
  ASSUME ResponsesInOrder, Stream' = Stream
  PROVE  ResponsesInOrder' /\ LastOut' = LastOut
  BY DEF ResponsesInOrder, LastOut

\* A token more is the next one of the responses.
LEMMA OutputWritten ==
  ASSUME TypeOK, ResponsesInOrder, NEW e \in Outputs, got' = got, toClient' = Append(toClient, e),
         IF LastOut.u = "last" THEN e = [k |-> LastOut.k + 1, u |-> "head"]
                               ELSE e.k = LastOut.k /\ e.u # "head"
  PROVE  ResponsesInOrder' /\ LastOut' = e
<1>1. Stream' = Append(Stream, e) BY AppendedBehind DEF Stream, TypeOK
<1>2. /\ Stream \in Seq(Outputs) /\ Len(Stream) \in Nat /\ (Stream # << >> <=> Len(Stream) > 0)
      /\ Stream' # << >> /\ Len(Stream') = Len(Stream) + 1
      /\ \A p \in 1 .. Len(Stream) : Stream'[p] = Stream[p]
      /\ Stream'[Len(Stream) + 1] = e
  BY <1>1, StreamIs, AppendProperties
<1>3. LastOut' = e BY <1>2 DEF LastOut
<1>4. ResponsesInOrder'
  <2> DEFINE Before(s, p) == IF p = 1 THEN [k |-> 0, u |-> "last"] ELSE s[p - 1]
  <2> SUFFICES ASSUME NEW p \in 1 .. Len(Stream')
               PROVE  IF Before(Stream', p).u = "last"
                      THEN Stream'[p] = [k |-> Before(Stream', p).k + 1, u |-> "head"]
                      ELSE Stream'[p].k = Before(Stream', p).k /\ Stream'[p].u # "head"
    BY DEF ResponsesInOrder
  <2>1. CASE p <= Len(Stream)
    <3>1. p \in 1 .. Len(Stream) /\ Stream'[p] = Stream[p] BY <1>2, <2>1
    <3>2. Before(Stream', p) = Before(Stream, p) BY <1>2, <2>1
    <3> QED BY <3>1, <3>2 DEF ResponsesInOrder
  <2>2. CASE p = Len(Stream) + 1
    <3>1. Stream'[p] = e BY <1>2, <2>2
    <3>2. Before(Stream', p) = LastOut BY <1>2, <2>2 DEF LastOut
    <3> QED BY <3>1, <3>2
  <2>3. p <= Len(Stream) \/ p = Len(Stream) + 1 BY <1>2
  <2> QED BY <2>1, <2>2, <2>3
<1> QED BY <1>3, <1>4

LEMMA OutputCut ==
  ASSUME TypeOK, ResponsesInOrder, got' = got, toClient' = << >>
  PROVE  ResponsesInOrder'
<1>1. Stream' = got /\ Len(got) \in Nat
  BY ConcatEmptySeq, LenProperties DEF Stream, TypeOK
<1>2. Len(got) <= Len(Stream) /\ Len(Stream) \in Nat /\ \A p \in 1 .. Len(got) : Stream[p] = got[p]
  BY ConcatProperties, LenProperties DEF Stream, TypeOK
<1> QED BY <1>1, <1>2 DEF ResponsesInOrder

----------------------------------------------------------------------------
(* Steps that leave most of it as it is.                                   *)

\* Neither the parser nor the handler goes on.
LEMMA Untouched ==
  ASSUME Inv, UNCHANGED <<script, rrs, header, chunkHdr, bodyLen, bodyReadLen, body, handler>>,
         clientOpen' => clientOpen, pc' = "closed" <=> pc = "closed",
         Tip' \in {Tip, NoToken}, clientOpen' => LastOut' = LastOut
  PROVE  ParseInv' /\ OutInv'
<1>1. /\ \A m : Awaited(m)' <=> Awaited(m)
      /\ Counts' <=> Counts
  BY DEF Awaited, Line, Counts
<1>2. ParseInv'
  BY <1>1 DEF Inv, ParseInv
<1>3. OutInv'
  BY DEF Inv, OutInv, Rest, Page
<1> QED BY <1>2, <1>3

\* The server rests where it is.
LEMMA StillWaiting ==
  ASSUME WaitInv, CallInv, NoInternalError,
         UNCHANGED <<pc, rrs, buf, handler, dpr, entry, didRead, call, crash>>
  PROVE  /\ WaitInv' /\ CallInv' /\ NoInternalError'
         /\ PipeInv /\ cgi' = cgi => PipeInv'
<1>1. WaitInv' BY DEF WaitInv, InnerLoopLeft
<1>2. CallInv' BY DEF CallInv
<1>3. NoInternalError' BY DEF NoInternalError
<1>4. PipeInv /\ cgi' = cgi => PipeInv' BY DEF PipeInv
<1> QED BY <1>1, <1>2, <1>3, <1>4

----------------------------------------------------------------------------
(* The client and the CGI program.                                         *)

LEMMA SendInv == Inv /\ Send => Inv'
<1> SUFFICES ASSUME Inv, Send PROVE Inv' OBVIOUS
<1>1. /\ TypeOK /\ InputInv /\ PipeInv /\ WaitInv /\ CallInv /\ ResponsesInOrder /\ NoInternalError
      /\ UNCHANGED <<script, clientOpen, got, toClient, pc, parse, handler, dpr, invocation, cgi, crash>>
      /\ toSend # NoToken /\ toServer' = Append(toServer, toSend) /\ toSend' = After(toSend)
  BY DEF Inv, Send
<1> USE DEF parse, invocation
<1>2. InputInv' /\ Tip' = Tip BY <1>1, InputSent
<1>3. TypeOK'
  <2>1. toSend \in Tokens /\ Valid(toSend) /\ toServer \in Seq(Tokens) BY <1>1 DEF TypeOK, InputInv
  <2>2. toSend' \in Tokens BY <1>1, <2>1, AfterIs
  <2>3. toServer' \in Seq(Tokens) BY <1>1, <2>1, AppendProperties
  <2> QED BY <1>1, <2>2, <2>3 DEF TypeOK
<1>4. Stream' = Stream BY <1>1 DEF Stream
<1>5. ResponsesInOrder' /\ LastOut' = LastOut BY <1>1, <1>4, OutputKept
<1>6. ParseInv' /\ OutInv' BY <1>1, <1>2, <1>5, Untouched
<1>7. PipeInv' /\ WaitInv' /\ CallInv' /\ NoInternalError' BY <1>1, StillWaiting
<1> QED BY <1>2, <1>3, <1>5, <1>6, <1>7 DEF Inv

LEMMA ReceiveInv == Inv /\ Receive => Inv'
<1> SUFFICES ASSUME Inv, Receive PROVE Inv' OBVIOUS
<1>1. /\ TypeOK /\ InputInv /\ PipeInv /\ WaitInv /\ CallInv /\ ResponsesInOrder /\ NoInternalError
      /\ UNCHANGED <<script, toSend, clientOpen, toServer, pc, parse, handler, dpr, invocation, cgi, crash>>
      /\ got' = Append(got, Head(toClient)) /\ toClient' = Tail(toClient) /\ toClient # << >>
  BY DEF Inv, Receive
<1> USE DEF parse, invocation
<1>2. In' = In BY <1>1 DEF In
<1>3. InputInv' /\ Tip' = Tip BY <1>1, <1>2, InputKept
<1>4. TypeOK'
  <2>1. toClient \in Seq(Outputs) /\ got \in Seq(Outputs) /\ Len(toClient) \in Nat
    BY <1>1, LenProperties DEF TypeOK
  <2>2. /\ Head(toClient) \in Outputs
        /\ toClient' \in Seq(Outputs) /\ Len(toClient') = Len(toClient) - 1
    BY <1>1, <2>1, HeadTailProperties
  <2>3. got' \in Seq(Outputs) BY <1>1, <2>1, <2>2, AppendProperties
  <2>4. SockCap \in Nat BY CapAssumption
  <2> QED BY <1>1, <2>1, <2>2, <2>3, <2>4 DEF TypeOK
<1>5. Stream' = Stream BY <1>1, MovedOver DEF Stream, TypeOK
<1>6. ResponsesInOrder' /\ LastOut' = LastOut BY <1>1, <1>5, OutputKept
<1>7. ParseInv' /\ OutInv' BY <1>1, <1>3, <1>6, Untouched
<1>8. PipeInv' /\ WaitInv' /\ CallInv' /\ NoInternalError' BY <1>1, StillWaiting
<1> QED BY <1>3, <1>4, <1>6, <1>7, <1>8 DEF Inv

LEMMA ClientCloseInv == Inv /\ ClientClose => Inv'
<1> SUFFICES ASSUME Inv, ClientClose PROVE Inv' OBVIOUS
<1>1. /\ TypeOK /\ InputInv /\ PipeInv /\ WaitInv /\ CallInv /\ ResponsesInOrder /\ NoInternalError
      /\ UNCHANGED <<script, toSend, got, pc, parse, handler, dpr, invocation, cgi, crash>>
      /\ clientOpen' = FALSE /\ toServer' \in {toServer, << >>} /\ toClient' = << >>
  BY DEF Inv, ClientClose
<1> USE DEF parse, invocation
<1>2. InputInv' /\ Tip' \in {Tip, NoToken} BY <1>1, InputCut
<1>3. TypeOK'
  <2>1. toClient' \in Seq(Outputs) /\ Len(toClient') <= SockCap
    BY <1>1, CapAssumption
  <2>2. toServer \in Seq(Tokens) /\ << >> \in Seq(Tokens) BY <1>1, EmptySeq DEF TypeOK
  <2>3. toServer' \in Seq(Tokens) BY <1>1, <2>2
  <2>4. /\ script' \in Scripts /\ clientOpen' \in BOOLEAN /\ toSend' \in Tokens
        /\ buf' \in Seq(Tokens) /\ body' \in Seq(Tokens) /\ got' \in Seq(Outputs)
    BY <1>1 DEF TypeOK
  <2> QED BY <1>1, <2>1, <2>3, <2>4 DEF TypeOK
<1>4. ResponsesInOrder' BY <1>1, OutputCut
<1>5. ParseInv' /\ OutInv' BY <1>1, <1>2, Untouched
<1>6. PipeInv' /\ WaitInv' /\ CallInv' /\ NoInternalError' BY <1>1, StillWaiting
<1> QED BY <1>2, <1>3, <1>4, <1>5, <1>6 DEF Inv

\* Nothing but the state of the CGI program changes.
LEMMA CgiStepInv ==
  ASSUME Inv, CgiStep,
         cgi' \in Programs, Len(cgi'.out) <= PipeCap, cgi'.inWr = cgi.inWr
  PROVE  Inv'
<1>1. /\ TypeOK /\ InputInv /\ PipeInv /\ WaitInv /\ CallInv /\ ResponsesInOrder /\ NoInternalError
      /\ UNCHANGED <<client, net, pc, parse, handler, dpr, invocation, crash>>
      /\ cgi.runs
  BY DEF Inv, CgiStep
<1> USE DEF client, net, parse, invocation
<1>2. InputInv' /\ Tip' = Tip BY <1>1, InputKept DEF In
<1>3. TypeOK' BY <1>1 DEF TypeOK
<1>4. ResponsesInOrder' /\ LastOut' = LastOut BY <1>1, OutputKept DEF Stream
<1>5. ParseInv' /\ OutInv' BY <1>1, <1>2, <1>4, Untouched
<1>6. cgi # NoCgi BY <1>1 DEF NoCgi
<1>7. PipeInv' BY <1>1, <1>6 DEF PipeInv
<1>8. WaitInv' /\ CallInv' /\ NoInternalError' BY <1>1, StillWaiting
<1> QED BY <1>2, <1>3, <1>4, <1>5, <1>7, <1>8 DEF Inv

LEMMA CgiInv == Inv /\ (CgiRead \/ CgiWrite \/ CgiCloseOutput \/ CgiExit) => Inv'
<1> SUFFICES ASSUME Inv, CgiRead \/ CgiWrite \/ CgiCloseOutput \/ CgiExit PROVE Inv' OBVIOUS
<1>1. /\ cgi \in Programs /\ Len(cgi.out) <= PipeCap /\ Len(cgi.out) \in Nat /\ PipeCap \in Nat
  BY CapAssumption, LenProperties DEF Inv, TypeOK, Programs
<1> USE DEF Programs
<1>2. CASE CgiRead BY <1>1, <1>2, CgiStepInv DEF CgiRead
<1>3. CASE CgiWrite
  <2> DEFINE e == IF cgi.wrote = 0 THEN "head" ELSE "data"
  <2>1. Append(cgi.out, e) \in Seq({"head", "data"}) /\ Len(Append(cgi.out, e)) = Len(cgi.out) + 1
    BY <1>1, AppendProperties
  <2>2. CgiStep /\ Len(cgi.out) < PipeCap
        /\ cgi' = [cgi EXCEPT !.out = Append(@, e), !.wrote = @ + 1]
    BY <1>3 DEF CgiWrite
  <2> HIDE DEF e
  <2>3. cgi' = [runs |-> cgi.runs, in |-> cgi.in, inWr |-> cgi.inWr, inRd |-> cgi.inRd,
                out |-> Append(cgi.out, e), outWr |-> cgi.outWr, outRd |-> cgi.outRd,
                wrote |-> cgi.wrote + 1]
    BY <1>1, <2>2
  <2>4. Len(Append(cgi.out, e)) <= PipeCap BY <1>1, <2>1, <2>2
  <2>5. cgi' \in Programs /\ cgi'.inWr = cgi.inWr /\ cgi'.out = Append(cgi.out, e)
    BY <1>1, <2>1, <2>3
  <2> QED BY <2>2, <2>4, <2>5, CgiStepInv
<1>4. CASE CgiCloseOutput BY <1>1, <1>4, CgiStepInv DEF CgiCloseOutput
<1>5. CASE CgiExit
  <2>1. CgiStep /\ cgi' = [cgi EXCEPT !.runs = FALSE, !.outWr = FALSE, !.inRd = FALSE, !.in = 0]
    BY <1>5 DEF CgiExit
  <2>2. cgi' = [runs |-> FALSE, in |-> 0, inWr |-> cgi.inWr, inRd |-> FALSE,
                out |-> cgi.out, outWr |-> FALSE, outRd |-> cgi.outRd, wrote |-> cgi.wrote]
    BY <1>1, <2>1
  <2>3. cgi' \in Programs /\ cgi'.inWr = cgi.inWr /\ cgi'.out = cgi.out BY <1>1, <2>2
  <2> QED BY <1>1, <2>1, <2>3, CgiStepInv
<1> QED BY <1>2, <1>3, <1>4, <1>5

LEMMA EnvironmentInv == Inv /\ Environment => Inv'
  BY SendInv, ReceiveInv, ClientCloseInv, CgiInv DEF Environment

----------------------------------------------------------------------------
(* Steps of the server that take no input and send no output.             *)

\* Only the control goes on.
LEMMA ControlInv ==
  ASSUME Inv, UNCHANGED <<client, net, parse, handler, cgi>>, TypeOK', WaitInv', CallInv',
         NoInternalError', pc # "closed", pc' # "closed"
  PROVE  Inv'
<1>1. /\ TypeOK /\ InputInv /\ PipeInv /\ ResponsesInOrder
      /\ UNCHANGED <<client, net, parse, handler, cgi>>
  BY DEF Inv
<1> USE DEF client, net, parse
<1>2. InputInv' /\ Tip' = Tip BY <1>1, InputKept DEF In
<1>3. ResponsesInOrder' /\ LastOut' = LastOut BY <1>1, OutputKept DEF Stream
<1>4. ParseInv' /\ OutInv' BY <1>1, <1>2, <1>3, Untouched
<1>5. PipeInv' BY <1>1 DEF PipeInv
<1> QED BY <1>2, <1>3, <1>4, <1>5 DEF Inv

LEMMA AwaitsAre ==
  /\ READY \in Awaits
  /\ \A fd \in {"socket", "cgi_in", "cgi_out"} :
       /\ AwaitRead(fd) \in Awaits /\ AwaitRead(fd) # READY
       /\ AwaitWrite(fd) \in Awaits /\ AwaitWrite(fd) # READY
       /\ \A f \in {"socket", "cgi_in", "cgi_out"} : AwaitRead(fd) # AwaitWrite(f)
  BY DEF Awaits, AwaitRead, AwaitWrite, READY

LEMMA BeginInv == Inv /\ Begin => Inv'
<1> SUFFICES ASSUME Inv, Begin PROVE Inv' OBVIOUS
<1>1. /\ TypeOK /\ WaitInv /\ CallInv /\ NoInternalError
      /\ UNCHANGED <<client, net, parse, handler, cgi, call, crash>>
      /\ pc = "begin" /\ pc' = "input" /\ dpr' = [closeConn |-> FALSE, req |-> READY, resp |-> READY]
      /\ entry' = rrs /\ didRead' = FALSE /\ closeIfIdle' \in BOOLEAN
  BY DEF Inv, Begin, dpr_init
<1> USE DEF client, net, parse
<1>2. TypeOK' BY <1>1, AwaitsAre DEF TypeOK
<1>3. WaitInv' BY <1>1, AwaitsAre DEF WaitInv, InnerLoopLeft
<1>4. CallInv' /\ NoInternalError' BY <1>1 DEF CallInv, NoInternalError
<1> QED BY <1>1, <1>2, <1>3, <1>4, ControlInv

LEMMA ReadSocketInv == Inv /\ ReadSocket => Inv'
<1> SUFFICES ASSUME Inv, ReadSocket PROVE Inv' OBVIOUS
<1>1. /\ TypeOK /\ InputInv /\ PipeInv /\ WaitInv /\ CallInv /\ ResponsesInOrder /\ NoInternalError
      /\ UNCHANGED <<client, toClient, pc, rrs, header, chunkHdr, bodyLen, bodyReadLen, body,
                     handler, dpr, closeIfIdle, entry, call, cgi, crash>>
      /\ didRead' = TRUE /\ pc = "input" /\ dpr.req = READY
  BY DEF Inv, ReadSocket, InputLoop
<1> USE DEF client
<1>2. /\ InputInv' /\ Tip' = Tip
      /\ buf' \in Seq(Tokens) /\ toServer' \in Seq(Tokens)
  BY <1>1, InputRead
<1>3. TypeOK' BY <1>1, <1>2 DEF TypeOK
<1>4. ResponsesInOrder' /\ LastOut' = LastOut BY <1>1, OutputKept DEF Stream
<1>5. ParseInv' /\ OutInv' BY <1>1, <1>2, <1>4, Untouched
<1>6. WaitInv' BY <1>1, AwaitsAre DEF WaitInv, InnerLoopLeft
<1>7. PipeInv' /\ CallInv' /\ NoInternalError' BY <1>1 DEF PipeInv, CallInv, NoInternalError
<1> QED BY <1>2, <1>3, <1>4, <1>5, <1>6, <1>7 DEF Inv

LEMMA ReadNothingInv == Inv /\ ReadNothing => Inv'
<1> SUFFICES ASSUME Inv, ReadNothing PROVE Inv' OBVIOUS
<1>1. /\ TypeOK /\ WaitInv /\ CallInv /\ NoInternalError
      /\ UNCHANGED <<client, net, parse, handler, cgi, invocation, crash, pc>>
      /\ pc = "input" /\ rrs # "READ_FINISHED" /\ buf = << >> /\ dpr.req = READY
      /\ dpr' = IF clientOpen THEN [dpr EXCEPT !.req = AwaitRead("socket")]
                              ELSE [dpr EXCEPT !.closeConn = TRUE]
  BY DEF Inv, ReadNothing, InputLoop
<1> USE DEF client, net, parse, invocation
<1>2. TypeOK' BY <1>1, AwaitsAre DEF TypeOK
<1>3. WaitInv' BY <1>1, AwaitsAre DEF WaitInv, InnerLoopLeft, TypeOK
<1>4. CallInv' /\ NoInternalError' BY <1>1 DEF CallInv, NoInternalError
<1> QED BY <1>1, <1>2, <1>3, <1>4, ControlInv

LEMMA BodyBlockedInv == Inv /\ BodyBlocked => Inv'
<1> SUFFICES ASSUME Inv, BodyBlocked PROVE Inv' OBVIOUS
<1>1. /\ TypeOK /\ WaitInv /\ CallInv /\ NoInternalError
      /\ UNCHANGED <<client, net, parse, handler, cgi, invocation, crash, pc>>
      /\ pc = "input" /\ rrs = "READ_BODY" /\ dpr.req = READY
      /\ dpr' = [dpr EXCEPT !.req = AwaitWrite("cgi_in")]
  BY DEF Inv, BodyBlocked, InputLoop, MoreBody
<1> USE DEF client, net, parse, invocation
<1>2. TypeOK' BY <1>1, AwaitsAre DEF TypeOK
<1>3. WaitInv' BY <1>1, AwaitsAre DEF WaitInv, InnerLoopLeft, TypeOK
<1>4. CallInv' /\ NoInternalError' BY <1>1 DEF CallInv, NoInternalError
<1> QED BY <1>1, <1>2, <1>3, <1>4, ControlInv

\* The process ends.
LEMMA DieInv ==
  ASSUME Inv, NEW how, Die(how), how # "INTERNAL ERROR", pc \notin {"begin", "closed"}
  PROVE  Inv'
<1>1. /\ TypeOK /\ WaitInv /\ CallInv
      /\ UNCHANGED <<client, net, parse, handler, cgi, invocation, dpr>>
      /\ pc' = "crashed" /\ crash' = how
  BY DEF Inv, Die
<1> USE DEF client, net, parse, invocation
<1>2. TypeOK' BY <1>1 DEF TypeOK
<1>3. WaitInv' BY <1>1 DEF WaitInv, InnerLoopLeft
<1>4. CallInv' /\ NoInternalError' BY <1>1 DEF CallInv, NoInternalError
<1> QED BY <1>1, <1>2, <1>3, <1>4, ControlInv

LEMMA DeathsInv == Inv /\ (NullHandler \/ NullBody \/ SelectFails) => Inv'
<1>1. Inv /\ NullHandler => Inv' BY DieInv DEF NullHandler, InputLoop
<1>2. Inv /\ NullBody => Inv' BY DieInv DEF NullBody, Answering
<1>3. Inv /\ SelectFails => Inv' BY DieInv DEF SelectFails
<1> QED BY <1>1, <1>2, <1>3

LEMMA InputDoneInv == Inv /\ InputDone => Inv'
<1> SUFFICES ASSUME Inv, InputDone PROVE Inv' OBVIOUS
<1>1. /\ TypeOK /\ WaitInv /\ CallInv /\ NoInternalError /\ ParseInv
      /\ UNCHANGED <<client, net, parse, handler, cgi, invocation, crash, dpr>>
      /\ pc = "input" /\ ~InputLoop
      /\ pc' = IF ~dpr.closeConn /\ handler # NULL THEN "answer" ELSE "done"
  BY DEF Inv, InputDone
<1> USE DEF client, net, parse, invocation
<1>2. TypeOK' BY <1>1 DEF TypeOK
<1>3. WaitInv' BY <1>1 DEF WaitInv, InnerLoopLeft, InputLoop
<1>4. CallInv' /\ NoInternalError' BY <1>1 DEF CallInv, NoInternalError
<1> QED BY <1>1, <1>2, <1>3, <1>4, ControlInv

LEMMA SelectInv == Inv /\ (Select \/ SelectOther) => Inv'
<1> SUFFICES ASSUME Inv, Select \/ SelectOther PROVE Inv' OBVIOUS
<1>1. /\ TypeOK /\ WaitInv /\ CallInv /\ NoInternalError
      /\ UNCHANGED <<client, net, parse, handler, cgi, invocation, crash, dpr>>
      /\ pc = "select" /\ pc' = "begin"
  BY DEF Inv, Select, SelectOther
<1> USE DEF client, net, parse, invocation
<1>2. TypeOK' BY <1>1 DEF TypeOK
<1>3. WaitInv' BY <1>1 DEF WaitInv, InnerLoopLeft
<1>4. CallInv' /\ NoInternalError' BY <1>1 DEF CallInv, NoInternalError
<1> QED BY <1>1, <1>2, <1>3, <1>4, ControlInv

\* The call returns: CONN_TO_CLOSE frees what is left.
LEMMA ReturnInv == Inv /\ Return => Inv'
<1> SUFFICES ASSUME Inv, Return PROVE Inv' OBVIOUS
<1>1. /\ TypeOK /\ InputInv /\ ParseInv /\ OutInv /\ PipeInv /\ WaitInv /\ CallInv
      /\ ResponsesInOrder /\ NoInternalError
      /\ UNCHANGED <<client, net, rrs, header, chunkHdr, bodyLen, bodyReadLen, body, dpr,
                     closeIfIdle, didRead, entry, crash>>
      /\ pc = "return"
      /\ call' \in [didRead : BOOLEAN, closeIfIdle : BOOLEAN, result : Results]
      /\ \/ /\ call'.result # "CONN_TO_CLOSE" /\ ~dpr.closeConn
            /\ pc' = "select" /\ UNCHANGED <<buf, handler, cgi>>
         \/ pc' = "closed" /\ buf' = << >> /\ handler' = NULL /\ cgi' = NoCgi
  BY DEF Inv, Return, TypeOK, Results
<1> USE DEF client, net
<1>2. ResponsesInOrder' /\ LastOut' = LastOut BY <1>1, OutputKept DEF Stream
<1>3. CASE pc' = "select"
  <2>1. /\ UNCHANGED <<buf, handler, cgi>> /\ ~dpr.closeConn
        /\ call'.result # "CONN_TO_CLOSE"
    BY <1>1, <1>3
  <2>2. TypeOK' BY <1>1, <1>3, <2>1 DEF TypeOK
  <2>3. WaitInv' BY <1>1, <1>3, <2>1 DEF WaitInv, InnerLoopLeft
  <2>4. rrs = "IDLE" => buf = << >> BY <1>1, <2>1, AwaitsAre DEF WaitInv, InnerLoopLeft
  <2>5. CallInv' /\ NoInternalError' BY <1>1, <1>3, <2>1, <2>4 DEF CallInv, NoInternalError
  <2> QED BY <1>1, <1>3, <2>1, <2>2, <2>3, <2>5, ControlInv DEF parse
<1>4. CASE pc' = "closed"
  <2>1. buf' = << >> /\ handler' = NULL /\ cgi' = NoCgi BY <1>1, <1>4
  <2>2. TypeOK'
    <3>1. NoCgi \in Programs /\ Len(NoCgi.out) <= PipeCap BY CapAssumption DEF NoCgi, Programs
    <3>2. buf' \in Seq(Tokens) BY <2>1, EmptySeq
    <3> QED BY <1>1, <1>4, <2>1, <3>1, <3>2 DEF TypeOK
  <2>3. InputInv' BY <1>1, <1>4 DEF InputInv, Valid
  <2>4. ParseInv' BY <1>1, <1>4, <2>1 DEF ParseInv, Counts
  <2>5. OutInv' /\ WaitInv' /\ CallInv' /\ NoInternalError' /\ PipeInv'
    BY <1>1, <1>4, <2>1 DEF OutInv, WaitInv, CallInv, NoInternalError, PipeInv, InnerLoopLeft, NoCgi
  <2> QED BY <1>2, <2>2, <2>3, <2>4, <2>5 DEF Inv
<1> QED BY <1>1, <1>3, <1>4

\* The sanity check of line 230 does not fail.
LEMMA SaneAtEnd ==
  ASSUME Inv, pc = "done"
  PROVE  ~Insane
  BY DEF Inv, WaitInv, Insane, NotComplete

LEMMA LeaveLoopInv == Inv /\ LeaveLoop => Inv'
<1> SUFFICES ASSUME Inv, LeaveLoop PROVE Inv' OBVIOUS
<1>1. /\ TypeOK /\ WaitInv /\ CallInv /\ NoInternalError
      /\ pc = "done"
      /\ UNCHANGED <<client, net, body, handler, invocation, cgi>>
      /\ UNCHANGED <<rrs, buf, header, chunkHdr, bodyLen, bodyReadLen>>
      /\ dpr' = [dpr EXCEPT !.closeConn = @ \/ ~NotComplete]
      /\ crash' = crash /\ pc' = "return"
  BY SaneAtEnd DEF Inv, LeaveLoop, Done
<1> USE DEF client, net, parse, invocation
<1>2. /\ dpr.closeConn \in BOOLEAN /\ NotComplete \in BOOLEAN
      /\ dpr'.req = dpr.req /\ dpr'.resp = dpr.resp /\ dpr' \in [closeConn : BOOLEAN, req : Awaits, resp : Awaits]
      /\ dpr.closeConn => dpr'.closeConn
  BY <1>1 DEF TypeOK, NotComplete
<1>3. TypeOK' BY <1>1, <1>2 DEF TypeOK
<1>4. WaitInv' BY <1>1, <1>2 DEF WaitInv, InnerLoopLeft
<1>5. CallInv' /\ NoInternalError' BY <1>1 DEF CallInv, NoInternalError
<1> QED BY <1>1, <1>3, <1>4, <1>5, ControlInv

\* The next request begins.
LEMMA NextRequestInv == Inv /\ NextRequest => Inv'
<1> SUFFICES ASSUME Inv, NextRequest PROVE Inv' OBVIOUS
<1>1. /\ TypeOK /\ InputInv /\ ParseInv /\ OutInv /\ PipeInv /\ WaitInv /\ CallInv
      /\ ResponsesInOrder /\ NoInternalError
      /\ UNCHANGED <<client, net, body, handler, invocation, cgi, buf, dpr, crash>>
      /\ pc = "done" /\ pc' = "input"
      /\ ~dpr.closeConn /\ rrs = "READ_FINISHED" /\ handler = NULL
      /\ rrs' = "IDLE" /\ header' = NULL /\ chunkHdr' = FALSE
      /\ bodyLen' = 0 /\ bodyReadLen' = 0
  BY DEF Inv, NextRequest, Done, NotComplete
<1> USE DEF client, net, invocation
<1>2. InputInv' /\ Tip' = Tip BY <1>1, InputKept DEF In
<1>3. ResponsesInOrder' /\ LastOut' = LastOut BY <1>1, OutputKept DEF Stream
<1>4. TypeOK'
  <2>1. bodyReadLen' \in 0 .. bodyLen' /\ bodyLen' \in Nat BY <1>1
  <2>2. rrs' \in ReadStates BY <1>1 DEF ReadStates
  <2>3. header' \in {NULL} \union DOMAIN script' BY <1>1
  <2>4. chunkHdr' \in BOOLEAN BY <1>1
  <2> QED BY <1>1, <2>1, <2>2, <2>3, <2>4 DEF TypeOK
<1>5. /\ header \in Nat /\ header # NULL
      /\ Tip = NoToken \/ Tip = Line(header + 1)
  BY <1>1, ScriptIs DEF ParseInv, Awaited, TypeOK
<1>6. Tip = NoToken \/ Tip = Token("line", header + 1, 0) BY <1>1, <1>5, LineIs
<1>7. ParseInv' BY <1>1, <1>2, <1>6 DEF ParseInv, Awaited, Token
<1>8. OutInv' BY <1>1, <1>2, <1>3, <1>5, <1>6 DEF OutInv, Token
<1>9. PipeInv' BY <1>1 DEF PipeInv
<1>10. WaitInv' BY <1>1, AwaitsAre DEF WaitInv, InnerLoopLeft
<1>11. CallInv' /\ NoInternalError' BY <1>1 DEF CallInv, NoInternalError
<1> QED BY <1>2, <1>3, <1>4, <1>7, <1>8, <1>9, <1>10, <1>11 DEF Inv

----------------------------------------------------------------------------
(* Steps of the parser.                                                    *)

\* What a step that takes a token has in common.
LEMMA TakenInv ==
  ASSUME Inv, Take, TypeOK', ParseInv', OutInv', PipeInv'
  PROVE  Inv'
<1>1. /\ TypeOK /\ InputInv /\ WaitInv /\ CallInv /\ ResponsesInOrder /\ NoInternalError
      /\ UNCHANGED <<client, net, pc, dpr, invocation, crash>>
      /\ pc = "input" /\ dpr.req = READY /\ buf # << >>
  BY DEF Inv, Take, InputLoop
<1> USE DEF client, net, invocation
<1>2. InputInv' BY <1>1, InputTaken
<1>3. ResponsesInOrder' BY <1>1, OutputKept DEF Stream
<1>4. WaitInv' BY <1>1, AwaitsAre DEF WaitInv, InnerLoopLeft
<1>5. CallInv' /\ NoInternalError' BY <1>1 DEF CallInv, NoInternalError
<1> QED BY <1>2, <1>3, <1>4, <1>5 DEF Inv

\* The token it takes is the one it awaits.
LEMMA TakenFacts ==
  ASSUME Inv, Take
  PROVE  /\ UNCHANGED <<script, toSend, clientOpen, got, toServer, toClient, pc, dpr, didRead,
                        closeIfIdle, entry, call, crash>>
         /\ pc = "input" /\ rrs # "READ_FINISHED"
         /\ buf' \in Seq(Tokens)
         /\ Tip = Head(buf) /\ Valid(Tip) /\ Awaited(Tip) /\ Tip' \in {After(Tip), NoToken}
         /\ LastOut' = LastOut
         /\ Tip.k \in DOMAIN script /\ Tip.k \in Nat /\ script[Tip.k] \in Request
<1>1. /\ TypeOK /\ InputInv /\ ParseInv /\ ResponsesInOrder
      /\ UNCHANGED <<script, toSend, clientOpen, got, toServer, toClient, pc, dpr, didRead,
                     closeIfIdle, entry, call, crash>>
      /\ pc = "input" /\ rrs # "READ_FINISHED"
  BY DEF Inv, Take, InputLoop, client, net, invocation
<1>2. /\ buf' \in Seq(Tokens)
      /\ Tip = Head(buf) /\ Valid(Tip) /\ Tip' \in {After(Tip), NoToken}
  BY <1>1, InputTaken
<1>3. Tip # NoToken BY <1>2 DEF Valid, NoToken, Token
<1>4. Awaited(Tip) BY <1>1, <1>3 DEF ParseInv
<1>5. LastOut' = LastOut BY <1>1, OutputKept DEF Stream
<1>6. Tip.k \in DOMAIN script /\ Tip.k \in Nat /\ script[Tip.k] \in Request
  BY <1>1, <1>2, ScriptIs DEF Valid
<1> QED BY <1>1, <1>2, <1>4, <1>5, <1>6

LEMMA HeadPieceInv == Inv /\ HeadPiece => Inv'
<1> SUFFICES ASSUME Inv, HeadPiece PROVE Inv' OBVIOUS
<1>1. /\ TypeOK /\ ParseInv /\ OutInv /\ PipeInv
      /\ rrs \in {"IDLE", "READ_HEAD"} /\ Take /\ Head(buf).t # "head"
      /\ rrs' = "READ_HEAD" /\ header' = Head(buf).k
      /\ UNCHANGED <<chunkHdr, bodyLen, bodyReadLen, body, handler, cgi>>
  BY DEF Inv, HeadPiece
<1>2. /\ UNCHANGED <<script, toSend, clientOpen, got, toServer, toClient, pc, dpr, didRead,
                     closeIfIdle, entry, call, crash>>
      /\ pc = "input" /\ buf' \in Seq(Tokens)
      /\ Tip = Head(buf) /\ Awaited(Tip) /\ Tip' \in {After(Tip), NoToken} /\ LastOut' = LastOut
      /\ Tip.k \in DOMAIN script /\ Tip.k \in Nat
  BY <1>1, TakenFacts
<1>3. Tip.t = "line" /\ header = NULL /\ handler = NULL /\ Tip # NoToken
  <2>1. Tip.t # "head" BY <1>1, <1>2
  <2>2. rrs = "IDLE" => Tip.t = "line" BY <1>2 DEF Awaited
  <2>3. rrs = "READ_HEAD" => Tip.t = "line" /\ header = NULL
    BY <1>2, <2>1 DEF Awaited, Token
  <2>4. (rrs = "IDLE" => header = NULL) /\ handler = NULL BY <1>1 DEF ParseInv
  <2>5. NoToken.t = "none" BY DEF NoToken, Token
  <2> QED BY <1>1, <2>2, <2>3, <2>4, <2>5
<1>4. Tip' \in {Token("head", Tip.k, 0), NoToken} BY <1>2, <1>3 DEF After
<1>5. TypeOK' BY <1>1, <1>2 DEF TypeOK, ReadStates
<1>6. header' # NULL BY <1>1, <1>2, NullAssumption
<1>7. ParseInv' BY <1>1, <1>2, <1>3, <1>4, <1>6 DEF ParseInv, Awaited
<1>8. OutInv' BY <1>1, <1>2, <1>3, <1>6 DEF OutInv
<1>9. PipeInv' BY <1>1 DEF PipeInv
<1> QED BY <1>1, <1>5, <1>7, <1>8, <1>9, TakenInv

\* Responses and programs.
LEMMA PageIs ==
  ASSUME NEW k \in Nat
  PROVE  /\ Page(k) \in Responses /\ CgiPage(k) \in Responses
         /\ Page(k) # NULL /\ CgiPage(k) # NULL
         /\ \A u \in {"head", "data", "last"} :
              [k |-> k, u |-> u] \in Outputs /\ <<[k |-> k, u |-> u]>> \in Seq(Outputs)
         /\ << >> \in Seq(Outputs)
<1>1. \A u \in {"head", "data", "last"} :
         [k |-> k, u |-> u] \in Outputs /\ <<[k |-> k, u |-> u]>> \in Seq(Outputs)
  BY DEF Outputs
<1>2. <<[k |-> k, u |-> "head"], [k |-> k, u |-> "last"]>> \in Seq(Outputs) BY <1>1
<1>3. Page(k) \in Responses /\ CgiPage(k) \in Responses
  BY <1>1, <1>2 DEF Page, CgiPage, Responses
<1> QED BY <1>1, <1>3, NullAssumption, EmptySeq

LEMMA HandlerIs ==
  ASSUME TypeOK, NEW k \in DOMAIN script
  PROVE  /\ reqhdlr_new(k) \in Handlers /\ reqhdlr_new(k).kind = script[k].kind
         /\ reqhdlr_new(k).resp \in {NULL, Page(k)}
         /\ script[k].kind = "FOLDER" => reqhdlr_new(k).resp = NULL
         /\ \A h \in Handlers :
              /\ Completed(h, k) \in Handlers /\ h # NULL /\ Completed(h, k).kind = h.kind
              /\ Completed(h, k).resp = IF h.kind = "FOLDER" THEN Page(k) ELSE h.resp
              /\ h.kind # "FOLDER" => Completed(h, k) = h
<1>1. k \in Nat /\ script[k] \in Request BY ScriptIs
<1>2. Page(k) \in Responses BY <1>1, PageIs
<1> QED BY <1>1, <1>2, NullAssumption DEF reqhdlr_new, Completed, Handler, Handlers, Request, Kinds

LEMMA ProgramIs ==
  /\ NoCgi \in Programs /\ NoCgi.out = << >> /\ ~NoCgi.inWr
  /\ CgiStarted \in Programs /\ CgiStarted.out = << >>
  /\ \A c \in Programs, h \in Handlers :
       /\ InputClosed(h, c) \in Programs /\ InputClosed(h, c).out = c.out
       /\ InputClosed(h, c).inWr => c.inWr /\ h.kind # "CGI"
       /\ h.kind # "CGI" => InputClosed(h, c) = c
  /\ Len(<< >>) = 0 /\ 0 <= PipeCap /\ PipeCap \in Nat
<1>1. Len(<< >>) = 0 /\ 0 <= PipeCap /\ PipeCap \in Nat /\ 0 \in 0 .. PipeCap BY CapAssumption
<1>2. NoCgi \in Programs /\ NoCgi.out = << >> /\ ~NoCgi.inWr BY <1>1 DEF NoCgi, Programs
<1>3. CgiStarted \in Programs /\ CgiStarted.out = << >> BY <1>1 DEF CgiStarted, Programs
<1>4. ASSUME NEW c \in Programs, NEW h \in Handlers
      PROVE  /\ InputClosed(h, c) \in Programs /\ InputClosed(h, c).out = c.out
             /\ InputClosed(h, c).inWr => c.inWr /\ h.kind # "CGI"
             /\ h.kind # "CGI" => InputClosed(h, c) = c
  <2>1. CASE h.kind # "CGI" BY <2>1 DEF InputClosed
  <2>2. CASE h.kind = "CGI"
    <3>1. InputClosed(h, c) = [c EXCEPT !.inWr = FALSE] BY <2>2 DEF InputClosed
    <3>2. [c EXCEPT !.inWr = FALSE] \in Programs BY DEF Programs
    <3>3. [c EXCEPT !.inWr = FALSE].out = c.out /\ ~[c EXCEPT !.inWr = FALSE].inWr
      BY DEF Programs
    <3> QED BY <2>2, <3>1, <3>2, <3>3
  <2> QED BY <2>1, <2>2
<1> QED BY <1>1, <1>2, <1>3, <1>4

\* The header is read: onFinishedHeader.
LEMMA HeadEndInv == Inv /\ HeadEnd => Inv'
<1> SUFFICES ASSUME Inv, HeadEnd PROVE Inv' OBVIOUS
<1> DEFINE k == Head(buf).k
           h == reqhdlr_new(k)
           c == IF h.kind = "CGI" THEN CgiStarted ELSE NoCgi
           r == script[k]
           hasBody == r.chunked \/ r.body > 0
<1>1. /\ TypeOK /\ ParseInv /\ OutInv /\ PipeInv
      /\ rrs \in {"IDLE", "READ_HEAD"} /\ Take /\ Head(buf).t = "head"
      /\ header' = k /\ chunkHdr' = r.chunked
      /\ bodyLen' = IF r.chunked THEN bodyLen ELSE r.body
      /\ rrs' = IF hasBody THEN "READ_BODY" ELSE "READ_FINISHED"
      /\ handler' = IF hasBody THEN h ELSE Completed(h, k)
      /\ cgi' = IF hasBody THEN c ELSE InputClosed(h, c)
      /\ body' = << >> /\ bodyReadLen' = bodyReadLen
  BY DEF Inv, HeadEnd
<1>2. /\ UNCHANGED <<script, toSend, clientOpen, got, toServer, toClient, pc, dpr, didRead,
                     closeIfIdle, entry, call, crash>>
      /\ pc = "input" /\ buf' \in Seq(Tokens)
      /\ Tip = Head(buf) /\ Awaited(Tip) /\ Tip' \in {After(Tip), NoToken} /\ LastOut' = LastOut
      /\ Tip.k \in DOMAIN script /\ Tip.k \in Nat /\ script[Tip.k] \in Request
  BY <1>1, TakenFacts
<1>3. /\ k \in DOMAIN script /\ k \in Nat /\ k # NULL /\ r \in Request
      /\ r.body \in Nat /\ r.chunked \in BOOLEAN
  BY <1>2, NullAssumption DEF Request
<1>4. rrs = "READ_HEAD" /\ header = k /\ Tip = Token("head", k, 0)
  <2>1. Tip.t = "head" /\ Tip.k = k BY <1>1, <1>2
  <2>2. rrs # "IDLE" BY <1>2, <2>1 DEF Awaited
  <2>3. Tip = Token("head", header, 0) BY <1>1, <1>2, <2>1, <2>2 DEF Awaited
  <2> QED BY <1>1, <2>1, <2>2, <2>3 DEF Token
<1>5. After(Tip) = IF r.chunked THEN Token("chunk", k, 0)
                   ELSE IF r.body > 0 THEN Token("data", k, 1) ELSE Line(k + 1)
  BY <1>4 DEF After, Token
<1>6. bodyLen = 0 /\ bodyReadLen = 0 /\ handler = NULL BY <1>1 DEF ParseInv
<1>7. /\ handler' \in Handlers /\ handler' # NULL /\ handler'.kind = h.kind /\ h \in Handlers
      /\ handler'.kind = "FOLDER" /\ hasBody => handler'.resp = NULL
      /\ handler'.resp \in {NULL, Page(k)} /\ Page(k) \in Responses /\ Page(k) # NULL
  BY <1>1, <1>3, HandlerIs, PageIs
<1>8. /\ c \in Programs /\ c.out = << >> /\ (h.kind # "CGI" => c = NoCgi)
      /\ cgi' \in Programs /\ Len(cgi'.out) <= PipeCap
  <2> HIDE DEF h, r, k
  <2>1. /\ NoCgi \in Programs /\ NoCgi.out = << >> /\ CgiStarted \in Programs /\ CgiStarted.out = << >>
        /\ Len(<< >>) <= PipeCap
    BY ProgramIs
  <2>2. c \in Programs /\ c.out = << >> /\ (h.kind # "CGI" => c = NoCgi) BY <2>1
  <2> HIDE DEF c
  <2>3. InputClosed(h, c) \in Programs /\ InputClosed(h, c).out = << >> BY <1>7, <2>2, ProgramIs
  <2>4. cgi' \in Programs /\ cgi'.out = << >> BY <1>1, <2>2, <2>3
  <2> QED BY <2>1, <2>2, <2>4
<1> HIDE DEF k, h, c, r
<1>9. TypeOK'
  <2>1. body' \in Seq(Tokens) BY <1>1, EmptySeq
  <2>2. bodyLen' \in Nat /\ bodyReadLen' \in 0 .. bodyLen' BY <1>1, <1>3, <1>6
  <2>3. rrs' \in ReadStates BY <1>1 DEF ReadStates
  <2>4. header' \in {NULL} \union DOMAIN script' /\ chunkHdr' \in BOOLEAN BY <1>1, <1>2, <1>3
  <2>5. handler' \in {NULL} \union Handlers BY <1>7
  <2> QED BY <1>1, <1>2, <1>8, <2>1, <2>2, <2>3, <2>4, <2>5 DEF TypeOK
<1>10. ParseInv'
  <2>1. Tip' = NoToken \/ Awaited(Tip)'
    <3>1. CASE r.chunked
      <4>1. /\ Tip' \in {Token("chunk", k, 0), NoToken}
            /\ rrs' = "READ_BODY" /\ header' = k /\ bodyLen' = 0 /\ bodyReadLen' = 0
        BY <1>1, <1>2, <1>5, <1>6, <3>1
      <4> QED BY <4>1 DEF Awaited, Token
    <3>2. CASE ~r.chunked /\ r.body > 0
      <4>1. /\ Tip' \in {Token("data", k, 1), NoToken}
            /\ rrs' = "READ_BODY" /\ header' = k /\ bodyLen' > 0 /\ bodyReadLen' = 0
        BY <1>1, <1>2, <1>5, <1>6, <3>2
      <4> QED BY <4>1 DEF Awaited, Token
    <3>3. CASE ~r.chunked /\ ~(r.body > 0)
      <4>1. Tip' \in {Line(k + 1), NoToken} /\ rrs' = "READ_FINISHED" /\ header' = k
        BY <1>1, <1>2, <1>5, <3>3
      <4> QED BY <1>2, <4>1 DEF Awaited, Line
    <3> QED BY <1>3, <3>1, <3>2, <3>3
  <2>2. Counts' BY <1>1, <1>2, <1>3, <1>6 DEF Counts, r
  <2>3. Len(body') = 0 BY <1>1
  <2> QED BY <1>1, <1>3, <1>6, <1>7, <2>1, <2>2, <2>3 DEF ParseInv
<1>11. OutInv'
  <2> SUFFICES ASSUME clientOpen PROVE /\ LastOut'.u = "last" /\ header' = LastOut'.k + 1
                                       /\ handler'.resp = NULL \/ handler'.resp = Page(header')
    BY <1>2, <1>7 DEF OutInv, Rest, Page
  <2>1. LastOut.u = "last" /\ header = LastOut.k + 1
    BY <1>1, <1>2, <1>3, <1>4, <1>6 DEF OutInv
  <2> QED BY <1>1, <1>2, <1>4, <1>7, <2>1
<1>12. PipeInv'
  <2>1. CASE h.kind = "CGI"
    <3>1. InputClosed(h, c).inWr = FALSE
      <4>1. h \in Handlers /\ c \in Programs BY <1>7, <1>8
      <4>2. InputClosed(h, c) \in Programs /\ ~InputClosed(h, c).inWr
        BY <2>1, <4>1, ProgramIs
      <4> QED BY <4>2 DEF Programs
    <3> QED BY <1>1, <1>7, <2>1, <3>1 DEF PipeInv
  <2>2. CASE h.kind # "CGI"
    <3>1. cgi' = NoCgi BY <1>1, <1>7, <1>8, <2>2, ProgramIs
    <3> QED BY <3>1, ProgramIs DEF PipeInv
  <2> QED BY <2>1, <2>2
<1> QED BY <1>1, <1>9, <1>10, <1>11, <1>12, TakenInv

\* A piece of the body for the handler.
LEMMA BodyPieceInv == Inv /\ BodyPiece => Inv'
<1> SUFFICES ASSUME Inv, BodyPiece PROVE Inv' OBVIOUS
<1> DEFINE c == IF ~cgi.inWr THEN cgi
                ELSE IF cgi.inRd THEN [cgi EXCEPT !.in = @ + 1]
                ELSE [cgi EXCEPT !.inWr = FALSE]
           completes == ~chunkHdr /\ bodyReadLen + 1 = bodyLen
           r == script[header]
<1>1. /\ TypeOK /\ ParseInv /\ OutInv /\ PipeInv
      /\ rrs = "READ_BODY" /\ bodyReadLen < bodyLen /\ Take
      /\ handler # NULL /\ ~(cgi.inWr /\ cgi.inRd /\ cgi.in = PipeCap)
      /\ bodyReadLen' = bodyReadLen + 1 /\ body' = Append(body, Head(buf))
      /\ rrs' = IF completes THEN "READ_FINISHED" ELSE rrs
      /\ handler' = IF completes THEN Completed(handler, header) ELSE handler
      /\ cgi' = IF completes THEN InputClosed(handler, c) ELSE c
      /\ UNCHANGED <<header, chunkHdr, bodyLen>>
  BY DEF Inv, BodyPiece, MoreBody
<1>2. /\ UNCHANGED <<script, toSend, clientOpen, got, toServer, toClient, pc, dpr, didRead,
                     closeIfIdle, entry, call, crash>>
      /\ pc = "input" /\ buf' \in Seq(Tokens)
      /\ Tip = Head(buf) /\ Awaited(Tip) /\ Tip' \in {After(Tip), NoToken} /\ LastOut' = LastOut
      /\ Valid(Tip)
  BY <1>1, TakenFacts
<1>3. /\ header # NULL /\ header \in DOMAIN script /\ header \in Nat /\ r \in Request
      /\ r.body \in Nat /\ r.chunked \in BOOLEAN
      /\ bodyLen \in Nat /\ bodyReadLen \in Nat
      /\ chunkHdr = r.chunked /\ bodyLen <= r.body
      /\ chunkHdr => bodyLen \in {0, 1, r.body} /\ (bodyLen > 1 => bodyReadLen > 0)
      /\ ~chunkHdr => bodyLen = r.body
  BY <1>1, ScriptIs DEF ParseInv, Counts, Request, TypeOK
<1>4. Tip = Token("data", header, bodyReadLen + 1) BY <1>1, <1>2 DEF Awaited
<1>5. After(Tip) =
        IF r.chunked /\ bodyReadLen + 1 \in {1, r.body} THEN Token("chunk", header, bodyReadLen + 1)
        ELSE IF bodyReadLen + 1 < r.body THEN Token("data", header, bodyReadLen + 1 + 1)
        ELSE Line(header + 1)
  BY <1>4 DEF After, Token
<1>6. /\ handler \in Handlers /\ handler' \in Handlers /\ handler' # NULL
      /\ handler'.kind = handler.kind
      /\ handler' = handler \/ (completes /\ handler' = Completed(handler, header))
      /\ handler'.resp # handler.resp => /\ completes /\ handler.kind = "FOLDER"
                                         /\ handler'.resp = Page(header) /\ handler.resp = NULL
      /\ Page(header) \in Responses /\ Page(header) # NULL
  BY <1>1, <1>3, HandlerIs, PageIs DEF TypeOK, ParseInv
<1>7. c \in Programs /\ c.out = cgi.out /\ cgi \in Programs
  <2>1. cgi \in Programs /\ PipeCap \in Nat BY <1>1, CapAssumption DEF TypeOK
  <2>2. CASE ~cgi.inWr BY <2>1, <2>2
  <2>3. CASE cgi.inWr /\ cgi.inRd
    <3>1. cgi.in + 1 \in 0 .. PipeCap BY <1>1, <2>1, <2>3 DEF Programs
    <3>2. c = [cgi EXCEPT !.in = @ + 1] BY <2>3
    <3> HIDE DEF c
    <3> QED BY <2>1, <3>1, <3>2 DEF Programs
  <2>4. CASE cgi.inWr /\ ~cgi.inRd
    <3>1. c = [cgi EXCEPT !.inWr = FALSE] BY <2>4
    <3> HIDE DEF c
    <3> QED BY <2>1, <3>1 DEF Programs
  <2>5. cgi.inWr \in BOOLEAN /\ cgi.inRd \in BOOLEAN BY <2>1 DEF Programs
  <2> QED BY <2>2, <2>3, <2>4, <2>5
<1> HIDE DEF c
<1>8. cgi' \in Programs /\ Len(cgi'.out) <= PipeCap
  <2>1. Len(cgi.out) <= PipeCap BY <1>1 DEF TypeOK
  <2>2. cgi' \in Programs /\ cgi'.out = c.out BY <1>1, <1>6, <1>7, ProgramIs
  <2> QED BY <1>7, <2>1, <2>2
<1>9. /\ Head(buf) = Token("data", header, bodyReadLen + 1) /\ Head(buf) \in Tokens
      /\ body \in Seq(Tokens) /\ Len(body) = bodyReadLen
      /\ \A p \in 1 .. Len(body) : body[p] = Token("data", header, p)
  BY <1>1, <1>2, <1>4 DEF TypeOK, ParseInv, Valid
<1>10. /\ body' \in Seq(Tokens) /\ Len(body') = bodyReadLen + 1
       /\ \A p \in 1 .. Len(body') : body'[p] = Token("data", header, p)
  <2>1. /\ body' \in Seq(Tokens) /\ Len(body') = Len(body) + 1
        /\ \A p \in 1 .. Len(body) : body'[p] = body[p]
        /\ body'[Len(body) + 1] = Head(buf)
    BY <1>1, <1>9, AppendProperties
  <2> QED BY <1>3, <1>9, <2>1
<1> HIDE DEF r
<1>11. TypeOK'
  <2>1. bodyReadLen' \in 0 .. bodyLen' BY <1>1, <1>3
  <2>2. rrs' \in ReadStates BY <1>1 DEF ReadStates
  <2>3. handler' \in {NULL} \union Handlers BY <1>6
  <2> QED BY <1>1, <1>2, <1>8, <1>10, <2>1, <2>2, <2>3 DEF TypeOK
<1>12. ParseInv'
  <2>1. CASE completes
    <3>1. /\ ~r.chunked /\ bodyLen = r.body /\ bodyReadLen' = r.body /\ rrs' = "READ_FINISHED"
          /\ ~(bodyReadLen + 1 < r.body)
      BY <1>1, <1>3, <2>1
    <3>2. Tip' \in {Line(header + 1), NoToken} BY <1>2, <1>5, <3>1
    <3>3. Counts' BY <1>1, <1>2, <1>3, <3>1 DEF Counts, r
    <3>4. Tip' = NoToken \/ Awaited(Tip)' BY <1>1, <1>2, <3>1, <3>2 DEF Awaited, Line
    <3> QED BY <1>1, <1>3, <1>10, <3>1, <3>3, <3>4 DEF ParseInv
  <2>2. CASE ~completes
    <3>1. rrs' = "READ_BODY" /\ handler' = handler BY <1>1, <2>2
    <3>2. Counts'
      <4>1. ~chunkHdr => bodyReadLen + 1 < bodyLen BY <1>1, <1>3, <2>2
      <4>2. /\ chunkHdr' = r.chunked /\ bodyLen' <= r.body
            /\ chunkHdr' => bodyLen' \in {0, 1, r.body} /\ (bodyLen' > 1 => bodyReadLen' > 0)
            /\ ~chunkHdr' => bodyReadLen' < bodyLen' /\ bodyLen' = r.body
        BY <1>1, <1>3, <4>1
      <4>3. script'[header'] = r BY <1>1, <1>2 DEF r
      <4> QED BY <3>1, <4>2, <4>3 DEF Counts
    <3>3. Tip' = NoToken \/ Awaited(Tip)'
      <4>1. CASE bodyReadLen + 1 < bodyLen
        <5>1. ~(r.chunked /\ bodyReadLen + 1 \in {1, r.body}) /\ bodyReadLen + 1 < r.body
          BY <1>3, <4>1
        <5>2. Tip' \in {Token("data", header, bodyReadLen' + 1), NoToken} BY <1>1, <1>2, <1>5, <5>1
        <5>3. bodyReadLen' < bodyLen' BY <1>1, <4>1
        <5> QED BY <1>1, <3>1, <5>2, <5>3 DEF Awaited
      <4>2. CASE bodyReadLen + 1 = bodyLen
        <5>1. chunkHdr BY <2>2, <4>2
        <5>2. bodyReadLen + 1 \in {1, r.body} BY <1>3, <4>2, <5>1
        <5>3. Tip' \in {Token("chunk", header, bodyReadLen'), NoToken}
          BY <1>1, <1>2, <1>3, <1>5, <5>1, <5>2
        <5>4. ~(bodyReadLen' < bodyLen') BY <1>1, <1>3, <4>2
        <5> QED BY <1>1, <3>1, <5>3, <5>4 DEF Awaited
      <4>3. bodyReadLen + 1 < bodyLen \/ bodyReadLen + 1 = bodyLen BY <1>1, <1>3
      <4> QED BY <4>1, <4>2, <4>3
    <3> QED BY <1>1, <1>3, <1>10, <3>1, <3>2, <3>3 DEF ParseInv
  <2> QED BY <2>1, <2>2
<1>13. OutInv'
  <2> SUFFICES ASSUME clientOpen
               PROVE  IF handler'.resp = NULL THEN LastOut.u = "last" /\ header = LastOut.k + 1
                      ELSE Rest(handler'.resp)
    BY <1>1, <1>2, <1>6 DEF OutInv, Rest
  <2>1. IF handler.resp = NULL THEN LastOut.u = "last" /\ header = LastOut.k + 1
        ELSE Rest(handler.resp)
    BY <1>1, <1>2 DEF OutInv
  <2>2. CASE handler'.resp = handler.resp BY <2>1, <2>2
  <2>3. CASE handler'.resp # handler.resp
    <3>1. LastOut.u = "last" /\ header = LastOut.k + 1 /\ handler'.resp = Page(header)
      BY <1>6, <2>1, <2>3
    <3> QED BY <1>6, <3>1 DEF Rest, Page
  <2> QED BY <2>2, <2>3
<1>14. PipeInv'
  <2>1. CASE handler.kind = "CGI"
    <3>1. handler \in Handlers /\ c \in Programs BY <1>6, <1>7
    <3>2. InputClosed(handler, c) \in Programs /\ ~InputClosed(handler, c).inWr
      BY <2>1, <3>1, ProgramIs
    <3>3. InputClosed(handler, c).inWr = FALSE BY <3>2 DEF Programs
    <3> QED BY <1>1, <1>6, <2>1, <3>3 DEF PipeInv
  <2>2. CASE handler.kind # "CGI"
    <3>1. cgi = NoCgi /\ c = NoCgi BY <1>1, <2>2, ProgramIs DEF PipeInv, c
    <3>2. cgi' = NoCgi BY <1>1, <1>6, <2>2, <3>1, ProgramIs
    <3> QED BY <3>2, ProgramIs DEF PipeInv
  <2> QED BY <2>1, <2>2
<1> QED BY <1>1, <1>11, <1>12, <1>13, <1>14, TakenInv

\* A chunk header, or the last one.
LEMMA ChunkHeaderInv == Inv /\ ChunkHeader => Inv'
<1> SUFFICES ASSUME Inv, ChunkHeader PROVE Inv' OBVIOUS
<1> DEFINE n == IF Head(buf).t = "chunk" THEN ChunkSize(Head(buf).k, Head(buf).n) ELSE 0
           r == script[header]
<1>1. /\ TypeOK /\ ParseInv /\ OutInv /\ PipeInv
      /\ rrs = "READ_BODY" /\ bodyReadLen = bodyLen /\ Take
      /\ bodyLen' = bodyLen + n
      /\ rrs' = IF n = 0 THEN "READ_TRAILER" ELSE rrs
      /\ UNCHANGED <<header, chunkHdr, bodyReadLen, body, handler, cgi>>
  BY DEF Inv, ChunkHeader
<1>2. /\ UNCHANGED <<script, toSend, clientOpen, got, toServer, toClient, pc, dpr, didRead,
                     closeIfIdle, entry, call, crash>>
      /\ pc = "input" /\ buf' \in Seq(Tokens)
      /\ Tip = Head(buf) /\ Awaited(Tip) /\ Tip' \in {After(Tip), NoToken} /\ LastOut' = LastOut
  BY <1>1, TakenFacts
<1>3. /\ header # NULL /\ header \in DOMAIN script /\ header \in Nat /\ r \in Request
      /\ r.body \in Nat /\ bodyLen \in Nat /\ bodyReadLen \in Nat
      /\ chunkHdr = r.chunked /\ bodyLen <= r.body
      /\ chunkHdr /\ bodyLen \in {0, 1, r.body}
  BY <1>1, ScriptIs DEF ParseInv, Counts, Request, TypeOK
<1>4. Tip = Token("chunk", header, bodyLen) BY <1>1, <1>2, <1>3 DEF Awaited
<1>5. After(Tip) = IF bodyLen < r.body THEN Token("data", header, bodyLen + 1)
                   ELSE Token("end", header, 0)
  BY <1>4 DEF After, Token
<1>6. n = IF bodyLen = 0 /\ r.body > 0 THEN 1 ELSE r.body - bodyLen
  BY <1>2, <1>4 DEF ChunkSize, Token
<1> HIDE DEF n, r
<1>7. /\ n \in Nat /\ (n = 0 <=> bodyLen = r.body)
      /\ bodyLen' \in {0, 1, r.body} /\ bodyLen' <= r.body /\ bodyLen' \in Nat
      /\ bodyLen' > 1 => bodyReadLen > 0
      /\ n # 0 => bodyReadLen < bodyLen' /\ bodyLen < r.body
      /\ n = 0 => bodyLen' = r.body /\ bodyReadLen = r.body
  BY <1>1, <1>3, <1>6
<1>8. TypeOK'
  <2>1. bodyReadLen' \in 0 .. bodyLen' /\ bodyLen' \in Nat BY <1>1, <1>3, <1>7
  <2>2. rrs' \in ReadStates BY <1>1 DEF ReadStates
  <2> QED BY <1>1, <1>2, <2>1, <2>2 DEF TypeOK
<1>9. ParseInv'
  <2>1. Tip' = NoToken \/ Awaited(Tip)'
    <3>1. CASE n = 0
      <4>1. Tip' \in {Token("end", header, 0), NoToken} /\ rrs' = "READ_TRAILER"
        BY <1>1, <1>2, <1>3, <1>5, <1>7, <3>1
      <4> QED BY <1>1, <4>1 DEF Awaited
    <3>2. CASE n # 0
      <4>1. /\ Tip' \in {Token("data", header, bodyReadLen + 1), NoToken} /\ rrs' = "READ_BODY"
            /\ bodyReadLen' < bodyLen'
        BY <1>1, <1>2, <1>3, <1>5, <1>7, <3>2
      <4> QED BY <1>1, <4>1 DEF Awaited
    <3> QED BY <3>1, <3>2
  <2>2. Counts'
    <3>1. script'[header'] = r /\ chunkHdr' = chunkHdr BY <1>1, <1>2 DEF r
    <3>2. rrs' = "READ_BODY" => n # 0 BY <1>1
    <3>3. rrs' # "READ_BODY" => n = 0 BY <1>1
    <3> QED BY <1>1, <1>3, <1>7, <3>1, <3>2, <3>3 DEF Counts
  <2>3. rrs' \notin {"IDLE", "READ_HEAD", "READ_FINISHED"} BY <1>1
  <2> QED BY <1>1, <1>3, <2>1, <2>2, <2>3 DEF ParseInv
<1>10. OutInv' BY <1>1, <1>2, <1>3 DEF OutInv, Rest
<1>11. PipeInv' BY <1>1 DEF PipeInv
<1> QED BY <1>1, <1>8, <1>9, <1>10, <1>11, TakenInv

\* The end of the last chunk: the request is read.
LEMMA TrailerEndInv == Inv /\ TrailerEnd => Inv'
<1> SUFFICES ASSUME Inv, TrailerEnd PROVE Inv' OBVIOUS
<1>1. /\ TypeOK /\ ParseInv /\ OutInv /\ PipeInv
      /\ rrs = "READ_TRAILER" /\ Take /\ handler # NULL
      /\ rrs' = "READ_FINISHED"
      /\ handler' = Completed(handler, header) /\ cgi' = InputClosed(handler, cgi)
      /\ UNCHANGED <<header, chunkHdr, bodyLen, bodyReadLen, body>>
  BY DEF Inv, TrailerEnd
<1>2. /\ UNCHANGED <<script, toSend, clientOpen, got, toServer, toClient, pc, dpr, didRead,
                     closeIfIdle, entry, call, crash>>
      /\ pc = "input" /\ buf' \in Seq(Tokens)
      /\ Awaited(Tip) /\ Tip' \in {After(Tip), NoToken} /\ LastOut' = LastOut
  BY <1>1, TakenFacts
<1>3. header # NULL /\ header \in DOMAIN script /\ header \in Nat
  BY <1>1, ScriptIs DEF ParseInv, TypeOK
<1>4. Tip' \in {Line(header + 1), NoToken}
  <2>1. Tip = Token("end", header, 0) BY <1>1, <1>2 DEF Awaited
  <2> QED BY <1>2, <2>1 DEF After, Token
<1>5. /\ handler \in Handlers /\ handler' \in Handlers /\ handler' # NULL
      /\ handler'.kind = handler.kind
      /\ handler'.resp = IF handler.kind = "FOLDER" THEN Page(header) ELSE handler.resp
      /\ handler.kind = "FOLDER" => handler.resp = NULL
      /\ Page(header) # NULL
  BY <1>1, <1>3, HandlerIs, PageIs DEF TypeOK, ParseInv
<1>6. cgi \in Programs /\ cgi' \in Programs /\ Len(cgi'.out) <= PipeCap
  BY <1>1, <1>5, ProgramIs DEF TypeOK
<1>7. TypeOK' BY <1>1, <1>2, <1>5, <1>6 DEF TypeOK, ReadStates
<1>8. ParseInv'
  <2>1. Tip' = NoToken \/ Awaited(Tip)' BY <1>1, <1>2, <1>4 DEF Awaited, Line
  <2>2. Counts' BY <1>1, <1>2 DEF Counts, ParseInv
  <2> QED BY <1>1, <1>3, <2>1, <2>2 DEF ParseInv
<1>9. OutInv'
  <2>1. CASE handler'.resp = handler.resp BY <1>1, <1>2, <1>5, <2>1 DEF OutInv, Rest
  <2>2. CASE handler.kind = "FOLDER" BY <1>1, <1>2, <1>5, <2>2 DEF OutInv, Rest, Page
  <2> QED BY <1>5, <2>1, <2>2
<1>10. PipeInv'
  <2>1. CASE handler.kind = "CGI" BY <1>1, <1>5, <1>6, <2>1, ProgramIs DEF PipeInv
  <2>2. CASE handler.kind # "CGI" BY <1>1, <1>5, <1>6, <2>2, ProgramIs DEF PipeInv
  <2> QED BY <2>1, <2>2
<1> QED BY <1>1, <1>7, <1>8, <1>9, <1>10, TakenInv

----------------------------------------------------------------------------
(* Steps of the response.                                                  *)

\* What they have in common.
LEMMA AnsweredInv ==
  ASSUME Inv, Answer, pc' \in {"answer", "done"},
         handler' = NULL \/ (/\ handler'.kind = handler.kind
                             /\ handler.kind = "FOLDER" /\ handler.resp = NULL => handler'.resp = NULL),
         TypeOK', OutInv', PipeInv', WaitInv', ResponsesInOrder'
  PROVE  Inv'
<1>1. /\ TypeOK /\ InputInv /\ ParseInv /\ CallInv /\ NoInternalError
      /\ UNCHANGED <<script, toSend, clientOpen, toServer, rrs, buf, header, chunkHdr, bodyLen,
                     bodyReadLen, body, didRead, closeIfIdle, entry, call, crash>>
      /\ pc = "answer" /\ handler # NULL
  BY DEF Inv, Answer, Answering, client, parse, invocation
<1>2. InputInv' /\ Tip' = Tip BY <1>1, InputKept DEF In
<1>3. ParseInv'
  <2>1. /\ \A m : Awaited(m)' <=> Awaited(m)
        /\ Counts' <=> Counts
    BY <1>1 DEF Awaited, Line, Counts
  <2> QED BY <1>1, <1>2, <2>1 DEF ParseInv
<1>4. CallInv' /\ NoInternalError' BY <1>1 DEF CallInv, NoInternalError
<1> QED BY <1>2, <1>3, <1>4 DEF Inv

LEMMA AnswerFacts ==
  ASSUME Inv, Answer
  PROVE  /\ UNCHANGED <<script, toSend, clientOpen, got, toServer, rrs, buf, header, chunkHdr, bodyLen,
                        bodyReadLen, body, didRead, closeIfIdle, entry, call, crash>>
         /\ pc = "answer" /\ handler # NULL /\ handler \in Handlers
         /\ header \in Nat /\ header # NULL /\ dpr.resp = READY
         /\ rrs \in {"READ_BODY", "READ_TRAILER", "READ_FINISHED"}
         /\ clientOpen => IF handler.resp = NULL THEN LastOut.u = "last" /\ header = LastOut.k + 1
                          ELSE Rest(handler.resp)
         /\ dpr \in [closeConn : BOOLEAN, req : Awaits, resp : Awaits]
         /\ cgi \in Programs /\ Len(cgi.out) <= PipeCap
         /\ handler.resp # NULL => handler.resp \in Responses
<1>1. /\ TypeOK /\ ParseInv /\ OutInv /\ WaitInv
      /\ UNCHANGED <<script, toSend, clientOpen, got, toServer, rrs, buf, header, chunkHdr, bodyLen,
                     bodyReadLen, body, didRead, closeIfIdle, entry, call, crash>>
      /\ pc = "answer" /\ handler # NULL
  BY DEF Inv, Answer, Answering, client, parse, invocation
<1>2. handler \in Handlers /\ (handler.resp # NULL => handler.resp \in Responses)
  BY <1>1 DEF TypeOK, Handlers
<1>3. /\ header \in Nat /\ header # NULL
      /\ rrs \in {"READ_BODY", "READ_TRAILER", "READ_FINISHED"}
  BY <1>1, ScriptIs DEF ParseInv, TypeOK, ReadStates
<1>4. /\ dpr \in [closeConn : BOOLEAN, req : Awaits, resp : Awaits]
      /\ cgi \in Programs /\ Len(cgi.out) <= PipeCap
  BY <1>1 DEF TypeOK
<1>5. clientOpen => IF handler.resp = NULL THEN LastOut.u = "last" /\ header = LastOut.k + 1
                    ELSE Rest(handler.resp)
  BY <1>1 DEF OutInv
<1>6. dpr.resp = READY BY <1>1 DEF WaitInv
<1> QED BY <1>1, <1>2, <1>3, <1>4, <1>5, <1>6

\* The call has to wait.
LEMMA AwaitInv ==
  ASSUME Inv, Answer, NEW r \in Awaits, Await(r)
  PROVE  Inv'
<1>1. /\ TypeOK /\ OutInv /\ PipeInv /\ WaitInv /\ ResponsesInOrder
      /\ dpr' = [dpr EXCEPT !.resp = r] /\ pc' = "done" /\ UNCHANGED <<toClient, handler, cgi>>
  BY DEF Inv, Await
<1>2. /\ UNCHANGED <<script, toSend, clientOpen, got, toServer, rrs, buf, header, chunkHdr, bodyLen,
                     bodyReadLen, body, didRead, closeIfIdle, entry, call, crash>>
      /\ pc = "answer" /\ handler # NULL
      /\ dpr \in [closeConn : BOOLEAN, req : Awaits, resp : Awaits]
  BY AnswerFacts
<1>3. TypeOK' BY <1>1, <1>2 DEF TypeOK
<1>4. ResponsesInOrder' /\ LastOut' = LastOut BY <1>1, <1>2, OutputKept DEF Stream
<1>5. OutInv' BY <1>1, <1>2, <1>4 DEF OutInv, Rest
<1>6. PipeInv' /\ WaitInv' BY <1>1, <1>2 DEF PipeInv, WaitInv, InnerLoopLeft
<1> QED BY <1>1, <1>3, <1>4, <1>5, <1>6, AnsweredInv

\* The response goes on with r, and p is what remains of the program's output.
LEMMA RespondedInv ==
  ASSUME Inv, Answer, NEW r \in Responses, SetResp(r), UNCHANGED <<toClient, dpr, pc>>,
         handler.resp # NULL \/ handler.kind = "CGI",
         cgi' \in Programs, Len(cgi'.out) <= PipeCap, cgi'.inWr = cgi.inWr, handler.kind = "CGI" \/ cgi' = cgi,
         clientOpen => Rest(r)
  PROVE  Inv'
<1>1. /\ TypeOK /\ OutInv /\ PipeInv /\ WaitInv /\ ResponsesInOrder
      /\ handler' = [handler EXCEPT !.resp = r]
  BY DEF Inv, SetResp
<1>2. /\ UNCHANGED <<script, toSend, clientOpen, got, toServer, rrs, buf, header, chunkHdr, bodyLen,
                     bodyReadLen, body, didRead, closeIfIdle, entry, call, crash>>
      /\ pc = "answer" /\ handler # NULL /\ handler \in Handlers
  BY AnswerFacts
<1>3. handler' \in Handlers /\ handler' # NULL /\ handler'.kind = handler.kind /\ handler'.resp = r /\ r # NULL
  BY <1>1, <1>2, NullAssumption DEF Handlers
<1>4. TypeOK' BY <1>1, <1>2, <1>3 DEF TypeOK
<1>5. ResponsesInOrder' /\ LastOut' = LastOut BY <1>1, <1>2, OutputKept DEF Stream
<1>6. OutInv' BY <1>1, <1>2, <1>3, <1>5 DEF OutInv, Rest, Page
<1>7. PipeInv' /\ WaitInv' BY <1>1, <1>2, <1>3 DEF PipeInv, WaitInv, InnerLoopLeft
<1> QED BY <1>1, <1>2, <1>3, <1>4, <1>5, <1>6, <1>7, AnsweredInv

LEMMA NoResponseYetInv == Inv /\ NoResponseYet => Inv'
<1> SUFFICES ASSUME Inv, NoResponseYet PROVE Inv' OBVIOUS
<1>1. /\ TypeOK /\ OutInv /\ PipeInv /\ WaitInv /\ ResponsesInOrder
      /\ Answer /\ pc' = "done" /\ UNCHANGED <<toClient, handler, dpr, cgi>>
  BY DEF Inv, NoResponseYet
<1>2. /\ UNCHANGED <<script, toSend, clientOpen, got, toServer, rrs, buf, header, chunkHdr, bodyLen,
                     bodyReadLen, body, didRead, closeIfIdle, entry, call, crash>>
      /\ pc = "answer" /\ handler # NULL
  BY <1>1, AnswerFacts
<1>3. TypeOK' BY <1>1, <1>2 DEF TypeOK
<1>4. ResponsesInOrder' /\ LastOut' = LastOut BY <1>1, <1>2, OutputKept DEF Stream
<1>5. OutInv' BY <1>1, <1>2, <1>4 DEF OutInv, Rest
<1>6. PipeInv' /\ WaitInv' BY <1>1, <1>2 DEF PipeInv, WaitInv, InnerLoopLeft
<1> QED BY <1>1, <1>3, <1>4, <1>5, <1>6, AnsweredInv

\* The output of the program gets shorter, or is closed.
LEMMA OutputTaken ==
  ASSUME NEW c \in Programs, Len(c.out) <= PipeCap
  PROVE  /\ c.out # << >> => LET d == [c EXCEPT !.out = Tail(@)] IN
                             d \in Programs /\ Len(d.out) <= PipeCap /\ d.inWr = c.inWr
         /\ LET d == [c EXCEPT !.outRd = FALSE] IN
            d \in Programs /\ Len(d.out) <= PipeCap /\ d.inWr = c.inWr
<1>1. ASSUME c.out # << >>
      PROVE  LET d == [c EXCEPT !.out = Tail(@)] IN
             d \in Programs /\ Len(d.out) <= PipeCap /\ d.inWr = c.inWr
  <2>1. /\ c.out \in Seq({"head", "data"}) /\ Len(c.out) \in Nat /\ PipeCap \in Nat
    BY CapAssumption, LenProperties DEF Programs
  <2>2. Tail(c.out) \in Seq({"head", "data"}) /\ Len(Tail(c.out)) = Len(c.out) - 1
    BY <1>1, <2>1, HeadTailProperties
  <2> DEFINE t == Tail(c.out)
  <2>3. [c EXCEPT !.out = Tail(@)] = [c EXCEPT !.out = t] OBVIOUS
  <2> HIDE DEF t
  <2>4. [c EXCEPT !.out = t] \in Programs /\ [c EXCEPT !.out = t].out = t /\ [c EXCEPT !.out = t].inWr = c.inWr
    BY <2>2 DEF Programs, t
  <2> QED BY <2>1, <2>2, <2>3, <2>4 DEF t
<1>2. LET d == [c EXCEPT !.outRd = FALSE] IN
      d \in Programs /\ Len(d.out) <= PipeCap /\ d.inWr = c.inWr
  BY DEF Programs
<1> QED BY <1>1, <1>2

\* There are no pipes but a CGI program's.
LEMMA OutputOfHandler ==
  ASSUME Inv, handler.kind # "CGI"
  PROVE  cgi = NoCgi
  BY DEF Inv, PipeInv

LEMMA CgiHeaderInv == Inv /\ CgiHeader => Inv'
<1> SUFFICES ASSUME Inv, CgiHeader PROVE Inv' OBVIOUS
<1>1. Answer /\ handler.resp = NULL /\ handler.kind = "CGI" BY DEF CgiHeader
<1>2. /\ header \in Nat /\ cgi \in Programs /\ Len(cgi.out) <= PipeCap
      /\ clientOpen => LastOut.u = "last" /\ header = LastOut.k + 1
  BY <1>1, AnswerFacts
<1>3. /\ Page(header) \in Responses /\ CgiPage(header) \in Responses BY <1>2, PageIs
<1>4. CASE cgi.out # << >> /\ SetResp(CgiPage(header)) /\ cgi' = [cgi EXCEPT !.out = Tail(@)]
           /\ UNCHANGED <<toClient, dpr, pc>>
  <2>1. cgi' \in Programs /\ Len(cgi'.out) <= PipeCap /\ cgi'.inWr = cgi.inWr
    BY <1>2, <1>4, OutputTaken
  <2>2. clientOpen => Rest(CgiPage(header)) BY <1>2 DEF Rest, CgiPage
  <2> QED BY <1>1, <1>3, <1>4, <2>1, <2>2, RespondedInv
<1>5. CASE SetResp(Page(header)) /\ cgi' = [cgi EXCEPT !.outRd = FALSE]
           /\ UNCHANGED <<toClient, dpr, pc>>
  <2>1. cgi' \in Programs /\ Len(cgi'.out) <= PipeCap /\ cgi'.inWr = cgi.inWr
    BY <1>2, <1>5, OutputTaken
  <2>2. clientOpen => Rest(Page(header)) BY <1>2 DEF Rest, Page
  <2> QED BY <1>1, <1>3, <1>5, <2>1, <2>2, RespondedInv
<1>6. CASE Await(AwaitRead("cgi_out")) BY <1>1, <1>6, AwaitsAre, AwaitInv
<1> QED BY <1>4, <1>5, <1>6 DEF CgiHeader

\* The client gets the token that its stream goes on with.
LEMMA WriteInv == Inv /\ Write => Inv'
<1> SUFFICES ASSUME Inv, Write PROVE Inv' OBVIOUS
<1> DEFINE q == handler.resp.queue
           r == [handler.resp EXCEPT !.queue = Tail(@)]
<1>1. /\ Answer /\ handler.resp # NULL /\ q # << >>
      /\ Len(toClient) < SockCap \/ ~clientOpen
      /\ toClient' = IF clientOpen THEN Append(toClient, Head(q)) ELSE toClient
      /\ handler' = [handler EXCEPT !.resp = r]
      /\ UNCHANGED <<pc, dpr, cgi>>
  BY DEF Write, HasQueue, SetResp
<1>2. /\ UNCHANGED <<script, toSend, clientOpen, got, toServer, rrs, buf, header, chunkHdr, bodyLen,
                     bodyReadLen, body, didRead, closeIfIdle, entry, call, crash>>
      /\ pc = "answer" /\ handler # NULL /\ handler \in Handlers
      /\ header \in Nat /\ handler.resp \in Responses
      /\ clientOpen => Rest(handler.resp)
  BY <1>1, AnswerFacts
<1>3. TypeOK /\ OutInv /\ PipeInv /\ WaitInv /\ ResponsesInOrder BY DEF Inv
<1>4. /\ q \in Seq(Outputs) /\ Head(q) \in Outputs /\ Tail(q) \in Seq(Outputs)
      /\ r \in Responses /\ r.queue = Tail(q) /\ r.more = handler.resp.more
  <2>1. q \in Seq(Outputs) BY <1>2 DEF Responses
  <2>2. Head(q) \in Outputs /\ Tail(q) \in Seq(Outputs) BY <1>1, <2>1, HeadTailProperties
  <2> DEFINE t == Tail(q)
  <2>3. r = [handler.resp EXCEPT !.queue = t] OBVIOUS
  <2> HIDE DEF t, r
  <2>4. r \in Responses /\ r.queue = t /\ r.more = handler.resp.more
    BY <1>2, <2>2, <2>3 DEF Responses, t
  <2> QED BY <2>1, <2>2, <2>4 DEF t
<1> HIDE DEF r
<1>5. /\ handler' \in Handlers /\ handler' # NULL /\ handler'.kind = handler.kind
      /\ handler'.resp = r /\ r # NULL
      /\ handler'.resp.queue = Tail(q) /\ handler'.resp.more = handler.resp.more
  BY <1>1, <1>2, <1>4, NullAssumption DEF Handlers
<1>6. ASSUME clientOpen
      PROVE  /\ IF LastOut.u = "last" THEN Head(q) = [k |-> LastOut.k + 1, u |-> "head"]
                                      ELSE Head(q).k = LastOut.k /\ Head(q).u # "head"
             /\ LastOut' = Head(q) => Rest(handler.resp)'
  <2>1. Rest(handler.resp) BY <1>2, <1>6
  <2>2. CASE handler.resp.queue = Page(header).queue /\ ~handler.resp.more
    <3>1. /\ Head(q) = [k |-> header, u |-> "head"] /\ Tail(q) = <<[k |-> header, u |-> "last"]>>
          /\ LastOut.u = "last" /\ header = LastOut.k + 1
      BY <2>1, <2>2 DEF Rest, Page
    <3> QED BY <1>2, <1>5, <2>2, <3>1 DEF Rest
  <2>3. CASE q = <<[k |-> header, u |-> "last"]>> /\ ~handler.resp.more
    <3>1. /\ Head(q) = [k |-> header, u |-> "last"] /\ Tail(q) = << >>
          /\ LastOut.u # "last" /\ LastOut.k = header
      BY <2>1, <2>3 DEF Rest, Page
    <3> QED BY <1>2, <1>5, <2>3, <3>1 DEF Rest
  <2>4. CASE q = <<[k |-> header, u |-> "head"]>> /\ handler.resp.more
    <3>1. /\ Head(q) = [k |-> header, u |-> "head"] /\ Tail(q) = << >>
          /\ LastOut.u = "last" /\ header = LastOut.k + 1
      BY <2>1, <2>4 DEF Rest
    <3> QED BY <1>2, <1>5, <2>4, <3>1 DEF Rest
  <2>5. CASE q = <<[k |-> header, u |-> "data"]>> /\ handler.resp.more
    <3>1. /\ Head(q) = [k |-> header, u |-> "data"] /\ Tail(q) = << >>
          /\ LastOut.u # "last" /\ LastOut.k = header
      BY <2>1, <2>5 DEF Rest
    <3> QED BY <1>2, <1>5, <2>5, <3>1 DEF Rest
  <2> QED BY <1>1, <2>1, <2>2, <2>3, <2>4, <2>5 DEF Rest
<1> HIDE DEF q
<1>7. /\ toClient' \in Seq(Outputs) /\ Len(toClient') <= SockCap
  <2>1. toClient \in Seq(Outputs) /\ Len(toClient) <= SockCap BY <1>3 DEF TypeOK
  <2>2. SockCap \in Nat BY CapAssumption
  <2>3. Len(Append(toClient, Head(q))) = Len(toClient) + 1 /\ Append(toClient, Head(q)) \in Seq(Outputs)
    BY <1>4, <2>1, AppendProperties
  <2> QED BY <1>1, <2>1, <2>2, <2>3, LenProperties
<1>8. TypeOK' BY <1>1, <1>2, <1>3, <1>5, <1>7 DEF TypeOK
<1>9. ResponsesInOrder' /\ OutInv'
  <2>1. CASE clientOpen
    <3>1. toClient' = Append(toClient, Head(q)) /\ got' = got /\ Head(q) \in Outputs
      BY <1>1, <1>2, <1>4, <2>1
    <3>2. ResponsesInOrder' /\ LastOut' = Head(q)
      BY <1>3, <1>6, <2>1, <3>1, OutputWritten
    <3>3. Rest(handler.resp)' BY <1>6, <2>1, <3>2
    <3> QED BY <1>5, <3>2, <3>3 DEF OutInv
  <2>2. CASE ~clientOpen
    <3>1. Stream' = Stream BY <1>1, <1>2, <2>2 DEF Stream
    <3> QED BY <1>2, <1>3, <2>2, <3>1, OutputKept DEF OutInv
  <2> QED BY <2>1, <2>2
<1>10. PipeInv' /\ WaitInv' BY <1>1, <1>2, <1>3, <1>5 DEF PipeInv, WaitInv, InnerLoopLeft
<1> QED BY <1>1, <1>2, <1>5, <1>8, <1>9, <1>10, AnsweredInv

LEMMA WriteBlockedInv == Inv /\ WriteBlocked => Inv'
  BY AwaitsAre, AwaitInv DEF WriteBlocked

\* reqhdlr_free: the handler is gone, and the client has all of its response, if it
\* still is there.
LEMMA FinishedInv ==
  ASSUME Inv, Answer, Finished, UNCHANGED toClient, dpr' \in {dpr, [dpr EXCEPT !.closeConn = TRUE]},
         clientOpen => LastOut.u = "last" /\ LastOut.k = header
  PROVE  Inv'
<1>1. /\ TypeOK /\ OutInv /\ PipeInv /\ WaitInv /\ ResponsesInOrder
      /\ handler' = NULL /\ cgi' = NoCgi /\ pc' = "done" /\ toClient' = toClient
  BY DEF Inv, Finished
<1>2. /\ UNCHANGED <<script, toSend, clientOpen, got, toServer, rrs, buf, header, chunkHdr, bodyLen,
                     bodyReadLen, body, didRead, closeIfIdle, entry, call, crash>>
      /\ pc = "answer" /\ handler # NULL /\ header # NULL /\ dpr.resp = READY
      /\ rrs \in {"READ_BODY", "READ_TRAILER", "READ_FINISHED"}
      /\ dpr \in [closeConn : BOOLEAN, req : Awaits, resp : Awaits]
  BY AnswerFacts
<1>3. /\ dpr' \in [closeConn : BOOLEAN, req : Awaits, resp : Awaits]
      /\ dpr'.req = dpr.req /\ dpr'.resp = dpr.resp /\ (dpr.closeConn => dpr'.closeConn)
  BY <1>2
<1>4. cgi' \in Programs /\ Len(cgi'.out) <= PipeCap /\ ~cgi'.inWr BY <1>1, ProgramIs
<1>5. TypeOK' BY <1>1, <1>2, <1>3, <1>4 DEF TypeOK
<1>6. ResponsesInOrder' /\ LastOut' = LastOut BY <1>1, <1>2, OutputKept DEF Stream
<1>7. OutInv' BY <1>1, <1>2, <1>6 DEF OutInv
<1>8. PipeInv' BY <1>1, <1>4 DEF PipeInv
<1>9. WaitInv' BY <1>1, <1>2, <1>3 DEF WaitInv, InnerLoopLeft
<1> QED BY <1>1, <1>5, <1>6, <1>7, <1>8, <1>9, AnsweredInv

LEMMA WriteErrorInv == Inv /\ WriteError => Inv'
  BY FinishedInv DEF WriteError

LEMMA SentInv == Inv /\ Sent => Inv'
<1> SUFFICES ASSUME Inv, Sent PROVE Inv' OBVIOUS
<1>1. /\ Answer /\ handler.resp # NULL /\ handler.resp.queue = << >> /\ ~handler.resp.more
      /\ Finished /\ UNCHANGED <<toClient, dpr>>
  BY DEF Sent
<1>2. clientOpen => Rest(handler.resp) BY <1>1, AnswerFacts
<1>3. clientOpen => LastOut.u = "last" /\ LastOut.k = header BY <1>1, <1>2 DEF Rest, Page
<1> QED BY <1>1, <1>3, FinishedInv

\* The response gets a chunk of the program's output, or the last chunk.
LEMMA FillInv == Inv /\ Fill => Inv'
<1> SUFFICES ASSUME Inv, Fill PROVE Inv' OBVIOUS
<1>1. Answer /\ handler.resp # NULL /\ handler.resp.queue = << >> /\ handler.resp.more
  BY DEF Fill
<1>2. /\ header \in Nat /\ cgi \in Programs /\ Len(cgi.out) <= PipeCap
      /\ handler.resp \in Responses
      /\ clientOpen => Rest(handler.resp)
  BY <1>1, AnswerFacts
<1>3. clientOpen => LastOut.u # "last" /\ LastOut.k = header BY <1>1, <1>2 DEF Rest
<1>4. CASE cgi.out # << >> /\ SetResp([handler.resp EXCEPT !.queue = <<[k |-> header, u |-> "data"]>>])
           /\ cgi' = [cgi EXCEPT !.out = Tail(@)] /\ UNCHANGED <<toClient, dpr, pc>>
  <2> DEFINE q == <<[k |-> header, u |-> "data"]>>
             r == [handler.resp EXCEPT !.queue = q]
  <2>1. cgi' \in Programs /\ Len(cgi'.out) <= PipeCap /\ cgi'.inWr = cgi.inWr
    BY <1>2, <1>4, OutputTaken
  <2>2. q \in Seq(Outputs) BY <1>2, PageIs
  <2>3. r \in Responses /\ r.queue = q /\ r.more
    <3> HIDE DEF q
    <3> QED BY <1>1, <1>2, <2>2 DEF Responses
  <2>4. handler.kind = "CGI" BY <1>4, OutputOfHandler DEF NoCgi
  <2> HIDE DEF r
  <2>5. clientOpen => Rest(r) BY <1>3, <2>3 DEF Rest
  <2>6. SetResp(r) BY <1>4 DEF r
  <2> QED BY <1>1, <1>4, <2>1, <2>3, <2>4, <2>5, <2>6, RespondedInv
<1>5. CASE SetResp([queue |-> <<[k |-> header, u |-> "last"]>>, more |-> FALSE])
           /\ cgi' = [cgi EXCEPT !.outRd = FALSE] /\ UNCHANGED <<toClient, dpr, pc>>
  <2> DEFINE r == [queue |-> <<[k |-> header, u |-> "last"]>>, more |-> FALSE]
  <2>1. cgi' \in Programs /\ Len(cgi'.out) <= PipeCap /\ cgi'.inWr = cgi.inWr
    BY <1>2, <1>5, OutputTaken
  <2>2. <<[k |-> header, u |-> "last"]>> \in Seq(Outputs) BY <1>2, PageIs
  <2>3. r \in Responses BY <2>2 DEF Responses
  <2>4. handler.kind = "CGI" \/ cgi' = cgi
    <3>0. NoCgi \in Programs /\ NoCgi.outRd = FALSE BY ProgramIs DEF NoCgi
    <3>1. [NoCgi EXCEPT !.outRd = FALSE] = NoCgi BY <3>0 DEF Programs
    <3>2. cgi = NoCgi => cgi' = cgi BY <1>5, <3>1
    <3> QED BY <3>2, OutputOfHandler
  <2>5. clientOpen => Rest(r) BY <1>3 DEF Rest
  <2>6. SetResp(r) BY <1>5
  <2> HIDE DEF r
  <2> QED BY <1>1, <1>5, <2>1, <2>3, <2>4, <2>5, <2>6, RespondedInv
<1>6. CASE Await(AwaitRead("cgi_out")) BY <1>1, <1>6, AwaitsAre, AwaitInv
<1> QED BY <1>4, <1>5, <1>6 DEF Fill

----------------------------------------------------------------------------
(* The invariant holds.                                                    *)

LEMMA InitInv == Init => Inv
<1> SUFFICES ASSUME Init PROVE Inv OBVIOUS
<1> USE DEF Init
<1>1. script \in Scripts /\ DOMAIN script \subseteq Nat \ {0} BY ScriptsAssumption
<1>2. toSend = NoToken \/ (toSend = Token("line", 1, 0) /\ Valid(toSend))
  BY <1>1 DEF Line, Valid, Token, NoToken, Tokens
<1>3. toSend \in Tokens BY <1>2 DEF Token, NoToken, Tokens
<1>4. In = << >> /\ Stream = << >> BY DEF In, Stream
<1>5. LastOut = [k |-> 0, u |-> "last"] BY <1>4 DEF LastOut
<1>6. Tip = toSend BY <1>4 DEF Tip
<1>7. TypeOK
  <2>1. SockCap \in Nat BY CapAssumption
  <2>2. dpr \in [closeConn : BOOLEAN, req : Awaits, resp : Awaits] BY AwaitsAre DEF dpr_init
  <2>3. /\ << >> \in Seq(Tokens) /\ << >> \in Seq(Outputs) /\ Len(<< >>) <= SockCap
        /\ cgi \in Programs /\ Len(cgi.out) <= PipeCap
    BY <2>1, ProgramIs, EmptySeq
  <2>4. call \in [didRead : BOOLEAN, closeIfIdle : BOOLEAN, result : Results] BY DEF Results
  <2>5. rrs \in ReadStates /\ entry \in ReadStates BY DEF ReadStates
  <2>6. bodyLen \in Nat /\ bodyReadLen \in 0 .. bodyLen OBVIOUS
  <2> QED BY <1>1, <1>3, <2>2, <2>3, <2>4, <2>5, <2>6 DEF TypeOK
<1>8. InputInv BY <1>2, <1>4 DEF InputInv
<1>9. ParseInv
  <2>1. Tip = NoToken \/ Tip.t = "line" BY <1>2, <1>6 DEF Token
  <2>2. Tip = NoToken \/ Awaited(Tip) BY <2>1 DEF Awaited
  <2> QED BY <2>2 DEF ParseInv
<1>10. OutInv
  <2>1. Tip = NoToken \/ Tip.k = 1 BY <1>2, <1>6 DEF Token
  <2> QED BY <1>5, <2>1 DEF OutInv
<1>11. PipeInv BY ProgramIs DEF PipeInv
<1>12. WaitInv BY AwaitsAre DEF WaitInv, InnerLoopLeft, dpr_init
<1>13. CallInv /\ ResponsesInOrder /\ NoInternalError
  BY <1>4 DEF CallInv, ResponsesInOrder, NoInternalError
<1> QED BY <1>7, <1>8, <1>9, <1>10, <1>11, <1>12, <1>13 DEF Inv

LEMMA StutterInv == Inv /\ UNCHANGED vars => Inv'
<1> SUFFICES ASSUME Inv, UNCHANGED vars PROVE Inv' OBVIOUS
<1> USE DEF vars, client, net, parse, invocation
<1>1. /\ TypeOK /\ InputInv /\ PipeInv /\ WaitInv /\ CallInv /\ ResponsesInOrder /\ NoInternalError
  BY DEF Inv
<1>2. InputInv' /\ Tip' = Tip BY <1>1, InputKept DEF In
<1>3. ResponsesInOrder' /\ LastOut' = LastOut BY <1>1, OutputKept DEF Stream
<1>4. ParseInv' /\ OutInv' BY <1>2, <1>3, Untouched
<1>5. TypeOK' BY <1>1 DEF TypeOK
<1>6. PipeInv' /\ WaitInv' /\ CallInv' /\ NoInternalError' BY <1>1, StillWaiting
<1> QED BY <1>2, <1>3, <1>4, <1>5, <1>6 DEF Inv

LEMMA NextInv == Inv /\ [Next]_vars => Inv'
<1>1. Inv /\ Input => Inv'
  BY BeginInv, ReadSocketInv, ReadNothingInv, HeadPieceInv, HeadEndInv, BodyBlockedInv,
     BodyPieceInv, ChunkHeaderInv, TrailerEndInv, DeathsInv, InputDoneInv DEF Input
<1>2. Inv /\ Response => Inv'
  BY NoResponseYetInv, CgiHeaderInv, DeathsInv, WriteInv, WriteBlockedInv, WriteErrorInv,
     FillInv, SentInv DEF Response
<1>3. Inv /\ (LeaveLoop \/ NextRequest \/ Return) => Inv'
  BY LeaveLoopInv, NextRequestInv, ReturnInv
<1>4. Inv /\ (Select \/ SelectOther \/ SelectFails) => Inv' BY SelectInv, DeathsInv
<1> QED BY <1>1, <1>2, <1>3, <1>4, EnvironmentInv, StutterInv DEF Next, Server

LEMMA Invariant == Spec => []Inv
BY InitInv, NextInv, PTL DEF Spec

----------------------------------------------------------------------------
(* The results.                                                            *)

\* The variables keep their types; in particular the handler never gets more of a
\* body than was announced (bodyReadLen <= bodyLen), and the pipe and the socket
\* never hold more than they take.
THEOREM TypesKept == Spec => []TypeOK
<1>1. Inv => TypeOK BY DEF Inv
<1> QED BY <1>1, Invariant, PTL

\* What a handler is given is the body of its own request, whole, however the input
\* was cut and however often the pipe was full.
THEOREM BodiesAreOwn == Spec => []BodyIsOwn
<1>1. Inv => BodyIsOwn
  <2> SUFFICES ASSUME Inv, handler # NULL
               PROVE  /\ \A p \in 1 .. Len(body) : body[p] = Token("data", header, p)
                      /\ rrs = "READ_FINISHED" => Len(body) = script[header].body
    BY DEF BodyIsOwn
  <2>1. Counts /\ Len(body) = bodyReadLen BY DEF Inv, ParseInv
  <2> QED BY <2>1 DEF Inv, ParseInv, Counts
<1> QED BY <1>1, Invariant, PTL

\* The client gets whole responses, one per request, in the order of its requests.
THEOREM AnswersInOrder == Spec => []ResponsesInOrder
<1>1. Inv => ResponsesInOrder BY DEF Inv
<1> QED BY <1>1, Invariant, PTL

\* No input the server could take is left in its buffer while it waits.
THEOREM InputNotForgotten == Spec => []NoForgottenInput
<1>1. Inv => NoForgottenInput BY AwaitsAre DEF Inv, WaitInv, InnerLoopLeft, NoForgottenInput
<1> QED BY <1>1, Invariant, PTL

\* The sanity check at the end of a request never ends the process.
THEOREM NeverInsane == Spec => []NoInternalError
<1>1. Inv => NoInternalError BY DEF Inv
<1> QED BY <1>1, Invariant, PTL

\* No pipe is left open without a handler to use it.
THEOREM PipesAreUsed == Spec => []PipesInUse
<1>1. Inv => PipesInUse
  <2>1. ~NoCgi.inWr /\ ~NoCgi.outRd BY DEF NoCgi
  <2> QED BY <2>1 DEF Inv, PipeInv, PipesInUse
<1> QED BY <1>1, Invariant, PTL

\* The read state a call finds is kept for the contract until the call returns.
Found == IF (IF InCall THEN entry ELSE rrs) = "IDLE" THEN "RRS_IDLE" ELSE "IN_REQUEST"

\* Nothing but the return of a call is a step of the contract.
LEMMA NoCallStep ==
  ASSUME Inv, call' = call, entry' = entry, InCall' <=> InCall, ~InCall => rrs' = rrs
  PROVE  Found' = Found /\ UNCHANGED call
  BY DEF Found

LEMMA ReturnIsCall ==
  ASSUME Inv, Return
  PROVE  /\ call.result # "CONN_TO_CLOSE"
         /\ Found' \in Contract!RRS
         /\ call' \in [didRead : BOOLEAN, closeIfIdle : BOOLEAN, result : Contract!Result]
         /\ Contract!Admissible(Found, Found', call'.didRead, call'.closeIfIdle, call'.result)
<1> DEFINE result == IF dpr.closeConn \/ Evicted THEN "CONN_TO_CLOSE"
                     ELSE IF entry = "IDLE" /\ ~didRead THEN "CONN_IDLE" ELSE "CONN_BUSY"
<1>1. /\ pc = "return" /\ pc' \in {"select", "closed"} /\ rrs' = rrs /\ crash' = crash
      /\ call' = [didRead |-> didRead, closeIfIdle |-> closeIfIdle, result |-> result]
      /\ didRead \in BOOLEAN /\ closeIfIdle \in BOOLEAN
  BY DEF Return, Inv, TypeOK
<1>2. crash = "none" /\ call.result # "CONN_TO_CLOSE" BY <1>1 DEF Inv, CallInv
<1>3. InCall /\ ~InCall' BY <1>1, <1>2 DEF InCall
<1>4. /\ Found = "RRS_IDLE" <=> entry = "IDLE"
      /\ Found' = "RRS_IDLE" <=> rrs = "IDLE"
      /\ Found' \in {"RRS_IDLE", "IN_REQUEST"}
  BY <1>1, <1>3 DEF Found
<1>5. entry = "IDLE" /\ ~didRead => rrs = "IDLE" BY <1>1 DEF Inv, CallInv
<1>6. result \in {"CONN_IDLE", "CONN_BUSY", "CONN_TO_CLOSE"} OBVIOUS
<1>7. /\ result = "CONN_IDLE" => entry = "IDLE" /\ ~didRead /\ ~(closeIfIdle /\ rrs = "IDLE")
      /\ result = "CONN_BUSY" => (entry = "IDLE" => didRead) /\ ~(closeIfIdle /\ rrs = "IDLE")
  BY <1>1 DEF Evicted
<1> HIDE DEF result
<1>8. Contract!Admissible(Found, Found', didRead, closeIfIdle, result)
  BY <1>1, <1>4, <1>5, <1>7 DEF Contract!Admissible
<1>9. call'.didRead = didRead /\ call'.closeIfIdle = closeIfIdle /\ call'.result = result
  BY <1>1
<1>10. call' \in [didRead : BOOLEAN, closeIfIdle : BOOLEAN, result : Contract!Result]
  BY <1>1, <1>6 DEF Contract!Result
<1> QED BY <1>2, <1>4, <1>8, <1>9, <1>10 DEF Contract!RRS

LEMMA OtherSteps ==
  ASSUME Inv, [Next]_vars
  PROVE  Return \/ (Found' = Found /\ UNCHANGED call)
<1> USE DEF client, net, parse, invocation
<1>1. /\ pc # "crashed" => crash = "none"
  BY DEF Inv, CallInv
<1>2. CASE Environment \/ UNCHANGED vars
  BY <1>2, NoCallStep DEF Environment, Send, Receive, ClientClose, CgiRead, CgiWrite,
     CgiCloseOutput, CgiExit, CgiStep, vars, InCall
<1>3. CASE Begin
  <2>1. ~InCall /\ InCall' /\ entry' = rrs /\ UNCHANGED call BY <1>1, <1>3 DEF Begin, InCall
  <2> QED BY <2>1 DEF Found
<1>4. CASE ReadSocket \/ ReadNothing \/ HeadPiece \/ HeadEnd \/ BodyBlocked \/ BodyPiece
           \/ ChunkHeader \/ TrailerEnd \/ InputDone
  <2>1. /\ pc = "input" /\ pc' \in {"input", "answer", "done"}
        /\ UNCHANGED <<entry, call>>
    BY <1>4 DEF ReadSocket, ReadNothing, HeadPiece, HeadEnd, BodyBlocked, BodyPiece,
       ChunkHeader, TrailerEnd, InputDone, Take, InputLoop
  <2>2. InCall /\ InCall' BY <2>1 DEF InCall
  <2> QED BY <2>1, <2>2, NoCallStep
<1>5. CASE NullHandler \/ NullBody
  <2>1. /\ pc \in {"input", "answer"} /\ crash' \in {"null handler", "null body"}
        /\ UNCHANGED <<entry, call>>
    BY <1>5 DEF NullHandler, NullBody, InputLoop, Answering, Die
  <2>2. InCall /\ InCall' BY <2>1 DEF InCall
  <2> QED BY <2>1, <2>2, NoCallStep
<1>6. CASE NoResponseYet \/ CgiHeader \/ Write \/ WriteBlocked \/ WriteError \/ Fill \/ Sent
  <2>1. /\ pc = "answer" /\ pc' \in {"answer", "done"} /\ UNCHANGED <<entry, call>>
    BY <1>6 DEF NoResponseYet, CgiHeader, Write, WriteBlocked, WriteError, Fill, Sent,
       Answer, Answering, Await, Finished
  <2>2. InCall /\ InCall' BY <2>1 DEF InCall
  <2> QED BY <2>1, <2>2, NoCallStep
<1>7. CASE LeaveLoop \/ NextRequest
  <2>1. /\ pc = "done" /\ UNCHANGED <<entry, call>>
        /\ pc' \in {"return", "input"} \/ crash' = "INTERNAL ERROR"
    BY <1>7 DEF LeaveLoop, NextRequest, Done
  <2>2. InCall /\ InCall' BY <2>1 DEF InCall
  <2> QED BY <2>1, <2>2, NoCallStep
<1>8. CASE Select \/ SelectOther \/ SelectFails
  <2>1. /\ pc = "select" /\ UNCHANGED <<entry, call, rrs>>
        /\ \/ pc' = "begin" /\ crash' = crash
           \/ pc' = "crashed" /\ crash' = "EBADF"
    BY <1>8 DEF Select, SelectOther, SelectFails, Die
  <2>2. ~InCall /\ ~InCall' BY <1>1, <2>1 DEF InCall
  <2> QED BY <2>1, <2>2, NoCallStep
<1> QED BY <1>2, <1>3, <1>4, <1>5, <1>6, <1>7, <1>8 DEF Next, Server, Input, Response

\* What conn_processDataReady does to a connection is what the main loop relies on.
THEOREM ImplementsContract == Spec => ContractMet
<1>1. Init => Contract!Init BY DEF Init, Contract!Init, InCall
<1>2. Inv /\ [Next]_vars => [Contract!Call]_<<Found, call>>
  BY ReturnIsCall, OtherSteps DEF Contract!Call, Found
<1> QED BY <1>1, <1>2, Invariant, PTL DEF Spec, ContractMet, Contract!Spec, Found

=============================================================================
