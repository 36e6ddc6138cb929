------------------------------ MODULE ReaderProofs --------------------------
(* The requests that are read are those that were sent (RequestReader), for    *)
(* every client and however the bytes are cut into reads, put into chunks and   *)
(* taken by a CGI program.  The argument is in ReaderInv: the bytes in the       *)
(* buffer and those still to come are exactly what is left of the request that  *)
(* is being read, and of the ones behind it.  Before it come the lemmas about    *)
(* the operators, each loop by the sequence of values it goes through.  Behind   *)
(* it is FormInv: the parser of a form is where MultipartProofs says, behind     *)
(* the body that has been taken.                                              *)
EXTENDS RequestReader, MultipartProofs

----------------------------------------------------------------------------
(* The lines of a header, read in pieces.  IsHead(n, ls, eol, tail, H, R) says *)
(* of n lines ls that H are the headers held behind them, and R the bytes that *)
(* are left; AtLine says where among them a header is being read.            *)

\* The end of a line: a line feed behind nothing or behind a carriage return.
Eols == {<<"lf">>, Crlf}

PreOf(eol) == IF eol = Crlf THEN <<"cr">> ELSE <<>>

\* A line end is a line feed behind what StripCr removes.
LEMMA EolIs ==
  ASSUME NEW eol \in Eols, NEW x \in Data
  PROVE  /\ eol \in Data /\ PreOf(eol) \in Data /\ Lf \in Data /\ Without(PreOf(eol), "lf")
         /\ eol \o x = PreOf(eol) \o (Lf \o x)
         /\ PreOf(eol) = <<>> \/ PreOf(eol) = <<"cr">>
<1> USE DEF Lf
<1>1. <<"lf">> \in Data /\ <<"cr">> \in Data /\ <<>> \in Data
  <2>1. "lf" \in Byte /\ "cr" \in Byte BY DEF Byte
  <2>2. \A y \in Byte : <<y>> \in Data BY OneIn
  <2> QED BY <2>1, <2>2, NoneIn
<1>2. <<"lf">> \o x \in Data BY <1>1, JoinIn
<1>3. Crlf = <<"cr">> \o <<"lf">> BY DEF Crlf
<1>4. Crlf # <<"lf">>
  <2>1. Len(Crlf) = 2 /\ Len(<<"lf">>) = 1 BY DEF Crlf
  <2> QED BY <2>1
<1>5. CASE eol = Crlf
  <2>1. PreOf(eol) = <<"cr">> BY <1>5 DEF PreOf
  <2>2. Without(<<"cr">>, "lf")
    <3>1. Len(<<"cr">>) = 1 /\ <<"cr">>[1] = "cr" BY OneByte
    <3>2. "cr" # "lf" OBVIOUS
    <3> DEFINE one == <<"cr">>
    <3>3. Len(one) = 1 /\ one[1] = "cr" BY <3>1
    <3> HIDE DEF one
    <3>4. \A i \in 1 .. 1 : i = 1 OBVIOUS
    <3>5. \A i \in 1 .. Len(one) : one[i] # "lf" BY <3>2, <3>3, <3>4
    <3> QED BY <3>5 DEF one, Without
  <2>3. eol \in Data BY <1>1, <1>3, <1>5, JoinIn
  <2>4. (<<"cr">> \o <<"lf">>) \o x = <<"cr">> \o (<<"lf">> \o x)
    BY <1>1, Joins
  <2> QED BY <1>1, <1>3, <1>5, <2>1, <2>2, <2>3, <2>4
<1>6. CASE eol = <<"lf">>
  <2>1. PreOf(eol) = <<>> BY <1>4, <1>6 DEF PreOf
  <2>2. Without(<<>>, "lf")
    <3>1. Len(<<>>) = 0 BY EmptySeq
    <3>2. 1 .. 0 = {} OBVIOUS
    <3> QED BY <3>1, <3>2 DEF Without
  <2>3. <<>> \o (<<"lf">> \o x) = <<"lf">> \o x BY <1>2, NoneIn
  <2> QED BY <1>1, <1>6, <2>1, <2>2, <2>3
<1> QED BY <1>5, <1>6 DEF Eols

\* The empty line.
LEMMA StripPre ==
  ASSUME NEW eol \in Eols
  PROVE  StripCr(PreOf(eol)) = <<>>
<1>1. CASE PreOf(eol) = <<>> BY <1>1 DEF StripCr
<1>2. CASE PreOf(eol) = <<"cr">>
  <2> DEFINE one == <<"cr">>
  <2>1. Len(one) = 1 /\ one[1] = "cr" BY OneByte
  <2>2. SubSeq(one, 1, 0) = <<>> BY SubSeqEmpty
  <2>3. one # <<>> BY <2>1, EmptySeq
  <2>4. Last(one) = "cr" BY <2>1 DEF Last
  <2>5. Front(one) = SubSeq(one, 1, 0) BY <2>1 DEF Front
  <2> QED BY <1>2, <2>2, <2>3, <2>4, <2>5 DEF StripCr
<1> QED BY <1>1, <1>2 DEF PreOf

\* A line and the carriage return behind it.
LEMMA StripLine ==
  ASSUME NEW line \in Data, IsLine(line), NEW eol \in Eols
  PROVE  /\ StripCr(line \o PreOf(eol)) = line
         /\ line # <<>> /\ Without(line, "lf")
<1>1. Len(line) \in Nat /\ Len(line) > 0 /\ DOMAIN line = 1 .. Len(line) /\ line # <<>>
  BY LenProperties, EmptySeq DEF Data, IsLine
<1>2. Without(line, "lf") BY <1>1 DEF IsLine, ToSet, Without
<1>3. line[Len(line)] # "cr" BY DEF IsLine, Last
<1>4. CASE PreOf(eol) = <<>>
  <2>1. line \o <<>> = line BY NoneIn
  <2>2. StripCr(line) = line BY <1>3 DEF StripCr, Last
  <2> QED BY <1>1, <1>2, <1>4, <2>1, <2>2
<1>5. CASE PreOf(eol) = <<"cr">>
  <2> DEFINE one == <<"cr">>
             d == line \o one
  <2>1. one \in Data /\ Len(one) = 1 /\ one[1] = "cr"
    <3>1. \A x \in Byte : <<x>> \in Data BY OneIn
    <3>2. "cr" \in Byte BY DEF Byte
    <3> QED BY <3>1, <3>2
  <2> HIDE DEF one
  <2>3. /\ d \in Data /\ Len(d) = Len(line) + Len(one)
        /\ \A i \in 1 .. Len(line) + Len(one) :
             d[i] = IF i <= Len(line) THEN line[i] ELSE one[i - Len(line)]
    BY <2>1, ConcatProperties DEF Data
  <2>4. SubSeq(d, 1, Len(line)) = line BY <2>1, JoinedCut DEF Data
  <2> HIDE DEF d
  <2>5. Len(d) = Len(line) + 1 /\ d[Len(d)] = "cr" /\ Len(d) - 1 = Len(line)
    <3>1. Len(d) = Len(line) + 1 BY <2>1, <2>3
    <3>2. Len(d) \in 1 .. Len(line) + Len(one) /\ ~(Len(d) <= Len(line)) /\ Len(d) - Len(line) = 1
          /\ Len(d) - 1 = Len(line)
      BY <1>1, <2>1, <3>1
    <3>3. d[Len(d)] = one[Len(d) - Len(line)] BY <2>3, <3>2
    <3> QED BY <2>1, <3>1, <3>2, <3>3
  <2>6. d # <<>>
    <3>1. Len(d) # 0 BY <1>1, <2>5
    <3> QED BY <3>1, EmptySeq
  <2>7. StripCr(d) = line BY <2>4, <2>5, <2>6 DEF StripCr, Last, Front
  <2> QED BY <1>1, <1>2, <1>5, <2>7 DEF d, one
<1> QED BY <1>4, <1>5 DEF PreOf

\* H[j]: the header when j of the n lines have been read; R[j]: what is sent behind them
IsHead(n, ls, eol, tail, H, R) ==
  /\ n \in Nat /\ eol \in Eols /\ tail \in Data
  /\ H \in [0 .. n -> Header] /\ R \in [0 .. n -> Data] /\ ls \in [1 .. n -> Data]
  /\ H[0].cur = <<>> /\ H[n].started /\ R[n] = eol \o tail
  /\ \A j \in 1 .. n : /\ IsLine(ls[j]) /\ H[j] = StoreLine(H[j - 1], ls[j])
                       /\ R[j - 1] = ls[j] \o (eol \o R[j])

\* the header has j lines, and the beginning of the next one
AtLine(hdr, j, left, H, R) ==
  /\ hdr.cur \in Data /\ Without(hdr.cur, "lf") /\ hdr.cur \o left = R[j]
  /\ hdr = [H[j] EXCEPT !.cur = hdr.cur]

\* what has been read, if that is not all
IsReadTo(read, e, n, tail, H, R) ==
  IF read.finished THEN read.hdr = H[n] /\ read.rest \o e = tail
  ELSE \E j \in 0 .. n : AtLine(read.hdr, j, read.rest \o e, H, R)

\* A round of the loop over lines.
LEMMA NextLineReads ==
  ASSUME NEW n, NEW ls, NEW eol, NEW tail, NEW H, NEW R, IsHead(n, ls, eol, tail, H, R),
         NEW read \in LineReads, NEW e \in Data, NEW j \in 0 .. n, ~read.finished,
         AtLine(read.hdr, j, read.rest \o e, H, R)
  PROVE  IsReadTo(NextLine(read), e, n, tail, H, R)
<1> DEFINE hdr == read.hdr
           rest == read.rest
           cur == hdr.cur
           at == IndexOf({"lf"}, rest)
           p == Before(rest, at)
           q == From(rest, at + 1)
           line == LineEnded(cur, p)
           pre == PreOf(eol)
           lf == Lf
<1>1. rest \in Data /\ hdr \in Header /\ read.finished = FALSE BY DEF LineReads
<1>2. cur \in Data /\ Without(cur, "lf") /\ cur \o (rest \o e) = R[j] /\ hdr = [H[j] EXCEPT !.cur = cur]
  BY DEF AtLine
<1>3. n \in Nat /\ eol \in Eols /\ tail \in Data /\ H[j] \in Header /\ R[j] \in Data BY DEF IsHead
<1>4. CASE rest = <<>>
  <2>1. NextLine(read) = read BY <1>4 DEF NextLine
  <2> QED BY <1>1, <2>1 DEF IsReadTo
<1>5. CASE rest # <<>> /\ at = 0
  <2> DEFINE c == cur \o rest
             next == NextLine(read)
  <2>1. next = [read EXCEPT !.hdr.cur = c, !.rest = <<>>] BY <1>1, <1>5 DEF NextLine
  <2>2. c \in Data /\ c \o (<<>> \o e) = R[j] /\ Without(c, "lf")
    <3>1. c \in Data BY <1>1, <1>2, JoinIn
    <3>2. <<>> \o e = e /\ c \o e = cur \o (rest \o e)
      BY <1>1, <1>2, NoneIn, Joins
    <3>3. Without(rest, "lf") BY <1>1, <1>5, IndexOfIs DEF Without, Data
    <3>4. Without(c, "lf") BY <1>1, <1>2, <3>3, WithoutJoined
    <3> QED BY <1>2, <3>1, <3>2, <3>4
  <2>3. next.finished = FALSE /\ next.rest = <<>> /\ next.hdr = [hdr EXCEPT !.cur = c]
    <3> HIDE DEF c, next
    <3> QED BY <1>1, <2>1 DEF LineReads
  <2>4. next.hdr = [H[j] EXCEPT !.cur = c] /\ next.hdr.cur = c
    <3> DEFINE h0 == H[j]
    <3>1. h0 \in Header /\ hdr = [h0 EXCEPT !.cur = cur] BY <1>2, <1>3
    <3> HIDE DEF c, next, h0, hdr, cur
    <3>2. next.hdr = [h0 EXCEPT !.cur = c] /\ next.hdr.cur = c BY <2>3, <3>1 DEF Header
    <3> QED BY <3>2 DEF h0
  <2>5. AtLine(next.hdr, j, next.rest \o e, H, R)
    <3> HIDE DEF c, next
    <3> QED BY <2>2, <2>3, <2>4 DEF AtLine
  <2> QED BY <2>3, <2>5 DEF IsReadTo
<1>6. CASE rest # <<>> /\ at # 0
  <2> DEFINE next == NextLine(read)
  <2>1. next = [hdr |-> IF line = <<>> THEN [hdr EXCEPT !.cur = <<>>] ELSE StoreLine(hdr, line),
                finished |-> line = <<>> /\ hdr.started, rest |-> q]
    BY <1>1, <1>6 DEF NextLine
  <2>2. p \in Data /\ Without(p, "lf") /\ q \in Data /\ rest = p \o (lf \o q)
    BY <1>1, <1>6, LineCut
  <2>3. lf \in Data /\ pre \in Data /\ Without(pre, "lf") BY <1>3, EolIs
  <2>4. line = StripCr(cur \o p) BY DEF LineEnded
  <2> HIDE DEF p, q, at, line, rest, next, lf, pre, cur
  <2>5. cur \o p \in Data /\ Without(cur \o p, "lf") /\ q \o e \in Data
    BY <1>2, <2>2, ConcatProperties, WithoutJoined DEF Data
  <2>6. (cur \o p) \o (lf \o (q \o e)) = R[j]
    <3>1. lf \o q \in Data BY <2>2, <2>3, JoinIn
    <3>2. rest \o e = p \o ((lf \o q) \o e) BY <2>2, <3>1, Joins
    <3>3. (lf \o q) \o e = lf \o (q \o e)
      <4>1. lf \in Data /\ q \in Data /\ e \in Data BY <2>2, <2>3
      <4> QED BY <4>1, Joins
    <3>4. lf \o (q \o e) \in Data BY <2>3, <2>5, JoinIn
    <3>5. (cur \o p) \o (lf \o (q \o e)) = cur \o (p \o (lf \o (q \o e)))
      BY <1>2, <2>2, <3>4, Joins
    <3> QED BY <1>2, <3>2, <3>3, <3>5
  <2>7. CASE j = n
    <3>1. R[j] = pre \o (lf \o tail) BY <1>3, <2>7, EolIs DEF IsHead, pre, lf
    <3>2. cur \o p = pre /\ q \o e = tail
      <4> DEFINE a == cur \o p
                 b == q \o e
      <4>1. /\ a \in Data /\ b \in Data /\ Without(a, "lf") /\ lf = Lf
            /\ a \o (lf \o b) = pre \o (lf \o tail)
        BY <2>5, <2>6, <2>7, <3>1 DEF lf
      <4> HIDE DEF a, b
      <4>2. a = pre /\ b = tail BY <1>3, <2>3, <4>1, OneLineCut
      <4> QED BY <4>2 DEF a, b
    <3>3. line = <<>>
      <4>1. StripCr(pre) = <<>> BY <1>3, StripPre DEF pre
      <4> QED BY <2>4, <3>2, <4>1
    <3> DEFINE h0 == H[n]
    <3>4. h0 \in Header /\ h0.started /\ h0.cur = <<>> /\ hdr = [h0 EXCEPT !.cur = cur]
      <4>1. h0.cur = <<>>
        <5>1. CASE n = 0 BY <5>1 DEF IsHead
        <5>2. CASE n # 0
          <6>1. n \in 1 .. n /\ n - 1 \in 0 .. n BY <1>3, <5>2
          <6>2. H[n] = StoreLine(H[n - 1], ls[n]) /\ H[n - 1] \in Header /\ ls[n] \in Data
            BY <6>1 DEF IsHead
          <6> QED BY <6>2, StoredIs, ZenonT(60)
        <5> QED BY <5>1, <5>2
      <4> QED BY <1>2, <1>3, <2>7, <4>1 DEF IsHead
    <3> HIDE DEF h0, hdr
    <3>5. hdr.started = h0.started /\ [hdr EXCEPT !.cur = <<>>] = h0 BY <3>4 DEF Header
    <3>6. next.finished /\ next.hdr = h0 /\ next.rest = q BY <2>1, <3>3, <3>4, <3>5
    <3> QED BY <3>2, <3>6 DEF IsReadTo, h0, next
  <2>8. CASE j # n
    <3> DEFINE i == j + 1
               l == ls[i]
    <3>1. i \in 1 .. n /\ i - 1 = j /\ i \in 0 .. n BY <1>3, <2>8
    <3>2. /\ l \in Data /\ IsLine(l) /\ H[i] = StoreLine(H[j], l) /\ R[j] = l \o (eol \o R[i])
          /\ R[i] \in Data /\ H[i] \in Header
      BY <3>1 DEF IsHead
    <3>3. eol \o R[i] = pre \o (lf \o R[i]) BY <1>3, <3>2, EolIs DEF pre, lf
    <3>4. line # <<>> /\ line = l /\ q \o e = R[i]
      <4> DEFINE r == R[i]
      <4>1. r \in Data /\ l \in Data /\ IsLine(l) /\ R[j] = l \o (pre \o (lf \o r)) BY <3>2, <3>3
      <4> HIDE DEF r, l
      <4>2. StripCr(l \o pre) = l /\ l # <<>> /\ Without(l, "lf") BY <1>3, <4>1, StripLine DEF pre
      <4>3. l \o pre \in Data /\ lf \o r \in Data BY <2>3, <4>1, JoinIn
      <4>4. R[j] = (l \o pre) \o (lf \o r)
        <5> DEFINE y == lf \o r
        <5>1. l \in Data /\ pre \in Data /\ y \in Data BY <2>3, <4>1, <4>3
        <5> HIDE DEF y
        <5>2. (l \o pre) \o y = l \o (pre \o y) BY <5>1, Joins
        <5> QED BY <4>1, <5>2 DEF y
      <4>5. Without(l \o pre, "lf") BY <2>3, <4>1, <4>2, WithoutJoined
      <4>6. cur \o p = l \o pre /\ q \o e = r
        <5> DEFINE a == cur \o p
                   b == q \o e
                   c == l \o pre
        <5>1. /\ a \in Data /\ b \in Data /\ Without(a, "lf") /\ lf = Lf
              /\ c \in Data /\ Without(c, "lf") /\ a \o (lf \o b) = c \o (lf \o r)
          BY <2>5, <2>6, <4>3, <4>4, <4>5 DEF lf
        <5> HIDE DEF a, b, c
        <5>2. a = c /\ b = r BY <4>1, <5>1, OneLineCut
        <5> QED BY <5>2 DEF a, b, c
      <4> QED BY <2>4, <4>2, <4>6 DEF r
    <3>5. next.finished = FALSE /\ next.rest = q /\ next.hdr = StoreLine(hdr, l)
      BY <2>1, <3>4
    <3>6. StoreLine(hdr, l) = H[i] /\ H[i].cur = <<>>
      <4> DEFINE h0 == H[j]
      <4>1. h0 \in Header /\ hdr = [h0 EXCEPT !.cur = cur] /\ H[i] = StoreLine(h0, l)
        BY <1>2, <1>3, <3>2
      <4> HIDE DEF h0, hdr, l, i
      <4> QED BY <1>2, <3>2, <4>1, StoredIs
    <3>7. AtLine(next.hdr, i, next.rest \o e, H, R)
      <4> DEFINE h1 == H[i]
      <4>1. h1 \in Header /\ h1.cur = <<>> /\ next.hdr = h1 BY <3>2, <3>5, <3>6
      <4>2. <<>> \o (q \o e) = R[i] BY <2>5, <3>4, NoneIn
      <4>3. <<>> \in Data BY EmptySeq DEF Data
      <4>4. Without(<<>>, "lf")
        <5>1. Len(<<>>) = 0 BY EmptySeq
        <5>2. 1 .. 0 = {} OBVIOUS
        <5> QED BY <5>1, <5>2 DEF Without
      <4>5. h1 = [h1 EXCEPT !.cur = next.hdr.cur]
        <5> HIDE DEF h1
        <5> QED BY <4>1 DEF Header
      <4>6. next.hdr = [H[i] EXCEPT !.cur = next.hdr.cur] BY <4>1, <4>5
      <4>7. next.hdr.cur = <<>> BY <4>1
      <4> HIDE DEF h1, i
      <4> QED BY <3>5, <4>2, <4>3, <4>4, <4>6, <4>7 DEF AtLine
    <3> QED BY <3>1, <3>5, <3>7 DEF IsReadTo, next
  <2> QED BY <2>7, <2>8
<1> QED BY <1>4, <1>5, <1>6

\* However a header is cut, its lines are read one by one, and reading stops behind it.
LEMMA LinesRead ==
  ASSUME NEW n, NEW ls, NEW eol, NEW tail, NEW H, NEW R, IsHead(n, ls, eol, tail, H, R),
         NEW hdr \in Header, NEW d \in Data, NEW e \in Data,
         \E j \in 0 .. n : AtLine(hdr, j, d \o e, H, R)
  PROVE  IsReadTo(appendLines(hdr, d), e, n, tail, H, R)
<1>1. PICK m \in Nat : \E g \in [0 .. m -> LineReads] : IsReading(g, m, hdr, d) BY ReadingExists
<1>2. PICK g \in [0 .. m -> LineReads] : IsReading(g, m, hdr, d) BY <1>1
<1> DEFINE S == {k \in 0 .. m : IsReadTo(g[k], e, n, tail, H, R)}
<1>3. 0 \in S
  <2> DEFINE x == [hdr |-> hdr, finished |-> FALSE, rest |-> d]
  <2>1. g[0] = x /\ x.finished = FALSE /\ x.hdr = hdr /\ x.rest = d BY <1>2 DEF IsReading
  <2> HIDE DEF x
  <2>2. IsReadTo(x, e, n, tail, H, R) BY <2>1 DEF IsReadTo
  <2> QED BY <2>1, <2>2
<1>4. ASSUME NEW k \in 1 .. m, k - 1 \in S PROVE k \in S
  <2> DEFINE read == g[k - 1]
  <2>1. k - 1 \in 0 .. m /\ k \in 0 .. m OBVIOUS
  <2>2. read \in LineReads /\ g[k] = NextLine(read) /\ IsReadTo(read, e, n, tail, H, R)
    BY <1>2, <1>4, <2>1 DEF IsReading
  <2> HIDE DEF read
  <2>3. CASE read.finished
    <3>1. NextLine(read) = read BY <2>3 DEF NextLine
    <3> QED BY <2>1, <2>2, <3>1
  <2>4. CASE ~read.finished
    <3>1. PICK j \in 0 .. n : AtLine(read.hdr, j, read.rest \o e, H, R) BY <2>2, <2>4 DEF IsReadTo
    <3>2. IsReadTo(NextLine(read), e, n, tail, H, R) BY <2>2, <2>4, <3>1, NextLineReads
    <3> QED BY <2>1, <2>2, <3>2
  <2> QED BY <2>3, <2>4
<1>5. m \in S
  <2> HIDE DEF S
  <2> QED BY <1>3, <1>4, UpTo
<1> QED BY <1>2, <1>5 DEF IsReading

----------------------------------------------------------------------------
(* Numbers, and the values of header lines.                                  *)

\* The first place of a byte that is none of some bytes, or 0.
LEMMA LeadingIs ==
  ASSUME NEW d \in Data, NEW base \in Nat
  PROVE  /\ LeadingDigits(d, base) \in Data
         /\ \A i \in 1 .. Len(LeadingDigits(d, base)) : DigitOf(LeadingDigits(d, base)[i]) \in 1 .. base
<1> DEFINE I == {i \in 1 .. Len(d) : DigitOf(d[i]) \notin 1 .. base}
           end == IF I # {} THEN Min(I) ELSE 0
           s == Before(d, end)
<1>1. LeadingDigits(d, base) = s BY DEF LeadingDigits, SelectInSeq
<1>2. Len(d) \in Nat BY LenProperties DEF Data
<1>3. CASE I = {}
  <2>1. s = d BY <1>3 DEF Before
  <2>2. \A i \in 1 .. Len(d) : DigitOf(d[i]) \in 1 .. base BY <1>3
  <2> QED BY <1>1, <2>1, <2>2
<1>4. CASE I # {}
  <2>1. I \in SUBSET (1 .. Len(d)) /\ Min(I) \in I /\ \A y \in I : Min(I) <= y
    <3>1. I \in SUBSET (1 .. Len(d)) OBVIOUS
    <3> HIDE DEF I
    <3> QED BY <1>2, <1>4, <3>1, MinIn
  <2> DEFINE m == Min(I)
  <2>2. m \in 1 .. Len(d) /\ \A y \in I : m <= y BY <2>1
  <2>3. s = SubSeq(d, 1, m - 1)
    <3>1. end = m BY <1>4
    <3> HIDE DEF end, m
    <3> QED BY <1>2, <2>2, <3>1 DEF Before
  <2>4. ASSUME NEW i \in 1 .. m - 1 PROVE DigitOf(d[i]) \in 1 .. base
    <3> HIDE DEF m
    <3>1. i \in 1 .. Len(d) /\ ~(m <= i) BY <1>2, <2>2
    <3>2. i \notin I BY <2>2, <3>1
    <3> QED BY <3>1, <3>2
  <2> HIDE DEF m, I, s
  <2>5. m - 1 \in 0 .. Len(d) BY <1>2, <2>2
  <2>6. s \in Data /\ Len(s) = m - 1 /\ \A k \in 1 .. m - 1 : s[k] = d[k]
    BY <2>3, <2>5, FirstIs DEF Data
  <2> QED BY <1>1, <2>4, <2>6
<1> QED BY <1>3, <1>4

NumberStep(d, base, v, k) == v * base + DigitOf(d[k]) - 1

\* g has the values of the beginnings of a sequence of digits
IsNumberRun(g, d, base, v) ==
  g[0] = 0 /\ g[Len(d)] = v /\ \A k \in 1 .. Len(d) : g[k] = NumberStep(d, base, g[k - 1], k)

\* A number is what is held after its last digit.
LEMMA NumberRun ==
  ASSUME NEW bytes \in Data, NEW base \in {10, 16}
  PROVE  \E g \in [0 .. Len(LeadingDigits(bytes, base)) -> Nat] :
           IsNumberRun(g, LeadingDigits(bytes, base), base, Number(bytes, base))
<1> DEFINE d == LeadingDigits(bytes, base)
           n == Len(d)
           T == Nat
           zero == 0
           step == [p \in (1 .. n) \X T |-> NumberStep(d, base, p[2], p[1])]
           Fold(h) == [s \in SUBSET DOMAIN d |->
                         IF s = {} THEN zero ELSE NumberStep(d, base, h[s \ {Max(s)}], Max(s))]
           h == CHOOSE h : h = Fold(h)
<1>1. Number(bytes, base) = h[DOMAIN d]
  BY DEF Number, FoldLeft, MapThenFoldSet, NumberStep
<1>2. n \in Nat /\ DOMAIN d = 1 .. n /\ zero \in T /\ step \in [(1 .. n) \X T -> T]
  <2>1. d \in Data /\ \A i \in 1 .. Len(d) : DigitOf(d[i]) \in 1 .. base BY LeadingIs
  <2> HIDE DEF d
  <2>2. n \in Nat /\ DOMAIN d = 1 .. n /\ zero \in T BY <2>1, LenProperties DEF Data
  <2>3. \A i \in 1 .. n, x \in T : NumberStep(d, base, x, i) \in T
    <3> SUFFICES ASSUME NEW i \in 1 .. n, NEW x \in T PROVE x * base + DigitOf(d[i]) - 1 \in T
      BY DEF NumberStep
    <3>1. DigitOf(d[i]) \in 1 .. base BY <2>1
    <3>2. x * base \in Nat OBVIOUS
    <3> QED BY <3>1, <3>2
  <2> QED
    <3> HIDE DEF T, n
    <3> QED BY <2>2, <2>3
<1>3. \A i \in 1 .. n, x \in T : step[<<i, x>>] = NumberStep(d, base, x, i)
  <2> HIDE DEF T, n
  <2> QED OBVIOUS
<1> HIDE DEF n, T, zero, step, d
<1>4. PICK h0 \in [SUBSET (1 .. n) -> T] : IsFold(h0, n, zero, step)
  BY <1>2, FoldExists
<1>5. h0 = Fold(h0)
  <2>1. ASSUME NEW s \in SUBSET (1 .. n), s # {}
        PROVE  step[<<Max(s), h0[s \ {Max(s)}]>>] = NumberStep(d, base, h0[s \ {Max(s)}], Max(s))
    BY <2>1, <1>2, <1>3, MaxIn
  <2>2. \A s \in SUBSET DOMAIN d : h0[s] = Fold(h0)[s] BY <1>2, <1>4, <2>1 DEF IsFold
  <2> QED BY <1>2, <2>2
<1>6. h = Fold(h)
  <2> HIDE DEF Fold
  <2> QED BY <1>5
<1>7. Follows(h, n, T, zero, step)
  <2> HIDE DEF h
  <2>1. h[{}] = zero BY <1>6
  <2>3. \A s \in SUBSET DOMAIN d :
          h[s] = IF s = {} THEN zero ELSE NumberStep(d, base, h[s \ {Max(s)}], Max(s))
    BY <1>6
  <2> HIDE DEF Fold
  <2>2. ASSUME NEW k \in 1 .. n, h[1 .. k - 1] \in T PROVE h[1 .. k] = step[<<k, h[1 .. k - 1]>>]
    <3>1. 1 .. k \in SUBSET DOMAIN d /\ k \in Nat /\ k > 0 BY <1>2
    <3>2. Max(1 .. k) = k /\ (1 .. k) \ {k} = 1 .. k - 1 /\ 1 .. k # {} BY <3>1, MaxOfFirst
    <3>3. h[1 .. k] = NumberStep(d, base, h[1 .. k - 1], k) BY <2>3, <3>1, <3>2
    <3> QED BY <1>3, <2>2, <3>3
  <2> QED BY <2>1, <2>2 DEF Follows
<1>8. PICK g \in [0 .. n -> T] : IsRun(g, n, zero, step, h[1 .. n])
  <2> HIDE DEF h
  <2> QED BY <1>2, <1>7, FoldRuns
<1>9. \A k \in 1 .. n : g[k] = NumberStep(d, base, g[k - 1], k)
  <2>1. ASSUME NEW k \in 1 .. n PROVE g[k - 1] \in T BY <1>2
  <2> QED BY <1>3, <1>8, <2>1 DEF IsRun
<1>10. g[n] = Number(bytes, base) BY <1>1, <1>2, <1>8 DEF IsRun
<1>11. g[0] = 0 BY <1>8 DEF IsRun, zero
<1>12. IsNumberRun(g, d, base, Number(bytes, base)) BY <1>9, <1>10, <1>11 DEF IsNumberRun, n
<1> QED BY <1>12 DEF n, T, d

\* strtoul gives a number.
LEMMA NumberIn ==
  ASSUME NEW d \in Data, NEW base \in {10, 16}
  PROVE  Number(d, base) \in Nat
<1> DEFINE n == Len(LeadingDigits(d, base))
<1>1. PICK g \in [0 .. n -> Nat] : IsNumberRun(g, LeadingDigits(d, base), base, Number(d, base))
  BY NumberRun
<1>2. n \in Nat BY LeadingIs, LenProperties DEF Data
<1>3. n \in 0 .. n BY <1>2
<1> QED BY <1>1, <1>3 DEF IsNumberRun

\* What is behind blanks, and behind a byte.
LEMMA SkipIn ==
  ASSUME NEW d \in Data
  PROVE  skipLeadingWS(d) \in Data
<1> DEFINE I == {i \in 1 .. Len(d) : d[i] \notin Blank}
           at == IF I # {} THEN Min(I) ELSE 0
           from == IF \A i \in DOMAIN d : d[i] \in Blank THEN Len(d) + 1 ELSE at
<1>1. skipLeadingWS(d) = From(d, from) BY DEF skipLeadingWS, SelectInSeq
<1>2. Len(d) \in Nat /\ DOMAIN d = 1 .. Len(d) BY LenProperties DEF Data
<1>3. CASE I = {}
  <2>1. \A i \in DOMAIN d : d[i] \in Blank BY <1>2, <1>3
  <2>2. from = Len(d) + 1 BY <2>1
  <2>3. from \in Nat /\ from > 0 BY <1>2, <2>2
  <2> HIDE DEF from
  <2> QED BY <1>1, <2>3, FromIs DEF Data
<1>4. CASE I # {}
  <2>1. ~ \A i \in DOMAIN d : d[i] \in Blank BY <1>2, <1>4
  <2>2. from = Min(I) BY <1>4, <2>1
  <2>3. I \in SUBSET (1 .. Len(d)) OBVIOUS
  <2>4. Min(I) \in I
    <3> HIDE DEF I
    <3> QED BY <1>2, <1>4, <2>3, MinIn
  <2>5. from \in Nat /\ from > 0 BY <2>2, <2>4
  <2> HIDE DEF from
  <2> QED BY <1>1, <2>5, FromIs DEF Data
<1> QED BY <1>3, <1>4

\* What is behind a byte that dch_shiftAfterChr looks for is data.
LEMMA ShiftIn ==
  ASSUME NEW d \in Data, NEW x
  PROVE  dch_shiftAfterChr(d, x) \in Data
<1> DEFINE at == IndexOf({x}, d)
<1>1. at \in 0 .. Len(d) /\ Len(d) \in Nat BY IndexOfIs, LenProperties DEF Data
<1>2. at + 1 \in Nat /\ at + 1 > 0 BY <1>1
<1>3. From(d, at + 1) \in Data
  <2> HIDE DEF at
  <2> QED BY <1>2, FromIs DEF Data
<1> QED BY <1>3 DEF dch_shiftAfterChr

\* The value of a header line.
LEMMA ValueIn ==
  ASSUME NEW hdr \in Header, NEW name
  PROVE  getHeaderVal(hdr, name) \in Data
<1> DEFINE I == {i \in 1 .. Len(hdr.lines) : NameOf(hdr.lines[i]) = <<name>>}
           at == IF I # {} THEN Min(I) ELSE 0
<1>1. getHeaderVal(hdr, name) =
        IF at = 0 THEN <<>> ELSE skipLeadingWS(dch_shiftAfterChr(hdr.lines[at], "colon"))
  BY DEF getHeaderVal, SelectInSeq
<1>2. hdr.lines \in Seq(Data) BY DEF Header
<1>3. Len(hdr.lines) \in Nat BY <1>2, LenProperties
<1>4. CASE at = 0 BY <1>1, <1>4, NoneIn
<1>5. CASE at # 0
  <2>1. I # {} /\ at = Min(I) BY <1>5
  <2>2. I \in SUBSET (1 .. Len(hdr.lines)) OBVIOUS
  <2>3. Min(I) \in I
    <3> HIDE DEF I
    <3> QED BY <1>3, <2>1, <2>2, MinIn
  <2>4. at \in 1 .. Len(hdr.lines) BY <2>1, <2>3
  <2> DEFINE line == hdr.lines[at]
  <2>5. line \in Data
    <3> HIDE DEF at
    <3> QED BY <1>2, <2>4, ElementOfSeq
  <2>6. getHeaderVal(hdr, name) = skipLeadingWS(dch_shiftAfterChr(line, "colon"))
    <3> HIDE DEF at
    <3> QED BY <1>1, <1>5
  <2> HIDE DEF line
  <2> QED BY <2>5, <2>6, ShiftIn, SkipIn
<1> QED BY <1>4, <1>5

----------------------------------------------------------------------------
(* The connection: the types of what it keeps, and the loop over pieces.     *)

Handlers == {"none"} \union {HandlerOf(request) : request \in Requests}

Phases == {"RRS_IDLE", "RRS_READ_HEAD", "RRS_READ_BODY", "RRS_READ_TRAILER", "RRS_READ_FINISHED"}

Conn == [rrs : Phases, buf : Data, header : Header, chunkHdr : Data, isChunked : BOOLEAN,
         bodyLen : Nat, bodyReadLen : Nat, handler : Handlers, mpdata : MpData, body : Data]

\* what has been counted of the body has been read, and no more than there is
Counted(c) ==
  /\ c.bodyReadLen = Len(c.body) /\ c.bodyReadLen <= c.bodyLen
  /\ c.rrs \in {"RRS_IDLE", "RRS_READ_HEAD"} => c.body = <<>>

Conns == {c \in Conn : Counted(c)}

Pieces == [c : Conns, room : Nat]

\* conn_new makes a connection.
LEMMA NewConn == conn_new \in Conns
<1>1. <<>> \in Data /\ Len(<<>>) = 0 BY NoneIn, EmptySeq
<1>2. "none" \in Handlers BY DEF Handlers
<1>3. mpdata_new \in MpData
  <2>1. <<>> \in Seq(Part) BY EmptySeq
  <2> QED BY <2>1 DEF mpdata_new, MpData, Parsers
<1>4. conn_new \in Conn BY <1>1, <1>2, <1>3, NewHeaders DEF conn_new, Conn, Phases
<1>5. Counted(conn_new) BY <1>1 DEF conn_new, Counted
<1> QED BY <1>4, <1>5 DEF Conns

\* What is done with a header that is complete.
LEMMA StartBodyIn ==
  ASSUME NEW c \in Conn, Counted(c), c.body = <<>>, NEW isChunked \in BOOLEAN, NEW len \in Nat
  PROVE  StartBody(c, isChunked, len) \in Conns
<1> DEFINE new == StartBody(c, isChunked, len)
           handler == HandlerOf(c.header.request)
           chunkHdr == IF isChunked THEN Crlf ELSE <<>>
           bodyLen == IF isChunked THEN 0 ELSE len
           rrs == IF isChunked \/ len > 0 THEN "RRS_READ_BODY" ELSE "RRS_READ_FINISHED"
<1>1. handler \in Handlers BY DEF Conn, Header, Handlers
<1>2. chunkHdr \in Data
  <2>1. Crlf \in Data BY EolIs, NoneIn DEF Eols
  <2> QED BY <2>1, NoneIn
<1>3. bodyLen \in Nat /\ rrs \in Phases BY DEF Phases
<1>4. mpdata_new \in MpData
  <2>1. <<>> \in Seq(Part) BY EmptySeq
  <2> QED BY <2>1 DEF mpdata_new, MpData, Parsers
<1>5. new = [c EXCEPT !.handler = handler, !.mpdata = mpdata_new, !.isChunked = isChunked,
                      !.chunkHdr = chunkHdr, !.bodyLen = bodyLen, !.rrs = rrs]
  BY DEF StartBody
<1>6. rrs \notin {"RRS_IDLE", "RRS_READ_HEAD"} OBVIOUS
<1> HIDE DEF handler, chunkHdr, bodyLen, rrs, new
<1>7. new \in Conn BY <1>1, <1>2, <1>3, <1>4, <1>5 DEF Conn
<1>8. /\ new.body = c.body /\ new.bodyReadLen = c.bodyReadLen /\ new.bodyLen = bodyLen
      /\ new.rrs = rrs
  BY <1>5 DEF Conn
<1>9. c.bodyReadLen = 0 BY EmptySeq DEF Counted
<1>10. Counted(new) BY <1>3, <1>6, <1>8, <1>9 DEF Counted
<1> QED BY <1>7, <1>10 DEF Conns, new

\* What a step adds to the body, and what it leaves alone.
LEMMA TakeBodyIs ==
  ASSUME NEW c \in Conn, NEW n \in 0 .. Len(c.buf)
  PROVE  LET new == TakeBody(c, n)
         IN /\ new \in Conn /\ new.rrs = c.rrs /\ new.header = c.header /\ new.bodyLen = c.bodyLen
            /\ new.chunkHdr = c.chunkHdr /\ new.isChunked = c.isChunked /\ new.handler = c.handler
            /\ new.body = c.body \o SubSeq(c.buf, 1, n) /\ new.buf = From(c.buf, n + 1)
            /\ new.bodyReadLen = c.bodyReadLen + n
            /\ Len(new.body) = Len(c.body) + n
            /\ c.body \o c.buf = new.body \o new.buf
            /\ new.mpdata = IF c.handler = "FORM" THEN mpdata_appendData(c.mpdata, SubSeq(c.buf, 1, n))
                            ELSE c.mpdata
<1> DEFINE d == SubSeq(c.buf, 1, n)
           body == c.body \o d
           buf == From(c.buf, n + 1)
           read == c.bodyReadLen + n
           mpdata == IF c.handler = "FORM" THEN mpdata_appendData(c.mpdata, d) ELSE c.mpdata
           new == TakeBody(c, n)
<1>1. c.buf \in Data /\ c.body \in Data /\ c.bodyReadLen \in Nat /\ c.mpdata \in MpData BY DEF Conn
<1>2. Len(c.buf) \in Nat /\ n \in Nat
  <2>1. Len(c.buf) \in Nat BY <1>1, LenProperties DEF Data
  <2> QED BY <2>1
<1>3. d \in Data /\ Len(d) = n BY <1>1, FirstIs DEF Data
<1>4. buf \in Data BY <1>1, <1>2, BehindIn
<1>5. mpdata \in MpData
  <2> HIDE DEF d
  <2> QED BY <1>1, <1>3, MpDataIn
<1>6. d \o buf = c.buf BY <1>1, CutAt DEF Data
<1>7. new = [c EXCEPT !.buf = buf, !.bodyReadLen = read, !.body = body, !.mpdata = mpdata]
  BY DEF TakeBody
<1> HIDE DEF d, buf, mpdata, new
<1>8. body \in Data BY <1>1, <1>3, JoinIn
<1>9. Len(body) = Len(c.body) + n BY <1>1, <1>3, ConcatProperties DEF Data
<1>10. c.body \o c.buf = body \o buf
  <2> DEFINE a == c.body
  <2>1. a \in Data BY <1>1
  <2> HIDE DEF a
  <2>2. (a \o d) \o buf = a \o (d \o buf) BY <1>3, <1>4, <2>1, Joins
  <2> QED BY <1>6, <2>2 DEF a
<1>11. read \in Nat BY <1>1, <1>2
<1> HIDE DEF body, read
<1>12. new \in Conn BY <1>4, <1>5, <1>7, <1>8, <1>11 DEF Conn
<1>13. /\ new.rrs = c.rrs /\ new.header = c.header /\ new.bodyLen = c.bodyLen
       /\ new.chunkHdr = c.chunkHdr /\ new.isChunked = c.isChunked /\ new.handler = c.handler
       /\ new.body = body /\ new.buf = buf /\ new.bodyReadLen = read /\ new.mpdata = mpdata
  BY <1>7 DEF Conn
<1> QED BY <1>9, <1>10, <1>12, <1>13 DEF body, buf, read, mpdata, d, new

\* The smaller of two numbers.
LEMMA AtMostIs ==
  ASSUME NEW n \in Nat, NEW m \in Nat
  PROVE  /\ AtMost(n, m) \in Nat /\ AtMost(n, m) <= n /\ AtMost(n, m) <= m
         /\ AtMost(n, m) = n \/ AtMost(n, m) = m
  BY DEF AtMost

\* No more is skipped before a chunk than there is.
LEMMA SkippedIn ==
  ASSUME NEW c \in Conn
  PROVE  Skipped(c) \in 0 .. Len(c.buf) /\ Skipped(c) \in Nat
<1>1. Len(c.buf) \in Nat /\ Len(c.chunkHdr) \in Nat BY LenProperties DEF Conn, Data
<1> QED BY <1>1 DEF Skipped, AtMost

\* The size of a chunk.
LEMMA SizeIn ==
  ASSUME NEW d \in Data
  PROVE  Number(d, 16) % Wrap \in Nat
<1>1. Number(d, 16) \in Nat
  <2>1. 16 \in {10, 16} OBVIOUS
  <2> QED BY <2>1, NumberIn
<1>2. Wrap \in Nat /\ Wrap > 0 BY WrapAssumption
<1> DEFINE v == Number(d, 16)
<1>3. v \in Nat BY <1>1
<1> HIDE DEF v
<1>4. v % Wrap \in Nat BY <1>2, <1>3
<1> QED BY <1>4 DEF v

\* Reading what is before a chunk.
LEMMA ReadChunkHeaderIn ==
  ASSUME NEW c \in Conns, c.bodyReadLen = c.bodyLen, c.rrs = "RRS_READ_BODY"
  PROVE  ReadChunkHeader(c) \in Conns
<1> DEFINE line == From(c.buf, Skipped(c) + 1)
           eol == IndexOf({"lf"}, line)
           first == SubSeq(c.buf, 1, Skipped(c))
           chunkHdr == c.chunkHdr \o first \o Before(line, eol)
           new == ReadChunkHeader(c)
<1>1. c \in Conn /\ Counted(c) /\ c.buf \in Data /\ c.chunkHdr \in Data /\ c.bodyLen \in Nat
  BY DEF Conns, Conn
<1>2. line \in Data /\ first \in Data
  <2>1. Skipped(c) \in 0 .. Len(c.buf) /\ Skipped(c) \in Nat BY <1>1, SkippedIn
  <2>2. line \in Data BY <1>1, <2>1, BehindIn
  <2>3. first \in Data BY <1>1, <2>1, FirstIs DEF Data
  <2> QED BY <2>2, <2>3
<1> HIDE DEF line, first
<1>3. eol \in 0 .. Len(line) BY <1>2, IndexOfIs DEF Data
<1>4. chunkHdr \in Data
  <2>1. Before(line, eol) \in Data BY <1>2, <1>3, BeforeIn DEF Data
  <2> HIDE DEF eol
  <2>2. c.chunkHdr \o first \in Data BY <1>1, <1>2, JoinIn
  <2> QED BY <2>1, <2>2, JoinIn
<1>5. CASE eol = 0
  <2> HIDE DEF chunkHdr
  <2>1. new = [c EXCEPT !.buf = <<>>, !.chunkHdr = chunkHdr]
    BY <1>5 DEF ReadChunkHeader, line, first, chunkHdr
  <2> HIDE DEF new
  <2>2. new \in Conn BY <1>1, <1>4, <2>1, NoneIn DEF Conn
  <2>3. /\ new.bodyReadLen = c.bodyReadLen /\ new.bodyLen = c.bodyLen /\ new.body = c.body
        /\ new.rrs = c.rrs
    BY <1>1, <2>1 DEF Conn
  <2>4. Counted(new) BY <1>1, <2>3 DEF Counted
  <2> QED BY <2>2, <2>4 DEF Conns, new
<1>6. CASE eol # 0
  <2> DEFINE size == Number(From(chunkHdr, 3), 16) % Wrap
             buf == From(line, eol + 1)
             bodyLen == c.bodyLen + size
             rrs == IF size = 0 THEN "RRS_READ_TRAILER" ELSE c.rrs
  <2>1. new = [c EXCEPT !.buf = buf, !.chunkHdr = <<>>, !.bodyLen = bodyLen, !.rrs = rrs]
    BY <1>6 DEF ReadChunkHeader, ChunkSize, line, first
  <2>2. From(chunkHdr, 3) \in Data
    <3> HIDE DEF chunkHdr
    <3>1. 3 \in Nat /\ 3 > 0 OBVIOUS
    <3> QED BY <1>4, <3>1, FromIs DEF Data
  <2>3. size \in Nat
    <3> DEFINE d == From(chunkHdr, 3)
    <3>1. d \in Data BY <2>2
    <3> HIDE DEF d
    <3>2. Number(d, 16) % Wrap \in Nat BY <3>1, SizeIn
    <3> QED BY <3>2 DEF d
  <2>4. buf \in Data
    <3>1. eol \in Nat
      <4>1. Len(line) \in Nat BY <1>2, LenProperties DEF Data
      <4> HIDE DEF eol
      <4> QED BY <1>3, <4>1
    <3> HIDE DEF eol
    <3> QED BY <1>2, <3>1, BehindIn
  <2> HIDE DEF size, buf, new
  <2>5. bodyLen \in Nat /\ bodyLen >= c.bodyLen BY <1>1, <2>3
  <2>6. rrs \in {"RRS_READ_TRAILER", "RRS_READ_BODY"} OBVIOUS
  <2> HIDE DEF bodyLen, rrs
  <2>7. new \in Conn BY <1>1, <2>1, <2>4, <2>5, <2>6, NoneIn DEF Conn, Phases
  <2>8. /\ new.bodyReadLen = c.bodyReadLen /\ new.bodyLen = bodyLen /\ new.body = c.body
        /\ new.rrs = rrs
    BY <1>1, <2>1 DEF Conn
  <2>9. Counted(new) BY <1>1, <2>5, <2>6, <2>8 DEF Counted
  <2> QED BY <2>7, <2>9 DEF Conns, new
<1> QED BY <1>5, <1>6

\* A round of the loop over the pieces of a body.
LEMMA NextPieceIn ==
  ASSUME NEW s \in Pieces
  PROVE  NextPiece(s) \in Pieces
<1> DEFINE c == s.c
           room == s.room
           add == AtMost(Len(c.buf), c.bodyLen - c.bodyReadLen)
           processed == IF c.handler = "CGI" THEN AtMost(add, room) ELSE add
           taken == TakeBody(c, processed)
<1>1. c \in Conns /\ c \in Conn /\ Counted(c) /\ room \in Nat BY DEF Pieces, Conns
<1>2. Len(c.buf) \in Nat /\ c.bodyLen \in Nat /\ c.bodyReadLen \in Nat /\ c.bodyReadLen <= c.bodyLen
  <2>1. c.buf \in Data BY <1>1 DEF Conn
  <2> QED BY <1>1, <2>1, LenProperties DEF Conn, Counted, Data
<1>3. add \in 0 .. Len(c.buf) /\ add <= c.bodyLen - c.bodyReadLen BY <1>2 DEF AtMost
<1>4. processed \in 0 .. add /\ (c.handler = "CGI" => processed <= room)
  <2> HIDE DEF add, c, room
  <2>1. add \in Nat BY <1>2, <1>3
  <2> QED BY <1>1, <2>1 DEF AtMost
<1>5. CASE c.rrs # "RRS_READ_BODY" \/ c.buf = <<>>
  BY <1>5 DEF NextPiece
<1>6. CASE ~(c.rrs # "RRS_READ_BODY" \/ c.buf = <<>>)
  <2> DEFINE c1 == IF processed < add THEN taken ELSE BehindPiece(taken)
             room1 == IF c.handler = "CGI" THEN room - processed ELSE room
  <2>1. NextPiece(s) = [c |-> c1, room |-> room1] BY <1>6 DEF NextPiece
  <2>2. processed \in Nat /\ add \in Nat /\ processed \in 0 .. Len(c.buf)
        /\ c.bodyReadLen + processed <= c.bodyLen
    <3> HIDE DEF add, processed, c
    <3> QED BY <1>2, <1>3, <1>4
  <2>3. room1 \in Nat
    <3> HIDE DEF processed, c, room
    <3> QED BY <1>1, <1>4, <2>2
  <2>4. /\ taken \in Conn /\ taken.rrs = c.rrs /\ taken.bodyLen = c.bodyLen
        /\ taken.bodyReadLen = c.bodyReadLen + processed
        /\ Len(taken.body) = Len(c.body) + processed
    <3> HIDE DEF processed, c
    <3> QED BY <1>1, <2>2, TakeBodyIs
  <2> HIDE DEF processed, add, taken, room1, c
  <2>5. Counted(taken) BY <1>1, <1>6, <2>2, <2>4 DEF Counted
  <2>6. taken \in Conns BY <2>4, <2>5 DEF Conns
  <2>7. BehindPiece(taken) \in Conns
    <3>1. CASE taken.bodyReadLen < taken.bodyLen BY <2>6, <3>1 DEF BehindPiece
    <3>2. CASE ~(taken.bodyReadLen < taken.bodyLen) /\ taken.isChunked
      <4>1. BehindPiece(taken) = ReadChunkHeader(taken) BY <3>2 DEF BehindPiece
      <4>2. taken.bodyReadLen = taken.bodyLen BY <1>2, <2>2, <2>4, <3>2
      <4> QED BY <1>6, <2>4, <2>6, <4>1, <4>2, ReadChunkHeaderIn
    <3>3. CASE ~(taken.bodyReadLen < taken.bodyLen) /\ ~taken.isChunked
      <4> DEFINE new == BehindPiece(taken)
      <4>1. new = [taken EXCEPT !.rrs = "RRS_READ_FINISHED"] BY <3>3 DEF BehindPiece
      <4> HIDE DEF new
      <4>2. new \in Conn BY <2>4, <4>1 DEF Conn, Phases
      <4>3. /\ new.bodyReadLen = taken.bodyReadLen /\ new.bodyLen = taken.bodyLen
            /\ new.body = taken.body /\ new.rrs = "RRS_READ_FINISHED"
        BY <2>4, <4>1 DEF Conn
      <4>4. Counted(new) BY <2>5, <4>3 DEF Counted
      <4> QED BY <4>2, <4>4 DEF Conns, new
    <3> QED BY <3>1, <3>2, <3>3
  <2>8. c1 \in Conns BY <2>6, <2>7
  <2> HIDE DEF c1
  <2> QED BY <2>1, <2>3, <2>8 DEF Pieces
<1> QED BY <1>5, <1>6

\* g is what is held in each round of the loop over the pieces of a body
IsTaking(g, n, c, room) ==
  /\ n = LineEnds(c.buf) + 1 /\ g[0] = [c |-> c, room |-> room] /\ g[n].c = appendBodyData(c, room)
  /\ \A k \in 1 .. n : g[k] = NextPiece(g[k - 1])

\* The loop over pieces has such rounds.
LEMMA TakingExists ==
  ASSUME NEW c \in Conns, NEW room \in Nat
  PROVE  \E n \in Nat : \E g \in [0 .. n -> Pieces] : IsTaking(g, n, c, room)
<1> DEFINE n == LineEnds(c.buf) + 1
           x == [c |-> c, room |-> room]
           step == [s \in Pieces |-> NextPiece(s)]
           Loop(h) == [k \in 0 .. n |-> IF k = 0 THEN x ELSE NextPiece(h[k - 1])]
           h == CHOOSE h : h = Loop(h)
<1>1. appendBodyData(c, room) = h[n].c BY DEF appendBodyData, Repeated
<1>2. n \in Nat
  <2>1. c.buf \in Data BY DEF Conns, Conn
  <2> QED BY <2>1, LineEndsIn
<1>3. x \in Pieces BY DEF Pieces
<1>4. step \in [Pieces -> Pieces] /\ \A s \in Pieces : step[s] = NextPiece(s) BY NextPieceIn
<1> HIDE DEF x, step, n
<1>5. PICK g \in [0 .. n -> Pieces] : IsLoop(g, n, x, step) BY <1>2, <1>3, <1>4, LoopExists
<1>6. g[0] = x /\ \A k \in 1 .. n : g[k] = NextPiece(g[k - 1]) BY <1>2, <1>4, <1>5 DEF IsLoop
<1>7. g = Loop(g) BY <1>2, <1>6
<1>8. h = Loop(h)
  <2> HIDE DEF Loop
  <2> QED BY <1>7
<1>9. g[n] = h[n]
  <2> HIDE DEF h
  <2> DEFINE S == {k \in 0 .. n : g[k] = h[k]}
  <2>1. 0 \in S BY <1>2, <1>6, <1>8
  <2>2. \A k \in 1 .. n : k - 1 \in S => k \in S BY <1>2, <1>6, <1>8
  <2>3. n \in S
    <3> HIDE DEF S
    <3> QED BY <1>2, <2>1, <2>2, UpTo
  <2> QED BY <2>3
<1>10. IsTaking(g, n, c, room) BY <1>1, <1>6, <1>9 DEF IsTaking, n, x
<1> QED BY <1>2, <1>10

\* What appendBodyData makes of a connection is one.
LEMMA AppendBodyDataIn ==
  ASSUME NEW c \in Conns, NEW room \in Nat
  PROVE  appendBodyData(c, room) \in Conns
<1>1. PICK n \in Nat : \E g \in [0 .. n -> Pieces] : IsTaking(g, n, c, room) BY TakingExists
<1>2. PICK g \in [0 .. n -> Pieces] : IsTaking(g, n, c, room) BY <1>1
<1>3. g[n] \in Pieces OBVIOUS
<1> QED BY <1>2, <1>3 DEF IsTaking, Pieces

----------------------------------------------------------------------------
(* Digits and their values.                                                  *)

\* The digits, and what is none.
LEMMA DigitListIs ==
  /\ Len(DigitList) = 16 /\ DigitList \in Data
  /\ \A i \in 1 .. 16 : DigitList[i] \in Byte /\ DigitList[i] \notin {"cr", "lf", "sp", "tab", "colon"}
  /\ \A i, j \in 1 .. 16 : i < j => DigitList[i] # DigitList[j]
<1>1. Len(DigitList) = 16 /\ DOMAIN DigitList = 1 .. 16 BY DEF DigitList
<1>2. \A i \in 1 .. 16 : DigitList[i] \in Byte BY DEF Byte
<1>3. DigitList \in Data
  <2>1. \E n \in Nat : DigitList \in [1 .. n -> Byte]
    <3>1. DigitList = [i \in 1 .. 16 |-> DigitList[i]] BY DEF DigitList
    <3> DEFINE D == DigitList
    <3>2. D = [i \in 1 .. 16 |-> D[i]] /\ \A i \in 1 .. 16 : D[i] \in Byte BY <1>2, <3>1
    <3> HIDE DEF D
    <3>3. D \in [1 .. 16 -> Byte] BY <3>2
    <3> QED BY <3>3 DEF D
  <2> QED BY <2>1, SeqDef DEF Data
<1>4. \A i \in 1 .. 16 : DigitList[i] \notin {"cr", "lf", "sp", "tab", "colon"} BY DEF DigitList
<1>5. \A i, j \in 1 .. 16 : i < j => DigitList[i] # DigitList[j] BY DEF DigitList
<1> QED BY <1>1, <1>2, <1>3, <1>4, <1>5

\* A digit is found at its place in the list.
LEMMA DigitValue ==
  ASSUME NEW k \in 0 .. 15
  PROVE  DigitList[k + 1] \in Byte /\ DigitOf(DigitList[k + 1]) = k + 1
<1> DEFINE e == k + 1
           x == DigitList[e]
           S == {x}
<1>1. e \in 1 .. 16 /\ e \in 1 .. Len(DigitList) BY DigitListIs
<1> HIDE DEF e
<1>2. x \in Byte /\ x \in S BY <1>1, DigitListIs
<1>3. ASSUME NEW i \in 1 .. e - 1 PROVE DigitList[i] \notin S
  <2>1. i \in 1 .. 16 /\ i < e BY <1>1
  <2> QED BY <1>1, <2>1, DigitListIs
<1>4. DigitOf(x) = IndexOf(S, DigitList) BY DEF DigitOf
<1> HIDE DEF S
<1>5. IndexOf(S, DigitList) = e BY <1>1, <1>2, <1>3, DigitListIs, IndexOfAt
<1> QED BY <1>2, <1>4, <1>5 DEF e

\* What ends a number is no digit.
LEMMA NoDigit ==
  ASSUME NEW x \in {"cr", "lf", "sp", "tab", "colon"}
  PROVE  DigitOf(x) = 0
<1> DEFINE S == {x}
           at == IndexOf(S, DigitList)
<1>1. at \in 0 .. 16 /\ (at # 0 => DigitList[at] \in S)
  <2> HIDE DEF S
  <2> QED BY DigitListIs, IndexOfIs
<1> HIDE DEF at
<1>2. at = 0 BY <1>1, DigitListIs
<1> QED BY <1>2 DEF at, DigitOf

\* a sequence of digits and its value
HasValue(d, base, v) ==
  /\ d \in Data /\ d # <<>> /\ \A i \in 1 .. Len(d) : DigitOf(d[i]) \in 1 .. base
  /\ \E g \in [0 .. Len(d) -> Nat] : IsNumberRun(g, d, base, v)

\* One digit more.
LEMMA NextValue ==
  ASSUME NEW d \in Data, NEW base \in {10, 16}, NEW v \in Nat, NEW x \in Byte, NEW k \in 0 .. base - 1,
         DigitOf(x) = k + 1, \A i \in 1 .. Len(d) : DigitOf(d[i]) \in 1 .. base,
         \E g \in [0 .. Len(d) -> Nat] : IsNumberRun(g, d, base, v)
  PROVE  HasValue(Append(d, x), base, v * base + k)
<1> DEFINE n == Len(d)
           e == Append(d, x)
           w == v * base + k
<1>1. n \in Nat BY LenProperties DEF Data
<1>2. e \in Data /\ e # <<>> /\ Len(e) = n + 1
  <2>1. e \in Data BY AppendProperties DEF Data
  <2>2. e # <<>> /\ Len(e) = n + 1 BY AppendProperties DEF Data
  <2> QED BY <2>1, <2>2
<1>3. \A i \in 1 .. n : e[i] = d[i] BY AppendProperties DEF Data
<1>4. e[n + 1] = x BY AppendProperties DEF Data
<1>5. PICK g \in [0 .. n -> Nat] : IsNumberRun(g, d, base, v) OBVIOUS
<1>6. g[0] = 0 /\ g[n] = v /\ \A i \in 1 .. n : g[i] = NumberStep(d, base, g[i - 1], i)
  BY <1>5 DEF IsNumberRun
<1>7. w \in Nat OBVIOUS
<1>8. w = v * base + (k + 1) - 1 OBVIOUS
<1> HIDE DEF e, w, n
<1> DEFINE h == [i \in 0 .. n + 1 |-> IF i = n + 1 THEN w ELSE g[i]]
<1>9. h \in [0 .. n + 1 -> Nat]
  <2>1. \A i \in 0 .. n + 1 : i # n + 1 => i \in 0 .. n BY <1>1
  <2> QED BY <1>7, <2>1
<1>10. h[0] = 0 /\ h[n + 1] = w BY <1>1, <1>6
<1>11. ASSUME NEW i \in 1 .. n + 1 PROVE h[i] = NumberStep(e, base, h[i - 1], i)
  <2>1. CASE i = n + 1
    <3>1. h[i] = w /\ i - 1 = n /\ h[n] = v BY <1>1, <1>6, <2>1
    <3>2. NumberStep(e, base, v, i) = v * base + (k + 1) - 1 BY <1>4, <2>1 DEF NumberStep
    <3> QED BY <1>8, <3>1, <3>2
  <2>2. CASE i # n + 1
    <3>1. i \in 1 .. n /\ i - 1 \in 0 .. n BY <1>1, <2>2
    <3>2. h[i] = g[i] /\ h[i - 1] = g[i - 1] BY <1>1, <3>1
    <3>3. NumberStep(e, base, g[i - 1], i) = NumberStep(d, base, g[i - 1], i)
      BY <1>3, <3>1 DEF NumberStep
    <3> QED BY <1>6, <3>1, <3>2, <3>3
  <2> QED BY <2>1, <2>2
<1>12. \A i \in 1 .. n + 1 : DigitOf(e[i]) \in 1 .. base
  <2> SUFFICES ASSUME NEW i \in 1 .. n + 1 PROVE DigitOf(e[i]) \in 1 .. base
    OBVIOUS
  <2>1. CASE i = n + 1
    <3>1. k + 1 \in 1 .. base OBVIOUS
    <3> QED BY <1>4, <2>1, <3>1
  <2>2. CASE i # n + 1
    <3>1. i \in 1 .. n BY <1>1, <2>2
    <3> QED BY <1>3, <3>1 DEF n
  <2> QED BY <2>1, <2>2
<1> HIDE DEF h
<1>13. IsNumberRun(h, e, base, w) BY <1>2, <1>10, <1>11 DEF IsNumberRun
<1> QED BY <1>2, <1>9, <1>12, <1>13 DEF HasValue, e, w

\* No digit yet.
LEMMA NoValue ==
  ASSUME NEW base
  PROVE  \E g \in [0 .. Len(<<>>) -> Nat] : IsNumberRun(g, <<>>, base, 0)
<1> DEFINE g == [i \in 0 .. 0 |-> 0]
<1>1. Len(<<>>) = 0 BY EmptySeq
<1>2. g \in [0 .. 0 -> Nat] /\ g[0] = 0 OBVIOUS
<1>3. 1 .. 0 = {} OBVIOUS
<1> HIDE DEF g
<1>4. IsNumberRun(g, <<>>, base, 0) BY <1>1, <1>2, <1>3 DEF IsNumberRun
<1> QED BY <1>1, <1>2, <1>4

\* f has the digits of the numbers up to n
IsDigits(f, n, base) ==
  \A k \in 0 .. n : f[k] = IF k < base THEN <<DigitList[k + 1]>>
                           ELSE Append(f[k \div base], DigitList[(k % base) + 1])

\* Division with a remainder, by the bases that are used.
LEMMA Division ==
  ASSUME NEW k \in Nat, NEW base \in {10, 16}
  PROVE  /\ k \div base \in Nat /\ k % base \in 0 .. base - 1 /\ k = (k \div base) * base + (k % base)
         /\ k >= base => k \div base < k
<1>1. CASE base = 10 BY <1>1
<1>2. CASE base = 16 BY <1>2
<1> QED BY <1>1, <1>2

\* The recursion of Digits goes to smaller numbers only, so there is such a function.
LEMMA DigitsExist ==
  ASSUME NEW n \in Nat, NEW base \in {10, 16}
  PROVE  \E f : f = [k \in 0 .. n |-> IF k < base THEN <<DigitList[k + 1]>>
                                      ELSE Append(f[k \div base], DigitList[(k % base) + 1])]
<1> DEFINE Step(f, k) == IF k < base THEN <<DigitList[k + 1]>>
                         ELSE Append(f[k \div base], DigitList[(k % base) + 1])
           S == {m \in 0 .. n : \E f : f = [k \in 0 .. m |-> Step(f, k)]}
<1>1. ASSUME NEW m \in 0 .. n, NEW g, NEW k \in 0 .. m, NEW f, \A i \in 0 .. k - 1 : f[i] = g[i]
      PROVE  Step(f, k) = Step(g, k)
  <2>1. CASE k < base BY <2>1
  <2>2. CASE ~(k < base)
    <3> DEFINE q == k \div base
    <3>1. k \in Nat /\ base \in Nat OBVIOUS
    <3>2. q \in 0 .. k - 1
      <4>1. q \in Nat /\ q < k BY <2>2, <3>1, Division
      <4> HIDE DEF q
      <4> QED BY <3>1, <4>1
    <3>3. f[q] = g[q] BY <1>1, <3>2
    <3> QED BY <2>2, <3>3
  <2> QED BY <2>1, <2>2
<1> HIDE DEF Step
<1>2. 0 \in S
  <2> DEFINE none == <<>>
             f == [k \in 0 .. 0 |-> Step(none, 0)]
  <2>1. Step(f, 0) = Step(none, 0)
    <3>1. 0 .. 0 - 1 = {} /\ 0 \in 0 .. n /\ 0 \in 0 .. 0 OBVIOUS
    <3> HIDE DEF f, none
    <3> QED BY <1>1, <3>1
  <2>2. f = [k \in 0 .. 0 |-> Step(f, k)]
    <3>1. \A k \in 0 .. 0 : Step(f, k) = Step(none, 0)
      <4>1. \A k \in 0 .. 0 : k = 0 OBVIOUS
      <4> HIDE DEF f
      <4> QED BY <2>1, <4>1
    <3> QED BY <3>1
  <2> HIDE DEF f
  <2> QED BY <2>2
<1>3. ASSUME NEW m \in 1 .. n, m - 1 \in S PROVE m \in S
  <2>1. PICK g : g = [k \in 0 .. m - 1 |-> Step(g, k)] BY <1>3
  <2> DEFINE f == [k \in 0 .. m |-> IF k = m THEN Step(g, m) ELSE g[k]]
  <2>2. ASSUME NEW k \in 0 .. m PROVE f[k] = Step(f, k)
    <3>1. \A i \in 0 .. k - 1 : f[i] = g[i] OBVIOUS
    <3>2. m \in 0 .. n OBVIOUS
    <3>3. Step(f, k) = Step(g, k)
      <4> HIDE DEF f
      <4> QED BY <1>1, <3>1, <3>2
    <3>4. CASE k = m BY <3>3, <3>4
    <3>5. CASE k # m
      <4>1. k \in 0 .. m - 1 BY <3>5
      <4>2. g[k] = Step(g, k) BY <2>1, <4>1
      <4> QED BY <3>3, <3>5, <4>2
    <3> QED BY <3>4, <3>5
  <2>3. f = [k \in 0 .. m |-> Step(f, k)]
    <3>1. f = [k \in 0 .. m |-> f[k]] OBVIOUS
    <3> HIDE DEF f
    <3> QED BY <2>2, <3>1
  <2>4. m \in 0 .. n OBVIOUS
  <2> HIDE DEF f
  <2> QED BY <2>3, <2>4
<1>4. n \in S
  <2> HIDE DEF S
  <2>1. \A k \in 0 .. n : k \in S BY <1>2, <1>3, UpTo
  <2> QED BY <2>1
<1> QED BY <1>4 DEF Step

\* The digits of a number have its value.
LEMMA DigitsValue ==
  ASSUME NEW n \in Nat, NEW base \in {10, 16}
  PROVE  HasValue(Digits(n, base), base, n)
<1> DEFINE Fun(f) == [k \in 0 .. n |-> IF k < base THEN <<DigitList[k + 1]>>
                                       ELSE Append(f[k \div base], DigitList[(k % base) + 1])]
           h == CHOOSE h : h = Fun(h)
<1>1. Digits(n, base) = h[n] BY DEF Digits
<1>2. \E f : f = Fun(f) BY DigitsExist
<1>3. h = Fun(h)
  <2> HIDE DEF Fun
  <2> QED BY <1>2
<1>4. \A k \in 0 .. n : h[k] = IF k < base THEN <<DigitList[k + 1]>>
                               ELSE Append(h[k \div base], DigitList[(k % base) + 1])
  <2> HIDE DEF h
  <2> QED BY <1>3
<1> HIDE DEF h, Fun
<1> DEFINE S == {m \in 0 .. n : \A k \in 0 .. m : HasValue(h[k], base, k)}
<1>5. ASSUME NEW k \in 0 .. n, \A i \in 0 .. k - 1 : HasValue(h[i], base, i)
      PROVE  HasValue(h[k], base, k)
  <2>1. CASE k < base
    <3> DEFINE x == DigitList[k + 1]
               none == <<>>
               d == Append(none, x)
    <3>1. k \in 0 .. 15 /\ k \in 0 .. base - 1 BY <2>1
    <3>2. x \in Byte /\ DigitOf(x) = k + 1 BY <3>1, DigitValue
    <3>3. h[k] = <<x>> BY <1>4, <2>1
    <3> HIDE DEF x
    <3>4. d = <<x>> OBVIOUS
    <3> DEFINE zero == 0
    <3>5. \E g \in [0 .. Len(none) -> Nat] : IsNumberRun(g, none, base, zero) BY NoValue
    <3>6. none \in Data /\ zero \in Nat /\ \A i \in 1 .. Len(none) : DigitOf(none[i]) \in 1 .. base
      <4>1. 1 .. Len(none) = {} BY EmptySeq
      <4> QED BY <4>1, NoneIn
    <3>7. zero * base + k = k OBVIOUS
    <3> HIDE DEF none, d, zero
    <3>8. HasValue(Append(none, x), base, zero * base + k) BY <3>1, <3>2, <3>5, <3>6, NextValue
    <3> QED BY <3>3, <3>4, <3>7, <3>8 DEF d
  <2>2. CASE ~(k < base)
    <3> DEFINE q == k \div base
               r == k % base
               x == DigitList[r + 1]
    <3>1. q \in Nat /\ q < k /\ r \in 0 .. base - 1 /\ k = q * base + r
      <4>1. k \in Nat /\ k >= base BY <2>2
      <4> QED BY <4>1, Division
    <3>2. h[k] = Append(h[q], x) BY <1>4, <2>2
    <3> HIDE DEF q, r
    <3>3. q \in 0 .. k - 1 /\ r \in 0 .. 15 BY <3>1
    <3>4. HasValue(h[q], base, q) BY <1>5, <3>3
    <3>5. x \in Byte /\ DigitOf(x) = r + 1 BY <3>3, DigitValue
    <3> HIDE DEF x
    <3>6. HasValue(Append(h[q], x), base, q * base + r) BY <3>1, <3>4, <3>5, NextValue DEF HasValue
    <3> QED BY <3>1, <3>2, <3>6
  <2> QED BY <2>1, <2>2
<1>6. 0 \in S
  <2>1. 0 \in 0 .. n /\ 0 .. 0 - 1 = {} /\ \A k \in 0 .. 0 : k = 0 OBVIOUS
  <2>2. HasValue(h[0], base, 0) BY <1>5, <2>1
  <2> QED BY <2>1, <2>2
<1>7. ASSUME NEW m \in 1 .. n, m - 1 \in S PROVE m \in S
  <2>1. m \in 0 .. n OBVIOUS
  <2>2. HasValue(h[m], base, m) BY <1>5, <1>7, <2>1
  <2>3. ASSUME NEW k \in 0 .. m PROVE HasValue(h[k], base, k)
    <3>1. CASE k = m BY <2>2, <3>1
    <3>2. CASE k # m
      <4>1. k \in 0 .. m - 1 BY <3>2
      <4> QED BY <1>7, <4>1
    <3> QED BY <3>1, <3>2
  <2> QED BY <2>1, <2>3
<1>8. n \in S
  <2> HIDE DEF S
  <2>1. \A k \in 0 .. n : k \in S BY <1>6, <1>7, UpTo
  <2> QED BY <2>1
<1>9. n \in 0 .. n OBVIOUS
<1> QED BY <1>1, <1>8, <1>9

----------------------------------------------------------------------------
(* Leading digits, sums of sizes, and the lines that are kept.               *)

\* Leading digits, up to the end or to what is none.
LEMMA LeadingOf ==
  ASSUME NEW d \in Data, NEW t \in Data, NEW base \in {10, 16},
         \A i \in 1 .. Len(d) : DigitOf(d[i]) \in 1 .. base, t = <<>> \/ DigitOf(t[1]) = 0
  PROVE  LeadingDigits(d \o t, base) = d
<1> DEFINE n == Len(d)
           e == d \o t
           I == {i \in 1 .. Len(e) : DigitOf(e[i]) \notin 1 .. base}
<1>1. n \in Nat /\ Len(t) \in Nat BY LenProperties DEF Data
<1>2. /\ e \in Data /\ Len(e) = n + Len(t)
      /\ \A i \in 1 .. n + Len(t) : e[i] = IF i <= n THEN d[i] ELSE t[i - n]
  BY ConcatProperties DEF Data
<1>3. LeadingDigits(e, base) = Before(e, IF I # {} THEN Min(I) ELSE 0)
  BY DEF LeadingDigits, SelectInSeq
<1>4. SubSeq(e, 1, n) = d BY JoinedCut DEF Data
<1>5. CASE t = <<>>
  <2>1. e = d BY <1>5, NoneIn
  <2>2. I = {} BY <2>1
  <2> QED BY <1>3, <2>1, <2>2 DEF Before
<1>6. CASE t # <<>>
  <2>1. Len(t) > 0
    <3>1. Len(t) \in Nat \ {0} BY <1>6, EmptySeq DEF Data
    <3> QED BY <3>1
  <2> HIDE DEF e, n
  <2>2. n + 1 \in 1 .. Len(e) /\ e[n + 1] = t[1]
    <3>1. n + 1 \in 1 .. n + Len(t) /\ ~(n + 1 <= n) /\ (n + 1) - n = 1 BY <1>1, <2>1
    <3> QED BY <1>2, <3>1
  <2>3. DigitOf(e[n + 1]) \notin 1 .. base BY <1>6, <2>2
  <2>4. n + 1 \in I BY <2>2, <2>3
  <2>5. ASSUME NEW y \in I PROVE n + 1 <= y
    <3>1. y \in 1 .. n + Len(t) BY <1>2
    <3>2. CASE y <= n
      <4>1. y \in 1 .. n BY <3>1, <3>2
      <4>2. e[y] = d[y] BY <1>2, <3>1, <3>2
      <4> QED BY <4>1, <4>2 DEF n
    <3>3. CASE ~(y <= n) BY <1>1, <3>1, <3>3
    <3> QED BY <3>2, <3>3
  <2>6. I \in SUBSET Int OBVIOUS
  <2> DEFINE m == n + 1
  <2>7. m \in I /\ \A y \in I : m <= y BY <2>4, <2>5
  <2> HIDE DEF I, m
  <2>8. Min(I) = m BY <2>6, <2>7, MinIs
  <2>9. m # 0 /\ m - 1 = n BY <1>1 DEF m
  <2> QED BY <1>3, <1>4, <2>7, <2>8, <2>9 DEF Before, e
<1> QED BY <1>5, <1>6

\* What strtoul makes of digits.
LEMMA NumberOf ==
  ASSUME NEW d, NEW t \in Data, NEW base \in {10, 16}, NEW v, HasValue(d, base, v),
         t = <<>> \/ DigitOf(t[1]) = 0
  PROVE  Number(d \o t, base) = v
<1>1. d \in Data /\ \A i \in 1 .. Len(d) : DigitOf(d[i]) \in 1 .. base BY DEF HasValue
<1>2. PICK g \in [0 .. Len(d) -> Nat] : IsNumberRun(g, d, base, v) BY DEF HasValue
<1> DEFINE e == d \o t
<1>3. e \in Data BY <1>1, JoinIn
<1>4. LeadingDigits(e, base) = d BY <1>1, LeadingOf
<1> HIDE DEF e
<1>5. PICK f \in [0 .. Len(d) -> Nat] : IsNumberRun(f, d, base, Number(e, base))
  BY <1>3, <1>4, NumberRun
<1>6. Len(d) \in Nat BY <1>1, LenProperties DEF Data
<1>7. Alike(f, g, Len(d)) BY <1>2, <1>5 DEF Alike, IsNumberRun
<1>8. f[Len(d)] = g[Len(d)] BY <1>6, <1>7, RunsAgree
<1> QED BY <1>2, <1>5, <1>8 DEF IsNumberRun, e

\* g has the sums of the beginnings of some sizes
IsSum(g, s) ==
  g[0] = 0 /\ g[Len(s)] = Total(s) /\ \A k \in 1 .. Len(s) : g[k] = g[k - 1] + s[k]

\* Total adds one after the other.
LEMMA SumRun ==
  ASSUME NEW s \in Seq(Nat)
  PROVE  \E g \in [0 .. Len(s) -> Nat] : IsSum(g, s)
<1> DEFINE n == Len(s)
           T == Nat
           zero == 0
           step == [p \in (1 .. n) \X T |-> p[2] + s[p[1]]]
           Fold(h) == [t \in SUBSET DOMAIN s |->
                         IF t = {} THEN zero ELSE h[t \ {Max(t)}] + s[Max(t)]]
           h == CHOOSE h : h = Fold(h)
<1>1. Total(s) = h[DOMAIN s]
  BY DEF Total, FoldLeft, MapThenFoldSet
<1>2. n \in Nat /\ DOMAIN s = 1 .. n /\ zero \in T /\ step \in [(1 .. n) \X T -> T]
  <2>1. n \in Nat /\ DOMAIN s = 1 .. n /\ zero \in T BY LenProperties
  <2>2. \A i \in 1 .. n, x \in T : x + s[i] \in T
    <3>1. \A i \in 1 .. n : s[i] \in Nat BY ElementOfSeq
    <3> HIDE DEF n
    <3> QED BY <3>1
  <2> QED
    <3> HIDE DEF T, n
    <3> QED BY <2>1, <2>2
<1>3. \A i \in 1 .. n, x \in T : step[<<i, x>>] = x + s[i]
  <2> HIDE DEF T, n
  <2> QED OBVIOUS
<1> HIDE DEF n, T, zero, step
<1>4. PICK h0 \in [SUBSET (1 .. n) -> T] : IsFold(h0, n, zero, step)
  BY <1>2, FoldExists
<1>5. h0 = Fold(h0)
  <2>1. ASSUME NEW t \in SUBSET (1 .. n), t # {}
        PROVE  step[<<Max(t), h0[t \ {Max(t)}]>>] = h0[t \ {Max(t)}] + s[Max(t)]
    BY <2>1, <1>2, <1>3, MaxIn
  <2>2. \A t \in SUBSET DOMAIN s : h0[t] = Fold(h0)[t] BY <1>2, <1>4, <2>1 DEF IsFold
  <2> QED BY <1>2, <2>2
<1>6. h = Fold(h)
  <2> HIDE DEF Fold
  <2> QED BY <1>5
<1>7. Follows(h, n, T, zero, step)
  <2> HIDE DEF h
  <2>1. h[{}] = zero BY <1>6
  <2>3. \A t \in SUBSET DOMAIN s :
          h[t] = IF t = {} THEN zero ELSE h[t \ {Max(t)}] + s[Max(t)]
    BY <1>6
  <2> HIDE DEF Fold
  <2>2. ASSUME NEW k \in 1 .. n, h[1 .. k - 1] \in T PROVE h[1 .. k] = step[<<k, h[1 .. k - 1]>>]
    <3>1. 1 .. k \in SUBSET DOMAIN s /\ k \in Nat /\ k > 0 BY <1>2
    <3>2. Max(1 .. k) = k /\ (1 .. k) \ {k} = 1 .. k - 1 /\ 1 .. k # {} BY <3>1, MaxOfFirst
    <3>3. h[1 .. k] = h[1 .. k - 1] + s[k] BY <2>3, <3>1, <3>2
    <3> QED BY <1>3, <2>2, <3>3
  <2> QED BY <2>1, <2>2 DEF Follows
<1>8. PICK g \in [0 .. n -> T] : IsRun(g, n, zero, step, h[1 .. n])
  <2> HIDE DEF h
  <2> QED BY <1>2, <1>7, FoldRuns
<1>9. \A k \in 1 .. n : g[k] = g[k - 1] + s[k]
  <2>1. ASSUME NEW k \in 1 .. n PROVE g[k - 1] \in T BY <1>2
  <2> QED BY <1>3, <1>8, <2>1 DEF IsRun
<1>10. g[n] = Total(s) BY <1>1, <1>2, <1>8 DEF IsRun
<1>11. g[0] = 0 BY <1>8 DEF IsRun, zero
<1>12. IsSum(g, s) BY <1>9, <1>10, <1>11 DEF IsSum, n
<1> QED BY <1>12 DEF n, T

\* What is kept of the lines.
KeptStep(kept, line) == IF "colon" \in ToSet(line) THEN Append(kept, line) ELSE kept

\* g has what is kept of the beginnings of some lines
IsKept(g, s) ==
  g[0] = <<>> /\ g[Len(s)] = Kept(s) /\ \A k \in 1 .. Len(s) : g[k] = KeptStep(g[k - 1], s[k])

\* Kept takes one line after the other.
LEMMA KeptRun ==
  ASSUME NEW s \in Seq(Data)
  PROVE  \E g \in [0 .. Len(s) -> Seq(Data)] : IsKept(g, s)
<1> DEFINE n == Len(s)
           T == Seq(Data)
           none == <<>>
           step == [p \in (1 .. n) \X T |-> KeptStep(p[2], s[p[1]])]
           Fold(h) == [t \in SUBSET DOMAIN s |->
                         IF t = {} THEN none ELSE KeptStep(h[t \ {Max(t)}], s[Max(t)])]
           h == CHOOSE h : h = Fold(h)
<1>1. Kept(s) = h[DOMAIN s]
  BY DEF Kept, FoldLeft, MapThenFoldSet, KeptStep
<1>2. n \in Nat /\ DOMAIN s = 1 .. n /\ none \in T /\ step \in [(1 .. n) \X T -> T]
  <2>1. n \in Nat /\ DOMAIN s = 1 .. n /\ none \in T BY LenProperties, EmptySeq
  <2>2. \A i \in 1 .. n, x \in T : KeptStep(x, s[i]) \in T
    <3>1. \A i \in 1 .. n : s[i] \in Data BY ElementOfSeq
    <3>2. \A x \in T, y \in Data : Append(x, y) \in T BY AppendProperties
    <3> HIDE DEF n, T
    <3> QED BY <3>1, <3>2 DEF KeptStep
  <2> QED
    <3> HIDE DEF T, n
    <3> QED BY <2>1, <2>2
<1>3. \A i \in 1 .. n, x \in T : step[<<i, x>>] = KeptStep(x, s[i])
  <2> HIDE DEF T, n
  <2> QED OBVIOUS
<1> HIDE DEF n, T, none, step
<1>4. PICK h0 \in [SUBSET (1 .. n) -> T] : IsFold(h0, n, none, step)
  BY <1>2, FoldExists
<1>5. h0 = Fold(h0)
  <2>1. ASSUME NEW t \in SUBSET (1 .. n), t # {}
        PROVE  step[<<Max(t), h0[t \ {Max(t)}]>>] = KeptStep(h0[t \ {Max(t)}], s[Max(t)])
    BY <2>1, <1>2, <1>3, MaxIn
  <2>2. \A t \in SUBSET DOMAIN s : h0[t] = Fold(h0)[t] BY <1>2, <1>4, <2>1 DEF IsFold
  <2> QED BY <1>2, <2>2
<1>6. h = Fold(h)
  <2> HIDE DEF Fold
  <2> QED BY <1>5
<1>7. Follows(h, n, T, none, step)
  <2> HIDE DEF h
  <2>1. h[{}] = none BY <1>6
  <2>3. \A t \in SUBSET DOMAIN s :
          h[t] = IF t = {} THEN none ELSE KeptStep(h[t \ {Max(t)}], s[Max(t)])
    BY <1>6
  <2> HIDE DEF Fold
  <2>2. ASSUME NEW k \in 1 .. n, h[1 .. k - 1] \in T PROVE h[1 .. k] = step[<<k, h[1 .. k - 1]>>]
    <3>1. 1 .. k \in SUBSET DOMAIN s /\ k \in Nat /\ k > 0 BY <1>2
    <3>2. Max(1 .. k) = k /\ (1 .. k) \ {k} = 1 .. k - 1 /\ 1 .. k # {} BY <3>1, MaxOfFirst
    <3>3. h[1 .. k] = KeptStep(h[1 .. k - 1], s[k]) BY <2>3, <3>1, <3>2
    <3> QED BY <1>3, <2>2, <3>3
  <2> QED BY <2>1, <2>2 DEF Follows
<1>8. PICK g \in [0 .. n -> T] : IsRun(g, n, none, step, h[1 .. n])
  <2> HIDE DEF h
  <2> QED BY <1>2, <1>7, FoldRuns
<1>9. \A k \in 1 .. n : g[k] = KeptStep(g[k - 1], s[k])
  <2>1. ASSUME NEW k \in 1 .. n PROVE g[k - 1] \in T BY <1>2
  <2> QED BY <1>3, <1>8, <2>1 DEF IsRun
<1>10. g[n] = Kept(s) BY <1>1, <1>2, <1>8 DEF IsRun
<1>11. g[0] = <<>> BY <1>8 DEF IsRun, none
<1>12. IsKept(g, s) BY <1>9, <1>10, <1>11 DEF IsKept, n
<1> QED BY <1>12 DEF n, T

----------------------------------------------------------------------------
(* The head and the trailer: types.                                          *)

\* A connection with the header that has been read of it.
LEMMA WithHeaderIn ==
  ASSUME NEW c \in Conns, NEW read \in LineReads, NEW rrs \in Phases,
         rrs \in {"RRS_IDLE", "RRS_READ_HEAD"} => c.body = <<>>
  PROVE  LET new == WithHeader(c, read, rrs)
         IN /\ new \in Conns /\ new.rrs = rrs /\ new.header = read.hdr /\ new.buf = read.rest
            /\ new.body = c.body /\ new.bodyLen = c.bodyLen /\ new.bodyReadLen = c.bodyReadLen
            /\ new.isChunked = c.isChunked /\ new.chunkHdr = c.chunkHdr
            /\ new.handler = c.handler /\ new.mpdata = c.mpdata
<1> DEFINE new == WithHeader(c, read, rrs)
<1>1. c \in Conn /\ Counted(c) /\ read.hdr \in Header /\ read.rest \in Data BY DEF Conns, LineReads
<1>2. new = [c EXCEPT !.header = read.hdr, !.buf = read.rest, !.rrs = rrs] BY DEF WithHeader
<1> HIDE DEF new
<1>3. new \in Conn BY <1>1, <1>2 DEF Conn
<1>4. /\ new.rrs = rrs /\ new.header = read.hdr /\ new.buf = read.rest
      /\ new.body = c.body /\ new.bodyLen = c.bodyLen /\ new.bodyReadLen = c.bodyReadLen
      /\ new.isChunked = c.isChunked /\ new.chunkHdr = c.chunkHdr
      /\ new.handler = c.handler /\ new.mpdata = c.mpdata
  BY <1>1, <1>2 DEF Conn
<1>5. Counted(new) BY <1>1, <1>4 DEF Counted
<1> QED BY <1>3, <1>4, <1>5 DEF Conns, new

\* What is done with a header that is complete.
LEMMA FinishedHeaderIn ==
  ASSUME NEW c \in Conns, c.body = <<>>
  PROVE  onFinishedHeader(c) \in Conns
<1>1. c \in Conn /\ Counted(c) /\ c.header \in Header BY DEF Conns, Conn
<1> DEFINE isChunked == isChunkedTransferEncoding(c.header)
           val == getHeaderVal(c.header, "Content-Length")
           len == Number(val, 10)
<1>2. isChunked \in BOOLEAN BY DEF isChunkedTransferEncoding
<1>3. val \in Data BY <1>1, ValueIn
<1>4. len \in Nat
  <2>1. 10 \in {10, 16} OBVIOUS
  <2> HIDE DEF val
  <2> QED BY <1>3, <2>1, NumberIn
<1>5. onFinishedHeader(c) = StartBody(c, isChunked, len) BY DEF onFinishedHeader
<1> HIDE DEF isChunked, len
<1> QED BY <1>1, <1>2, <1>4, <1>5, StartBodyIn

\* The head, with what has been read of it before.
HeadSoFar(c) == IF c.rrs = "RRS_IDLE" THEN reqhdr_new ELSE c.header

\* What reading the head makes of a connection.
LEMMA ReadHeadIn ==
  ASSUME NEW c \in Conns
  PROVE  ReadHead(c) \in Conns
<1> DEFINE hdr == HeadSoFar(c)
           read == appendLines(hdr, c.buf)
           c1 == WithHeader(c, read, "RRS_READ_HEAD")
<1>1. CASE c.rrs \notin {"RRS_IDLE", "RRS_READ_HEAD"} BY <1>1 DEF ReadHead
<1>2. CASE c.rrs \in {"RRS_IDLE", "RRS_READ_HEAD"}
  <2>1. ReadHead(c) = IF read.finished THEN onFinishedHeader(c1) ELSE c1
    BY <1>2 DEF ReadHead, HeadSoFar
  <2>2. c.buf \in Data /\ hdr \in Header BY NewHeaders DEF Conns, Conn, HeadSoFar
  <2> HIDE DEF hdr
  <2>3. read \in LineReads BY <2>2, AppendLinesIn
  <2>4. c.body = <<>> BY <1>2 DEF Conns, Counted
  <2>5. "RRS_READ_HEAD" \in Phases BY DEF Phases
  <2> HIDE DEF read
  <2>6. c1 \in Conns /\ c1.body = <<>> BY <2>3, <2>4, <2>5, WithHeaderIn
  <2> HIDE DEF c1
  <2>7. onFinishedHeader(c1) \in Conns BY <2>6, FinishedHeaderIn
  <2> QED BY <2>1, <2>6, <2>7
<1> QED BY <1>1, <1>2

\* What reading the trailer makes of a connection.
LEMMA ReadTrailerIn ==
  ASSUME NEW c \in Conns
  PROVE  ReadTrailer(c) \in Conns
<1> DEFINE read == appendLines(c.header, c.buf)
           rrs == IF read.finished THEN "RRS_READ_FINISHED" ELSE c.rrs
<1>1. CASE c.rrs # "RRS_READ_TRAILER" \/ c.buf = <<>> BY <1>1 DEF ReadTrailer
<1>2. CASE ~(c.rrs # "RRS_READ_TRAILER" \/ c.buf = <<>>)
  <2>1. ReadTrailer(c) = WithHeader(c, read, rrs) BY <1>2 DEF ReadTrailer
  <2>2. c.buf \in Data /\ c.header \in Header BY DEF Conns, Conn
  <2>3. read \in LineReads BY <2>2, AppendLinesIn
  <2>4. rrs \in Phases /\ rrs \notin {"RRS_IDLE", "RRS_READ_HEAD"} BY <1>2 DEF Phases
  <2> HIDE DEF read, rrs
  <2> QED BY <2>1, <2>3, <2>4, WithHeaderIn
<1> QED BY <1>1, <1>2

\* Strings are bytes.
LEMMA TextIn ==
  /\ \A d \in Seq(STRING) : d \in Data
  /\ \A s \in Seq(Seq(STRING)) : s \in Seq(Data)
<1>1. STRING \subseteq Byte BY DEF Byte
<1>2. Seq(STRING) \subseteq Data BY <1>1, SeqMonotonic DEF Data
<1>3. Seq(Seq(STRING)) \subseteq Seq(Data) BY <1>2, SeqMonotonic
<1> QED BY <1>2, <1>3

\* Lines with their ends.
LEMMA LinesIn ==
  ASSUME NEW ls \in Seq(Data), NEW eol \in Eols
  PROVE  Lines(ls, eol) \in Data
<1> DEFINE s == [i \in DOMAIN ls |-> ls[i] \o eol]
<1>1. eol \in Data BY EolIs, NoneIn
<1>2. Len(ls) \in Nat /\ DOMAIN ls = 1 .. Len(ls) BY LenProperties
<1>3. \A i \in 1 .. Len(ls) : ls[i] \in Data BY ElementOfSeq
<1>4. s \in [1 .. Len(ls) -> Data] BY <1>1, <1>2, <1>3, JoinIn
<1> HIDE DEF s
<1>5. s \in Seq(Data) BY <1>2, <1>4, DataSeq
<1> QED BY <1>5, FlattenIn DEF Lines, s

----------------------------------------------------------------------------
(* What is before a chunk: two bytes and a line with its size.               *)

\* The line end around a chunk.
LEMMA CrlfIs == Crlf \in Data /\ Len(Crlf) = 2 /\ Crlf \in Eols /\ PreOf(Crlf) \in Data
<1>1. Crlf \in Eols /\ Len(Crlf) = 2 BY DEF Eols, Crlf
<1>2. Crlf \in Data /\ PreOf(Crlf) \in Data BY <1>1, EolIs, NoneIn
<1> QED BY <1>1, <1>2

\* Digits and the carriage return behind them.
LEMMA DigitsAndCr ==
  ASSUME NEW D, NEW v, HasValue(D, 16, v)
  PROVE  LET a == D \o PreOf(Crlf)
         IN /\ D \in Data /\ a \in Data /\ Without(a, "lf") /\ Number(a, 16) = v
            /\ \A x \in Data : D \o (Crlf \o x) = a \o (Lf \o x)
<1> DEFINE cr == PreOf(Crlf)
<1>1. cr \in Data /\ Without(cr, "lf") /\ cr = <<"cr">>
  <2>1. cr \in Data /\ Without(cr, "lf") BY CrlfIs, EolIs, NoneIn
  <2> QED BY <2>1 DEF PreOf
<1>2. D \in Data BY DEF HasValue
<1>3. Without(D, "lf")
  <2>1. DigitOf("lf") = 0 BY NoDigit
  <2>2. 0 \notin 1 .. 16 OBVIOUS
  <2> QED BY <2>1, <2>2 DEF HasValue, Without
<1>4. cr[1] = "cr"
  <2>1. "cr" \in Byte BY DEF Byte
  <2> QED BY <1>1, <2>1, OneIn
<1>5. DigitOf(cr[1]) = 0 BY <1>4, NoDigit
<1> HIDE DEF cr
<1>6. Number(D \o cr, 16) = v
  <2>1. 16 \in {10, 16} OBVIOUS
  <2> QED BY <1>1, <1>5, <2>1, NumberOf
<1>7. D \o cr \in Data /\ Without(D \o cr, "lf") BY <1>1, <1>2, <1>3, JoinIn, WithoutJoined
<1>8. ASSUME NEW x \in Data PROVE D \o (Crlf \o x) = (D \o cr) \o (Lf \o x)
  <2>1. Crlf \o x = cr \o (Lf \o x) /\ Lf \in Data BY CrlfIs, EolIs DEF cr
  <2>2. Lf \o x \in Data BY <2>1, JoinIn
  <2>3. (D \o cr) \o (Lf \o x) = D \o (cr \o (Lf \o x)) BY <1>1, <1>2, <2>2, Joins
  <2> QED BY <2>1, <2>3
<1> QED BY <1>2, <1>6, <1>7, <1>8 DEF cr

\* what is before a chunk has been read in part: two bytes of a line end, and then digits
AtChunk(chunkHdr, left, next) ==
  chunkHdr \o left = Crlf \o next /\ Without(From(chunkHdr, 3), "lf")

\* There is nothing behind a short sequence.
LEMMA ShortFrom ==
  ASSUME NEW d \in Data, NEW i \in Nat, i > 0, i > Len(d)
  PROVE  From(d, i) = <<>> /\ Without(From(d, i), "lf")
<1>1. Len(d) \in Nat BY LenOf
<1>2. From(d, i) \in Data /\ Len(From(d, i)) = 0 BY <1>1, FromIs DEF Data
<1>3. From(d, i) = <<>> BY <1>2, LenOf
<1>4. Without(From(d, i), "lf")
  <2>1. 1 .. 0 = {} OBVIOUS
  <2> QED BY <1>2, <2>1 DEF Without
<1> QED BY <1>3, <1>4

\* The two bytes before a chunk, and what is skipped of what has been read.
LEMMA SkippedIs ==
  ASSUME NEW c \in Conn, NEW e \in Data, NEW next \in Data, AtChunk(c.chunkHdr, c.buf \o e, next)
  PROVE  LET h == c.chunkHdr \o SubSeq(c.buf, 1, Skipped(c))
             line == From(c.buf, Skipped(c) + 1)
         IN /\ h \in Data /\ line \in Data /\ h \o (line \o e) = Crlf \o next
            /\ Without(From(h, 3), "lf")
            /\ line = <<>> \/ (From(h, 3) \in Data /\ Crlf \o From(h, 3) = h
                               /\ From(h, 3) \o (line \o e) = next)
<1> DEFINE n == Skipped(c)
           first == SubSeq(c.buf, 1, n)
           line == From(c.buf, n + 1)
           old == c.chunkHdr
           h == old \o first
<1>1. c.buf \in Data /\ old \in Data BY DEF Conn
<1>2. n \in 0 .. Len(c.buf) /\ n \in Nat BY SkippedIn
<1>3. Len(c.buf) \in Nat /\ Len(old) \in Nat BY <1>1, LenOf
<1>4. n = AtMost(2 - AtMost(2, Len(old)), Len(c.buf)) BY DEF Skipped
<1>5. /\ Len(old) >= 2 => n = 0
      /\ Len(old) < 2 => n = Len(c.buf) \/ n = 2 - Len(old)
      /\ Len(old) < 2 => n <= 2 - Len(old)
  <2> DEFINE p == Len(old)
             m == Len(c.buf)
  <2>1. p \in Nat /\ m \in Nat /\ n = AtMost(2 - AtMost(2, p), m) BY <1>3, <1>4
  <2> HIDE DEF p, m, n
  <2>2. AtMost(2, p) = IF 2 < p THEN 2 ELSE p BY DEF AtMost
  <2>3. CASE p >= 2
    <3>1. AtMost(2, p) = 2 BY <2>1, <2>2, <2>3
    <3>2. n = 0 BY <2>1, <3>1 DEF AtMost
    <3> QED BY <2>1, <2>3, <3>2 DEF p, m
  <2>4. CASE ~(p >= 2)
    <3>1. AtMost(2, p) = p BY <2>1, <2>2, <2>4
    <3>2. (n = m \/ n = 2 - p) /\ n <= 2 - p BY <2>1, <2>4, <3>1 DEF AtMost
    <3> QED BY <2>1, <2>4, <3>2 DEF p, m
  <2> QED BY <2>3, <2>4
<1> HIDE DEF n
<1>6. first \in Data /\ Len(first) = n BY <1>1, <1>2, FirstIs DEF Data
<1>7. line \in Data BY <1>1, <1>2, BehindIn
<1>8. first \o line = c.buf BY <1>1, <1>2, CutAt DEF Data
<1>9. n = 0 => first = <<>> BY <1>6, LenOf
<1>10. Len(line) = Len(c.buf) - n
  <2>1. Len(first \o line) = Len(first) + Len(line) BY <1>6, <1>7, LenOf
  <2>2. Len(line) \in Nat BY <1>7, LenOf
  <2>3. Len(c.buf) = Len(first) + Len(line) BY <1>8, <2>1
  <2> HIDE DEF first, line
  <2> QED BY <1>2, <1>3, <1>6, <2>2, <2>3
<1> HIDE DEF first, line, old
<1>11. h \in Data /\ Len(h) = Len(old) + n BY <1>1, <1>6, JoinIn, LenOf
<1>12. h \o (line \o e) = Crlf \o next
  <2>1. first \o (line \o e) = c.buf \o e
    <3>1. (first \o line) \o e = first \o (line \o e) BY <1>6, <1>7, Joins
    <3> QED BY <1>8, <3>1
  <2>2. line \o e \in Data BY <1>7, JoinIn
  <2> DEFINE y == line \o e
  <2>3. (old \o first) \o y = old \o (first \o y)
    <3>1. old \in Data /\ first \in Data /\ y \in Data BY <1>1, <1>6, <2>2
    <3> HIDE DEF y
    <3> QED BY <3>1, Joins, ZenonT(60)
  <2> QED BY <2>1, <2>3 DEF AtChunk, old
<1>13. Without(From(h, 3), "lf")
  <2>1. CASE Len(old) >= 2
    <3>1. h = old BY <1>1, <1>5, <1>9, <2>1, NoneIn
    <3> QED BY <3>1 DEF AtChunk, old
  <2>2. CASE Len(old) < 2
    <3>1. 3 > Len(h) /\ 3 \in Nat BY <1>2, <1>3, <1>5, <1>11, <2>2
    <3> HIDE DEF h
    <3> QED BY <1>11, <3>1, ShortFrom
  <2> QED BY <1>3, <2>1, <2>2
<1>14. ASSUME line # <<>>
       PROVE  From(h, 3) \in Data /\ Crlf \o From(h, 3) = h /\ From(h, 3) \o (line \o e) = next
  <2>1. Len(line) # 0 BY <1>7, <1>14, LenOf
  <2>2. Len(h) >= 2 BY <1>2, <1>3, <1>5, <1>10, <1>11, <2>1
  <2>3. line \o e \in Data /\ Crlf \in Data /\ Len(Crlf) = 2 BY <1>7, JoinIn, CrlfIs
  <2> DEFINE b == line \o e
             two == Crlf
  <2>4. /\ next \in Data /\ h \in Data /\ b \in Data /\ two \in Data /\ h \o b = two \o next
        /\ Len(two) <= Len(h) /\ Len(two) + 1 = 3
    BY <1>11, <1>12, <2>2, <2>3
  <2> HIDE DEF h, b, two
  <2>5. IsCut(h, two, b, next) BY <2>4, TwoCuts
  <2>6. Behind(two, h) = From(h, 3) BY <2>4 DEF Behind
  <2> QED BY <2>5, <2>6 DEF IsCut, b, two
<1> QED BY <1>7, <1>11, <1>12, <1>13, <1>14 DEF h, line, first, old, n

\* the same request, and as much of its body
SameBody(new, c) ==
  /\ new.header = c.header /\ new.body = c.body /\ new.bodyReadLen = c.bodyReadLen
  /\ new.isChunked = c.isChunked

\* a chunk of v bytes begins, or more of what is before it has been read
IsChunkRead(new, c, e, next, v, rest) ==
  \/ /\ new.chunkHdr = <<>> /\ new.buf \o e = rest /\ new.bodyLen = c.bodyLen + v
     /\ new.rrs = IF v = 0 THEN "RRS_READ_TRAILER" ELSE c.rrs
  \/ new.rrs = c.rrs /\ new.bodyLen = c.bodyLen /\ AtChunk(new.chunkHdr, new.buf \o e, next)

\* The size behind the two bytes.
LEMMA ChunkSizeIs ==
  ASSUME NEW h \in Data, NEW p \in Data, NEW v \in Nat, v < Wrap, From(h, 3) \in Data,
         Crlf \o From(h, 3) = h, Number(From(h, 3) \o p, 16) = v
  PROVE  Number(From(h \o p, 3), 16) % Wrap = v
<1> DEFINE h2 == From(h, 3)
           two == Crlf
           d == h2 \o p
<1>1. /\ h2 \in Data /\ two \in Data /\ two \o h2 = h /\ d \in Data /\ Len(two) = 2
      /\ Number(d, 16) = v
  BY CrlfIs, JoinIn
<1>2. h \o p = two \o d
  <2> HIDE DEF h2, two
  <2>1. two \in Data /\ h2 \in Data /\ p \in Data BY <1>1
  <2>2. (two \o h2) \o p = two \o (h2 \o p)
    <3>1. JoinsAs(two, h2, p) BY <2>1, Joined
    <3> QED BY <3>1 DEF JoinsAs
  <2> QED BY <1>1, <2>2
<1> HIDE DEF d, two, h2
<1>3. From(two \o d, Len(two) + 1) = d BY <1>1, JoinedCut DEF Data
<1>4. From(h \o p, 3) = d BY <1>1, <1>2, <1>3
<1>5. v % Wrap = v
  <2>1. Wrap \in Nat /\ Wrap > 0 BY WrapAssumption
  <2> QED BY <2>1
<1> QED BY <1>1, <1>4, <1>5

\* Reading what is before a chunk.
LEMMA ChunkHeaderReads ==
  ASSUME NEW c \in Conn, NEW e \in Data, NEW D, NEW v \in Nat, v < Wrap, HasValue(D, 16, v),
         NEW rest \in Data, AtChunk(c.chunkHdr, c.buf \o e, D \o (Crlf \o rest))
  PROVE  /\ SameBody(ReadChunkHeader(c), c)
         /\ IsChunkRead(ReadChunkHeader(c), c, e, D \o (Crlf \o rest), v, rest)
<1> DEFINE next == D \o (Crlf \o rest)
           h == c.chunkHdr \o SubSeq(c.buf, 1, Skipped(c))
           line == From(c.buf, Skipped(c) + 1)
           h2 == From(h, 3)
           at == IndexOf({"lf"}, line)
           new == ReadChunkHeader(c)
           cr == D \o PreOf(Crlf)
<1>1. D \in Data /\ cr \in Data /\ Without(cr, "lf") /\ Number(cr, 16) = v /\ next = cr \o (Lf \o rest)
  BY DigitsAndCr
<1>2. next \in Data
  <2>1. Crlf \o rest \in Data BY CrlfIs, JoinIn
  <2> QED BY <1>1, <2>1, JoinIn
<1>3. AtChunk(c.chunkHdr, c.buf \o e, next) OBVIOUS
<1>4. new = IF at = 0 THEN [c EXCEPT !.buf = <<>>, !.chunkHdr = h \o Before(line, at)]
            ELSE ChunkSize(c, line, h \o Before(line, at))
  BY DEF ReadChunkHeader
<1> HIDE DEF next, cr, new
<1>5. /\ h \in Data /\ line \in Data /\ h \o (line \o e) = Crlf \o next /\ Without(h2, "lf")
      /\ line = <<>> \/ (h2 \in Data /\ Crlf \o h2 = h /\ h2 \o (line \o e) = next)
  BY <1>2, <1>3, SkippedIs, ZenonT(60)
<1> HIDE DEF h, line, at, h2
<1>6. CASE at = 0
  <2> DEFINE chunkHdr == h \o line
  <2>1. new = [c EXCEPT !.buf = <<>>, !.chunkHdr = chunkHdr] BY <1>4, <1>6 DEF Before
  <2>2. chunkHdr \in Data BY <1>5, JoinIn
  <2>3. chunkHdr \o (<<>> \o e) = Crlf \o next
    <3>1. (h \o line) \o e = h \o (line \o e) BY <1>5, Joins
    <3>2. <<>> \o e = e BY NoneIn
    <3> QED BY <1>5, <3>1, <3>2
  <2>4. Without(From(chunkHdr, 3), "lf")
    <3>1. CASE line = <<>>
      <4>1. chunkHdr = h BY <1>5, <3>1, NoneIn
      <4> QED BY <1>5, <4>1 DEF h2
    <3>2. CASE line # <<>>
      <4>1. Without(line, "lf") BY <1>5, <1>6, IndexOfIs DEF at, Without, Data
      <4>2. Without(h2 \o line, "lf") /\ h2 \o line \in Data
        BY <1>5, <3>2, <4>1, WithoutJoined, JoinIn
      <4> DEFINE two == Crlf
                 d == h2 \o line
      <4>3. two \in Data /\ Len(two) = 2 /\ d \in Data BY <4>2, CrlfIs
      <4>4. chunkHdr = two \o d
        <5>1. (two \o h2) \o line = two \o (h2 \o line)
          <6>1. two \in Data /\ h2 \in Data /\ line \in Data BY <1>5, <3>2, <4>3
          <6> QED BY <6>1, Joins, ZenonT(60)
        <5> QED BY <1>5, <3>2, <5>1
      <4>5. Without(d, "lf") BY <4>2
      <4> HIDE DEF two, d, chunkHdr
      <4>6. From(two \o d, Len(two) + 1) = d BY <4>3, JoinedCut DEF Data
      <4>7. From(chunkHdr, 3) = d BY <4>3, <4>4, <4>6
      <4> QED BY <4>5, <4>7
    <3> QED BY <3>1, <3>2
  <2> HIDE DEF chunkHdr
  <2>5. /\ new.buf = <<>> /\ new.chunkHdr = chunkHdr /\ new.rrs = c.rrs /\ new.bodyLen = c.bodyLen
        /\ SameBody(new, c)
    BY <2>1 DEF Conn, SameBody
  <2>6. AtChunk(new.chunkHdr, new.buf \o e, next) BY <2>3, <2>4, <2>5 DEF AtChunk
  <2>7. IsChunkRead(new, c, e, next, v, rest) BY <2>5, <2>6 DEF IsChunkRead
  <2> QED BY <2>5, <2>7 DEF new, next
<1>7. CASE at # 0
  <2> DEFINE p == Before(line, at)
             q == From(line, at + 1)
             chunkHdr == h \o p
             size == Number(From(chunkHdr, 3), 16) % Wrap
  <2>1. new = [c EXCEPT !.buf = q, !.chunkHdr = <<>>, !.bodyLen = @ + size,
                        !.rrs = IF size = 0 THEN "RRS_READ_TRAILER" ELSE @]
    BY <1>4, <1>7 DEF ChunkSize, at
  <2>2. p \in Data /\ Without(p, "lf") /\ q \in Data /\ line = p \o (Lf \o q)
    BY <1>5, <1>7, LineCut DEF at
  <2>3. line # <<>>
    <3>1. at \in 0 .. Len(line) BY <1>5, IndexOfIs DEF at, Data
    <3>2. line = <<>> => Len(line) = 0 BY <1>5, LenOf
    <3> QED BY <1>7, <3>1, <3>2
  <2> HIDE DEF p, q
  <2>4. h2 \in Data /\ Crlf \o h2 = h /\ h2 \o (line \o e) = next BY <1>5, <2>3
  <2>5. (h2 \o p) \o (Lf \o (q \o e)) = next
    <3>1. Lf \in Data
      <4>1. "lf" \in Byte BY DEF Byte
      <4>2. \A x \in Byte : <<x>> \in Data BY OneIn
      <4> QED BY <4>1, <4>2 DEF Lf
    <3>2. Lf \o q \in Data /\ q \o e \in Data BY <2>2, <3>1, JoinIn
    <3>3. Lf \o (q \o e) \in Data BY <3>1, <3>2, JoinIn
    <3>4. line \o e = p \o ((Lf \o q) \o e)
      <4> DEFINE y == Lf \o q
      <4>1. p \in Data /\ y \in Data /\ e \in Data BY <2>2, <3>2
      <4> HIDE DEF y
      <4>2. (p \o y) \o e = p \o (y \o e) BY <4>1, Joins
      <4> QED BY <2>2, <4>2 DEF y
    <3>5. (Lf \o q) \o e = Lf \o (q \o e) BY <2>2, <3>1, Joins
    <3>6. (h2 \o p) \o (Lf \o (q \o e)) = h2 \o (p \o (Lf \o (q \o e)))
      BY <2>2, <2>4, <3>3, Joins
    <3> QED BY <2>4, <3>4, <3>5, <3>6
  <2>6. h2 \o p = cr /\ q \o e = rest
    <3> DEFINE a == h2 \o p
               b == q \o e
    <3>1. a \in Data /\ b \in Data /\ Without(a, "lf") /\ a \o (Lf \o b) = cr \o (Lf \o rest)
      BY <1>1, <1>5, <2>2, <2>4, <2>5, JoinIn, WithoutJoined
    <3> HIDE DEF a, b
    <3>2. a = cr /\ b = rest BY <1>1, <3>1, OneLineCut
    <3> QED BY <3>2 DEF a, b
  <2>7. size = v
    <3>1. From(h, 3) \in Data /\ Crlf \o From(h, 3) = h /\ Number(From(h, 3) \o p, 16) = v
      BY <1>1, <2>4, <2>6 DEF h2
    <3> QED BY <1>5, <2>2, <3>1, ChunkSizeIs
  <2> HIDE DEF size
  <2>8. c.bodyLen \in Nat BY DEF Conn
  <2>9. /\ new.buf = q /\ new.chunkHdr = <<>> /\ SameBody(new, c)
        /\ new.bodyLen = c.bodyLen + v
        /\ new.rrs = IF v = 0 THEN "RRS_READ_TRAILER" ELSE c.rrs
    BY <2>1, <2>7 DEF Conn, SameBody
  <2>10. IsChunkRead(new, c, e, next, v, rest) BY <2>6, <2>9 DEF IsChunkRead
  <2> QED BY <2>9, <2>10 DEF new, next
<1> QED BY <1>6, <1>7

----------------------------------------------------------------------------
(* The body in pieces, with chunks and at once.  IsChunking says of the chunks *)
(* of a body what is left before each and in each; TakesChunks and TakesAll say *)
(* where in it a connection is.                                              *)

\* what a chunk is behind: S[k] bytes of the body are in the first k of the n chunks, and
\* C[k] is what is sent behind them and a line end
IsChunking(n, S, C, body, last) ==
  /\ n \in Nat /\ body \in Data /\ last \in Data
  /\ S \in [0 .. n -> 0 .. Len(body)] /\ C \in [0 .. n -> Data]
  /\ S[0] = 0 /\ S[n] = Len(body) /\ C[n] = Digits(0, 16) \o (Crlf \o last)
  /\ \A k \in 1 .. n : /\ S[k] - S[k - 1] \in 1 .. Wrap - 1
                       /\ C[k - 1] = Digits(S[k] - S[k - 1], 16)
                            \o (Crlf \o (SubSeq(body, S[k - 1] + 1, S[k]) \o (Crlf \o C[k])))

\* the body is read up to the end of the chunk k
InChunk(c, left, k, S, C, body) ==
  /\ c.bodyLen = S[k] /\ c.body \o (c.chunkHdr \o left) = SubSeq(body, 1, S[k]) \o (Crlf \o C[k])
  /\ Without(From(c.chunkHdr, 3), "lf") /\ (c.bodyReadLen < c.bodyLen => c.chunkHdr = <<>>)

TakesChunks(c, left, n, S, C, body, last) ==
  /\ c.isChunked
  /\ \/ c.rrs = "RRS_READ_BODY" /\ \E k \in 0 .. n : InChunk(c, left, k, S, C, body)
     \/ c.rrs = "RRS_READ_TRAILER" /\ c.body = body /\ left = last

\* the body is read at once
TakesAll(c, left, body, after) ==
  /\ ~c.isChunked /\ c.bodyLen = Len(body) /\ c.body \o left = body \o after
  /\ \/ c.rrs = "RRS_READ_BODY" /\ c.bodyReadLen < c.bodyLen
     \/ c.rrs = "RRS_READ_FINISHED" /\ c.bodyReadLen = c.bodyLen

\* A round of the loop over pieces takes some of what there is.
LEMMA PieceIs ==
  ASSUME NEW s \in Pieces, s.c.rrs = "RRS_READ_BODY", s.c.buf # <<>>
  PROVE  \E p \in 0 .. Len(s.c.buf) : /\ s.c.bodyReadLen + p <= s.c.bodyLen
                                      /\ NextPiece(s).c = BehindPiece(TakeBody(s.c, p))
<1> DEFINE c == s.c
           room == s.room
           add == AtMost(Len(c.buf), c.bodyLen - c.bodyReadLen)
           p == IF c.handler = "CGI" THEN AtMost(add, room) ELSE add
           taken == TakeBody(c, p)
           c1 == IF p < add THEN taken ELSE BehindPiece(taken)
<1>1. c \in Conn /\ Counted(c) /\ room \in Nat BY DEF Pieces, Conns
<1>2. Len(c.buf) \in Nat /\ c.bodyLen \in Nat /\ c.bodyReadLen \in Nat /\ c.bodyReadLen <= c.bodyLen
  BY <1>1, LenOf DEF Conn, Counted
<1>3. add \in 0 .. Len(c.buf) /\ add <= c.bodyLen - c.bodyReadLen BY <1>2 DEF AtMost
<1>4. p \in 0 .. add
  <2> HIDE DEF add, c, room
  <2>1. add \in Nat BY <1>2, <1>3
  <2> QED BY <1>1, <2>1 DEF AtMost
<1>5. NextPiece(s).c = c1 BY DEF NextPiece
<1> HIDE DEF add, p, c
<1>6. p \in 0 .. Len(c.buf) /\ c.bodyReadLen + p <= c.bodyLen BY <1>2, <1>3, <1>4
<1>7. taken.bodyReadLen = c.bodyReadLen + p /\ taken.bodyLen = c.bodyLen BY <1>1, <1>6, TakeBodyIs
<1>8. c1 = BehindPiece(taken)
  <2>1. CASE p < add
    <3>1. taken.bodyReadLen < taken.bodyLen BY <1>2, <1>3, <1>4, <1>7, <2>1
    <3> QED BY <2>1, <3>1 DEF BehindPiece
  <2> QED BY <2>1
<1> QED BY <1>5, <1>6, <1>8 DEF c

\* A body that is sent at once.
LEMMA AllStep ==
  ASSUME NEW s \in Pieces, NEW e \in Data, NEW body \in Data, NEW after \in Data,
         TakesAll(s.c, s.c.buf \o e, body, after)
  PROVE  TakesAll(NextPiece(s).c, NextPiece(s).c.buf \o e, body, after)
           /\ NextPiece(s).c.header = s.c.header
<1> DEFINE c == s.c
           new == NextPiece(s).c
<1>1. c \in Conn /\ Counted(c) /\ c.buf \in Data /\ c.body \in Data BY DEF Pieces, Conns, Conn
<1>2. CASE c.rrs # "RRS_READ_BODY" \/ c.buf = <<>>
  <2>1. new = c BY <1>2 DEF NextPiece
  <2> QED BY <2>1
<1>3. CASE ~(c.rrs # "RRS_READ_BODY" \/ c.buf = <<>>)
  <2>1. PICK p \in 0 .. Len(c.buf) : /\ c.bodyReadLen + p <= c.bodyLen
                                     /\ new = BehindPiece(TakeBody(c, p))
    BY <1>3, PieceIs
  <2> DEFINE t == TakeBody(c, p)
  <2>2. /\ t \in Conn /\ t.rrs = c.rrs /\ t.header = c.header /\ t.bodyLen = c.bodyLen
        /\ t.isChunked = c.isChunked /\ t.bodyReadLen = c.bodyReadLen + p
        /\ c.body \o c.buf = t.body \o t.buf
    BY <1>1, TakeBodyIs
  <2>3. t.body \in Data /\ t.buf \in Data BY <2>2 DEF Conn
  <2> HIDE DEF t
  <2>4. t.body \o (t.buf \o e) = body \o after
    <3> DEFINE b == c.body
               f == c.buf
               b2 == t.body
               f2 == t.buf
    <3>1. b \in Data /\ f \in Data /\ b2 \in Data /\ f2 \in Data BY <1>1, <2>3
    <3>2. b \o f = b2 \o f2 BY <2>2
    <3>3. b \o (f \o e) = body \o after BY <1>3 DEF TakesAll
    <3> HIDE DEF b, f, b2, f2
    <3> HIDE DEF c
    <3>4. (b \o f) \o e = b \o (f \o e)
      <4>1. b \in Data /\ f \in Data /\ e \in Data BY <3>1
      <4> QED BY <4>1, Joins, ZenonT(60)
    <3>5. (b2 \o f2) \o e = b2 \o (f2 \o e)
      <4>1. b2 \in Data /\ f2 \in Data /\ e \in Data BY <3>1
      <4> QED BY <4>1, Joins, ZenonT(60)
    <3>6. b2 \o (f2 \o e) = body \o after BY <3>2, <3>3, <3>4, <3>5
    <3> QED BY <3>6 DEF b2, f2
  <2>5. new = IF t.bodyReadLen < t.bodyLen THEN t ELSE [t EXCEPT !.rrs = "RRS_READ_FINISHED"]
    BY <2>1, <2>2 DEF BehindPiece, TakesAll, t
  <2>6. c.bodyLen \in Nat /\ c.bodyReadLen \in Nat /\ p \in Nat BY <1>1 DEF Conn
  <2>7. CASE t.bodyReadLen < t.bodyLen
    <3>1. new = t BY <2>5, <2>7
    <3> QED BY <1>3, <2>2, <2>4, <2>7, <3>1 DEF TakesAll
  <2>8. CASE ~(t.bodyReadLen < t.bodyLen)
    <3>1. new = [t EXCEPT !.rrs = "RRS_READ_FINISHED"] BY <2>5, <2>8
    <3> HIDE DEF new
    <3>2. /\ new.rrs = "RRS_READ_FINISHED" /\ new.header = t.header /\ new.bodyLen = t.bodyLen
          /\ new.isChunked = t.isChunked /\ new.bodyReadLen = t.bodyReadLen
          /\ new.body = t.body /\ new.buf = t.buf
      BY <2>2, <3>1 DEF Conn
    <3>3. new.bodyReadLen = new.bodyLen BY <2>1, <2>2, <2>6, <2>8, <3>2
    <3>4. new.body \o (new.buf \o e) = body \o after BY <2>4, <3>2
    <3>5. TakesAll(new, new.buf \o e, body, after) BY <2>2, <3>2, <3>3, <3>4 DEF TakesAll
    <3> QED BY <2>2, <3>2, <3>5 DEF new
  <2> QED BY <2>7, <2>8
<1> QED BY <1>2, <1>3

\* What is sent behind a chunk: the digits of a size, and what is behind them.
NextChunk(k, v, rest, n, S, C, body, last) ==
  /\ v \in Nat /\ v < Wrap /\ rest \in Data /\ C[k] = Digits(v, 16) \o (Crlf \o rest)
  /\ \/ k = n /\ v = 0 /\ rest = last
     \/ /\ k + 1 \in 1 .. n /\ v > 0 /\ S[k + 1] = S[k] + v
        /\ rest = SubSeq(body, S[k] + 1, S[k + 1]) \o (Crlf \o C[k + 1])

\* Behind every chunk there is a size: that of the next chunk, or the 0 behind the last one.
LEMMA NextChunkExists ==
  ASSUME NEW n, NEW S, NEW C, NEW body, NEW last, IsChunking(n, S, C, body, last), NEW k \in 0 .. n
  PROVE  \E v, rest : NextChunk(k, v, rest, n, S, C, body, last)
<1>1. n \in Nat /\ Wrap \in Nat /\ Wrap > 0
  <2>1. n \in Nat BY DEF IsChunking
  <2>2. Wrap \in Nat /\ Wrap > 0 BY WrapAssumption
  <2> QED BY <2>1, <2>2
<1>2. CASE k = n
  <2>1. NextChunk(k, 0, last, n, S, C, body, last) BY <1>1, <1>2 DEF NextChunk, IsChunking
  <2> QED BY <2>1
<1>3. CASE k # n
  <2> DEFINE i == k + 1
             v == S[i] - S[k]
             part == SubSeq(body, S[k] + 1, S[i])
             rest == part \o (Crlf \o C[i])
  <2>1. i \in 1 .. n /\ i \in 0 .. n /\ i - 1 = k BY <1>1, <1>3
  <2>2. S[i - 1] \in 0 .. Len(body) /\ S[i] \in 0 .. Len(body) /\ C[i] \in Data /\ Len(body) \in Nat
    <3>1. S[k] \in 0 .. Len(body) /\ S[i] \in 0 .. Len(body) /\ C[i] \in Data BY <2>1 DEF IsChunking
    <3>2. Len(body) \in Nat BY LenOf DEF IsChunking
    <3> QED BY <2>1, <3>1, <3>2
  <2>3. S[i] - S[i - 1] \in 1 .. Wrap - 1
        /\ C[i - 1] = Digits(S[i] - S[i - 1], 16)
             \o (Crlf \o (SubSeq(body, S[i - 1] + 1, S[i]) \o (Crlf \o C[i])))
    BY <2>1 DEF IsChunking
  <2>4. v \in Nat /\ v < Wrap /\ v > 0 /\ S[i] = S[k] + v
    <3> DEFINE x == S[i]
               y == S[k]
    <3>1. x \in Nat /\ y \in Nat /\ x - y \in 1 .. Wrap - 1
      <4>1. x - y \in 1 .. Wrap - 1
        <5>1. S[i - 1] = y BY <2>1
        <5> QED BY <2>3, <5>1
      <4>2. x \in 0 .. Len(body) /\ y \in 0 .. Len(body)
        <5>1. S[i - 1] = y BY <2>1
        <5> QED BY <2>2, <5>1
      <4> HIDE DEF x, y
      <4> QED BY <4>1, <4>2
    <3> HIDE DEF x, y
    <3>2. x - y \in Nat /\ x - y < Wrap /\ x - y > 0 /\ x = y + (x - y) BY <1>1, <3>1
    <3> QED BY <3>2 DEF x, y
  <2>5. part \in Data
    <3> DEFINE a == S[k] + 1
               b == S[i]
    <3>1. a \in Nat /\ a > 0 /\ b \in Nat /\ b <= Len(body) BY <2>1, <2>2
    <3>2. \A j \in 1 .. Len(body) : body[j] \in Byte BY ElementOfSeq DEF IsChunking, Data
    <3> HIDE DEF a, b
    <3>3. \A j \in a .. b : j \in 1 .. Len(body) BY <2>2, <3>1
    <3>4. \A j \in a .. b : body[j] \in Byte BY <3>2, <3>3
    <3>5. a \in Int /\ b \in Int BY <3>1
    <3>6. SubSeq(body, a, b) \in Data BY <3>4, <3>5, SubSeqProperties DEF Data
    <3> QED BY <3>6 DEF a, b
  <2>6. rest \in Data
    <3> HIDE DEF part, i
    <3>1. Crlf \o C[i] \in Data BY <2>2, CrlfIs, JoinIn
    <3> QED BY <2>5, <3>1, JoinIn
  <2>7. C[k] = Digits(v, 16) \o (Crlf \o rest) BY <2>1, <2>3
  <2>8. NextChunk(k, v, rest, n, S, C, body, last)
    <3>1. rest = part \o (Crlf \o C[i]) OBVIOUS
    <3> HIDE DEF v, rest
    <3> QED BY <2>1, <2>4, <2>6, <2>7, <3>1 DEF NextChunk
  <2> QED BY <2>8
<1> QED BY <1>2, <1>3

\* Behind the end of a chunk.
LEMMA ChunkEnds ==
  ASSUME NEW t \in Conns, NEW e \in Data, NEW n, NEW S, NEW C, NEW body, NEW last,
         IsChunking(n, S, C, body, last), NEW k \in 0 .. n, InChunk(t, t.buf \o e, k, S, C, body),
         t.isChunked, t.rrs = "RRS_READ_BODY", t.bodyReadLen = t.bodyLen
  PROVE  LET new == ReadChunkHeader(t)
         IN TakesChunks(new, new.buf \o e, n, S, C, body, last) /\ new.header = t.header
<1> DEFINE new == ReadChunkHeader(t)
           first == SubSeq(body, 1, S[k])
           left == t.buf \o e
           next == C[k]
<1>1. t \in Conn /\ t.body \in Data /\ t.buf \in Data /\ t.chunkHdr \in Data /\ t.bodyReadLen = Len(t.body)
  BY DEF Conns, Conn, Counted
<1>2. body \in Data /\ next \in Data /\ S[k] \in 0 .. Len(body) /\ n \in Nat BY DEF IsChunking
<1>3. first \in Data /\ Len(first) = S[k]
  <2> DEFINE i == S[k]
  <2>1. i \in 0 .. Len(body) BY <1>2
  <2> HIDE DEF i
  <2>2. SubSeq(body, 1, i) \in Data /\ Len(SubSeq(body, 1, i)) = i BY <1>2, <2>1, FirstIs DEF Data
  <2> QED BY <2>2 DEF i
<1>4. Len(t.body) = S[k] BY <1>1 DEF InChunk
<1>5. t.body = first /\ t.chunkHdr \o left = Crlf \o next
  <2> DEFINE b == t.chunkHdr \o left
             q == Crlf \o next
  <2>1. b \in Data /\ q \in Data BY <1>1, <1>2, CrlfIs, JoinIn
  <2>2. t.body \o b = first \o q BY DEF InChunk
  <2> HIDE DEF b, q, first
  <2>3. t.body = first /\ b = q BY <1>1, <1>3, <1>4, <2>1, <2>2, SameCut
  <2> QED BY <2>3 DEF b, q
<1>6. AtChunk(t.chunkHdr, t.buf \o e, next) BY <1>5 DEF AtChunk, InChunk
<1>7. PICK v, rest : NextChunk(k, v, rest, n, S, C, body, last) BY NextChunkExists
<1> DEFINE D == Digits(v, 16)
<1>8. v \in Nat /\ v < Wrap /\ rest \in Data /\ next = D \o (Crlf \o rest) BY <1>7 DEF NextChunk
<1>9. HasValue(D, 16, v)
  <2>1. 16 \in {10, 16} OBVIOUS
  <2> QED BY <1>8, <2>1, DigitsValue
<1> HIDE DEF D, next
<1>10. SameBody(new, t) /\ IsChunkRead(new, t, e, next, v, rest)
  <2>1. AtChunk(t.chunkHdr, t.buf \o e, D \o (Crlf \o rest)) BY <1>6, <1>8
  <2>2. SameBody(new, t) /\ IsChunkRead(new, t, e, D \o (Crlf \o rest), v, rest)
    BY <1>1, <1>8, <1>9, <2>1, ChunkHeaderReads
  <2> QED BY <1>8, <2>2
<1> HIDE DEF new, first
<1>11. /\ new.header = t.header /\ new.body = first /\ new.isChunked
       /\ new.bodyReadLen = S[k]
  BY <1>1, <1>4, <1>5, <1>10 DEF SameBody
<1>12. CASE new.rrs = t.rrs /\ new.bodyLen = t.bodyLen /\ AtChunk(new.chunkHdr, new.buf \o e, next)
  <2>1. new.bodyLen = S[k] BY <1>12 DEF InChunk
  <2>2. new.body \o (new.chunkHdr \o (new.buf \o e)) = first \o (Crlf \o next)
    BY <1>11, <1>12 DEF AtChunk
  <2>3. ~(new.bodyReadLen < new.bodyLen) BY <1>2, <1>11, <2>1
  <2>4. InChunk(new, new.buf \o e, k, S, C, body)
    BY <1>12, <2>1, <2>2, <2>3 DEF InChunk, AtChunk, first, next
  <2> QED BY <1>11, <1>12, <2>4 DEF TakesChunks, new
<1>13. CASE /\ new.chunkHdr = <<>> /\ new.buf \o e = rest /\ new.bodyLen = t.bodyLen + v
            /\ new.rrs = IF v = 0 THEN "RRS_READ_TRAILER" ELSE t.rrs
  <2>1. CASE k = n /\ v = 0 /\ rest = last
    <3>1. first = body
      <4>1. S[k] = Len(body) BY <2>1 DEF IsChunking
      <4>2. SubSeq(body, 1, Len(body)) = body BY <1>2, SubSeqFull DEF Data
      <4> QED BY <4>1, <4>2 DEF first
    <3>2. new.rrs = "RRS_READ_TRAILER" /\ new.buf \o e = last BY <1>13, <2>1
    <3> QED BY <1>11, <3>1, <3>2 DEF TakesChunks, new
  <2>2. CASE /\ k + 1 \in 1 .. n /\ v > 0 /\ S[k + 1] = S[k] + v
             /\ rest = SubSeq(body, S[k] + 1, S[k + 1]) \o (Crlf \o C[k + 1])
    <3> DEFINE i == k + 1
               part == SubSeq(body, S[k] + 1, S[i])
               next1 == Crlf \o C[i]
    <3>1. i \in 0 .. n /\ i \in 1 .. n BY <1>2, <2>2
    <3>2. new.rrs = "RRS_READ_BODY"
      <4>1. v \in Nat BY <1>8
      <4>2. v > 0 BY <2>2
      <4>3. v # 0 BY <4>1, <4>2
      <4> QED BY <1>13, <4>3
    <3>3. new.bodyLen = S[i] BY <1>13, <2>2 DEF InChunk
    <3>4. first \o part = SubSeq(body, 1, S[i]) /\ part \in Data
      <4> DEFINE x == S[k]
                 y == S[i]
                 m == Len(body)
      <4>1. x \in 0 .. m /\ y \in 0 .. m /\ m \in Nat /\ y = x + v
        BY <1>2, <2>2, <3>1, LenOf DEF IsChunking
      <4> HIDE DEF x, y, m
      <4>2. 1 \in 1 .. m + 1 /\ x \in 1 - 1 .. m /\ y \in x .. m BY <1>8, <4>1
      <4>3. SubSeq(body, 1, x) \o SubSeq(body, x + 1, y) = SubSeq(body, 1, y)
        BY <1>2, <4>2, ConcatAdjacentSubSeq DEF m, Data
      <4>4. SubSeq(body, x + 1, y) \in Data
        <5>1. \A j \in 1 .. m : body[j] \in Byte BY <1>2, ElementOfSeq DEF m, Data
        <5>2. \A j \in x + 1 .. y : j \in 1 .. m BY <4>1
        <5>3. \A j \in x + 1 .. y : body[j] \in Byte BY <5>1, <5>2
        <5>4. x + 1 \in Int /\ y \in Int BY <4>1
        <5> QED BY <5>3, <5>4, SubSeqProperties DEF Data
      <4> QED BY <4>3, <4>4 DEF x, y, first
    <3>5. next1 \in Data
      <4>1. C[i] \in Data BY <3>1 DEF IsChunking
      <4> QED BY <4>1, CrlfIs, JoinIn
    <3>6. new.buf \o e = part \o next1 BY <1>13, <2>2
    <3> HIDE DEF part, next1, i
    <3>7. first \o (part \o next1) = SubSeq(body, 1, S[i]) \o next1
      <4>1. (first \o part) \o next1 = first \o (part \o next1) BY <1>3, <3>4, <3>5, Joins
      <4> QED BY <3>4, <4>1
    <3>8. <<>> \o (part \o next1) = part \o next1 BY <3>4, <3>5, JoinIn, NoneIn
    <3>9. new.body \o (new.chunkHdr \o (new.buf \o e)) = SubSeq(body, 1, S[i]) \o next1
      BY <1>11, <1>13, <3>6, <3>7, <3>8
    <3>10. Without(From(new.chunkHdr, 3), "lf")
      <4>1. <<>> \in Data /\ 3 \in Nat /\ 3 > 0 /\ 3 > Len(<<>>) BY NoneIn, EmptySeq
      <4> DEFINE none == <<>>
      <4>2. none \in Data /\ 3 \in Nat /\ 3 > 0 /\ 3 > Len(none) BY <4>1
      <4> HIDE DEF none
      <4>3. Without(From(none, 3), "lf") BY <4>2, ShortFrom
      <4> QED BY <1>13, <4>3 DEF none
    <3>11. InChunk(new, new.buf \o e, i, S, C, body)
      BY <1>13, <3>3, <3>9, <3>10 DEF InChunk, next1
    <3> QED BY <1>11, <3>1, <3>2, <3>11 DEF TakesChunks, new
  <2> QED BY <1>7, <2>1, <2>2 DEF NextChunk
<1> QED BY <1>10, <1>12, <1>13 DEF IsChunkRead

\* Taking some of a chunk.
LEMMA ChunkTaken ==
  ASSUME NEW c \in Conns, NEW e \in Data, NEW S, NEW C, NEW body, NEW k,
         InChunk(c, c.buf \o e, k, S, C, body), NEW p \in 0 .. Len(c.buf), c.bodyReadLen + p <= c.bodyLen
  PROVE  LET t == TakeBody(c, p)
         IN /\ t \in Conn /\ t.rrs = c.rrs /\ t.header = c.header /\ t.isChunked = c.isChunked
            /\ t.bodyReadLen = Len(t.body) /\ t.bodyReadLen <= t.bodyLen
            /\ InChunk(t, t.buf \o e, k, S, C, body)
<1> DEFINE t == TakeBody(c, p)
<1>1. c \in Conn /\ Counted(c) /\ c.buf \in Data /\ c.body \in Data /\ c.chunkHdr \in Data
  BY DEF Conns, Conn
<1>2. /\ c.bodyLen \in Nat /\ c.bodyReadLen \in Nat /\ c.bodyReadLen = Len(c.body)
      /\ c.bodyReadLen <= c.bodyLen /\ Len(c.buf) \in Nat
  BY <1>1, LenOf DEF Conn, Counted
<1>3. /\ t \in Conn /\ t.rrs = c.rrs /\ t.header = c.header /\ t.bodyLen = c.bodyLen
      /\ t.chunkHdr = c.chunkHdr /\ t.isChunked = c.isChunked
      /\ t.body = c.body \o SubSeq(c.buf, 1, p) /\ t.buf = From(c.buf, p + 1)
      /\ t.bodyReadLen = c.bodyReadLen + p /\ Len(t.body) = Len(c.body) + p
      /\ c.body \o c.buf = t.body \o t.buf
  BY <1>1, TakeBodyIs
<1> HIDE DEF t
<1>4. t.body \in Data /\ t.buf \in Data BY <1>3 DEF Conn
<1>5. t.bodyReadLen = Len(t.body) /\ t.bodyReadLen <= t.bodyLen BY <1>2, <1>3
<1>6. t.body \o (t.chunkHdr \o (t.buf \o e)) = c.body \o (c.chunkHdr \o (c.buf \o e))
  <2>1. CASE c.bodyReadLen < c.bodyLen
    <3>1. c.chunkHdr = <<>> BY <2>1 DEF InChunk
    <3>2. c.buf \o e \in Data /\ t.buf \o e \in Data BY <1>1, <1>4, JoinIn
    <3>3. <<>> \o (c.buf \o e) = c.buf \o e /\ <<>> \o (t.buf \o e) = t.buf \o e BY <3>2, NoneIn
    <3>4. (c.body \o c.buf) \o e = c.body \o (c.buf \o e) BY <1>1, Joins
    <3>5. (t.body \o t.buf) \o e = t.body \o (t.buf \o e) BY <1>4, Joins
    <3> QED BY <1>3, <3>1, <3>3, <3>4, <3>5
  <2>2. CASE ~(c.bodyReadLen < c.bodyLen)
    <3>1. p = 0 BY <1>2, <2>2
    <3>2. t.body = c.body \o <<>> /\ t.buf = c.buf BY <1>1, <1>3, <3>1, TakeNone
    <3>3. t.body = c.body BY <1>1, <3>2, NoneIn
    <3> QED BY <1>3, <3>2, <3>3
  <2> QED BY <2>1, <2>2
<1>7. t.bodyReadLen < t.bodyLen => t.chunkHdr = <<>>
  <2>1. t.bodyReadLen < t.bodyLen => c.bodyReadLen < c.bodyLen BY <1>2, <1>3
  <2> QED BY <1>3, <2>1 DEF InChunk
<1>8. InChunk(t, t.buf \o e, k, S, C, body) BY <1>3, <1>6, <1>7 DEF InChunk
<1> QED BY <1>3, <1>5, <1>8 DEF t

\* A round of the loop over pieces, in chunks.
LEMMA ChunksStep ==
  ASSUME NEW s \in Pieces, NEW e \in Data, NEW n, NEW S, NEW C, NEW body, NEW last,
         IsChunking(n, S, C, body, last), TakesChunks(s.c, s.c.buf \o e, n, S, C, body, last)
  PROVE  TakesChunks(NextPiece(s).c, NextPiece(s).c.buf \o e, n, S, C, body, last)
           /\ NextPiece(s).c.header = s.c.header
<1> DEFINE c == s.c
           new == NextPiece(s).c
<1>1. c \in Conns BY DEF Pieces
<1>2. CASE c.rrs # "RRS_READ_BODY" \/ c.buf = <<>>
  <2>1. new = c BY <1>2 DEF NextPiece
  <2> QED BY <2>1
<1>3. CASE ~(c.rrs # "RRS_READ_BODY" \/ c.buf = <<>>)
  <2>1. PICK p \in 0 .. Len(c.buf) : /\ c.bodyReadLen + p <= c.bodyLen
                                     /\ new = BehindPiece(TakeBody(c, p))
    BY <1>3, PieceIs
  <2> DEFINE t == TakeBody(c, p)
  <2>2. c.isChunked /\ c.rrs = "RRS_READ_BODY" BY <1>3 DEF TakesChunks
  <2>3. PICK k \in 0 .. n : InChunk(c, c.buf \o e, k, S, C, body) BY <1>3 DEF TakesChunks
  <2>4. /\ t \in Conn /\ t.rrs = c.rrs /\ t.header = c.header /\ t.isChunked = c.isChunked
        /\ t.bodyReadLen = Len(t.body) /\ t.bodyReadLen <= t.bodyLen
        /\ InChunk(t, t.buf \o e, k, S, C, body)
    BY <1>1, <2>1, <2>3, ChunkTaken
  <2>5. new = IF t.bodyReadLen < t.bodyLen THEN t ELSE ReadChunkHeader(t)
    BY <2>1, <2>2, <2>4 DEF BehindPiece
  <2> HIDE DEF t, new, c
  <2>6. t \in Conns BY <2>2, <2>4 DEF Conns, Counted
  <2>7. CASE t.bodyReadLen < t.bodyLen
    <3>1. new = t BY <2>5, <2>7
    <3>2. TakesChunks(new, new.buf \o e, n, S, C, body, last) BY <2>2, <2>4, <3>1 DEF TakesChunks
    <3> QED BY <2>4, <3>1, <3>2 DEF new, c
  <2>8. CASE ~(t.bodyReadLen < t.bodyLen)
    <3>1. new = ReadChunkHeader(t) BY <2>5, <2>8
    <3>2. t.bodyReadLen = t.bodyLen
      <4>1. t.bodyReadLen \in Nat /\ t.bodyLen \in Nat BY <2>4 DEF Conn
      <4> QED BY <2>4, <2>8, <4>1
    <3>3. t.isChunked /\ t.rrs = "RRS_READ_BODY" BY <2>2, <2>4
    <3>4. TakesChunks(new, new.buf \o e, n, S, C, body, last) /\ new.header = t.header
      BY <2>3, <2>4, <2>6, <3>1, <3>2, <3>3, ChunkEnds
    <3> QED BY <2>4, <3>4 DEF new, c
  <2> QED BY <2>7, <2>8
<1> QED BY <1>2, <1>3

\* The loop over pieces, in chunks.
LEMMA ChunksTaken ==
  ASSUME NEW c \in Conns, NEW room \in Nat, NEW e \in Data, NEW n, NEW S, NEW C, NEW body, NEW last,
         IsChunking(n, S, C, body, last), TakesChunks(c, c.buf \o e, n, S, C, body, last)
  PROVE  LET new == appendBodyData(c, room)
         IN TakesChunks(new, new.buf \o e, n, S, C, body, last) /\ new.header = c.header
<1>1. PICK m \in Nat : \E g \in [0 .. m -> Pieces] : IsTaking(g, m, c, room) BY TakingExists
<1>2. PICK g \in [0 .. m -> Pieces] : IsTaking(g, m, c, room) BY <1>1
<1> DEFINE T == {k \in 0 .. m : /\ TakesChunks(g[k].c, g[k].c.buf \o e, n, S, C, body, last)
                               /\ g[k].c.header = c.header}
<1>3. 0 \in T BY <1>1, <1>2 DEF IsTaking
<1>4. ASSUME NEW k \in 1 .. m, k - 1 \in T PROVE k \in T
  <2> DEFINE s == g[k - 1]
  <2>1. k - 1 \in 0 .. m /\ k \in 0 .. m OBVIOUS
  <2>2. s \in Pieces /\ g[k] = NextPiece(s) BY <1>2, <2>1 DEF IsTaking
  <2>3. TakesChunks(s.c, s.c.buf \o e, n, S, C, body, last) /\ s.c.header = c.header BY <1>4
  <2> HIDE DEF s
  <2>4. TakesChunks(NextPiece(s).c, NextPiece(s).c.buf \o e, n, S, C, body, last)
          /\ NextPiece(s).c.header = s.c.header
    BY <2>2, <2>3, ChunksStep
  <2> QED BY <2>1, <2>2, <2>3, <2>4
<1>5. m \in T
  <2> HIDE DEF T
  <2>1. \A k \in 0 .. m : k \in T BY <1>3, <1>4, UpTo
  <2> QED BY <2>1
<1> QED BY <1>2, <1>5 DEF IsTaking

\* The loop over pieces, of a body that is sent at once.
LEMMA AllTaken ==
  ASSUME NEW c \in Conns, NEW room \in Nat, NEW e \in Data, NEW body \in Data, NEW after \in Data,
         TakesAll(c, c.buf \o e, body, after)
  PROVE  LET new == appendBodyData(c, room)
         IN TakesAll(new, new.buf \o e, body, after) /\ new.header = c.header
<1>1. PICK m \in Nat : \E g \in [0 .. m -> Pieces] : IsTaking(g, m, c, room) BY TakingExists
<1>2. PICK g \in [0 .. m -> Pieces] : IsTaking(g, m, c, room) BY <1>1
<1> DEFINE T == {k \in 0 .. m : /\ TakesAll(g[k].c, g[k].c.buf \o e, body, after)
                               /\ g[k].c.header = c.header}
<1>3. 0 \in T BY <1>1, <1>2 DEF IsTaking
<1>4. ASSUME NEW k \in 1 .. m, k - 1 \in T PROVE k \in T
  <2> DEFINE s == g[k - 1]
  <2>1. k - 1 \in 0 .. m /\ k \in 0 .. m OBVIOUS
  <2>2. s \in Pieces /\ g[k] = NextPiece(s) BY <1>2, <2>1 DEF IsTaking
  <2>3. TakesAll(s.c, s.c.buf \o e, body, after) /\ s.c.header = c.header BY <1>4
  <2> HIDE DEF s
  <2>4. TakesAll(NextPiece(s).c, NextPiece(s).c.buf \o e, body, after)
          /\ NextPiece(s).c.header = s.c.header
    BY <2>2, <2>3, AllStep
  <2> QED BY <2>1, <2>2, <2>3, <2>4
<1>5. m \in T
  <2> HIDE DEF T
  <2>1. \A k \in 0 .. m : k \in T BY <1>3, <1>4, UpTo
  <2> QED BY <2>1
<1> QED BY <1>2, <1>5 DEF IsTaking

----------------------------------------------------------------------------
(* A header from its lines to the empty one, and the lines that are kept.    *)

\* the empty line behind a header
EmptyLine == <<<<>>>>

\* The empty line is one line.
LEMMA EmptyLineIs == EmptyLine \in Seq(Data) /\ Len(EmptyLine) = 1 /\ EmptyLine[1] = <<>>
<1>1. <<>> \in Data BY NoneIn
<1> QED BY <1>1, OneByte DEF EmptyLine

\* Lines with their ends, and the empty line.
LEMMA AllLines ==
  ASSUME NEW ls \in Seq(Data), NEW eol \in Eols
  PROVE  LET all == ls \o EmptyLine
             s == [i \in DOMAIN all |-> all[i] \o eol]
         IN /\ all \in Seq(Data) /\ s \in Seq(Data) /\ Len(s) = Len(ls) + 1 /\ Len(ls) \in Nat
            /\ \A i \in 1 .. Len(ls) : s[i] = ls[i] \o eol /\ ls[i] \in Data
            /\ s[Len(ls) + 1] = eol /\ Lines(all, eol) = FlattenSeq(s)
<1> DEFINE n == Len(ls)
           all == ls \o EmptyLine
           s == [i \in DOMAIN all |-> all[i] \o eol]
<1>1. n \in Nat /\ eol \in Data BY LenProperties, EolIs, NoneIn
<1>2. /\ all \in Seq(Data) /\ Len(all) = n + 1
      /\ \A i \in 1 .. n + 1 : all[i] = IF i <= n THEN ls[i] ELSE EmptyLine[i - n]
  BY EmptyLineIs, ConcatProperties
<1>3. DOMAIN all = 1 .. n + 1 /\ \A i \in 1 .. n + 1 : all[i] \in Data
  <2> HIDE DEF all
  <2> QED BY <1>2, LenProperties, ElementOfSeq
<1>4. Lines(all, eol) = FlattenSeq(s) BY DEF Lines
<1>5. \A i \in 1 .. n : i \in 1 .. n + 1 /\ i <= n BY <1>1
<1>6. n + 1 \in 1 .. n + 1 /\ ~(n + 1 <= n) /\ n + 1 - n = 1 /\ n + 1 \in Nat BY <1>1
<1>7. \A i \in 1 .. n : all[i] = ls[i] /\ ls[i] \in Data
  <2> HIDE DEF all
  <2> QED BY <1>2, <1>3, <1>5
<1>8. all[n + 1] = <<>>
  <2> HIDE DEF all
  <2>1. all[n + 1] = EmptyLine[n + 1 - n] BY <1>2, <1>6
  <2> QED BY <1>6, <2>1, EmptyLineIs
<1> HIDE DEF all, n
<1>9. s \in [1 .. n + 1 -> Data] BY <1>1, <1>3, JoinIn
<1>10. \A i \in 1 .. n : s[i] = ls[i] \o eol BY <1>3, <1>5, <1>7
<1>11. s[n + 1] = eol
  <2>1. s[n + 1] = all[n + 1] \o eol BY <1>3, <1>6
  <2>2. <<>> \o eol = eol BY <1>1, NoneIn
  <2> QED BY <1>8, <2>1, <2>2
<1> HIDE DEF s
<1>12. s \in Seq(Data) /\ Len(s) = n + 1 BY <1>6, <1>9, DataSeq
<1> QED BY <1>1, <1>2, <1>4, <1>7, <1>10, <1>11, <1>12 DEF all, s, n

\* The empty line ends the lines.
LEMMA LinesEnd ==
  ASSUME NEW ls \in Seq(Data), NEW eol \in Eols
  PROVE  Lines(ls \o EmptyLine, eol) = Lines(ls, eol) \o eol
<1> DEFINE n == Len(ls)
           all == ls \o EmptyLine
           s == [i \in DOMAIN all |-> all[i] \o eol]
           t == [i \in DOMAIN ls |-> ls[i] \o eol]
           f == SubSeq(s, 1, n)
<1>1. /\ s \in Seq(Data) /\ Len(s) = n + 1 /\ n \in Nat
      /\ \A i \in 1 .. n : s[i] = ls[i] \o eol /\ ls[i] \in Data
      /\ s[n + 1] = eol /\ Lines(all, eol) = FlattenSeq(s)
  BY AllLines
<1>2. DOMAIN ls = 1 .. n BY LenProperties
<1>3. Lines(ls, eol) = FlattenSeq(t) BY DEF Lines
<1>4. eol \in Data BY EolIs, NoneIn
<1>5. t \in [1 .. n -> Data] /\ \A i \in 1 .. n : t[i] = ls[i] \o eol BY <1>1, <1>2, <1>4, JoinIn
<1> HIDE DEF all, s, t, n
<1>6. t \in Seq(Data) /\ Len(t) = n BY <1>1, <1>5, DataSeq
<1>7. f = t
  <2>1. n \in 0 .. Len(s) BY <1>1
  <2>2. f \in Seq(Data) /\ Len(f) = n /\ \A i \in 1 .. n : f[i] = s[i] BY <1>1, <2>1, FirstIs
  <2> HIDE DEF f
  <2>3. \A i \in 1 .. n : f[i] = t[i] BY <1>1, <1>5, <2>2
  <2> QED BY <1>6, <2>2, <2>3, SeqEqual
<1>8. PICK R \in [0 .. Len(s) -> Data] :
        IsRest(R, s) /\ \A k \in 0 .. Len(s) : FlattenSeq(SubSeq(s, 1, k)) \o R[k] = R[0]
  BY <1>1, RestExists
<1>9. n \in 0 .. Len(s) /\ n + 1 \in 1 .. Len(s) /\ n + 1 - 1 = n BY <1>1
<1>10. R[n] = eol
  <2> DEFINE i == n + 1
  <2>1. i \in 1 .. Len(s) /\ i - 1 = n /\ i = Len(s) /\ s[i] = eol BY <1>1, <1>9
  <2> HIDE DEF i
  <2>2. R[i - 1] = s[i] \o R[i] BY <1>8, <2>1 DEF IsRest
  <2>3. R[i] = <<>> BY <1>8, <2>1 DEF IsRest
  <2>4. eol \o <<>> = eol BY <1>4, NoneIn
  <2> QED BY <2>1, <2>2, <2>3, <2>4
<1>11. FlattenSeq(f) \o R[n] = FlattenSeq(s) BY <1>8, <1>9 DEF IsRest, f
<1> QED BY <1>1, <1>3, <1>7, <1>10, <1>11 DEF all

\* A header and what is read of it, line by line.
LEMMA HeadExists ==
  ASSUME NEW ls \in Seq(Data), \A i \in 1 .. Len(ls) : IsLine(ls[i]), NEW eol \in Eols, NEW tail \in Data,
         NEW h0 \in Header, h0.cur = <<>>, h0.started \/ Len(ls) > 0
  PROVE  \E H, R : /\ IsHead(Len(ls), ls, eol, tail, H, R) /\ H[0] = h0
                   /\ R[0] = Lines(ls \o EmptyLine, eol) \o tail
<1> DEFINE n == Len(ls)
           all == ls \o EmptyLine
           s == [i \in DOMAIN all |-> all[i] \o eol]
           step == [p \in (1 .. n) \X Header |-> StoreLine(p[2], ls[p[1]])]
<1>1. /\ s \in Seq(Data) /\ Len(s) = n + 1 /\ n \in Nat
      /\ \A i \in 1 .. n : s[i] = ls[i] \o eol /\ ls[i] \in Data
      /\ s[n + 1] = eol /\ Lines(all, eol) = FlattenSeq(s)
  BY AllLines
<1>2. eol \in Data BY EolIs, NoneIn
<1>3. step \in [(1 .. n) \X Header -> Header]
  <2>1. \A i \in 1 .. n, h \in Header : StoreLine(h, ls[i]) \in Header BY <1>1, StoreLineIn
  <2> HIDE DEF n
  <2> QED BY <2>1
<1>4. \A i \in 1 .. n, h \in Header : step[<<i, h>>] = StoreLine(h, ls[i])
  <2> HIDE DEF n
  <2> QED OBVIOUS
<1>5. ls \in [1 .. n -> Data] BY LenProperties
<1> HIDE DEF n, all, s, step
<1>6. PICK H \in [0 .. n -> Header] : IsRun(H, n, h0, step, H[n]) BY <1>1, <1>3, RunExists
<1>7. \A j \in 1 .. n : j - 1 \in 0 .. n /\ j \in 0 .. n BY <1>1
<1>8. \A j \in 1 .. n : H[j] = StoreLine(H[j - 1], ls[j]) BY <1>4, <1>6, <1>7 DEF IsRun
<1>9. H[0] = h0 BY <1>6 DEF IsRun
<1>10. H[n].started
  <2>1. CASE n = 0 BY <1>9, <2>1 DEF n
  <2>2. CASE n # 0
    <3>1. n \in 1 .. n BY <1>1, <2>2
    <3>2. H[n] = StoreLine(H[n - 1], ls[n]) /\ H[n - 1] \in Header BY <1>7, <1>8, <3>1
    <3> QED BY <3>2 DEF StoreLine, Header
  <2> QED BY <2>1, <2>2
<1>11. PICK Q \in [0 .. Len(s) -> Data] :
        IsRest(Q, s) /\ \A k \in 0 .. Len(s) : FlattenSeq(SubSeq(s, 1, k)) \o Q[k] = Q[0]
  BY <1>1, RestExists
<1> DEFINE R == [j \in 0 .. n |-> Q[j] \o tail]
<1>12. \A j \in 0 .. n : Q[j] \in Data /\ j \in 0 .. Len(s) BY <1>1, <1>11
<1>13. R \in [0 .. n -> Data] BY <1>12, JoinIn
<1>14. \A j \in 1 .. n : R[j - 1] = ls[j] \o (eol \o R[j])
  <2> SUFFICES ASSUME NEW j \in 1 .. n PROVE R[j - 1] = ls[j] \o (eol \o R[j])
    OBVIOUS
  <2>1. j \in 1 .. Len(s) /\ j \in 0 .. n /\ j - 1 \in 0 .. n BY <1>1
  <2>2. Q[j - 1] = s[j] \o Q[j] BY <1>11, <2>1 DEF IsRest
  <2>3. R[j - 1] = Q[j - 1] \o tail /\ R[j] = Q[j] \o tail BY <2>1
  <2> DEFINE q == Q[j]
             l == ls[j]
  <2>4. q \in Data /\ l \in Data /\ s[j] = l \o eol BY <1>1, <1>12, <2>1
  <2> HIDE DEF q, l, R
  <2>5. ((l \o eol) \o q) \o tail = l \o (eol \o (q \o tail))
    <3>1. (l \o eol) \in Data /\ q \o tail \in Data BY <1>2, <2>4, JoinIn
    <3>2. ((l \o eol) \o q) \o tail = (l \o eol) \o (q \o tail)
      <4>1. JoinsAs(l \o eol, q, tail) BY <2>4, <3>1, Joined
      <4> QED BY <4>1 DEF JoinsAs
    <3>3. (l \o eol) \o (q \o tail) = l \o (eol \o (q \o tail))
      <4>1. JoinsAs(l, eol, q \o tail) BY <1>2, <2>4, <3>1, Joined
      <4> QED BY <4>1 DEF JoinsAs
    <3> QED BY <3>2, <3>3
  <2> QED BY <2>2, <2>3, <2>4, <2>5 DEF q, l
<1>15. R[n] = eol \o tail
  <2> DEFINE i == n + 1
  <2>1. i \in 1 .. Len(s) /\ i - 1 = n /\ i = Len(s) /\ s[i] = eol /\ n \in 0 .. n BY <1>1
  <2> HIDE DEF i
  <2>2. Q[i - 1] = s[i] \o Q[i] BY <1>11, <2>1 DEF IsRest
  <2>3. Q[i] = <<>> BY <1>11, <2>1 DEF IsRest
  <2>4. eol \o <<>> = eol BY <1>2, NoneIn
  <2>5. Q[n] = eol BY <2>1, <2>2, <2>3, <2>4
  <2>6. R[n] = Q[n] \o tail BY <2>1
  <2> QED BY <2>5, <2>6
<1>16. R[0] = Lines(all, eol) \o tail
  <2>1. 0 \in 0 .. n BY <1>1
  <2>2. R[0] = Q[0] \o tail BY <2>1
  <2> QED BY <1>1, <1>11, <2>2 DEF IsRest
<1> HIDE DEF R
<1>17. \A j \in 1 .. n : IsLine(ls[j]) BY DEF n
<1>18. IsHead(n, ls, eol, tail, H, R)
  BY <1>1, <1>5, <1>6, <1>8, <1>9, <1>10, <1>13, <1>14, <1>15, <1>17 DEF IsHead
<1> QED BY <1>9, <1>16, <1>18 DEF n, all

\* A line that is stored behind the first one.
LEMMA StoredLine ==
  ASSUME NEW h \in Header, h.started, NEW line \in Data
  PROVE  LET new == StoreLine(h, line)
         IN new.started /\ new.request = h.request /\ new.lines = KeptStep(h.lines, line)
<1>1. IndexOf({"colon"}, line) = 0 <=> "colon" \notin ToSet(line) BY ColonIs
<1> DEFINE lines == IF IndexOf({"colon"}, line) = 0 THEN h.lines ELSE Append(h.lines, line)
           new == StoreLine(h, line)
<1>2. new = [h EXCEPT !.cur = <<>>, !.lines = lines] BY DEF StoreLine
<1>3. lines = KeptStep(h.lines, line) BY <1>1 DEF KeptStep
<1> HIDE DEF lines, new
<1>4. new.started /\ new.request = h.request /\ new.lines = lines BY <1>2 DEF Header
<1> QED BY <1>3, <1>4 DEF new

\* The first line.
LEMMA StoredFirst ==
  ASSUME NEW line \in Data
  PROVE  LET new == StoreLine(reqhdr_new, line)
         IN new.started /\ new.request = decodeRequestStartLine(line) /\ new.lines = <<>>
  BY DEF StoreLine, reqhdr_new, datahdr_new

\* What is kept of a line, behind other lines.
LEMMA KeptBehind ==
  ASSUME NEW a \in Seq(Data), NEW g \in Seq(Data), NEW line \in Data
  PROVE  KeptStep(a \o g, line) = a \o KeptStep(g, line)
<1> DEFINE one == <<line>>
<1>1. one \in Seq(Data) BY OneByte
<1>2. a \o g \in Seq(Data) BY ConcatProperties
<1>3. Append(a \o g, line) = (a \o g) \o one BY <1>2, AppendIsConcat
<1>4. Append(g, line) = g \o one BY AppendIsConcat
<1> HIDE DEF one
<1>5. (a \o g) \o one = a \o (g \o one) BY <1>1, ConcatAssociative
<1> QED BY <1>3, <1>4, <1>5 DEF KeptStep

\* What the lines of a trailer add to a header.
LEMMA HeadKeeps ==
  ASSUME NEW ls \in Seq(Data), NEW eol, NEW tail, NEW H, NEW R,
         IsHead(Len(ls), ls, eol, tail, H, R), H[0].started
  PROVE  H[Len(ls)].request = H[0].request /\ H[Len(ls)].lines = H[0].lines \o Kept(ls)
<1> DEFINE n == Len(ls)
           h0 == H[0]
<1>1. /\ n \in Nat /\ H \in [0 .. n -> Header] /\ ls \in [1 .. n -> Data]
      /\ \A j \in 1 .. n : H[j] = StoreLine(H[j - 1], ls[j])
  BY DEF IsHead
<1>2. PICK g \in [0 .. n -> Seq(Data)] : IsKept(g, ls) BY KeptRun
<1>3. g[0] = <<>> /\ g[n] = Kept(ls) /\ \A k \in 1 .. n : g[k] = KeptStep(g[k - 1], ls[k])
  BY <1>2 DEF IsKept
<1> HIDE DEF n
<1>4. h0 \in Header /\ h0.lines \in Seq(Data)
  <2>1. 0 \in 0 .. n BY <1>1
  <2>2. h0 \in Header BY <1>1, <2>1
  <2> HIDE DEF h0
  <2> QED BY <2>2 DEF Header
<1>5. h0.started OBVIOUS
<1> DEFINE T == {j \in 0 .. n : H[j].started /\ H[j].request = h0.request /\ H[j].lines = h0.lines \o g[j]}
<1>6. 0 \in T
  <2> DEFINE lines == h0.lines
  <2>1. lines \in Seq(Data) BY <1>4
  <2> HIDE DEF lines
  <2>2. lines \o <<>> = lines BY <2>1, ConcatEmptySeq
  <2>3. h0.lines \o g[0] = h0.lines BY <1>3, <2>2 DEF lines
  <2>4. 0 \in 0 .. n /\ H[0] = h0 BY <1>1
  <2> HIDE DEF h0, lines
  <2> QED BY <1>5, <2>3, <2>4
<1> HIDE DEF h0
<1>7. ASSUME NEW j \in 1 .. n, j - 1 \in T PROVE j \in T
  <2> DEFINE h == H[j - 1]
             x == g[j - 1]
             l == ls[j]
  <2>1. j - 1 \in 0 .. n /\ j \in 0 .. n BY <1>1
  <2>2. h \in Header /\ x \in Seq(Data) /\ l \in Data BY <1>1, <2>1
  <2>3. h.started /\ h.request = h0.request /\ h.lines = h0.lines \o x BY <1>7
  <2>4. H[j] = StoreLine(h, l) /\ g[j] = KeptStep(x, l) BY <1>1, <1>3
  <2> HIDE DEF h, x, l
  <2>5. H[j].started /\ H[j].request = h.request /\ H[j].lines = KeptStep(h.lines, l)
    BY <2>2, <2>3, <2>4, StoredLine
  <2>6. KeptStep(h0.lines \o x, l) = h0.lines \o KeptStep(x, l) BY <1>4, <2>2, KeptBehind
  <2> QED BY <2>1, <2>3, <2>4, <2>5, <2>6
<1>8. n \in T
  <2>1. n \in Nat BY <1>1
  <2> HIDE DEF T
  <2>2. \A j \in 0 .. n : j \in T BY <2>1, <1>6, <1>7, UpTo
  <2> QED BY <2>1, <2>2
<1> QED BY <1>3, <1>8 DEF h0, n

\* a line and other lines
AreLines(ls, line, others) == ls = <<line>> \o others

\* What the lines of a request make of its header.
LEMMA HeadHas ==
  ASSUME NEW line \in Data, NEW others \in Seq(Data), NEW ls \in Seq(Data), NEW eol, NEW tail, NEW H, NEW R,
         AreLines(ls, line, others), IsHead(Len(ls), ls, eol, tail, H, R), H[0] = reqhdr_new
  PROVE  /\ H[Len(ls)].request = decodeRequestStartLine(line)
         /\ H[Len(ls)].lines = Kept(others)
<1> DEFINE n == Len(ls)
           m == Len(others)
           one == <<line>>
<1>1. /\ n \in Nat /\ H \in [0 .. n -> Header] /\ ls \in [1 .. n -> Data]
      /\ \A j \in 1 .. n : H[j] = StoreLine(H[j - 1], ls[j])
  BY DEF IsHead
<1>2. one \in Seq(Data) /\ Len(one) = 1 /\ one[1] = line BY OneByte
<1>3. m \in Nat BY LenProperties
<1>4. /\ n = Len(one) + m
      /\ \A i \in 1 .. Len(one) + m : ls[i] = IF i <= Len(one) THEN one[i] ELSE others[i - Len(one)]
  <2> HIDE DEF one
  <2> QED BY <1>2, ConcatProperties DEF one, AreLines
<1> HIDE DEF one, n, m
<1>5. n = m + 1 BY <1>2, <1>3, <1>4
<1>6. ls[1] = line
  <2>1. 1 \in 1 .. Len(one) + m /\ 1 <= Len(one) BY <1>2, <1>3
  <2> QED BY <1>2, <1>4, <2>1
<1>7. ASSUME NEW j \in 1 .. m PROVE ls[j + 1] = others[j] /\ H[j + 1] = StoreLine(H[j], ls[j + 1])
  <2> DEFINE i == j + 1
  <2>1. i \in 1 .. Len(one) + m /\ ~(i <= Len(one)) /\ i - Len(one) = j /\ i - 1 = j /\ i \in 1 .. n
    BY <1>2, <1>3, <1>5
  <2> HIDE DEF i
  <2>2. ls[i] = others[i - Len(one)] BY <1>4, <2>1
  <2>3. H[i] = StoreLine(H[i - 1], ls[i]) BY <1>1, <2>1
  <2> QED BY <2>1, <2>2, <2>3 DEF i
<1>8. PICK g \in [0 .. m -> Seq(Data)] : IsKept(g, others) BY KeptRun DEF m
<1>9. g[0] = <<>> /\ g[m] = Kept(others) /\ \A k \in 1 .. m : g[k] = KeptStep(g[k - 1], others[k])
  BY <1>8 DEF IsKept, m
<1> DEFINE T == {j \in 0 .. m : /\ H[j + 1].started /\ H[j + 1].request = decodeRequestStartLine(line)
                               /\ H[j + 1].lines = g[j]}
<1>10. 0 \in T
  <2>1. 1 \in 1 .. n /\ 1 - 1 = 0 /\ 0 + 1 = 1 /\ 0 \in 0 .. m BY <1>3, <1>5
  <2>2. H[1] = StoreLine(H[1 - 1], ls[1]) BY <1>1, <2>1
  <2>3. H[1] = StoreLine(reqhdr_new, line) BY <1>6, <2>1, <2>2
  <2>4. H[1].started /\ H[1].request = decodeRequestStartLine(line) /\ H[1].lines = <<>>
    BY <2>3, StoredFirst
  <2> QED BY <1>9, <2>1, <2>4
<1>11. ASSUME NEW j \in 1 .. m, j - 1 \in T PROVE j \in T
  <2> DEFINE h == H[j]
             x == g[j - 1]
             l == others[j]
  <2>1. j \in 0 .. m /\ (j - 1) + 1 = j /\ j \in 0 .. n /\ j - 1 \in 0 .. m BY <1>3, <1>5
  <2>2. h \in Header /\ x \in Seq(Data) /\ l \in Data
    <3>1. l \in Data BY ElementOfSeq DEF m
    <3> QED BY <1>1, <1>8, <2>1, <3>1
  <2>3. h.started /\ h.request = decodeRequestStartLine(line) /\ h.lines = x
    <3> DEFINE i == j - 1
    <3>1. i \in T /\ i + 1 = j BY <1>11, <2>1
    <3> HIDE DEF i
    <3>2. H[i + 1].started /\ H[i + 1].request = decodeRequestStartLine(line) /\ H[i + 1].lines = g[i]
      BY <3>1
    <3> QED BY <3>1, <3>2 DEF i
  <2>4. H[j + 1] = StoreLine(h, l) /\ g[j] = KeptStep(x, l) BY <1>7, <1>9
  <2> HIDE DEF h, x, l
  <2>5. H[j + 1].started /\ H[j + 1].request = h.request /\ H[j + 1].lines = KeptStep(h.lines, l)
    BY <2>2, <2>3, <2>4, StoredLine
  <2> QED BY <2>1, <2>3, <2>4, <2>5
<1>12. m \in T
  <2>1. m \in Nat BY <1>3
  <2> HIDE DEF T
  <2>2. \A j \in 0 .. m : j \in T BY <2>1, <1>10, <1>11, UpTo
  <2> QED BY <2>1, <2>2
<1> QED BY <1>5, <1>9, <1>12 DEF n

----------------------------------------------------------------------------
(* The length of a body, from its digits to bodyLen.                         *)

\* The lines that are kept are some of the lines.
LEMMA KeptIn ==
  ASSUME NEW P, P \subseteq Data, NEW ls \in Seq(P)
  PROVE  Kept(ls) \in Seq(P)
<1> DEFINE n == Len(ls)
<1>1. ls \in Seq(Data) BY SeqMonotonic
<1>2. n \in Nat BY LenProperties
<1>3. PICK g \in [0 .. n -> Seq(Data)] : IsKept(g, ls) BY <1>1, KeptRun
<1>4. g[0] = <<>> /\ g[n] = Kept(ls) /\ \A k \in 1 .. n : g[k] = KeptStep(g[k - 1], ls[k])
  BY <1>3 DEF IsKept
<1>5. \A k \in 1 .. n : ls[k] \in P BY ElementOfSeq
<1> HIDE DEF n
<1> DEFINE T == {k \in 0 .. n : g[k] \in Seq(P)}
<1>6. 0 \in T
  <2>1. <<>> \in Seq(P) BY EmptySeq
  <2> QED BY <1>2, <1>4, <2>1
<1>7. ASSUME NEW k \in 1 .. n, k - 1 \in T PROVE k \in T
  <2> DEFINE x == g[k - 1]
             l == ls[k]
  <2>1. k \in 0 .. n /\ x \in Seq(P) /\ l \in P /\ g[k] = KeptStep(x, l) BY <1>2, <1>4, <1>5, <1>7
  <2> HIDE DEF x, l
  <2>2. KeptStep(x, l) \in Seq(P) BY <2>1, AppendProperties DEF KeptStep
  <2> QED BY <2>1, <2>2
<1>8. \A k \in 0 .. n : k \in T
  <2> HIDE DEF T
  <2> QED BY <1>2, <1>6, <1>7, UpTo
<1> QED BY <1>2, <1>4, <1>8

\* A last line with a colon is kept.
LEMMA KeptLast ==
  ASSUME NEW ls \in Seq(Data), NEW l \in Data, "colon" \in ToSet(l)
  PROVE  Kept(ls \o <<l>>) = Append(Kept(ls), l)
<1> DEFINE n == Len(ls)
           all == ls \o <<l>>
           one == <<l>>
<1>1. n \in Nat /\ one \in Seq(Data) /\ Len(one) = 1 /\ one[1] = l BY LenProperties, OneByte
<1>2. /\ all \in Seq(Data) /\ Len(all) = n + Len(one)
      /\ \A i \in 1 .. n + Len(one) : all[i] = IF i <= n THEN ls[i] ELSE one[i - n]
  <2> HIDE DEF one
  <2>1. all = ls \o one BY DEF one
  <2> QED BY <1>1, <2>1, ConcatProperties
<1> HIDE DEF all, one, n
<1>3. \A i \in 1 .. n : all[i] = ls[i]
  <2>1. \A i \in 1 .. n : i \in 1 .. n + Len(one) /\ i <= n BY <1>1
  <2> QED BY <1>2, <2>1
<1>4. all[n + 1] = l
  <2> DEFINE i == n + 1
  <2>1. i \in 1 .. n + Len(one) /\ ~(i <= n) /\ i - n = 1 BY <1>1
  <2> HIDE DEF i
  <2>2. all[i] = one[i - n] BY <1>2, <2>1
  <2> QED BY <1>1, <2>1, <2>2 DEF i
<1>5. PICK g \in [0 .. n -> Seq(Data)] : IsKept(g, ls) BY KeptRun DEF n
<1>6. PICK f \in [0 .. Len(all) -> Seq(Data)] : IsKept(f, all) BY <1>2, KeptRun
<1>7. Len(all) = n + 1 BY <1>1, <1>2
<1>8. g[0] = <<>> /\ g[n] = Kept(ls) /\ \A k \in 1 .. n : g[k] = KeptStep(g[k - 1], ls[k])
  BY <1>5 DEF IsKept, n
<1>9. f[0] = <<>> /\ f[n + 1] = Kept(all) /\ \A k \in 1 .. n + 1 : f[k] = KeptStep(f[k - 1], all[k])
  BY <1>6, <1>7 DEF IsKept
<1>10. f[n] = g[n]
  <2>1. \A k \in 1 .. n : k \in 1 .. n + 1 BY <1>1
  <2>2. \A k \in 1 .. n : f[k - 1] = g[k - 1] => f[k] = g[k] BY <1>3, <1>8, <1>9, <2>1
  <2>3. Alike(f, g, n) BY <1>8, <1>9, <2>2 DEF Alike
  <2> QED BY <1>1, <2>3, RunsAgree
<1>11. f[n + 1] = KeptStep(f[n], l)
  <2> DEFINE i == n + 1
  <2>1. i \in 1 .. n + 1 /\ i - 1 = n BY <1>1
  <2>2. all[i] = l BY <1>4
  <2> HIDE DEF i
  <2>3. f[i] = KeptStep(f[i - 1], all[i]) BY <1>9, <2>1
  <2> QED BY <2>1, <2>2, <2>3 DEF i
<1> QED BY <1>8, <1>9, <1>10, <1>11 DEF KeptStep, all

\* the name in front of a length, and the lines with other names
LengthName == <<"Content-Length">>

Others == {d \in Data : NameOf(d) # LengthName}

\* the value of the length in a header
LengthOf(hdr) == getHeaderVal(hdr, "Content-Length")

\* Where there is no line with a length.
LEMMA NoLength ==
  ASSUME NEW hdr, hdr.lines \in Seq(Others)
  PROVE  LengthOf(hdr) = <<>>
<1> DEFINE I == {i \in 1 .. Len(hdr.lines) : NameOf(hdr.lines[i]) = LengthName}
<1>1. LengthOf(hdr) = IF (IF I # {} THEN Min(I) ELSE 0) = 0 THEN <<>>
                      ELSE skipLeadingWS(dch_shiftAfterChr(hdr.lines[IF I # {} THEN Min(I) ELSE 0], "colon"))
  BY DEF LengthOf, getHeaderVal, SelectInSeq, LengthName
<1>2. I = {}
  <2>1. \A i \in 1 .. Len(hdr.lines) : hdr.lines[i] \in Others BY ElementOfSeq
  <2> QED BY <2>1 DEF Others
<1> HIDE DEF I
<1> QED BY <1>1, <1>2

\* Where the last line is the one with a length.
LEMMA LastLength ==
  ASSUME NEW hdr, NEW a \in Seq(Others), NEW l \in Data, hdr.lines = Append(a, l), NameOf(l) = LengthName
  PROVE  LengthOf(hdr) = skipLeadingWS(dch_shiftAfterChr(l, "colon"))
<1> DEFINE lines == hdr.lines
           n == Len(a)
           I == {i \in 1 .. Len(lines) : NameOf(lines[i]) = LengthName}
<1>1. LengthOf(hdr) = IF (IF I # {} THEN Min(I) ELSE 0) = 0 THEN <<>>
                      ELSE skipLeadingWS(dch_shiftAfterChr(lines[IF I # {} THEN Min(I) ELSE 0], "colon"))
  BY DEF LengthOf, getHeaderVal, SelectInSeq, LengthName
<1>2. Others \subseteq Data BY DEF Others
<1>3. a \in Seq(Data) /\ n \in Nat BY <1>2, SeqMonotonic, LenProperties
<1>4. Append(a, l) \in Seq(Data) BY <1>3, AppendProperties
<1>5. Len(Append(a, l)) = n + 1 BY <1>3, AppendProperties
<1>6. \A i \in 1 .. n : Append(a, l)[i] = a[i] BY <1>3, AppendProperties
<1>7. Append(a, l)[n + 1] = l BY <1>3, AppendProperties
<1>8. Len(lines) = n + 1 /\ lines[n + 1] = l /\ \A i \in 1 .. n : lines[i] = a[i]
  BY <1>5, <1>6, <1>7
<1>9. \A i \in 1 .. n : NameOf(lines[i]) # LengthName
  <2>1. \A i \in 1 .. n : a[i] \in Others BY ElementOfSeq
  <2> QED BY <1>8, <2>1 DEF Others
<1>10. n + 1 \in I /\ I \in SUBSET Int /\ \A y \in I : n + 1 <= y
  <2> HIDE DEF n, lines
  <2>1. n + 1 \in 1 .. Len(lines) BY <1>3, <1>8
  <2>2. n + 1 \in I BY <1>8, <2>1
  <2>3. \A y \in I : y \in 1 .. n + 1 /\ y \notin 1 .. n BY <1>8, <1>9
  <2>4. \A y \in I : n + 1 <= y BY <1>3, <2>3
  <2>5. I \in SUBSET Int BY <1>3, <2>3
  <2> QED BY <2>2, <2>4, <2>5
<1>11. Min(I) = n + 1
  <2> HIDE DEF I, n
  <2> DEFINE x == n + 1
  <2>1. x \in I /\ I \in SUBSET Int /\ \A y \in I : x <= y BY <1>10
  <2> HIDE DEF x
  <2>2. Min(I) = x BY <2>1, MinIs
  <2> QED BY <2>2 DEF x
<1>12. I # {} BY <1>10
<1> HIDE DEF I, lines, n
<1>13. n + 1 # 0 BY <1>3
<1> QED BY <1>1, <1>8, <1>11, <1>12, <1>13

\* Blanks that are skipped.
LEMMA SkipOne ==
  ASSUME NEW d \in Data, d # <<>>, d[1] \notin Blank
  PROVE  skipLeadingWS(<<"sp">> \o d) = d
<1> DEFINE one == <<"sp">>
           e == one \o d
           I == {i \in 1 .. Len(e) : e[i] \notin Blank}
           from == IF \A i \in DOMAIN e : e[i] \in Blank THEN Len(e) + 1
                   ELSE IF I # {} THEN Min(I) ELSE 0
<1>1. skipLeadingWS(e) = From(e, from) BY DEF skipLeadingWS, SelectInSeq
<1>2. one \in Data /\ Len(one) = 1 /\ one[1] = "sp"
  <2>1. "sp" \in Byte BY DEF Byte
  <2>2. \A x \in Byte : <<x>> \in Data /\ Len(<<x>>) = 1 /\ <<x>>[1] = x BY OneIn
  <2> QED BY <2>1, <2>2
<1>3. Len(d) \in Nat /\ Len(d) > 0
  <2>1. Len(d) \in Nat /\ Len(d) # 0 BY LenOf
  <2> QED BY <2>1
<1> HIDE DEF one
<1>4. /\ e \in Data /\ Len(e) = 1 + Len(d)
      /\ \A i \in 1 .. 1 + Len(d) : e[i] = IF i <= 1 THEN one[i] ELSE d[i - 1]
  <2>1. /\ e \in Data /\ Len(e) = Len(one) + Len(d)
        /\ \A i \in 1 .. Len(one) + Len(d) : e[i] = IF i <= Len(one) THEN one[i] ELSE d[i - Len(one)]
    BY <1>2, ConcatProperties DEF Data
  <2> HIDE DEF e
  <2> QED BY <1>2, <2>1
<1>5. From(e, 1 + 1) = d BY <1>2, JoinedCut DEF Data
<1> HIDE DEF e
<1>6. e[1] = "sp" /\ e[2] = d[1]
  <2>1. 1 \in 1 .. 1 + Len(d) /\ 2 \in 1 .. 1 + Len(d) /\ 1 <= 1 /\ ~(2 <= 1) /\ 2 - 1 = 1 BY <1>3
  <2> QED BY <1>2, <1>4, <2>1
<1>7. DOMAIN e = 1 .. Len(e) BY <1>4, LenProperties DEF Data
<1>8. 2 \in 1 .. Len(e) BY <1>3, <1>4
<1>9. 2 \in I /\ I \in SUBSET Int /\ \A y \in I : 2 <= y
  <2>1. 2 \in I BY <1>6, <1>8
  <2>2. "sp" \in Blank BY DEF Blank
  <2>3. \A y \in I : y \in 1 .. Len(e) /\ y # 1 BY <1>6, <2>2
  <2>4. \A y \in I : 2 <= y BY <1>3, <1>4, <2>3
  <2>5. I \in SUBSET Int BY <2>3
  <2> QED BY <2>1, <2>4, <2>5
<1>10. Min(I) = 2
  <2> HIDE DEF I
  <2> QED BY <1>9, MinIs
<1>11. from = 2
  <2>1. ~ \A i \in DOMAIN e : e[i] \in Blank BY <1>6, <1>7, <1>8
  <2>2. I # {} BY <1>9
  <2> HIDE DEF I
  <2> QED BY <1>10, <2>1, <2>2
<1>12. 1 + 1 = 2 OBVIOUS
<1> HIDE DEF from
<1> QED BY <1>1, <1>5, <1>11, <1>12 DEF e, one

\* the line with the length of a body
LengthIs(n) == <<"Content-Length", "colon", "sp">> \o Digits(n, 10)

\* What a header line with a length says.
LEMMA LengthLineIs ==
  ASSUME NEW n \in Nat
  PROVE  /\ LengthIs(n) \in Data /\ IsLine(LengthIs(n)) /\ "colon" \in ToSet(LengthIs(n))
         /\ NameOf(LengthIs(n)) = LengthName
         /\ Number(skipLeadingWS(dch_shiftAfterChr(LengthIs(n), "colon")), 10) = n
<1> DEFINE d == Digits(n, 10)
           name == LengthName
           colon == <<"colon">>
           sp == <<"sp">>
           l == LengthIs(n)
<1>1. HasValue(d, 10, n)
  <2>1. 10 \in {10, 16} OBVIOUS
  <2> QED BY <2>1, DigitsValue
<1> HIDE DEF d
<1>2. d \in Data /\ d # <<>> /\ \A i \in 1 .. Len(d) : DigitOf(d[i]) \in 1 .. 10 BY <1>1 DEF HasValue
<1>3. Len(d) \in Nat /\ Len(d) > 0
  <2>1. Len(d) \in Nat /\ Len(d) # 0 BY <1>2, LenOf
  <2> QED BY <2>1
<1>4. \A i \in 1 .. Len(d) : d[i] \notin {"lf", "cr", "sp", "tab"}
  <2>1. DigitOf("lf") = 0 /\ DigitOf("cr") = 0 /\ DigitOf("sp") = 0 /\ DigitOf("tab") = 0 BY NoDigit
  <2>2. 0 \notin 1 .. 10 OBVIOUS
  <2> QED BY <1>2, <2>1, <2>2
<1>5. /\ name \in Data /\ Len(name) = 1 /\ name[1] = "Content-Length"
      /\ colon \in Data /\ Len(colon) = 1 /\ colon[1] = "colon"
      /\ sp \in Data /\ Len(sp) = 1 /\ sp[1] = "sp"
  <2>1. "Content-Length" \in Byte /\ "colon" \in Byte /\ "sp" \in Byte BY DEF Byte
  <2>2. \A x \in Byte : <<x>> \in Data /\ Len(<<x>>) = 1 /\ <<x>>[1] = x BY OneIn
  <2> QED BY <2>1, <2>2 DEF LengthName
<1>6. l = name \o (colon \o (sp \o d))
  <2>1. <<"Content-Length", "colon", "sp">> = (name \o colon) \o sp BY DEF LengthName
  <2>2. l = ((name \o colon) \o sp) \o d BY <2>1 DEF LengthIs, d
  <2> HIDE DEF name, colon, sp, l
  <2>3. name \o colon \in Data /\ sp \o d \in Data BY <1>2, <1>5, JoinIn
  <2>4. ((name \o colon) \o sp) \o d = (name \o colon) \o (sp \o d)
    <3> DEFINE a == name \o colon
    <3>1. a \in Data /\ sp \in Data /\ d \in Data BY <1>2, <1>5, <2>3
    <3> HIDE DEF a
    <3>2. (a \o sp) \o d = a \o (sp \o d) BY <3>1, Joins
    <3> QED BY <3>2 DEF a
  <2>5. (name \o colon) \o (sp \o d) = name \o (colon \o (sp \o d))
    <3> DEFINE y == sp \o d
    <3>1. name \in Data /\ colon \in Data /\ y \in Data BY <1>5, <2>3
    <3> HIDE DEF y
    <3>2. (name \o colon) \o y = name \o (colon \o y) BY <3>1, Joins
    <3> QED BY <3>2 DEF y
  <2> QED BY <2>2, <2>4, <2>5
<1>7. sp \o d \in Data /\ Len(sp \o d) = 1 + Len(d) BY <1>2, <1>5, JoinIn, LenOf
<1>8. colon \o (sp \o d) \in Data /\ Len(colon \o (sp \o d)) = 2 + Len(d)
  <2> HIDE DEF sp, colon
  <2> DEFINE b == sp \o d
  <2>1. b \in Data /\ Len(b) = 1 + Len(d) BY <1>7
  <2> HIDE DEF b
  <2>2. colon \o b \in Data /\ Len(colon \o b) = Len(colon) + Len(b) BY <1>5, <2>1, JoinIn, LenOf
  <2>3. Len(colon \o b) = 2 + Len(d) BY <1>3, <1>5, <2>1, <2>2
  <2> QED BY <2>2, <2>3 DEF b
<1>9. Without(name, "colon")
  <2>1. "Content-Length" # "colon" OBVIOUS
  <2>2. \A i \in 1 .. 1 : i = 1 OBVIOUS
  <2> HIDE DEF name
  <2> QED BY <1>5, <2>1, <2>2 DEF Without
<1>10. /\ l \in Data /\ IndexOf({"colon"}, l) = 2 /\ SubSeq(l, 1, 1) = name
       /\ From(l, 3) = sp \o d
  <2> DEFINE b == sp \o d
             x == "colon"
  <2>1. /\ b \in Data /\ x \in Byte /\ Without(name, x) /\ l = name \o (<<x>> \o b) /\ name \in Data
        /\ Len(name) = 1
    <3>1. "colon" \in Byte BY DEF Byte
    <3> QED BY <1>5, <1>6, <1>7, <1>9, <3>1
  <2> HIDE DEF b, x, name, l
  <2>2. /\ l \in Data /\ IndexOf({x}, l) = Len(name) + 1 /\ SubSeq(l, 1, Len(name)) = name
        /\ From(l, Len(name) + 2) = b
    BY <2>1, FoundAt
  <2>3. Len(name) + 1 = 2 /\ Len(name) + 2 = 3 BY <2>1
  <2> QED BY <2>1, <2>2, <2>3 DEF b, x
<1>11. NameOf(l) = name
  <2> DEFINE at == IndexOf({"colon"}, l)
  <2>1. at = 2 BY <1>10
  <2> HIDE DEF at
  <2>2. Before(l, at) = SubSeq(l, 1, 1) BY <2>1 DEF Before
  <2> QED BY <1>10, <2>2 DEF NameOf, at
<1>12. "colon" \in ToSet(l)
  <2> DEFINE x == "colon"
  <2>1. IndexOf({x}, l) # 0 BY <1>10
  <2>2. (IndexOf({x}, l) = 0) <=> x \notin ToSet(l) BY <1>10, ColonIs
  <2> HIDE DEF x, l
  <2>3. x \in ToSet(l) BY <2>1, <2>2
  <2> QED BY <2>3 DEF x
<1>13. IsLine(l)
  <2>1. Len(l) = 3 + Len(d)
    <3> DEFINE b == colon \o (sp \o d)
    <3>1. b \in Data /\ Len(b) = 2 + Len(d) /\ l = name \o b BY <1>6, <1>8
    <3> HIDE DEF b, name, l
    <3>2. Len(l) = Len(name) + Len(b) BY <1>5, <3>1, LenOf
    <3> QED BY <1>3, <1>5, <3>1, <3>2
  <2>2. l # <<>>
    <3>1. Len(l) # 0 BY <1>3, <2>1
    <3> QED BY <1>10, <3>1, LenOf
  <2>3. \A y \in {"lf", "cr"} : Without(l, y)
    <3> SUFFICES ASSUME NEW y \in {"lf", "cr"} PROVE Without(l, y)
      OBVIOUS
    <3>1. Without(d, y) BY <1>4 DEF Without
    <3>2. name[1] # y /\ colon[1] # y /\ sp[1] # y BY <1>5
    <3>3. Without(name, y) /\ Without(colon, y) /\ Without(sp, y)
      <4>1. \A i \in 1 .. 1 : i = 1 OBVIOUS
      <4> HIDE DEF name, colon, sp
      <4> QED BY <1>5, <3>2, <4>1 DEF Without
    <3> HIDE DEF name, colon, sp, l
    <3>4. Without(sp \o d, y) BY <1>2, <1>5, <3>1, <3>3, WithoutJoined
    <3>5. Without(colon \o (sp \o d), y) BY <1>5, <1>7, <3>3, <3>4, WithoutJoined
    <3> QED BY <1>5, <1>6, <1>8, <3>3, <3>5, WithoutJoined
  <2>4. Last(l) # "cr"
    <3>1. Len(l) \in 1 .. Len(l) BY <1>3, <2>1
    <3> HIDE DEF l
    <3>2. Without(l, "cr") BY <2>3
    <3>3. l[Len(l)] # "cr" BY <3>1, <3>2 DEF Without
    <3> QED BY <3>3 DEF Last
  <2>5. "lf" \notin ToSet(l)
    <3>1. DOMAIN l = 1 .. Len(l) BY <1>10, LenProperties DEF Data
    <3> HIDE DEF l
    <3>2. Without(l, "lf") BY <2>3
    <3> QED BY <3>1, <3>2 DEF Without, ToSet
  <2> HIDE DEF l
  <2> QED BY <2>2, <2>4, <2>5 DEF IsLine
<1>14. Number(skipLeadingWS(dch_shiftAfterChr(l, "colon")), 10) = n
  <2> DEFINE at == IndexOf({"colon"}, l)
  <2>1. at = 2 BY <1>10
  <2> HIDE DEF at
  <2>2. dch_shiftAfterChr(l, "colon") = sp \o d
    <3>1. dch_shiftAfterChr(l, "colon") = IF at = 0 THEN l ELSE From(l, at + 1)
      BY DEF dch_shiftAfterChr, at
    <3>2. at # 0 /\ at + 1 = 3 BY <2>1
    <3> QED BY <1>10, <3>1, <3>2
  <2>3. skipLeadingWS(sp \o d) = d
    <3>1. d[1] \notin Blank
      <4>1. 1 \in 1 .. Len(d) BY <1>3
      <4> QED BY <1>4, <4>1 DEF Blank
    <3> QED BY <1>2, <3>1, SkipOne
  <2>4. Number(d, 10) = n
    <3>1. 10 \in {10, 16} /\ <<>> \in Data BY NoneIn
    <3>2. Number(d \o <<>>, 10) = n BY <1>1, <3>1, NumberOf
    <3>3. d \o <<>> = d BY <1>2, NoneIn
    <3> QED BY <3>2, <3>3
  <2> QED BY <2>2, <2>3, <2>4
<1> QED BY <1>10, <1>11, <1>12, <1>13, <1>14

\* No digits are a 0.
LEMMA NoNumber == Number(<<>>, 10) = 0
<1> DEFINE none == <<>>
           d == LeadingDigits(none, 10)
           v == Number(none, 10)
<1>1. none \in Data /\ none \o none = none /\ Len(none) = 0 BY NoneIn, EmptySeq
<1>2. d = none
  <2>1. 10 \in {10, 16} OBVIOUS
  <2>2. \A i \in 1 .. Len(none) : DigitOf(none[i]) \in 1 .. 10 BY <1>1
  <2> HIDE DEF none
  <2>3. none = <<>> BY DEF none
  <2>4. LeadingDigits(none \o none, 10) = none BY <1>1, <2>1, <2>2, <2>3, LeadingOf
  <2> QED BY <1>1, <2>4
<1>3. \E g \in [0 .. Len(d) -> Nat] : IsNumberRun(g, d, 10, v)
  <2>1. 10 \in {10, 16} OBVIOUS
  <2> HIDE DEF none
  <2> QED BY <1>1, <2>1, NumberRun
<1> HIDE DEF none, d
<1>4. \E g \in [0 .. Len(none) -> Nat] : IsNumberRun(g, none, 10, v) BY <1>2, <1>3
<1>5. v = 0
  <2> HIDE DEF v
  <2>1. PICK g : IsNumberRun(g, none, 10, v) BY <1>4
  <2> QED BY <1>1, <2>1 DEF IsNumberRun
<1> QED BY <1>5 DEF none

----------------------------------------------------------------------------
(* A body in chunks, one by one.                                             *)

\* The sum of the first sizes is what is held after them.
LEMMA SumOfFirst ==
  ASSUME NEW s \in Seq(Nat), NEW S \in [0 .. Len(s) -> Nat], IsSum(S, s), NEW k \in 0 .. Len(s)
  PROVE  Total(SubSeq(s, 1, k)) = S[k]
<1> DEFINE t == SubSeq(s, 1, k)
<1>1. Len(s) \in Nat /\ k \in Nat
  <2>1. Len(s) \in Nat BY LenProperties
  <2> QED BY <2>1
<1>2. t \in Seq(Nat) /\ Len(t) = k /\ \A i \in 1 .. k : t[i] = s[i] BY FirstIs
<1> HIDE DEF t
<1>3. PICK g \in [0 .. Len(t) -> Nat] : IsSum(g, t) BY <1>2, SumRun
<1>4. g[0] = 0 /\ g[k] = Total(t) /\ \A i \in 1 .. k : g[i] = g[i - 1] + s[i]
  <2>1. g[0] = 0 /\ g[k] = Total(t) /\ \A i \in 1 .. k : g[i] = g[i - 1] + t[i]
    BY <1>2, <1>3 DEF IsSum
  <2> QED BY <1>2, <2>1
<1>5. S[0] = 0 /\ \A i \in 1 .. k : S[i] = S[i - 1] + s[i]
  <2>1. \A i \in 1 .. k : i \in 1 .. Len(s) BY <1>1
  <2> QED BY <2>1 DEF IsSum
<1>6. Alike(g, S, k) BY <1>4, <1>5 DEF Alike
<1>7. g[k] = S[k] BY <1>1, <1>6, RunsAgree
<1> QED BY <1>4, <1>7 DEF t

\* A sum grows.
LEMMA SumGrows ==
  ASSUME NEW s \in Seq(Nat), NEW S \in [0 .. Len(s) -> Nat], IsSum(S, s)
  PROVE  \A k \in 0 .. Len(s) : S[k] <= S[Len(s)]
<1> DEFINE n == Len(s)
           T == {i \in 0 .. n : S[n - i] <= S[n]}
<1>1. n \in Nat /\ \A i \in 0 .. n : S[i] \in Nat
  <2>1. n \in Nat BY LenProperties
  <2> QED BY <2>1
<1>2. \A i \in 1 .. n : s[i] \in Nat /\ S[i] = S[i - 1] + s[i]
  <2>1. \A i \in 1 .. n : s[i] \in Nat BY ElementOfSeq
  <2> QED BY <2>1 DEF IsSum
<1> HIDE DEF n
<1>3. 0 \in T
  <2>1. n - 0 = n /\ n \in 0 .. n BY <1>1
  <2> QED BY <1>1, <2>1
<1>4. ASSUME NEW i \in 1 .. n, i - 1 \in T PROVE i \in T
  <2> DEFINE j == n - (i - 1)
  <2>1. j \in 1 .. n /\ j - 1 = n - i /\ j \in 0 .. n /\ j - 1 \in 0 .. n /\ i \in 0 .. n /\ n \in 0 .. n
    BY <1>1
  <2>2. S[j] <= S[n] BY <1>4
  <2> HIDE DEF j
  <2>3. S[j] = S[j - 1] + s[j] /\ s[j] \in Nat BY <1>2, <2>1
  <2>4. S[j - 1] <= S[n]
    <3>1. S[j] \in Nat /\ S[j - 1] \in Nat /\ S[n] \in Nat BY <1>1, <2>1
    <3> QED BY <2>2, <2>3, <3>1
  <2> QED BY <2>1, <2>4
<1>5. \A i \in 0 .. n : i \in T
  <2> HIDE DEF T
  <2> QED BY <1>1, <1>3, <1>4, UpTo
<1>6. ASSUME NEW k \in 0 .. n PROVE S[k] <= S[n]
  <2> DEFINE i == n - k
  <2>1. i \in 0 .. n /\ n - i = k BY <1>1
  <2>2. i \in T BY <1>5, <2>1
  <2> QED BY <2>1, <2>2
<1> QED BY <1>6 DEF n

\* A body in chunks of these sizes.
ChunksOf(sizes, body) ==
  LET before(k) == Total(SubSeq(sizes, 1, k - 1))
      chunk(k) == Digits(sizes[k], 16) \o Crlf \o SubSeq(body, before(k) + 1, before(k) + sizes[k]) \o Crlf
  IN FlattenSeq([k \in DOMAIN sizes |-> chunk(k)])

\* Some of a body.
LEMMA PartOfIn ==
  ASSUME NEW body \in Data, NEW a \in Nat, NEW b \in Nat, b <= Len(body)
  PROVE  SubSeq(body, a + 1, b) \in Data
<1>1. \A j \in 1 .. Len(body) : body[j] \in Byte BY ElementOfSeq DEF Data
<1>2. Len(body) \in Nat BY LenOf
<1>3. \A j \in a + 1 .. b : j \in 1 .. Len(body) BY <1>2
<1>4. \A j \in a + 1 .. b : body[j] \in Byte BY <1>1, <1>3
<1>5. a + 1 \in Int /\ b \in Int OBVIOUS
<1> QED BY <1>4, <1>5, SubSeqProperties DEF Data

\* The digits of a number are data.
LEMMA DigitsIn ==
  ASSUME NEW n \in Nat
  PROVE  Digits(n, 16) \in Data
<1>1. 16 \in {10, 16} OBVIOUS
<1>2. HasValue(Digits(n, 16), 16, n) BY <1>1, DigitsValue
<1> QED BY <1>2 DEF HasValue

\* Two triples of pieces that are data.
AreData(a, b, c, d, e, f) == a \in Data /\ b \in Data /\ c \in Data /\ d \in Data /\ e \in Data /\ f \in Data

\* Six pieces, joined from the left and from the right.
JoinedSix(a, b, c, d, e, f) ==
  ((((a \o b) \o c) \o d) \o e) \o f = a \o (b \o (c \o (d \o (e \o f))))

\* Where six pieces are joined first does not matter.
LEMMA JoinsSix ==
  ASSUME NEW a, NEW b, NEW c, NEW d, NEW e, NEW f, AreData(a, b, c, d, e, f)
  PROVE  JoinedSix(a, b, c, d, e, f)
<1> DEFINE x2 == a \o b
           x3 == x2 \o c
           x4 == x3 \o d
           y5 == e \o f
           y4 == d \o y5
           y3 == c \o y4
<1>1. x2 \in Data /\ y5 \in Data BY JoinIn DEF AreData
<1>2. x3 \in Data /\ y4 \in Data
  <2> HIDE DEF x2, y5
  <2> QED BY <1>1, JoinIn DEF AreData
<1>3. x4 \in Data /\ y3 \in Data
  <2> HIDE DEF x3, y4
  <2> QED BY <1>2, JoinIn DEF AreData
<1> HIDE DEF x2, x3, x4, y5, y4, y3
<1>4. (x4 \o e) \o f = x4 \o (e \o f)
  <2>1. x4 \in Data /\ e \in Data /\ f \in Data BY <1>3 DEF AreData
  <2> QED BY <2>1, Joins
<1>5. (x3 \o d) \o y5 = x3 \o (d \o y5)
  <2>1. x3 \in Data /\ d \in Data /\ y5 \in Data BY <1>1, <1>2 DEF AreData
  <2> QED BY <2>1, Joins
<1>6. (x2 \o c) \o y4 = x2 \o (c \o y4)
  <2>1. x2 \in Data /\ c \in Data /\ y4 \in Data BY <1>1, <1>2 DEF AreData
  <2> QED BY <2>1, Joins
<1>7. (a \o b) \o y3 = a \o (b \o y3)
  <2>1. a \in Data /\ b \in Data /\ y3 \in Data BY <1>3 DEF AreData
  <2> QED BY <2>1, Joins
<1>8. (x4 \o e) \o f = x4 \o y5 BY <1>4 DEF y5
<1>9. x4 \o y5 = x3 \o y4 BY <1>5 DEF x4, y4
<1>10. x3 \o y4 = x2 \o y3 BY <1>6 DEF x3, y3
<1>11. x2 \o y3 = a \o (b \o y3) BY <1>7 DEF x2
<1>12. (x4 \o e) \o f = a \o (b \o y3) BY <1>8, <1>9, <1>10, <1>11
<1> QED BY <1>12 DEF JoinedSix, x2, x3, x4, y5, y4, y3

\* Chunks and what is read of them, one by one.
LEMMA ChunkingExists ==
  ASSUME NEW sizes \in Seq(1 .. Wrap - 1), NEW body \in Data, Total(sizes) = Len(body), NEW last \in Data
  PROVE  /\ ChunksOf(sizes, body) \in Data
         /\ \E S, C : /\ IsChunking(Len(sizes), S, C, body, last)
                      /\ C[0] = ChunksOf(sizes, body) \o (Digits(0, 16) \o (Crlf \o last))
<1> DEFINE n == Len(sizes)
           before(k) == Total(SubSeq(sizes, 1, k - 1))
           chunk(k) == Digits(sizes[k], 16) \o Crlf
                         \o SubSeq(body, before(k) + 1, before(k) + sizes[k]) \o Crlf
           s == [k \in DOMAIN sizes |-> chunk(k)]
           end == Digits(0, 16) \o (Crlf \o last)
<1>1. ChunksOf(sizes, body) = FlattenSeq(s) BY DEF ChunksOf
<1>2. Wrap \in Nat /\ Wrap > 0 BY WrapAssumption
<1>3. sizes \in Seq(Nat)
  <2>1. 1 .. Wrap - 1 \subseteq Nat BY <1>2
  <2> QED BY <2>1, SeqMonotonic
<1>4. PICK S \in [0 .. Len(sizes) -> Nat] : IsSum(S, sizes) BY <1>3, SumRun
<1>5. n \in Nat /\ DOMAIN sizes = 1 .. n BY LenProperties
<1>6. S[0] = 0 /\ S[n] = Len(body) /\ \A k \in 1 .. n : S[k] = S[k - 1] + sizes[k] BY <1>4 DEF IsSum
<1>7. \A k \in 1 .. n : sizes[k] \in 1 .. Wrap - 1 BY ElementOfSeq
<1>8. \A k \in 0 .. n : S[k] \in Nat /\ S[k] <= Len(body) BY <1>3, <1>4, <1>6, SumGrows
<1>9. \A k \in 1 .. n : before(k) = S[k - 1]
  <2> SUFFICES ASSUME NEW k \in 1 .. n PROVE before(k) = S[k - 1]
    OBVIOUS
  <2> DEFINE i == k - 1
  <2>1. i \in 0 .. Len(sizes) BY <1>5
  <2> HIDE DEF i
  <2>2. Total(SubSeq(sizes, 1, i)) = S[i] BY <1>3, <1>4, <2>1, SumOfFirst
  <2> QED BY <2>2 DEF i
<1>10. end \in Data
  <2>1. Digits(0, 16) \in Data BY DigitsIn
  <2>2. Crlf \o last \in Data BY CrlfIs, JoinIn
  <2> QED BY <2>1, <2>2, JoinIn
<1> HIDE DEF before, end, n
<1> DEFINE part(k) == SubSeq(body, S[k - 1] + 1, S[k])
<1>11. \A k \in 1 .. n : /\ S[k] - S[k - 1] \in 1 .. Wrap - 1 /\ S[k] - S[k - 1] = sizes[k]
                         /\ S[k - 1] + sizes[k] = S[k] /\ S[k - 1] \in Nat /\ S[k] \in Nat
                         /\ S[k] <= Len(body) /\ sizes[k] \in Nat
  <2> SUFFICES ASSUME NEW k \in 1 .. n
               PROVE  /\ S[k] - S[k - 1] \in 1 .. Wrap - 1 /\ S[k] - S[k - 1] = sizes[k]
                      /\ S[k - 1] + sizes[k] = S[k] /\ S[k - 1] \in Nat /\ S[k] \in Nat
                      /\ S[k] <= Len(body) /\ sizes[k] \in Nat
    OBVIOUS
  <2> DEFINE x == S[k]
             y == S[k - 1]
             z == sizes[k]
  <2>1. k \in 0 .. n /\ k - 1 \in 0 .. n BY <1>5
  <2>2. x \in Nat /\ y \in Nat /\ x = y + z /\ z \in 1 .. Wrap - 1 /\ x <= Len(body)
    BY <1>6, <1>7, <1>8, <2>1
  <2> HIDE DEF x, y, z
  <2>3. x - y \in 1 .. Wrap - 1 /\ x - y = z /\ y + z = x /\ z \in Nat BY <1>2, <2>2
  <2> QED BY <2>2, <2>3 DEF x, y, z
<1>12. \A k \in 1 .. n : s[k] = Digits(sizes[k], 16) \o Crlf \o part(k) \o Crlf
  BY <1>5, <1>9, <1>11
<1>13. \A k \in 1 .. n : part(k) \in Data /\ Digits(sizes[k], 16) \in Data
  <2> SUFFICES ASSUME NEW k \in 1 .. n PROVE part(k) \in Data /\ Digits(sizes[k], 16) \in Data
    OBVIOUS
  <2> DEFINE x == S[k]
             y == S[k - 1]
  <2>1. x \in Nat /\ y \in Nat /\ x <= Len(body) BY <1>11
  <2> HIDE DEF x, y
  <2>2. SubSeq(body, y + 1, x) \in Data BY <2>1, PartOfIn
  <2>3. Digits(sizes[k], 16) \in Data BY <1>11, DigitsIn
  <2> QED BY <2>2, <2>3 DEF x, y
<1> HIDE DEF part
<1>14. \A k \in 1 .. n : s[k] \in Data
  <2> SUFFICES ASSUME NEW k \in 1 .. n PROVE s[k] \in Data
    OBVIOUS
  <2> DEFINE d == Digits(sizes[k], 16)
             p == part(k)
  <2>1. d \in Data /\ p \in Data /\ Crlf \in Data BY <1>13, CrlfIs
  <2>2. s[k] = ((d \o Crlf) \o p) \o Crlf BY <1>12
  <2> HIDE DEF d, p, s
  <2>3. d \o Crlf \in Data BY <2>1, JoinIn
  <2>4. (d \o Crlf) \o p \in Data BY <2>1, <2>3, JoinIn
  <2> QED BY <2>1, <2>2, <2>4, JoinIn
<1>15. s \in [1 .. n -> Data] BY <1>5, <1>14
<1> HIDE DEF s
<1>16. s \in Seq(Data) /\ Len(s) = n BY <1>5, <1>15, DataSeq
<1>17. FlattenSeq(s) \in Data BY <1>16, FlattenIn
<1>18. PICK Q \in [0 .. Len(s) -> Data] :
         IsRest(Q, s) /\ \A k \in 0 .. Len(s) : FlattenSeq(SubSeq(s, 1, k)) \o Q[k] = Q[0]
  BY <1>16, RestExists
<1>19. /\ Q \in [0 .. n -> Data] /\ Q[0] = FlattenSeq(s) /\ Q[n] = <<>>
       /\ \A k \in 1 .. n : Q[k - 1] = s[k] \o Q[k]
  BY <1>16, <1>18 DEF IsRest
<1> DEFINE C == [k \in 0 .. n |-> Q[k] \o end]
<1>20. C \in [0 .. n -> Data] BY <1>10, <1>19, JoinIn
<1>21. C[n] = end /\ C[0] = FlattenSeq(s) \o end
  <2>1. n \in 0 .. n /\ 0 \in 0 .. n BY <1>5
  <2>2. <<>> \o end = end BY <1>10, NoneIn
  <2> QED BY <1>19, <2>1, <2>2
<1>22. ASSUME NEW k \in 1 .. n
       PROVE  C[k - 1] = Digits(S[k] - S[k - 1], 16) \o (Crlf \o (part(k) \o (Crlf \o C[k])))
  <2> DEFINE d == Digits(sizes[k], 16)
             p == part(k)
             q == Q[k]
             crlf == Crlf
  <2>1. k \in 0 .. n /\ k - 1 \in 0 .. n BY <1>5
  <2>2. d \in Data /\ p \in Data /\ q \in Data /\ crlf \in Data BY <1>13, <1>19, <2>1, CrlfIs
  <2>3. C[k - 1] = (((d \o crlf) \o p) \o crlf) \o q \o end /\ C[k] = q \o end
    BY <1>12, <1>19, <2>1
  <2>4. S[k] - S[k - 1] = sizes[k] BY <1>11
  <2> HIDE DEF d, p, q, C, crlf
  <2>5. ((((d \o crlf) \o p) \o crlf) \o q) \o end = d \o (crlf \o (p \o (crlf \o (q \o end))))
    <3>1. AreData(d, crlf, p, crlf, q, end) BY <1>10, <2>2 DEF AreData
    <3>2. JoinedSix(d, crlf, p, crlf, q, end) BY <3>1, JoinsSix
    <3> QED BY <3>2 DEF JoinedSix
  <2>6. C[k - 1] = d \o (crlf \o (p \o (crlf \o C[k]))) BY <2>3, <2>5
  <2> QED BY <2>4, <2>6 DEF d, p, crlf
<1> HIDE DEF C
<1>23. IsChunking(n, S, C, body, last)
  <2>1. S \in [0 .. n -> 0 .. Len(body)]
    <3>1. Len(body) \in Nat BY LenOf
    <3>2. \A k \in 0 .. n : S[k] \in 0 .. Len(body) BY <1>8, <3>1
    <3>3. S \in [0 .. n -> Nat] BY <1>4 DEF n
    <3> QED BY <3>2, <3>3
  <2>2. C[n] = Digits(0, 16) \o (Crlf \o last) BY <1>21 DEF end
  <2>3. \A k \in 1 .. n : S[k] - S[k - 1] \in 1 .. Wrap - 1 BY <1>11
  <2>4. \A k \in 1 .. n : C[k - 1] = Digits(S[k] - S[k - 1], 16)
                            \o (Crlf \o (SubSeq(body, S[k - 1] + 1, S[k]) \o (Crlf \o C[k])))
    BY <1>22 DEF part
  <2> QED BY <1>5, <1>6, <1>20, <2>1, <2>2, <2>3, <2>4 DEF IsChunking
<1>24. C[0] = ChunksOf(sizes, body) \o (Digits(0, 16) \o (Crlf \o last)) BY <1>1, <1>21 DEF end
<1> QED BY <1>1, <1>17, <1>23, <1>24 DEF n

----------------------------------------------------------------------------
(* What a client sends.                                                      *)

\* what is sent of a request
IsRequest(r) ==
  /\ r.line \in Data /\ IsLine(r.line) /\ decodeRequestStartLine(r.line) = r.request
  /\ r.headers \in Seq(Data) /\ \A i \in 1 .. Len(r.headers) : IsLine(r.headers[i])
  /\ r.trailer \in Seq(Data) /\ \A i \in 1 .. Len(r.trailer) : IsLine(r.trailer[i])
  /\ r.eol \in Eols /\ r.sizes \in Seq(1 .. Wrap - 1) /\ r.body \in Data
  /\ Framed(r) /\ Filled(r)

\* What clients send are requests.
LEMMA SentIs ==
  ASSUME NEW s \in Sent
  PROVE  s \in Seq(Request) /\ \A k \in 1 .. Len(s) : IsRequest(s[k])
<1>1. s \in Seq(Request) BY SentAssumption
<1>2. DOMAIN s = 1 .. Len(s) BY <1>1, LenProperties
<1>3. ASSUME NEW k \in 1 .. Len(s) PROVE IsRequest(s[k])
  <2> DEFINE r == s[k]
  <2>1. r \in Request BY <1>1, ElementOfSeq
  <2>2. /\ IsLine(r.line) /\ decodeRequestStartLine(r.line) = r.request
        /\ \A i \in DOMAIN r.headers : IsLine(r.headers[i])
        /\ \A i \in DOMAIN r.trailer : IsLine(r.trailer[i])
        /\ Framed(r) /\ Filled(r)
    BY <1>2, SentAssumption
  <2> HIDE DEF r
  <2>3. /\ r.line \in Seq(STRING) /\ r.headers \in Seq(Seq(STRING)) /\ r.trailer \in Seq(Seq(STRING))
        /\ r.eol \in {<<"lf">>, Crlf} /\ r.sizes \in Seq(1 .. Wrap - 1) /\ r.body \in Seq(STRING)
    BY <2>1 DEF Request
  <2>4. r.line \in Data /\ r.headers \in Seq(Data) /\ r.trailer \in Seq(Data) /\ r.body \in Data
    BY <2>3, TextIn
  <2>5. DOMAIN r.headers = 1 .. Len(r.headers) /\ DOMAIN r.trailer = 1 .. Len(r.trailer)
    BY <2>3, LenProperties
  <2>6. r.eol \in Eols BY <2>3 DEF Eols
  <2>7. IsRequest(r) BY <2>2, <2>3, <2>4, <2>5, <2>6 DEF IsRequest
  <2> QED BY <2>7 DEF r
<1> QED BY <1>1, <1>3

\* The line with the length, if there is one.
LEMMA LengthLineIn ==
  ASSUME NEW r, IsRequest(r)
  PROVE  /\ LengthLine(r) \in Seq(Data)
         /\ \/ LengthLine(r) = <<>> /\ (r.body = <<>> \/ r.sizes # <<>>)
            \/ LengthLine(r) = <<LengthIs(Len(r.body))>> /\ r.body # <<>> /\ r.sizes = <<>>
<1> DEFINE l == LengthIs(Len(r.body))
<1>1. Len(r.body) \in Nat BY LenOf DEF IsRequest
<1>2. l \in Data BY <1>1, LengthLineIs
<1>3. IF r.body = <<>> \/ r.sizes # <<>> THEN LengthLine(r) = <<>> ELSE LengthLine(r) = <<l>>
  BY DEF LengthLine, LengthIs
<1> HIDE DEF l
<1>4. <<l>> \in Seq(Data) BY <1>2, OneByte
<1>5. <<>> \in Seq(Data) BY EmptySeq
<1> QED BY <1>3, <1>4, <1>5 DEF l

\* the lines of a head, and what is behind it
HeadLines(r) == <<r.line>> \o (r.headers \o LengthLine(r))
BodyOf(r) == IF r.sizes = <<>> THEN r.body ELSE Chunks(r)

\* The lines of a head.
LEMMA HeadLinesAre ==
  ASSUME NEW r, IsRequest(r)
  PROVE  /\ HeadLines(r) \in Seq(Data) /\ r.headers \o LengthLine(r) \in Seq(Data)
         /\ Len(HeadLines(r)) > 0
         /\ \A i \in 1 .. Len(HeadLines(r)) : IsLine(HeadLines(r)[i])
         /\ Bytes(r) = Lines(HeadLines(r) \o EmptyLine, r.eol) \o BodyOf(r)
<1> DEFINE one == <<r.line>>
           all == LengthLine(r)
           hs == r.headers
<1>1. r.line \in Data /\ hs \in Seq(Data) BY DEF IsRequest
<1>2. one \in Seq(Data) /\ Len(one) = 1 /\ one[1] = r.line BY <1>1, OneByte
<1>3. all \in Seq(Data) BY LengthLineIn
<1>4. \A i \in 1 .. Len(all) : IsLine(all[i])
  <2> DEFINE l == LengthIs(Len(r.body))
  <2>1. Len(r.body) \in Nat BY LenOf DEF IsRequest
  <2>2. l \in Data /\ IsLine(l) BY <2>1, LengthLineIs
  <2>3. CASE all = <<>>
    <3>1. Len(all) = 0 BY <2>3, EmptySeq
    <3> QED BY <3>1
  <2>4. CASE all = <<l>>
    <3> HIDE DEF l
    <3>1. Len(<<l>>) = 1 /\ <<l>>[1] = l BY <2>2, OneByte
    <3>2. Len(all) = 1 /\ all[1] = l BY <2>4, <3>1
    <3> HIDE DEF all
    <3> QED BY <2>2, <3>2
  <2> QED BY <2>3, <2>4, LengthLineIn
<1>5. \A i \in 1 .. Len(hs) : IsLine(hs[i]) BY DEF IsRequest
<1>6. IsLine(r.line) BY DEF IsRequest
<1>7. Bytes(r) = Lines(((one \o hs) \o all) \o EmptyLine, r.eol) \o BodyOf(r)
  BY DEF Bytes, EmptyLine, BodyOf
<1>8. HeadLines(r) = one \o (hs \o all) BY DEF HeadLines
<1> HIDE DEF one, all, hs
<1> DEFINE b == hs \o all
<1>9. b \in Seq(Data) /\ Len(b) = Len(hs) + Len(all) /\ Len(hs) \in Nat /\ Len(all) \in Nat
      /\ \A i \in 1 .. Len(b) : b[i] = IF i <= Len(hs) THEN hs[i] ELSE all[i - Len(hs)]
  <2>1. Len(hs) \in Nat /\ Len(all) \in Nat BY <1>1, <1>3, LenProperties
  <2> QED BY <1>1, <1>3, <2>1, ConcatProperties
<1>10. ASSUME NEW i \in 1 .. Len(b) PROVE IsLine(b[i])
  <2>1. CASE i <= Len(hs)
    <3>1. i \in 1 .. Len(hs) BY <1>9, <2>1
    <3> QED BY <1>5, <1>9, <2>1, <3>1
  <2>2. CASE i > Len(hs)
    <3> DEFINE j == i - Len(hs)
    <3>1. j \in 1 .. Len(all) /\ ~(i <= Len(hs)) BY <1>9, <2>2
    <3>2. b[i] = all[j] BY <1>9, <3>1
    <3> HIDE DEF j
    <3> QED BY <1>4, <3>1, <3>2
  <2> QED BY <1>9, <2>1, <2>2
<1>11. one \o (hs \o all) = (one \o hs) \o all
  BY <1>1, <1>2, <1>3, ConcatAssociative
<1>12. Bytes(r) = Lines(HeadLines(r) \o EmptyLine, r.eol) \o BodyOf(r)
  BY <1>7, <1>8, <1>11
<1>13. hs \o all \in Seq(Data) BY <1>9
<1> HIDE DEF b
<1> DEFINE h == one \o b
<1>14. h \in Seq(Data) /\ Len(h) = 1 + Len(b) /\ Len(b) \in Nat
      /\ \A i \in 1 .. Len(h) : h[i] = IF i <= 1 THEN one[i] ELSE b[i - 1]
  <2>1. Len(b) \in Nat BY <1>9, LenProperties
  <2>2. /\ h \in Seq(Data) /\ Len(h) = Len(one) + Len(b)
        /\ \A i \in 1 .. Len(one) + Len(b) : h[i] = IF i <= Len(one) THEN one[i] ELSE b[i - Len(one)]
    <3>1. one \in Seq(Data) /\ b \in Seq(Data) BY <1>2, <1>9
    <3> QED BY <3>1, ConcatProperties
  <2> HIDE DEF h
  <2> QED BY <1>2, <2>1, <2>2
<1>15. ASSUME NEW i \in 1 .. Len(h) PROVE IsLine(h[i])
  <2>1. CASE i <= 1
    <3>1. i = 1 BY <1>14, <2>1
    <3> QED BY <1>2, <1>6, <1>14, <3>1
  <2>2. CASE i > 1
    <3> DEFINE j == i - 1
    <3>1. j \in 1 .. Len(b) /\ ~(i <= 1) BY <1>14, <2>2
    <3>2. h[i] = b[j] BY <1>14, <3>1
    <3> HIDE DEF j
    <3> QED BY <1>10, <3>1, <3>2
  <2> QED BY <1>14, <2>1, <2>2
<1>16. HeadLines(r) = h BY <1>8 DEF b
<1>17. Len(h) > 0 BY <1>14
<1> HIDE DEF h
<1>18. r.headers \o LengthLine(r) \in Seq(Data) BY <1>13 DEF hs, all
<1> QED BY <1>12, <1>14, <1>15, <1>16, <1>17, <1>18

----------------------------------------------------------------------------
(* Heads, chunks and trailers of a request, and what is left behind each.    *)

\* H and R: the header and what is sent behind its lines, when the head of r is read
IsHeadPlan(r, later, H, R) ==
  LET n == Len(HeadLines(r))
  IN /\ IsHead(n, HeadLines(r), r.eol, BodyOf(r) \o later, H, R)
     /\ H[0] = reqhdr_new /\ R[0] = Bytes(r) \o later
     /\ H[n].request = r.request /\ H[n].lines = HeaderOf(r)

\* the same of the chunks of a body: S[k] bytes are in the first k, and C[k] is sent behind them
IsChunkPlan(r, later, S, C) ==
  /\ IsChunking(Len(r.sizes), S, C, r.body, Lines(r.trailer \o EmptyLine, r.eol) \o later)
  /\ C[0] = Chunks(r) \o later

\* the header of r, with these lines
HasHeader(hdr, r, lines) ==
  hdr \in Header /\ hdr.started /\ hdr.request = r.request /\ hdr.lines = lines

\* and of the lines of the trailer
IsTrailerPlan(r, later, H, R) ==
  LET n == Len(r.trailer)
  IN /\ IsHead(n, r.trailer, r.eol, later, H, R)
     /\ R[0] = Lines(r.trailer \o EmptyLine, r.eol) \o later
     /\ HasHeader(H[n], r, HeaderOf(r) \o Kept(r.trailer))

\* The first digit.
LEMMA ZeroIs == <<"0">> = Digits(0, 16)
<1> DEFINE Fun(f) == [k \in 0 .. 0 |-> IF k < 16 THEN <<DigitList[k + 1]>>
                                       ELSE Append(f[k \div 16], DigitList[(k % 16) + 1])]
           h == CHOOSE h : h = Fun(h)
<1>1. Digits(0, 16) = h[0] BY DEF Digits
<1>2. \E f : f = Fun(f)
  <2>1. 0 \in Nat /\ 16 \in {10, 16} OBVIOUS
  <2> QED BY <2>1, DigitsExist
<1>3. h = Fun(h)
  <2> HIDE DEF Fun
  <2> QED BY <1>2
<1>4. h[0] = <<DigitList[0 + 1]>>
  <2> HIDE DEF h
  <2>1. 0 \in 0 .. 0 /\ 0 < 16 OBVIOUS
  <2> QED BY <1>3, <2>1
<1> HIDE DEF h, Fun
<1>5. DigitList[1] = "0" BY DEF DigitList
<1> QED BY <1>1, <1>4, <1>5

\* The chunks of a request and what is behind them.
LEMMA ChunksAre ==
  ASSUME NEW r, IsRequest(r), r.sizes # <<>>, NEW later \in Data
  PROVE  LET last == Lines(r.trailer \o EmptyLine, r.eol) \o later
         IN /\ last \in Data /\ Chunks(r) \in Data
            /\ Chunks(r) \o later = ChunksOf(r.sizes, r.body) \o (Digits(0, 16) \o (Crlf \o last))
<1> DEFINE a == ChunksOf(r.sizes, r.body)
           z == Digits(0, 16)
           l == Lines(r.trailer, r.eol)
           t == Lines(r.trailer \o EmptyLine, r.eol)
           eol == r.eol
           crlf == Crlf
<1>1. Chunks(r) = (((a \o z) \o crlf) \o l) \o eol
  BY ZeroIs DEF Chunks, ChunksOf
<1>2. Total(r.sizes) = Len(r.body) BY DEF IsRequest, Framed
<1>3. r.sizes \in Seq(1 .. Wrap - 1) /\ r.body \in Data /\ r.trailer \in Seq(Data) /\ r.eol \in Eols
  BY DEF IsRequest
<1>4. a \in Data BY <1>2, <1>3, NoneIn, ChunkingExists
<1>5. t = l \o eol BY <1>3, LinesEnd
<1>6. l \in Data /\ eol \in Data /\ z \in Data /\ crlf \in Data
  BY <1>3, LinesIn, EolIs, NoneIn, DigitsIn, CrlfIs
<1> HIDE DEF a, z, l, t, eol, crlf
<1>7. JoinedSix(a, z, crlf, l, eol, later)
  <2>1. AreData(a, z, crlf, l, eol, later) BY <1>4, <1>6 DEF AreData
  <2> QED BY <2>1, JoinsSix
<1>8. (l \o eol) \o later = l \o (eol \o later)
  <2>1. l \in Data /\ eol \in Data /\ later \in Data BY <1>6
  <2> QED BY <2>1, Joins
<1>9. t \o later = l \o (eol \o later) BY <1>5, <1>8
<1>10. Chunks(r) \o later = a \o (z \o (crlf \o (t \o later)))
  <2> DEFINE w == l \o (eol \o later)
  <2>1. ((((a \o z) \o crlf) \o l) \o eol) \o later = a \o (z \o (crlf \o w)) BY <1>7 DEF JoinedSix
  <2>2. t \o later = w BY <1>9
  <2> HIDE DEF w
  <2> QED BY <1>1, <2>1, <2>2
<1>11. Chunks(r) \in Data
  <2> DEFINE b == a \o z
             c == b \o crlf
             d == c \o l
  <2>1. b \in Data BY <1>4, <1>6, JoinIn
  <2> HIDE DEF b
  <2>2. c \in Data BY <1>6, <2>1, JoinIn
  <2> HIDE DEF c
  <2>3. d \in Data BY <1>6, <2>2, JoinIn
  <2> HIDE DEF d
  <2>4. Chunks(r) = d \o eol BY <1>1 DEF b, c, d
  <2> QED BY <1>6, <2>3, <2>4, JoinIn
<1>12. t \o later \in Data
  <2>1. t \in Data BY <1>5, <1>6, JoinIn
  <2> QED BY <2>1, JoinIn
<1> QED BY <1>10, <1>11, <1>12 DEF a, z, t, crlf

\* The chunks of a request, one by one.
LEMMA ChunkPlanExists ==
  ASSUME NEW r, IsRequest(r), r.sizes # <<>>, NEW later \in Data
  PROVE  \E S, C : IsChunkPlan(r, later, S, C)
<1> DEFINE last == Lines(r.trailer \o EmptyLine, r.eol) \o later
<1>1. last \in Data /\ Chunks(r) \o later = ChunksOf(r.sizes, r.body) \o (Digits(0, 16) \o (Crlf \o last))
  BY ChunksAre
<1>2. r.sizes \in Seq(1 .. Wrap - 1) /\ r.body \in Data /\ Total(r.sizes) = Len(r.body)
  BY DEF IsRequest, Framed
<1>3. \E S, C : /\ IsChunking(Len(r.sizes), S, C, r.body, last)
                /\ C[0] = ChunksOf(r.sizes, r.body) \o (Digits(0, 16) \o (Crlf \o last))
  <2> HIDE DEF last
  <2> QED BY <1>1, <1>2, ChunkingExists
<1>4. PICK S, C : /\ IsChunking(Len(r.sizes), S, C, r.body, last)
                  /\ C[0] = ChunksOf(r.sizes, r.body) \o (Digits(0, 16) \o (Crlf \o last))
  BY <1>3
<1>5. IsChunkPlan(r, later, S, C) BY <1>1, <1>4 DEF IsChunkPlan
<1> QED BY <1>5

\* What is sent is data.
LEMMA BytesIn ==
  ASSUME NEW r, IsRequest(r)
  PROVE  BodyOf(r) \in Data /\ Bytes(r) \in Data
<1>1. BodyOf(r) \in Data
  <2>1. CASE r.sizes = <<>> BY <2>1 DEF BodyOf, IsRequest
  <2>2. CASE r.sizes # <<>>
    <3>1. Chunks(r) \in Data BY <2>2, NoneIn, ChunksAre
    <3> QED BY <2>2, <3>1 DEF BodyOf
  <2> QED BY <2>1, <2>2
<1> DEFINE all == HeadLines(r) \o EmptyLine
           l == Lines(all, r.eol)
<1>2. HeadLines(r) \in Seq(Data) /\ Bytes(r) = l \o BodyOf(r) BY HeadLinesAre
<1>3. all \in Seq(Data) BY <1>2, EmptyLineIs, ConcatProperties
<1>4. l \in Data
  <2>1. r.eol \in Eols BY DEF IsRequest
  <2> HIDE DEF all
  <2> QED BY <1>3, <2>1, LinesIn
<1> HIDE DEF l
<1> QED BY <1>1, <1>2, <1>4, JoinIn

\* The head of a request, line by line.
LEMMA HeadPlanExists ==
  ASSUME NEW r, IsRequest(r), NEW later \in Data
  PROVE  \E H, R : IsHeadPlan(r, later, H, R)
<1> DEFINE ls == HeadLines(r)
           n == Len(ls)
           others == r.headers \o LengthLine(r)
           tail == BodyOf(r) \o later
           l == Lines(ls \o EmptyLine, r.eol)
<1>1. /\ ls \in Seq(Data) /\ others \in Seq(Data) /\ n > 0 /\ Bytes(r) = l \o BodyOf(r)
      /\ \A i \in 1 .. n : IsLine(ls[i])
  BY HeadLinesAre
<1>2. r.eol \in Eols /\ r.line \in Data /\ decodeRequestStartLine(r.line) = r.request BY DEF IsRequest
<1>3. BodyOf(r) \in Data /\ Bytes(r) \in Data BY BytesIn
<1>4. tail \in Data BY <1>3, JoinIn
<1>5. reqhdr_new \in Header /\ reqhdr_new.cur = <<>> BY NewHeaders DEF reqhdr_new, datahdr_new
<1>6. ls = <<r.line>> \o others BY DEF HeadLines
<1>7. ls \o EmptyLine \in Seq(Data) BY <1>1, EmptyLineIs, ConcatProperties
<1>8. l \in Data
  <2> DEFINE all == ls \o EmptyLine
  <2>1. all \in Seq(Data) BY <1>7
  <2> HIDE DEF all
  <2>2. Lines(all, r.eol) \in Data BY <1>2, <2>1, LinesIn
  <2> QED BY <2>2 DEF all
<1>9. PICK H, R : IsHead(n, ls, r.eol, tail, H, R) /\ H[0] = reqhdr_new /\ R[0] = l \o tail
  <2> HIDE DEF ls, tail
  <2>1. n > 0 /\ ls \in Seq(Data) /\ \A i \in 1 .. Len(ls) : IsLine(ls[i]) BY <1>1
  <2> DEFINE h0 == reqhdr_new
  <2>2. h0 \in Header /\ h0.cur = <<>> BY <1>5
  <2>3. h0.started \/ Len(ls) > 0 BY <2>1
  <2> DEFINE eol == r.eol
  <2>4. eol \in Eols BY <1>2
  <2> HIDE DEF h0, eol, l
  <2>5. \E H, R : /\ IsHead(Len(ls), ls, eol, tail, H, R) /\ H[0] = h0
                  /\ R[0] = Lines(ls \o EmptyLine, eol) \o tail
    BY <1>4, <2>1, <2>2, <2>3, <2>4, HeadExists
  <2> QED BY <2>5 DEF h0, eol, l
<1>10. l \o tail = Bytes(r) \o later
  <2> DEFINE b == BodyOf(r)
  <2>1. b \in Data /\ tail = b \o later BY <1>3
  <2> HIDE DEF b, l, tail
  <2>2. (l \o b) \o later = l \o (b \o later) BY <1>8, <2>1, Joins
  <2>3. Bytes(r) = l \o b BY <1>1 DEF b
  <2> QED BY <2>1, <2>2, <2>3
<1>11. H[n].request = decodeRequestStartLine(r.line) /\ H[n].lines = Kept(others)
  <2> DEFINE eol == r.eol
             line == r.line
  <2>1. IsHead(Len(ls), ls, eol, tail, H, R) /\ H[0] = reqhdr_new BY <1>9
  <2>2. line \in Data /\ AreLines(ls, line, others) BY <1>2, <1>6 DEF AreLines
  <2>3. ls \in Seq(Data) /\ others \in Seq(Data) BY <1>1
  <2> HIDE DEF ls, tail, others, eol, line, l
  <2>4. H[Len(ls)].request = decodeRequestStartLine(line) /\ H[Len(ls)].lines = Kept(others)
    BY <2>1, <2>2, <2>3, HeadHas
  <2> QED BY <2>4 DEF line
<1>12. H[n].lines = HeaderOf(r) BY <1>11 DEF HeaderOf
<1>13. R[0] = Bytes(r) \o later BY <1>9, <1>10
<1>14. H[n].request = r.request BY <1>2, <1>11
<1> HIDE DEF l
<1>15. IsHeadPlan(r, later, H, R) BY <1>9, <1>12, <1>13, <1>14 DEF IsHeadPlan
<1> QED BY <1>15

\* The trailer of a request, line by line.
LEMMA TrailerPlanExists ==
  ASSUME NEW r, IsRequest(r), NEW later \in Data, NEW hdr, HasHeader(hdr, r, HeaderOf(r)), hdr.cur = <<>>
  PROVE  \E H, R : IsTrailerPlan(r, later, H, R) /\ H[0] = hdr
<1> DEFINE ls == r.trailer
           n == Len(ls)
<1>1. ls \in Seq(Data) /\ r.eol \in Eols /\ \A i \in 1 .. n : IsLine(ls[i]) BY DEF IsRequest
<1>2. hdr \in Header /\ hdr.started BY DEF HasHeader
<1>3. PICK H, R : /\ IsHead(n, ls, r.eol, later, H, R) /\ H[0] = hdr
                  /\ R[0] = Lines(ls \o EmptyLine, r.eol) \o later
  <2> HIDE DEF ls
  <2> QED BY <1>1, <1>2, HeadExists
<1>4. H[n].request = hdr.request /\ H[n].lines = hdr.lines \o Kept(ls)
  <2> HIDE DEF ls
  <2>1. H[0].started BY <1>2, <1>3
  <2>2. IsHead(Len(ls), ls, r.eol, later, H, R) BY <1>3
  <2>3. H[n].request = H[0].request /\ H[n].lines = H[0].lines \o Kept(ls) BY <1>1, <2>1, <2>2, HeadKeeps
  <2> QED BY <1>3, <2>3
<1>5. H[n] \in Header /\ H[n].started
  <2>1. n \in Nat /\ H \in [0 .. n -> Header] /\ H[n].started BY <1>3 DEF IsHead
  <2>2. n \in 0 .. n BY <2>1
  <2> QED BY <2>1, <2>2
<1>6. HasHeader(H[n], r, HeaderOf(r) \o Kept(ls)) BY <1>4, <1>5 DEF HasHeader
<1>7. IsTrailerPlan(r, later, H, R) BY <1>3, <1>6 DEF IsTrailerPlan
<1> QED BY <1>3, <1>7

\* What the header says of the body.
LEMMA HeaderSays ==
  ASSUME NEW r, IsRequest(r), NEW hdr, HasHeader(hdr, r, HeaderOf(r))
  PROVE  /\ isChunkedTransferEncoding(hdr) <=> r.sizes # <<>>
         /\ r.sizes = <<>> => Number(LengthOf(hdr), 10) = Len(r.body)
<1> DEFINE h == [reqhdr_new EXCEPT !.lines = HeaderOf(r)]
<1>1. hdr.lines = HeaderOf(r) BY DEF HasHeader
<1>2. h.lines = HeaderOf(r) BY DEF reqhdr_new, datahdr_new
<1>3. isChunkedTransferEncoding(h) <=> r.sizes # <<>> BY DEF IsRequest, Framed
<1> HIDE DEF h
<1>4. getHeaderVal(hdr, "Transfer-Encoding") = getHeaderVal(h, "Transfer-Encoding")
  BY <1>1, <1>2 DEF getHeaderVal
<1>5. isChunkedTransferEncoding(hdr) <=> isChunkedTransferEncoding(h)
  BY <1>4 DEF isChunkedTransferEncoding
<1>6. ASSUME r.sizes = <<>> PROVE Number(LengthOf(hdr), 10) = Len(r.body)
  <2> DEFINE hs == r.headers
             l == LengthIs(Len(r.body))
  <2>1. hs \in Seq(Data) /\ r.body \in Data BY DEF IsRequest
  <2>2. \A i \in 1 .. Len(hs) : hs[i] \in Others
    <3>1. \A i \in DOMAIN hs : NameOf(hs[i]) # LengthName BY <1>6 DEF IsRequest, Framed, LengthName
    <3>2. DOMAIN hs = 1 .. Len(hs) BY <2>1, LenProperties
    <3>3. \A i \in 1 .. Len(hs) : hs[i] \in Data BY <2>1, ElementOfSeq
    <3> QED BY <3>1, <3>2, <3>3 DEF Others
  <2>3. hs \in Seq(Others)
    <3>1. Len(hs) \in Nat /\ hs \in [1 .. Len(hs) -> Data] BY <2>1, LenProperties
    <3>2. hs \in [1 .. Len(hs) -> Others] BY <2>2, <3>1
    <3> QED BY <3>1, <3>2, SeqDef
  <2>4. Others \subseteq Data BY DEF Others
  <2>5. Kept(hs) \in Seq(Others) BY <2>3, <2>4, KeptIn
  <2>6. HeaderOf(r) = Kept(hs \o LengthLine(r)) BY DEF HeaderOf
  <2>7. Len(r.body) \in Nat BY <2>1, LenOf
  <2>8. /\ l \in Data /\ "colon" \in ToSet(l) /\ NameOf(l) = LengthName
        /\ Number(skipLeadingWS(dch_shiftAfterChr(l, "colon")), 10) = Len(r.body)
    BY <2>7, LengthLineIs
  <2>9. \/ LengthLine(r) = <<>> /\ r.body = <<>>
        \/ LengthLine(r) = <<l>>
    BY <1>6, LengthLineIn
  <2> HIDE DEF hs, l
  <2>10. CASE LengthLine(r) = <<>> /\ r.body = <<>>
    <3>1. hs \o <<>> = hs BY <2>1, ConcatEmptySeq
    <3>2. hdr.lines \in Seq(Others) BY <1>1, <2>5, <2>6, <2>10, <3>1
    <3>3. LengthOf(hdr) = <<>> BY <3>2, NoLength
    <3>4. Len(r.body) = 0 BY <2>1, <2>10, LenOf
    <3> QED BY <3>3, <3>4, NoNumber
  <2>11. CASE LengthLine(r) = <<l>>
    <3>1. Kept(hs \o <<l>>) = Append(Kept(hs), l) BY <2>1, <2>8, KeptLast
    <3>2. hdr.lines = Append(Kept(hs), l) BY <1>1, <2>6, <2>11, <3>1
    <3>3. LengthOf(hdr) = skipLeadingWS(dch_shiftAfterChr(l, "colon")) BY <2>5, <2>8, <3>2, LastLength
    <3> QED BY <2>8, <3>3
  <2> QED BY <2>9, <2>10, <2>11
<1> QED BY <1>3, <1>5, <1>6

----------------------------------------------------------------------------
(* Where a request is read, and that each part of appendData goes on from there. *)

\* Where a request is read, and what is left of it and behind it: in its head,
InHead(c, left, r, later) ==
  /\ c.rrs \in {"RRS_IDLE", "RRS_READ_HEAD"}
  /\ \E H, R : /\ IsHeadPlan(r, later, H, R)
               /\ \E j \in 0 .. Len(HeadLines(r)) : AtLine(HeadSoFar(c), j, left, H, R)

\* in its body,
InBody(c, left, r, later) ==
  /\ c.rrs = "RRS_READ_BODY" /\ HasHeader(c.header, r, HeaderOf(r)) /\ c.header.cur = <<>>
  /\ IF r.sizes = <<>> THEN TakesAll(c, left, r.body, later)
     ELSE \E S, C : /\ IsChunkPlan(r, later, S, C)
                    /\ TakesChunks(c, left, Len(r.sizes), S, C, r.body,
                                   Lines(r.trailer \o EmptyLine, r.eol) \o later)

\* in the trailer,
InTrailer(c, left, r, later) ==
  /\ c.rrs = "RRS_READ_TRAILER" /\ c.body = r.body /\ r.sizes # <<>>
  /\ \E H, R : /\ IsTrailerPlan(r, later, H, R)
               /\ \E j \in 0 .. Len(r.trailer) : AtLine(c.header, j, left, H, R)

LinesOf(r) == IF r.sizes = <<>> THEN HeaderOf(r) ELSE HeaderOf(r) \o Kept(r.trailer)

\* or behind it.
IsRead(c, left, r, later) ==
  c.rrs = "RRS_READ_FINISHED" /\ c.body = r.body /\ left = later /\ HasHeader(c.header, r, LinesOf(r))

InRequest(c, left, r, later) ==
  InHead(c, left, r, later) \/ InBody(c, left, r, later) \/ InTrailer(c, left, r, later)
    \/ IsRead(c, left, r, later)

\* The header behind the last line of a head.
LEMMA HeadEnds ==
  ASSUME NEW n, NEW ls, NEW eol, NEW tail, NEW H, NEW R, IsHead(n, ls, eol, tail, H, R)
  PROVE  H[n] \in Header /\ H[n].started /\ H[n].cur = <<>>
<1>1. /\ n \in Nat /\ H \in [0 .. n -> Header] /\ H[0].cur = <<>> /\ H[n].started
      /\ ls \in [1 .. n -> Data]
  BY DEF IsHead
<1>2. H[n] \in Header
  <2>1. n \in 0 .. n BY <1>1
  <2> QED BY <1>1, <2>1
<1>3. CASE n = 0 BY <1>1, <1>2, <1>3
<1>4. CASE n > 0
  <2> DEFINE h == H[n - 1]
             line == ls[n]
             new == H[n]
  <2>1. n \in 1 .. n /\ n - 1 \in 0 .. n BY <1>1, <1>4
  <2>2. new = StoreLine(h, line) BY <2>1 DEF IsHead
  <2>3. h \in Header /\ line \in Data BY <1>1, <2>1
  <2>4. H[n].cur = new.cur OBVIOUS
  <2> HIDE DEF h, line, new
  <2>5. h.cur \in Data /\ h = [h EXCEPT !.cur = h.cur] BY <2>3 DEF Header
  <2>6. StoreLine(h, line).cur = <<>> BY <2>3, <2>5, StoredIs
  <2> QED BY <1>1, <1>2, <2>2, <2>4, <2>6
<1> QED BY <1>1, <1>3, <1>4

\* What StartBody makes of a connection, without chunks and with them.
LEMMA StartAll ==
  ASSUME NEW c \in Conns, NEW len
  PROVE  LET new == StartBody(c, FALSE, len)
         IN /\ new.header = c.header /\ new.buf = c.buf /\ new.body = c.body
            /\ new.bodyReadLen = c.bodyReadLen /\ new.isChunked = FALSE /\ new.bodyLen = len
            /\ new.rrs = IF len > 0 THEN "RRS_READ_BODY" ELSE "RRS_READ_FINISHED"
<1>1. c \in Conn BY DEF Conns
<1> QED BY <1>1 DEF StartBody, Conn

\* The same with chunks.
LEMMA StartChunks ==
  ASSUME NEW c \in Conns, NEW len
  PROVE  LET new == StartBody(c, TRUE, len)
         IN /\ new.header = c.header /\ new.buf = c.buf /\ new.body = c.body
            /\ new.bodyReadLen = c.bodyReadLen /\ new.isChunked = TRUE /\ new.bodyLen = 0
            /\ new.chunkHdr = Crlf /\ new.rrs = "RRS_READ_BODY"
<1>1. c \in Conn BY DEF Conns
<1> QED BY <1>1 DEF StartBody, Conn

\* A body that is sent at once begins.
LEMMA AllBegins ==
  ASSUME NEW c \in Conns, NEW e \in Data, NEW r, IsRequest(r), NEW later \in Data, r.sizes = <<>>,
         HasHeader(c.header, r, HeaderOf(r)), c.header.cur = <<>>, c.body = <<>>,
         c.buf \o e = r.body \o later
  PROVE  LET new == StartBody(c, FALSE, Len(r.body))
         IN \/ InBody(new, new.buf \o e, r, later)
            \/ IsRead(new, new.buf \o e, r, later)
<1> DEFINE new == StartBody(c, FALSE, Len(r.body))
           body == r.body
<1>1. /\ new.header = c.header /\ new.buf = c.buf /\ new.body = c.body
      /\ new.bodyReadLen = c.bodyReadLen /\ new.isChunked = FALSE /\ new.bodyLen = Len(body)
      /\ new.rrs = IF Len(body) > 0 THEN "RRS_READ_BODY" ELSE "RRS_READ_FINISHED"
  BY StartAll
<1>2. body \in Data /\ Len(body) \in Nat /\ (Len(body) = 0 <=> body = <<>>) BY LenOf DEF IsRequest
<1>3. c.bodyReadLen = 0
  <2>1. c.bodyReadLen = Len(c.body) BY DEF Conns, Counted
  <2>2. Len(c.body) = 0 BY NoneIn, LenOf
  <2> QED BY <2>1, <2>2
<1>4. new.body \o (new.buf \o e) = body \o later
  <2> DEFINE left == c.buf \o e
  <2>1. left \in Data
    <3>1. c.buf \in Data BY DEF Conns, Conn
    <3> QED BY <3>1, JoinIn
  <2>2. <<>> \o left = left
    <3> HIDE DEF left
    <3> QED BY <2>1, NoneIn
  <2> HIDE DEF new
  <2> QED BY <1>1, <2>2
<1> HIDE DEF new
<1>5. CASE Len(body) > 0
  <2>1. TakesAll(new, new.buf \o e, body, later) BY <1>1, <1>2, <1>3, <1>4, <1>5 DEF TakesAll
  <2>2. new.rrs = "RRS_READ_BODY" /\ HasHeader(new.header, r, HeaderOf(r)) /\ new.header.cur = <<>>
    BY <1>1, <1>5
  <2> QED BY <2>1, <2>2 DEF InBody, new
<1>6. CASE ~(Len(body) > 0)
  <2>1. body = <<>> BY <1>2, <1>6
  <2>2. new.rrs = "RRS_READ_FINISHED" /\ new.body = body BY <1>1, <1>6, <2>1
  <2>3. c.buf \o e = later BY <2>1, NoneIn
  <2>4. HasHeader(new.header, r, LinesOf(r)) BY <1>1 DEF LinesOf
  <2> QED BY <1>1, <2>2, <2>3, <2>4 DEF IsRead, new
<1> QED BY <1>5, <1>6

\* A body in chunks begins.
LEMMA ChunksBegin ==
  ASSUME NEW c \in Conns, NEW e \in Data, NEW r, IsRequest(r), NEW later \in Data, r.sizes # <<>>,
         HasHeader(c.header, r, HeaderOf(r)), c.header.cur = <<>>, c.body = <<>>, NEW len,
         c.buf \o e = Chunks(r) \o later
  PROVE  LET new == StartBody(c, TRUE, len)
         IN InBody(new, new.buf \o e, r, later)
<1> DEFINE new == StartBody(c, TRUE, len)
           last == Lines(r.trailer \o EmptyLine, r.eol) \o later
           n == Len(r.sizes)
           body == r.body
<1>1. /\ new.header = c.header /\ new.buf = c.buf /\ new.body = c.body
      /\ new.bodyReadLen = c.bodyReadLen /\ new.isChunked = TRUE /\ new.bodyLen = 0
      /\ new.chunkHdr = Crlf /\ new.rrs = "RRS_READ_BODY"
  BY StartChunks
<1>2. PICK S, C : IsChunkPlan(r, later, S, C) BY ChunkPlanExists
<1>3. IsChunking(n, S, C, body, last) /\ C[0] = c.buf \o e BY <1>2 DEF IsChunkPlan
<1>4. n \in Nat /\ S[0] = 0 /\ C \in [0 .. n -> Data] /\ body \in Data BY <1>3 DEF IsChunking
<1>5. 0 \in 0 .. n BY <1>4
<1>6. c.bodyReadLen = 0
  <2>1. c.bodyReadLen = Len(c.body) BY DEF Conns, Counted
  <2>2. Len(c.body) = 0 BY NoneIn, LenOf
  <2> QED BY <2>1, <2>2
<1> DEFINE left == new.buf \o e
           a == Crlf \o left
<1>7. SubSeq(body, 1, 0) = <<>> BY <1>4, TakeNone
<1>8. left = C[0] BY <1>1, <1>3
<1>9. Without(From(Crlf, 3), "lf")
  <2>1. Crlf \in Data /\ Len(Crlf) = 2 BY CrlfIs
  <2>2. 3 \in Nat /\ 3 > 0 /\ 3 > 2 OBVIOUS
  <2> QED BY <2>1, <2>2, ShortFrom
<1> HIDE DEF new, left
<1>10. InChunk(new, left, 0, S, C, body)
  <2>1. new.bodyLen = S[0] BY <1>1, <1>4
  <2>2. new.body \o (new.chunkHdr \o left) = SubSeq(body, 1, S[0]) \o (Crlf \o C[0])
    BY <1>1, <1>4, <1>7, <1>8
  <2>3. Without(From(new.chunkHdr, 3), "lf") BY <1>1, <1>9
  <2>4. ~(new.bodyReadLen < new.bodyLen) BY <1>1, <1>6
  <2> QED BY <2>1, <2>2, <2>3, <2>4 DEF InChunk
<1>11. TakesChunks(new, left, n, S, C, body, last) BY <1>1, <1>5, <1>10 DEF TakesChunks
<1>12. InBody(new, left, r, later)
  <2>1. new.rrs = "RRS_READ_BODY" /\ HasHeader(new.header, r, HeaderOf(r)) /\ new.header.cur = <<>>
    BY <1>1
  <2> QED BY <1>2, <1>11, <2>1 DEF InBody
<1> QED BY <1>12 DEF new, left

\* What is done with the header of a request.
LEMMA BodyBegins ==
  ASSUME NEW c \in Conns, NEW e \in Data, NEW r, IsRequest(r), NEW later \in Data,
         HasHeader(c.header, r, HeaderOf(r)), c.header.cur = <<>>, c.body = <<>>,
         c.buf \o e = BodyOf(r) \o later
  PROVE  LET new == onFinishedHeader(c)
         IN \/ InBody(new, new.buf \o e, r, later)
            \/ IsRead(new, new.buf \o e, r, later)
<1> DEFINE len == Number(getHeaderVal(c.header, "Content-Length"), 10)
           isChunked == isChunkedTransferEncoding(c.header)
<1>1. isChunked <=> r.sizes # <<>> BY HeaderSays
<1>2. onFinishedHeader(c) = StartBody(c, isChunked, len) BY DEF onFinishedHeader
<1>3. CASE r.sizes = <<>>
  <2>1. len = Len(r.body) BY <1>3, HeaderSays DEF LengthOf
  <2>2. isChunked = FALSE
    <3>1. isChunked \in BOOLEAN BY DEF isChunkedTransferEncoding
    <3> QED BY <1>1, <1>3, <3>1
  <2>3. c.buf \o e = r.body \o later BY <1>3 DEF BodyOf
  <2> HIDE DEF len, isChunked
  <2>4. onFinishedHeader(c) = StartBody(c, FALSE, Len(r.body)) BY <1>2, <2>1, <2>2
  <2> QED BY <1>3, <2>3, <2>4, AllBegins
<1>4. CASE r.sizes # <<>>
  <2>1. isChunked = TRUE
    <3>1. isChunked \in BOOLEAN BY DEF isChunkedTransferEncoding
    <3> QED BY <1>1, <1>4, <3>1
  <2>2. c.buf \o e = Chunks(r) \o later BY <1>4 DEF BodyOf
  <2> HIDE DEF len, isChunked
  <2>3. onFinishedHeader(c) = StartBody(c, TRUE, len) BY <1>2, <2>1
  <2> QED BY <1>4, <2>2, <2>3, ChunksBegin
<1> QED BY <1>3, <1>4

\* However the head of a request is cut, it is read as it was sent.
LEMMA HeadStep ==
  ASSUME NEW c \in Conns, NEW e \in Data, NEW r, IsRequest(r), NEW later \in Data,
         InHead(c, c.buf \o e, r, later)
  PROVE  LET new == ReadHead(c)
         IN InRequest(new, new.buf \o e, r, later)
<1> DEFINE h == HeadSoFar(c)
           read == appendLines(h, c.buf)
           c1 == WithHeader(c, read, "RRS_READ_HEAD")
           n == Len(HeadLines(r))
           tail == BodyOf(r) \o later
<1>1. c.rrs \in {"RRS_IDLE", "RRS_READ_HEAD"} BY DEF InHead
<1>2. ReadHead(c) = IF read.finished THEN onFinishedHeader(c1) ELSE c1
  BY <1>1 DEF ReadHead, HeadSoFar
<1>3. c \in Conn /\ c.body = <<>> BY <1>1 DEF Conns, Counted
<1>4. c.buf \in Data /\ h \in Header BY <1>3, NewHeaders DEF Conn, HeadSoFar
<1>5. PICK H, R : /\ IsHeadPlan(r, later, H, R)
                  /\ \E j \in 0 .. n : AtLine(h, j, c.buf \o e, H, R)
  BY DEF InHead
<1>6. /\ IsHead(n, HeadLines(r), r.eol, tail, H, R)
      /\ H[n].request = r.request /\ H[n].lines = HeaderOf(r)
  BY <1>5 DEF IsHeadPlan
<1> HIDE DEF h
<1>7. read \in LineReads BY <1>4, AppendLinesIn
<1>8. IsReadTo(read, e, n, tail, H, R)
  <2> DEFINE buf == c.buf
             ls == HeadLines(r)
             eol == r.eol
             m == n
  <2>1. buf \in Data /\ IsHead(m, ls, eol, tail, H, R) /\ \E j \in 0 .. m : AtLine(h, j, buf \o e, H, R)
    BY <1>4, <1>5, <1>6
  <2> HIDE DEF buf, ls, eol, tail, m
  <2>2. IsReadTo(appendLines(h, buf), e, m, tail, H, R) BY <1>4, <2>1, LinesRead
  <2> QED BY <2>2 DEF buf, m
<1> HIDE DEF read, n, tail
<1>9. /\ c1 \in Conns /\ c1.rrs = "RRS_READ_HEAD" /\ c1.header = read.hdr /\ c1.buf = read.rest
      /\ c1.body = <<>>
  <2> DEFINE rrs == "RRS_READ_HEAD"
  <2>1. rrs \in Phases BY DEF Phases
  <2> HIDE DEF rrs
  <2>2. LET new == WithHeader(c, read, rrs)
        IN new \in Conns /\ new.rrs = rrs /\ new.header = read.hdr /\ new.buf = read.rest /\ new.body = c.body
    BY <1>3, <1>7, <2>1, WithHeaderIn
  <2> QED BY <1>3, <2>2 DEF rrs
<1> HIDE DEF c1
<1>10. CASE ~read.finished
  <2>1. ReadHead(c) = c1 BY <1>2, <1>10
  <2>2. PICK j \in 0 .. n : AtLine(read.hdr, j, read.rest \o e, H, R) BY <1>8, <1>10 DEF IsReadTo
  <2>3. HeadSoFar(c1) = read.hdr BY <1>9 DEF HeadSoFar
  <2>4. AtLine(HeadSoFar(c1), j, c1.buf \o e, H, R) BY <1>9, <2>2, <2>3
  <2>5. InHead(c1, c1.buf \o e, r, later) BY <1>5, <1>9, <2>4 DEF InHead, n
  <2> QED BY <2>1, <2>5 DEF InRequest
<1>11. CASE read.finished
  <2>1. ReadHead(c) = onFinishedHeader(c1) BY <1>2, <1>11
  <2>2. read.hdr = H[n] /\ read.rest \o e = tail BY <1>8, <1>11 DEF IsReadTo
  <2>3. H[n] \in Header /\ H[n].started /\ H[n].cur = <<>> BY <1>6, HeadEnds
  <2>4. HasHeader(c1.header, r, HeaderOf(r)) /\ c1.header.cur = <<>>
    BY <1>6, <1>9, <2>2, <2>3 DEF HasHeader
  <2>5. c1.buf \o e = BodyOf(r) \o later BY <1>9, <2>2 DEF tail
  <2>6. \/ InBody(onFinishedHeader(c1), onFinishedHeader(c1).buf \o e, r, later)
        \/ IsRead(onFinishedHeader(c1), onFinishedHeader(c1).buf \o e, r, later)
    BY <1>9, <2>4, <2>5, BodyBegins
  <2> QED BY <2>1, <2>6 DEF InRequest
<1> QED BY <1>10, <1>11

\* Nothing but the body is taken by the loop over pieces.
LEMMA NotBody ==
  ASSUME NEW c \in Conns, NEW room \in Nat, c.rrs # "RRS_READ_BODY"
  PROVE  appendBodyData(c, room) = c
<1>1. PICK n \in Nat : \E g \in [0 .. n -> Pieces] : IsTaking(g, n, c, room) BY TakingExists
<1>2. PICK g \in [0 .. n -> Pieces] : IsTaking(g, n, c, room) BY <1>1
<1>3. /\ g[0] = [c |-> c, room |-> room] /\ g[n].c = appendBodyData(c, room)
      /\ \A k \in 1 .. n : g[k] = NextPiece(g[k - 1])
  BY <1>2 DEF IsTaking
<1> DEFINE T == {k \in 0 .. n : g[k].c = c}
<1>4. 0 \in T BY <1>3
<1>5. ASSUME NEW k \in 1 .. n, k - 1 \in T PROVE k \in T
  <2> DEFINE s == g[k - 1]
  <2>1. s.c.rrs # "RRS_READ_BODY" BY <1>5
  <2> HIDE DEF s
  <2>2. NextPiece(s) = s BY <2>1 DEF NextPiece
  <2>3. g[k] = s BY <1>3, <2>2 DEF s
  <2> QED BY <1>5, <2>3 DEF s
<1>6. n \in T
  <2> HIDE DEF T
  <2>1. \A k \in 0 .. n : k \in T BY <1>4, <1>5, UpTo
  <2>2. n \in 0 .. n BY <1>1
  <2> QED BY <2>1, <2>2
<1> QED BY <1>3, <1>6

\* A trailer begins.
LEMMA TrailerBegins ==
  ASSUME NEW c, NEW left, NEW r, IsRequest(r), NEW later \in Data, r.sizes # <<>>,
         c.rrs = "RRS_READ_TRAILER", HasHeader(c.header, r, HeaderOf(r)), c.header.cur = <<>>,
         c.body = r.body, left \in Data, left = Lines(r.trailer \o EmptyLine, r.eol) \o later
  PROVE  InTrailer(c, left, r, later)
<1> DEFINE hdr == c.header
<1>1. HasHeader(hdr, r, HeaderOf(r)) /\ hdr.cur = <<>> OBVIOUS
<1>2. PICK H, R : IsTrailerPlan(r, later, H, R) /\ H[0] = hdr
  <2> HIDE DEF hdr
  <2> QED BY <1>1, TrailerPlanExists
<1>3. R[0] = left BY <1>2 DEF IsTrailerPlan
<1>4. AtLine(hdr, 0, left, H, R)
  <2>1. hdr \in Header BY <1>1 DEF HasHeader
  <2> HIDE DEF hdr
  <2>2. hdr = [H[0] EXCEPT !.cur = hdr.cur] BY <1>1, <1>2, <2>1 DEF Header
  <2>3. <<>> \in Data /\ <<>> \o left = left BY NoneIn
  <2>4. Without(<<>>, "lf") BY EmptySeq DEF Without
  <2> QED BY <1>1, <1>3, <2>2, <2>3, <2>4 DEF AtLine
<1>5. 0 \in 0 .. Len(r.trailer)
  <2>1. r.trailer \in Seq(Data) BY DEF IsRequest
  <2>2. Len(r.trailer) \in Nat BY <2>1, LenProperties
  <2> QED BY <2>2
<1> QED BY <1>2, <1>4, <1>5 DEF InTrailer

\* However a body is cut and taken, it is read as it was sent.
LEMMA BodyStep ==
  ASSUME NEW c \in Conns, NEW e \in Data, NEW r, IsRequest(r), NEW later \in Data, NEW room \in Nat,
         InBody(c, c.buf \o e, r, later)
  PROVE  LET new == appendBodyData(c, room)
         IN InRequest(new, new.buf \o e, r, later)
<1> DEFINE new == appendBodyData(c, room)
           left == new.buf \o e
           body == r.body
           last == Lines(r.trailer \o EmptyLine, r.eol) \o later
           n == Len(r.sizes)
<1>1. new \in Conns BY AppendBodyDataIn
<1>2. body \in Data BY DEF IsRequest
<1>3. HasHeader(c.header, r, HeaderOf(r)) /\ c.header.cur = <<>> BY DEF InBody
<1>4. CASE r.sizes = <<>>
  <2>1. TakesAll(c, c.buf \o e, body, later) BY <1>4 DEF InBody
  <2>2. TakesAll(new, left, body, later) /\ new.header = c.header
    <3> HIDE DEF body
    <3> QED BY <1>2, <2>1, AllTaken
  <2> HIDE DEF new
  <2>3. CASE new.rrs = "RRS_READ_BODY"
    <3>1. InBody(new, left, r, later) BY <1>3, <1>4, <2>2, <2>3 DEF InBody
    <3> QED BY <3>1 DEF InRequest, new
  <2>4. CASE new.rrs # "RRS_READ_BODY"
    <3>1. /\ new.rrs = "RRS_READ_FINISHED" /\ new.bodyReadLen = new.bodyLen /\ new.bodyLen = Len(body)
          /\ new.body \o left = body \o later
      BY <2>2, <2>4 DEF TakesAll
    <3>2. new.bodyReadLen = Len(new.body) /\ new.body \in Data /\ new.buf \in Data
      BY <1>1 DEF Conns, Counted, Conn
    <3>3. left \in Data BY <3>2, JoinIn
    <3>4. Len(body) = Len(new.body) BY <3>1, <3>2
    <3>5. new.body = body /\ left = later
      <4> DEFINE b == new.body
      <4>1. b \in Data /\ Len(body) = Len(b) /\ b \o left = body \o later BY <3>1, <3>2, <3>4
      <4> HIDE DEF b, left, body
      <4>2. b = body /\ left = later BY <1>2, <3>3, <4>1, SameCut
      <4> QED BY <4>2 DEF b
    <3>6. HasHeader(new.header, r, LinesOf(r)) BY <1>3, <1>4, <2>2 DEF LinesOf
    <3>7. IsRead(new, left, r, later) BY <3>1, <3>5, <3>6 DEF IsRead
    <3> QED BY <3>7 DEF InRequest, new
  <2> QED BY <2>3, <2>4
<1>5. CASE r.sizes # <<>>
  <2>1. PICK S, C : /\ IsChunkPlan(r, later, S, C)
                    /\ TakesChunks(c, c.buf \o e, n, S, C, body, last)
    BY <1>5 DEF InBody
  <2>2. IsChunking(n, S, C, body, last) BY <2>1 DEF IsChunkPlan
  <2>3. TakesChunks(new, left, n, S, C, body, last) /\ new.header = c.header
    <3> HIDE DEF body, n, last
    <3> QED BY <2>1, <2>2, ChunksTaken
  <2> HIDE DEF new
  <2>4. CASE new.rrs = "RRS_READ_BODY"
    <3>1. InBody(new, left, r, later) BY <1>3, <1>5, <2>1, <2>3, <2>4 DEF InBody
    <3> QED BY <3>1 DEF InRequest, new
  <2>5. CASE new.rrs # "RRS_READ_BODY"
    <3>1. new.rrs = "RRS_READ_TRAILER" /\ new.body = body /\ left = last
      BY <2>3, <2>5 DEF TakesChunks
    <3>2. new.buf \in Data BY <1>1 DEF Conns, Conn
    <3>3. left \in Data BY <3>2, JoinIn
    <3>4. HasHeader(new.header, r, HeaderOf(r)) /\ new.header.cur = <<>> BY <1>3, <2>3
    <3> HIDE DEF left
    <3>5. InTrailer(new, left, r, later) BY <1>5, <3>1, <3>3, <3>4, TrailerBegins
    <3> QED BY <3>5 DEF InRequest, new, left
  <2> QED BY <2>4, <2>5
<1> QED BY <1>4, <1>5

\* However a trailer is cut, it is read as it was sent.
LEMMA TrailerStep ==
  ASSUME NEW c \in Conns, NEW e \in Data, NEW r, IsRequest(r), NEW later \in Data,
         InTrailer(c, c.buf \o e, r, later)
  PROVE  LET new == ReadTrailer(c)
         IN InRequest(new, new.buf \o e, r, later)
<1> DEFINE h == c.header
           read == appendLines(h, c.buf)
           rrs == IF read.finished THEN "RRS_READ_FINISHED" ELSE c.rrs
           new == WithHeader(c, read, rrs)
           n == Len(r.trailer)
<1>1. c.rrs = "RRS_READ_TRAILER" /\ c.body = r.body /\ r.sizes # <<>> BY DEF InTrailer
<1>2. CASE c.buf = <<>>
  <2>1. ReadTrailer(c) = c BY <1>2 DEF ReadTrailer
  <2> QED BY <2>1 DEF InRequest
<1>3. CASE c.buf # <<>>
  <2>1. ReadTrailer(c) = new BY <1>1, <1>3 DEF ReadTrailer
  <2>2. c.buf \in Data /\ h \in Header BY DEF Conns, Conn
  <2>3. PICK H, R : /\ IsTrailerPlan(r, later, H, R)
                    /\ \E j \in 0 .. n : AtLine(h, j, c.buf \o e, H, R)
    BY DEF InTrailer
  <2>4. IsHead(n, r.trailer, r.eol, later, H, R) /\ HasHeader(H[n], r, HeaderOf(r) \o Kept(r.trailer))
    BY <2>3 DEF IsTrailerPlan
  <2> HIDE DEF h
  <2>5. read \in LineReads BY <2>2, AppendLinesIn
  <2>6. IsReadTo(read, e, n, later, H, R)
    <3> DEFINE buf == c.buf
               ls == r.trailer
               eol == r.eol
               m == n
    <3>1. buf \in Data /\ IsHead(m, ls, eol, later, H, R) /\ \E j \in 0 .. m : AtLine(h, j, buf \o e, H, R)
      BY <2>2, <2>3, <2>4
    <3> HIDE DEF buf, ls, eol, m
    <3>2. IsReadTo(appendLines(h, buf), e, m, later, H, R) BY <2>2, <3>1, LinesRead
    <3> QED BY <3>2 DEF buf, m
  <2> HIDE DEF read, n
  <2>7. rrs \in Phases /\ rrs \notin {"RRS_IDLE", "RRS_READ_HEAD"} BY <1>1 DEF Phases
  <2>8. rrs = IF read.finished THEN "RRS_READ_FINISHED" ELSE "RRS_READ_TRAILER" BY <1>1
  <2> HIDE DEF rrs
  <2>9. new.rrs = rrs /\ new.header = read.hdr /\ new.buf = read.rest /\ new.body = c.body
    BY <2>5, <2>7, WithHeaderIn
  <2> HIDE DEF new
  <2>10. CASE ~read.finished
    <3>1. PICK j \in 0 .. n : AtLine(read.hdr, j, read.rest \o e, H, R) BY <2>6, <2>10 DEF IsReadTo
    <3>2. AtLine(new.header, j, new.buf \o e, H, R) BY <2>9, <3>1
    <3>3. InTrailer(new, new.buf \o e, r, later) BY <1>1, <2>3, <2>8, <2>9, <2>10, <3>2 DEF InTrailer, n
    <3> QED BY <2>1, <3>3 DEF InRequest
  <2>11. CASE read.finished
    <3>1. read.hdr = H[n] /\ read.rest \o e = later BY <2>6, <2>11 DEF IsReadTo
    <3>2. HasHeader(new.header, r, LinesOf(r)) BY <1>1, <2>4, <2>9, <3>1 DEF LinesOf, n
    <3>3. IsRead(new, new.buf \o e, r, later) BY <1>1, <2>8, <2>9, <2>11, <3>1, <3>2 DEF IsRead
    <3> QED BY <2>1, <3>3 DEF InRequest
  <2> QED BY <2>10, <2>11
<1> QED BY <1>2, <1>3

\* One reading of a connection, up to the end of what is there or of the request.
LEMMA RequestStep ==
  ASSUME NEW c \in Conns, NEW e \in Data, NEW r, IsRequest(r), NEW later \in Data, NEW room \in Nat,
         InRequest(c, c.buf \o e, r, later)
  PROVE  LET new == ReadTrailer(appendBodyData(ReadHead(c), room))
         IN new \in Conns /\ InRequest(new, new.buf \o e, r, later)
<1> DEFINE c1 == ReadHead(c)
           c2 == appendBodyData(c1, room)
           c3 == ReadTrailer(c2)
<1>1. c1 \in Conns BY ReadHeadIn
<1>2. InRequest(c1, c1.buf \o e, r, later)
  <2>1. CASE InHead(c, c.buf \o e, r, later) BY <2>1, HeadStep
  <2>2. CASE ~InHead(c, c.buf \o e, r, later)
    <3>1. c.rrs \notin {"RRS_IDLE", "RRS_READ_HEAD"}
      BY <2>2 DEF InRequest, InBody, InTrailer, IsRead
    <3>2. c1 = c BY <3>1 DEF ReadHead
    <3> QED BY <3>2
  <2> QED BY <2>1, <2>2
<1> HIDE DEF c1
<1>3. c2 \in Conns BY <1>1, AppendBodyDataIn
<1>4. InRequest(c2, c2.buf \o e, r, later)
  <2>1. CASE InBody(c1, c1.buf \o e, r, later) BY <1>1, <2>1, BodyStep
  <2>2. CASE ~InBody(c1, c1.buf \o e, r, later)
    <3>1. c1.rrs # "RRS_READ_BODY"
      BY <1>2, <2>2 DEF InRequest, InHead, InTrailer, IsRead
    <3>2. c2 = c1 BY <1>1, <3>1, NotBody
    <3> QED BY <1>2, <3>2
  <2> QED BY <2>1, <2>2
<1> HIDE DEF c2
<1>5. c3 \in Conns BY <1>3, ReadTrailerIn
<1>6. InRequest(c3, c3.buf \o e, r, later)
  <2>1. CASE InTrailer(c2, c2.buf \o e, r, later) BY <1>3, <2>1, TrailerStep
  <2>2. CASE ~InTrailer(c2, c2.buf \o e, r, later)
    <3>1. c2.rrs # "RRS_READ_TRAILER"
      BY <1>4, <2>2 DEF InRequest, InHead, InBody, IsRead
    <3>2. c3 = c2 BY <3>1 DEF ReadTrailer
    <3> QED BY <1>4, <3>2
  <2> QED BY <2>1, <2>2
<1> QED BY <1>5, <1>6 DEF c1, c2

\* Something is left of every line of a head, and of what is behind it.
LEMMA HeadLeft ==
  ASSUME NEW n, NEW ls, NEW eol, NEW tail, NEW H, NEW R, IsHead(n, ls, eol, tail, H, R)
  PROVE  \A j \in 0 .. n : Len(R[j]) >= Len(tail)
<1>1. /\ n \in Nat /\ eol \in Eols /\ tail \in Data /\ R \in [0 .. n -> Data] /\ ls \in [1 .. n -> Data]
      /\ R[n] = eol \o tail
      /\ \A j \in 1 .. n : R[j - 1] = ls[j] \o (eol \o R[j])
  BY DEF IsHead
<1> DEFINE T == {i \in 0 .. n : Len(R[n - i]) >= Len(tail)}
<1>2. eol \in Data BY <1>1, EolIs, NoneIn
<1>3. 0 \in T
  <2>1. n - 0 = n /\ 0 \in 0 .. n BY <1>1
  <2>2. Len(eol \o tail) = Len(eol) + Len(tail) /\ Len(eol) \in Nat /\ Len(tail) \in Nat
    BY <1>1, <1>2, LenOf
  <2> QED BY <1>1, <2>1, <2>2
<1>4. ASSUME NEW i \in 1 .. n, i - 1 \in T PROVE i \in T
  <2> DEFINE j == n - (i - 1)
             x == R[j]
             l == ls[j]
  <2>1. j \in 1 .. n /\ j - 1 = n - i /\ j \in 0 .. n /\ i \in 0 .. n BY <1>1
  <2>2. Len(x) >= Len(tail) BY <1>4
  <2>3. R[j - 1] = l \o (eol \o x) BY <1>1, <2>1
  <2>4. x \in Data /\ l \in Data BY <1>1, <2>1
  <2> HIDE DEF x, l
  <2>5. eol \o x \in Data /\ Len(eol \o x) = Len(eol) + Len(x) BY <1>2, <2>4, JoinIn, LenOf
  <2>6. Len(l \o (eol \o x)) = Len(l) + Len(eol \o x)
    <3> DEFINE y == eol \o x
    <3>1. y \in Data BY <2>5
    <3> HIDE DEF y
    <3>2. Len(l \o y) = Len(l) + Len(y) BY <2>4, <3>1, LenOf
    <3> QED BY <3>2 DEF y
  <2>7. Len(l) \in Nat /\ Len(eol) \in Nat /\ Len(x) \in Nat /\ Len(tail) \in Nat
    BY <1>1, <1>2, <2>4, LenOf
  <2>8. Len(R[j - 1]) >= Len(tail) BY <2>2, <2>3, <2>5, <2>6, <2>7
  <2> HIDE DEF j
  <2> QED BY <2>1, <2>8
<1>5. \A i \in 0 .. n : i \in T
  <2> HIDE DEF T
  <2> QED BY <1>1, <1>3, <1>4, UpTo
<1>6. ASSUME NEW j \in 0 .. n PROVE Len(R[j]) >= Len(tail)
  <2> DEFINE i == n - j
  <2>1. i \in 0 .. n /\ n - i = j BY <1>1
  <2>2. i \in T BY <1>5, <2>1
  <2> HIDE DEF i
  <2> QED BY <2>1, <2>2
<1> QED BY <1>6

\* A line that is not complete leaves more than is behind the head.
LEMMA LineLeft ==
  ASSUME NEW n, NEW ls, NEW eol, NEW tail, NEW H, NEW R, IsHead(n, ls, eol, tail, H, R),
         NEW hdr, NEW j \in 0 .. n, NEW left \in Data, AtLine(hdr, j, left, H, R)
  PROVE  Len(left) > Len(tail)
<1>1. /\ n \in Nat /\ eol \in Eols /\ tail \in Data /\ R \in [0 .. n -> Data] /\ ls \in [1 .. n -> Data]
      /\ R[n] = eol \o tail
  BY DEF IsHead
<1>2. hdr.cur \in Data /\ Without(hdr.cur, "lf") /\ hdr.cur \o left = R[j] BY DEF AtLine
<1> DEFINE pre == PreOf(eol)
           cur == hdr.cur
<1>3. /\ pre \in Data /\ Without(pre, "lf") /\ Lf \in Data BY <1>1, EolIs, NoneIn
<1>4. Len(tail) \in Nat /\ Len(left) \in Nat BY <1>1, LenOf
<1>5. CASE j = n
  <2>1. eol \o tail = pre \o (Lf \o tail) BY <1>1, EolIs
  <2>2. cur \o left = pre \o (Lf \o tail) BY <1>1, <1>2, <1>5, <2>1
  <2> HIDE DEF pre, cur
  <2>3. cur \in Data /\ Without(cur, "lf") BY <1>2 DEF cur
  <2> QED BY <1>1, <1>3, <2>2, <2>3, MoreThan
<1>6. CASE j # n
  <2> DEFINE i == j + 1
             l == ls[i]
             x == R[i]
             p == l \o pre
  <2>1. i \in 1 .. n /\ i - 1 = j /\ i \in 0 .. n BY <1>1, <1>6
  <2>2. l \in Data /\ x \in Data BY <1>1, <2>1
  <2>3. IsLine(l) /\ R[i - 1] = l \o (eol \o x) BY <2>1 DEF IsHead
  <2>4. Len(x) >= Len(tail) BY <2>1, HeadLeft
  <2>5. eol \o x = pre \o (Lf \o x) BY <1>1, <2>2, EolIs
  <2> HIDE DEF i, l, x, pre, cur
  <2>6. p \in Data BY <1>3, <2>2, JoinIn
  <2>7. l \o (pre \o (Lf \o x)) = p \o (Lf \o x)
    <3> DEFINE y == Lf \o x
    <3>1. y \in Data BY <1>3, <2>2, JoinIn
    <3> HIDE DEF y
    <3>2. (l \o pre) \o y = l \o (pre \o y)
      <4>1. l \in Data /\ pre \in Data /\ y \in Data BY <1>3, <2>2, <3>1
      <4> QED BY <4>1, Joins
    <3> QED BY <3>2 DEF y
  <2>8. Without(p, "lf")
    <3>1. Without(l, "lf") BY <1>1, <2>2, <2>3, StripLine
    <3> QED BY <1>3, <2>2, <3>1, WithoutJoined
  <2>9. cur \in Data /\ Without(cur, "lf") BY <1>2 DEF cur
  <2>10. cur \o left = p \o (Lf \o x) BY <1>2, <2>1, <2>3, <2>5, <2>7 DEF cur
  <2> HIDE DEF p
  <2>11. Len(left) > Len(x) BY <2>2, <2>6, <2>8, <2>9, <2>10, MoreThan
  <2>12. Len(x) \in Nat BY <2>2, LenOf
  <2> QED BY <1>4, <2>4, <2>11, <2>12
<1> QED BY <1>5, <1>6

----------------------------------------------------------------------------
(* More is left while a request is being read than behind it.                *)

\* What is joined is as long as what is at its end.
LEMMA LongerThan ==
  ASSUME NEW a \in Data, NEW b \in Data
  PROVE  Len(a \o b) >= Len(b) /\ Len(Crlf \o b) = Len(b) + 2
<1>1. Len(a \o b) = Len(a) + Len(b) /\ Len(a) \in Nat /\ Len(b) \in Nat BY LenOf
<1>2. Crlf \in Data /\ Len(Crlf) = 2 BY CrlfIs
<1>3. Len(Crlf \o b) = Len(Crlf) + Len(b) BY <1>2, LenOf
<1> QED BY <1>1, <1>2, <1>3

\* Digits, a line end and what is behind them.
LEMMA LongerThanNext ==
  ASSUME NEW d \in Data, NEW x \in Data
  PROVE  d \o (Crlf \o x) \in Data /\ Len(d \o (Crlf \o x)) >= Len(x) + 2
<1> DEFINE y == Crlf \o x
<1>1. y \in Data BY CrlfIs, JoinIn
<1>2. Len(y) = Len(x) + 2 BY LongerThan
<1> HIDE DEF y
<1>3. d \o y \in Data /\ Len(d \o y) >= Len(y) BY <1>1, JoinIn, LongerThan
<1>4. Len(d \o y) >= Len(x) + 2
  <2>1. Len(x) \in Nat /\ Len(d \o y) \in Nat BY <1>3, LenOf
  <2> QED BY <1>2, <1>3, <2>1
<1> QED BY <1>3, <1>4 DEF y

\* More is sent behind every chunk than behind the last one.
LEMMA ChunksLeftBehind ==
  ASSUME NEW n, NEW S, NEW C, NEW body, NEW last, IsChunking(n, S, C, body, last)
  PROVE  \A k \in 0 .. n : Len(C[k]) >= Len(last) + 2
<1>1. /\ n \in Nat /\ body \in Data /\ last \in Data
      /\ S \in [0 .. n -> 0 .. Len(body)] /\ C \in [0 .. n -> Data]
      /\ C[n] = Digits(0, 16) \o (Crlf \o last)
  BY DEF IsChunking
<1> DEFINE T == {i \in 0 .. n : Len(C[n - i]) >= Len(last) + 2}
<1>2. 0 \in T
  <2> DEFINE d == Digits(0, 16)
  <2>1. d \in Data BY DigitsIn
  <2>2. C[n] = d \o (Crlf \o last) BY <1>1
  <2> HIDE DEF d
  <2>3. Len(d \o (Crlf \o last)) >= Len(last) + 2 BY <1>1, <2>1, LongerThanNext
  <2>4. n - 0 = n /\ 0 \in 0 .. n BY <1>1
  <2> QED BY <2>2, <2>3, <2>4
<1>3. ASSUME NEW i \in 1 .. n, i - 1 \in T PROVE i \in T
  <2> DEFINE j == n - (i - 1)
             d == Digits(S[j] - S[j - 1], 16)
             p == SubSeq(body, S[j - 1] + 1, S[j])
             x == C[j]
             y == Crlf \o x
             z == p \o y
  <2>1. j \in 1 .. n /\ j - 1 = n - i /\ j \in 0 .. n /\ j - 1 \in 0 .. n /\ i \in 0 .. n BY <1>1
  <2>2. Len(x) >= Len(last) + 2 BY <1>3
  <2>3. C[j - 1] = d \o (Crlf \o z) /\ S[j] - S[j - 1] \in 1 .. Wrap - 1
    <3> HIDE DEF j
    <3> QED BY <2>1 DEF IsChunking
  <2> HIDE DEF j
  <2>4. x \in Data BY <1>1, <2>1
  <2>5. d \in Data
    <3> DEFINE v == S[j] - S[j - 1]
    <3>1. v \in Nat
      <4>1. Wrap \in Nat /\ v \in 1 .. Wrap - 1 BY <2>3, WrapAssumption
      <4> HIDE DEF v
      <4> QED BY <4>1
    <3> HIDE DEF v
    <3>2. Digits(v, 16) \in Data BY <3>1, DigitsIn
    <3> QED BY <3>2 DEF v
  <2>6. p \in Data
    <3> DEFINE a == S[j - 1]
               b == S[j]
    <3>1. Len(body) \in Nat BY <1>1, LenOf
    <3>2. a \in 0 .. Len(body) /\ b \in 0 .. Len(body) BY <1>1, <2>1
    <3>3. a \in Nat /\ b \in Nat /\ b <= Len(body) BY <3>1, <3>2
    <3> HIDE DEF a, b
    <3>4. SubSeq(body, a + 1, b) \in Data BY <1>1, <3>3, PartOfIn
    <3> QED BY <3>4 DEF a, b
  <2> HIDE DEF d, p, x
  <2>7. y \in Data /\ Len(y) = Len(x) + 2 BY <2>4, CrlfIs, JoinIn, LongerThan
  <2> HIDE DEF y
  <2>8. z \in Data /\ Len(z) >= Len(y) BY <2>6, <2>7, JoinIn, LongerThan
  <2> HIDE DEF z
  <2>9. Len(d \o (Crlf \o z)) >= Len(z) + 2 /\ d \o (Crlf \o z) \in Data BY <2>5, <2>8, LongerThanNext
  <2>10. C[j - 1] = d \o (Crlf \o z) BY <2>3
  <2>11. Len(C[j - 1]) >= Len(last) + 2
    <3>1. Len(x) \in Nat /\ Len(y) \in Nat /\ Len(z) \in Nat /\ Len(last) \in Nat /\ Len(C[j - 1]) \in Nat
      BY <1>1, <2>4, <2>7, <2>8, <2>9, <2>10, LenOf
    <3> QED BY <2>2, <2>7, <2>8, <2>9, <2>10, <3>1
  <2> QED BY <2>1, <2>11
<1>4. \A i \in 0 .. n : i \in T
  <2> HIDE DEF T
  <2> QED BY <1>1, <1>2, <1>3, UpTo
<1>5. ASSUME NEW k \in 0 .. n PROVE Len(C[k]) >= Len(last) + 2
  <2> DEFINE i == n - k
  <2>1. i \in 0 .. n /\ n - i = k BY <1>1
  <2>2. i \in T BY <1>4, <2>1
  <2> HIDE DEF i
  <2> QED BY <2>1, <2>2
<1> QED BY <1>5

\* A body that is not complete leaves more than is behind the last chunk.
LEMMA ChunksLeft ==
  ASSUME NEW c \in Conns, NEW left \in Data, NEW n, NEW S, NEW C, NEW body, NEW last,
         IsChunking(n, S, C, body, last), NEW k \in 0 .. n, InChunk(c, left, k, S, C, body)
  PROVE  Len(left) > Len(last)
<1>1. /\ n \in Nat /\ body \in Data /\ last \in Data
      /\ S \in [0 .. n -> 0 .. Len(body)] /\ C \in [0 .. n -> Data]
  BY DEF IsChunking
<1> DEFINE next == C[k]
           h == c.chunkHdr
           b == c.body
           p == SubSeq(body, 1, S[k])
           u == h \o left
           w == Crlf \o next
<1>2. /\ c.bodyLen = S[k] /\ b \o u = p \o w /\ Without(From(h, 3), "lf")
      /\ c.bodyReadLen < c.bodyLen => h = <<>>
  BY DEF InChunk
<1>3. h \in Data /\ b \in Data /\ next \in Data BY <1>1 DEF Conns, Conn
<1>4. c.bodyReadLen = Len(b) /\ Len(b) <= c.bodyLen BY DEF Conns, Counted
<1>5. p \in Data /\ Len(p) = S[k]
  <2> DEFINE s == S[k]
  <2>1. s \in 0 .. Len(body) /\ body \in Seq(Byte) BY <1>1 DEF Data
  <2> HIDE DEF s
  <2>2. SubSeq(body, 1, s) \in Seq(Byte) /\ Len(SubSeq(body, 1, s)) = s BY <2>1, FirstIs
  <2> QED BY <2>2 DEF s, Data
<1>6. Len(next) >= Len(last) + 2 BY ChunksLeftBehind
<1>7. PICK v, rest : NextChunk(k, v, rest, n, S, C, body, last) BY NextChunkExists
<1>8. /\ v \in Nat /\ rest \in Data /\ next = Digits(v, 16) \o (Crlf \o rest)
  BY <1>7 DEF NextChunk
<1>9. Len(rest) >= Len(last)
  <2>1. CASE rest = last
    <3>1. Len(last) \in Nat BY <1>1, LenOf
    <3> QED BY <2>1, <3>1
  <2>2. CASE k + 1 \in 1 .. n /\ rest = SubSeq(body, S[k] + 1, S[k + 1]) \o (Crlf \o C[k + 1])
    <3> DEFINE x == C[k + 1]
               q == SubSeq(body, S[k] + 1, S[k + 1])
    <3>1. k + 1 \in 0 .. n BY <1>1, <2>2
    <3>2. x \in Data BY <1>1, <3>1
    <3>3. q \in Data
      <4> DEFINE s == S[k]
                 t == S[k + 1]
      <4>1. Len(body) \in Nat BY <1>1, LenOf
      <4>2. s \in 0 .. Len(body) /\ t \in 0 .. Len(body) BY <1>1, <3>1
      <4>3. s \in Nat /\ t \in Nat /\ t <= Len(body) BY <4>1, <4>2
      <4> HIDE DEF s, t
      <4>4. SubSeq(body, s + 1, t) \in Data BY <1>1, <4>3, PartOfIn
      <4> QED BY <4>4 DEF s, t
    <3>4. Len(x) >= Len(last) + 2 BY <3>1, ChunksLeftBehind
    <3>5. rest = q \o (Crlf \o x) BY <2>2
    <3> HIDE DEF x, q
    <3>6. Len(q \o (Crlf \o x)) >= Len(x) + 2 BY <3>2, <3>3, LongerThanNext
    <3>7. Len(x) \in Nat /\ Len(rest) \in Nat /\ Len(last) \in Nat BY <1>1, <1>8, <3>2, LenOf
    <3> QED BY <3>4, <3>5, <3>6, <3>7
  <2> QED BY <1>7, <2>1, <2>2 DEF NextChunk
<1>10. /\ Len(last) \in Nat /\ Len(left) \in Nat /\ Len(next) \in Nat /\ Len(h) \in Nat /\ Len(b) \in Nat
       /\ Len(rest) \in Nat /\ Len(p) \in Nat
  BY <1>1, <1>3, <1>5, <1>8, LenOf
<1> HIDE DEF next, h, b, p
<1>11. u \in Data /\ Len(u) = Len(h) + Len(left) BY <1>3, JoinIn, LenOf
<1>12. w \in Data /\ Len(w) = Len(next) + 2 BY <1>3, CrlfIs, JoinIn, LongerThan
<1> HIDE DEF u, w
<1>13. Len(b) + Len(u) = Len(p) + Len(w)
  <2>1. Len(b \o u) = Len(b) + Len(u) BY <1>3, <1>11, LenOf
  <2>2. Len(p \o w) = Len(p) + Len(w) BY <1>5, <1>12, LenOf
  <2> QED BY <1>2, <2>1, <2>2
<1>14. CASE Len(b) < Len(p)
  <2>1. h = <<>> BY <1>2, <1>4, <1>5, <1>14
  <2>2. Len(h) = 0 BY <1>3, <2>1, LenOf
  <2> QED BY <1>6, <1>10, <1>11, <1>12, <1>13, <1>14, <2>2
<1>15. CASE Len(h) <= 2 /\ Len(b) = Len(p)
  BY <1>6, <1>10, <1>11, <1>12, <1>13, <1>15
<1>16. CASE Len(h) > 2 /\ Len(b) = Len(p)
  <2>1. b = p /\ u = w BY <1>2, <1>3, <1>5, <1>11, <1>12, <1>16, SameCut
  <2> DEFINE f == From(h, 3)
             d == Digits(v, 16)
             a == d \o PreOf(Crlf)
  <2>2. f \in Data /\ f \o left = next
    <3>1. Crlf \in Data /\ Len(Crlf) = 2 BY CrlfIs
    <3>2. h \o left = Crlf \o next BY <2>1 DEF u, w
    <3>3. Len(Crlf) <= Len(h) BY <1>16, <3>1
    <3> DEFINE crlf == Crlf
    <3> HIDE DEF crlf
    <3>4. IsCut(h, crlf, left, next) BY <1>3, <3>1, <3>2, <3>3, TwoCuts DEF crlf
    <3>5. Behind(crlf, h) = f BY <3>1 DEF Behind, crlf
    <3> QED BY <3>4, <3>5 DEF IsCut
  <2>3. HasValue(d, 16, v)
    <3>1. 16 \in {10, 16} OBVIOUS
    <3> QED BY <1>8, <3>1, DigitsValue
  <2> HIDE DEF d
  <2>4. a \in Data /\ d \o (Crlf \o rest) = a \o (Lf \o rest) BY <1>8, <2>3, DigitsAndCr
  <2>5. next = d \o (Crlf \o rest) BY <1>8 DEF next, d
  <2>6. f \o left = a \o (Lf \o rest) /\ Without(f, "lf") BY <1>2, <2>2, <2>4, <2>5 DEF h
  <2> HIDE DEF a, f
  <2>7. Len(left) > Len(rest) BY <1>8, <2>2, <2>4, <2>6, MoreThan
  <2> QED BY <1>9, <1>10, <2>7
<1>17. Len(b) <= Len(p) BY <1>4, <1>2, <1>5 DEF b
<1> QED BY <1>10, <1>14, <1>15, <1>16, <1>17

\* A request that is not read to its end leaves more than is behind it.
LEMMA MoreLeft ==
  ASSUME NEW c \in Conns, NEW left \in Data, NEW r, IsRequest(r), NEW later \in Data,
         InRequest(c, left, r, later), c.rrs # "RRS_READ_FINISHED"
  PROVE  Len(left) > Len(later)
<1>1. Len(left) \in Nat /\ Len(later) \in Nat BY LenOf
<1>2. CASE InHead(c, left, r, later)
  <2> DEFINE n == Len(HeadLines(r))
             tail == BodyOf(r) \o later
             h == HeadSoFar(c)
             ls == HeadLines(r)
             eol == r.eol
  <2>1. PICK H, R : IsHeadPlan(r, later, H, R) /\ \E j \in 0 .. n : AtLine(h, j, left, H, R)
    BY <1>2 DEF InHead
  <2>2. PICK j \in 0 .. n : AtLine(h, j, left, H, R) BY <2>1
  <2>3. IsHead(n, ls, eol, tail, H, R) BY <2>1 DEF IsHeadPlan
  <2>4. tail \in Data /\ Len(tail) >= Len(later) BY BytesIn, JoinIn, LongerThan
  <2> HIDE DEF n, tail, h, ls, eol
  <2>5. Len(left) > Len(tail) BY <2>2, <2>3, LineLeft
  <2>6. Len(tail) \in Nat BY <2>4, LenOf
  <2> QED BY <1>1, <2>4, <2>5, <2>6
<1>3. CASE InBody(c, left, r, later)
  <2> DEFINE body == r.body
             b == c.body
  <2>1. b \in Data /\ c.bodyReadLen = Len(b) /\ body \in Data
    BY DEF Conns, Conn, Counted, IsRequest
  <2>2. CASE r.sizes = <<>>
    <3>1. c.bodyReadLen < c.bodyLen /\ c.bodyLen = Len(body) /\ b \o left = body \o later
      BY <1>3, <2>2 DEF InBody, TakesAll
    <3> HIDE DEF b, body
    <3>2. Len(b \o left) = Len(b) + Len(left) /\ Len(body \o later) = Len(body) + Len(later)
      BY <2>1, LenOf
    <3>3. Len(b) \in Nat /\ Len(body) \in Nat BY <2>1, LenOf
    <3>4. Len(b) + Len(left) = Len(body) + Len(later) BY <3>1, <3>2
    <3> QED BY <1>1, <2>1, <3>1, <3>3, <3>4
  <2>3. CASE r.sizes # <<>>
    <3> DEFINE n == Len(r.sizes)
               lines == Lines(r.trailer \o EmptyLine, r.eol)
               last == lines \o later
    <3>1. PICK S, C : IsChunkPlan(r, later, S, C) /\ TakesChunks(c, left, n, S, C, body, last)
      BY <1>3, <2>3 DEF InBody
    <3>2. IsChunking(n, S, C, body, last) BY <3>1 DEF IsChunkPlan
    <3>3. PICK k \in 0 .. n : InChunk(c, left, k, S, C, body)
      BY <1>3, <3>1 DEF InBody, TakesChunks
    <3>4. Len(left) > Len(last)
      <4> HIDE DEF n, last, body
      <4> QED BY <3>2, <3>3, ChunksLeft
    <3>5. lines \in Data
      <4> DEFINE all == r.trailer \o EmptyLine
                 eol == r.eol
      <4>1. eol \in Eols /\ r.trailer \in Seq(Data) BY DEF IsRequest
      <4>2. all \in Seq(Data) BY <4>1, EmptyLineIs, ConcatProperties
      <4> HIDE DEF all, eol
      <4> QED BY <4>1, <4>2, LinesIn DEF all, eol
    <3> HIDE DEF lines
    <3>6. last \in Data /\ Len(last) >= Len(later) BY <3>5, JoinIn, LongerThan
    <3>7. Len(last) \in Nat BY <3>6, LenOf
    <3> QED BY <1>1, <3>4, <3>6, <3>7
  <2> QED BY <2>2, <2>3
<1>4. CASE InTrailer(c, left, r, later)
  <2> DEFINE n == Len(r.trailer)
             h == c.header
             ls == r.trailer
             eol == r.eol
  <2>1. PICK H, R : IsTrailerPlan(r, later, H, R) /\ \E j \in 0 .. n : AtLine(h, j, left, H, R)
    BY <1>4 DEF InTrailer
  <2>2. PICK j \in 0 .. n : AtLine(h, j, left, H, R) BY <2>1
  <2>3. IsHead(n, ls, eol, later, H, R) BY <2>1 DEF IsTrailerPlan
  <2> HIDE DEF n, h, ls, eol
  <2> QED BY <2>2, <2>3, LineLeft
<1> QED BY <1>2, <1>3, <1>4 DEF InRequest, IsRead

\* A connection at the first byte of a request.
LEMMA HeadBegins ==
  ASSUME NEW c, NEW r, IsRequest(r), NEW later \in Data, c.rrs \in {"RRS_IDLE", "RRS_READ_HEAD"},
         HeadSoFar(c) = reqhdr_new
  PROVE  InHead(c, Bytes(r) \o later, r, later)
<1> DEFINE left == Bytes(r) \o later
           h == reqhdr_new
<1>1. PICK H, R : IsHeadPlan(r, later, H, R) BY HeadPlanExists
<1>2. H[0] = h /\ R[0] = left BY <1>1 DEF IsHeadPlan
<1>3. left \in Data BY BytesIn, JoinIn
<1>4. h.cur = <<>> /\ h \in Header BY NewHeaders DEF reqhdr_new, datahdr_new
<1> HIDE DEF left, h
<1>5. AtLine(h, 0, left, H, R)
  <2>1. h = [H[0] EXCEPT !.cur = h.cur] BY <1>2, <1>4 DEF Header
  <2>2. <<>> \in Data /\ <<>> \o left = left BY <1>3, NoneIn
  <2>3. Without(<<>>, "lf") BY EmptySeq DEF Without
  <2> QED BY <1>2, <1>4, <2>1, <2>2, <2>3 DEF AtLine
<1>6. 0 \in 0 .. Len(HeadLines(r))
  <2>1. HeadLines(r) \in Seq(Data) BY HeadLinesAre
  <2>2. Len(HeadLines(r)) \in Nat BY <2>1, LenProperties
  <2> QED BY <2>2
<1>7. AtLine(HeadSoFar(c), 0, left, H, R) BY <1>5 DEF h
<1> QED BY <1>1, <1>6, <1>7 DEF InHead, left

\* A request has a byte.
LEMMA BytesLeft ==
  ASSUME NEW r, IsRequest(r), NEW later \in Data
  PROVE  Bytes(r) \o later \in Data /\ Len(Bytes(r) \o later) > Len(later)
<1> DEFINE c == conn_new
<1>1. c \in Conns /\ c.rrs = "RRS_READ_HEAD" /\ c.header = reqhdr_new BY NewConn DEF conn_new
<1> HIDE DEF c
<1>2. HeadSoFar(c) = reqhdr_new BY <1>1 DEF HeadSoFar
<1>3. InHead(c, Bytes(r) \o later, r, later) BY <1>1, <1>2, HeadBegins
<1>4. Bytes(r) \o later \in Data BY BytesIn, JoinIn
<1>5. InRequest(c, Bytes(r) \o later, r, later) BY <1>3 DEF InRequest
<1> DEFINE left == Bytes(r) \o later
<1> HIDE DEF left
<1>6. left \in Data /\ InRequest(c, left, r, later) /\ c.rrs # "RRS_READ_FINISHED" BY <1>1, <1>4, <1>5 DEF left
<1>7. Len(left) > Len(later) BY <1>1, <1>6, MoreLeft
<1> QED BY <1>4, <1>7 DEF left

\* Where a request is read does not depend on what has come of it.
LEMMA OtherBuffer ==
  ASSUME NEW c \in Conns, NEW d \in Data, NEW left, NEW r, NEW later, InRequest(c, left, r, later)
  PROVE  LET new == [c EXCEPT !.buf = d]
         IN /\ new \in Conns /\ new.buf = d /\ new.rrs = c.rrs /\ new.body = c.body
            /\ InRequest(new, left, r, later)
<1> DEFINE new == [c EXCEPT !.buf = d]
<1>1. c \in Conn /\ Counted(c) BY DEF Conns
<1>2. new \in Conn BY <1>1 DEF Conn
<1>3. /\ new.buf = d /\ new.rrs = c.rrs /\ new.header = c.header /\ new.body = c.body
      /\ new.bodyLen = c.bodyLen /\ new.bodyReadLen = c.bodyReadLen /\ new.chunkHdr = c.chunkHdr
      /\ new.isChunked = c.isChunked
  BY <1>1 DEF Conn
<1> HIDE DEF new
<1>4. new \in Conns BY <1>1, <1>2, <1>3 DEF Conns, Counted
<1>5. HeadSoFar(new) = HeadSoFar(c) BY <1>3 DEF HeadSoFar
<1>6. InHead(new, left, r, later) <=> InHead(c, left, r, later) BY <1>3, <1>5 DEF InHead
<1>7. TakesAll(new, left, r.body, later) <=> TakesAll(c, left, r.body, later) BY <1>3 DEF TakesAll
<1>8. \A k, S, C, body : InChunk(new, left, k, S, C, body) <=> InChunk(c, left, k, S, C, body)
  BY <1>3 DEF InChunk
<1>9. \A n, S, C, body, last :
        TakesChunks(new, left, n, S, C, body, last) <=> TakesChunks(c, left, n, S, C, body, last)
  BY <1>3, <1>8 DEF TakesChunks
<1>10. InBody(new, left, r, later) <=> InBody(c, left, r, later) BY <1>3, <1>7, <1>9 DEF InBody
<1>11. InTrailer(new, left, r, later) <=> InTrailer(c, left, r, later) BY <1>3 DEF InTrailer
<1>12. IsRead(new, left, r, later) <=> IsRead(c, left, r, later) BY <1>3 DEF IsRead
<1>13. InRequest(new, left, r, later) BY <1>6, <1>10, <1>11, <1>12 DEF InRequest
<1> QED BY <1>3, <1>4, <1>13 DEF new

----------------------------------------------------------------------------
(* All requests of a client, and the inductive invariant.                    *)

\* R[k]: the bytes behind the first k of the requests s; w are all, and e are the places
\* where the requests end
IsPlan(s, w, e, R) ==
  /\ s \in Sent /\ w \in Data /\ R \in [0 .. Len(s) -> Data] /\ R[0] = w /\ R[Len(s)] = <<>>
  /\ \A k \in 1 .. Len(s) : R[k - 1] = Bytes(s[k]) \o R[k]
  /\ \A k \in 1 .. Len(s) : e[k] \in Nat /\ e[k] + Len(R[k]) = Len(w)

\* The bytes of requests.
LEMMA PlanExists ==
  ASSUME NEW s \in Sent
  PROVE  LET bytes == [k \in DOMAIN s |-> Bytes(s[k])]
         IN \E R : IsPlan(s, FlattenSeq(bytes), [k \in DOMAIN s |-> Len(FlattenSeq(SubSeq(bytes, 1, k)))], R)
<1> DEFINE bytes == [k \in DOMAIN s |-> Bytes(s[k])]
           w == FlattenSeq(bytes)
           e == [k \in DOMAIN s |-> Len(FlattenSeq(SubSeq(bytes, 1, k)))]
           n == Len(s)
<1>1. s \in Seq(Request) /\ \A k \in 1 .. n : IsRequest(s[k]) BY SentIs
<1>2. n \in Nat /\ DOMAIN s = 1 .. n BY <1>1, LenProperties
<1>3. \A k \in 1 .. n : bytes[k] = Bytes(s[k]) /\ bytes[k] \in Data BY <1>1, <1>2, BytesIn
<1>4. bytes \in [1 .. n -> Data] BY <1>2, <1>3
<1>5. \A k \in 1 .. n : e[k] = Len(FlattenSeq(SubSeq(bytes, 1, k))) BY <1>2
<1> HIDE DEF bytes, n, e
<1>6. bytes \in Seq(Data) /\ Len(bytes) = n BY <1>2, <1>4, DataSeq
<1>7. PICK R \in [0 .. Len(bytes) -> Data] :
        IsRest(R, bytes) /\ \A k \in 0 .. Len(bytes) : FlattenSeq(SubSeq(bytes, 1, k)) \o R[k] = R[0]
  BY <1>6, RestExists
<1>8. /\ R \in [0 .. n -> Data] /\ R[0] = w /\ R[n] = <<>>
      /\ \A k \in 1 .. n : R[k - 1] = bytes[k] \o R[k]
  BY <1>6, <1>7 DEF IsRest
<1>9. w \in Data BY <1>6, FlattenIn
<1>10. ASSUME NEW k \in 1 .. n PROVE e[k] \in Nat /\ e[k] + Len(R[k]) = Len(w)
  <2> DEFINE t == SubSeq(bytes, 1, k)
             f == FlattenSeq(t)
             x == R[k]
  <2>1. k \in 0 .. Len(bytes) /\ k \in 0 .. n BY <1>2, <1>6
  <2>2. t \in Seq(Data) BY <1>6, <2>1, FirstIs
  <2>3. f \o x = w BY <1>7, <1>8, <2>1
  <2>4. e[k] = Len(f) BY <1>5
  <2>5. x \in Data BY <1>8, <2>1
  <2> HIDE DEF t, x, w
  <2>6. f \in Data BY <2>2, FlattenIn
  <2> HIDE DEF f
  <2>7. Len(f \o x) = Len(f) + Len(x) /\ Len(f) \in Nat BY <2>5, <2>6, LenOf
  <2> QED BY <2>3, <2>4, <2>7 DEF x
<1> HIDE DEF w
<1>11. IsPlan(s, w, e, R) BY <1>3, <1>8, <1>9, <1>10 DEF IsPlan, n
<1> QED BY <1>11 DEF w, e, bytes

\* Less is behind a later request.
LEMMA LessBehind ==
  ASSUME NEW s, NEW w, NEW e, NEW R, IsPlan(s, w, e, R), NEW i \in 0 .. Len(s)
  PROVE  \A k \in i .. Len(s) : Len(R[k]) <= Len(R[i]) /\ (k # i => Len(R[k]) < Len(R[i]))
<1> DEFINE n == Len(s)
           N == n - i
           T == {d \in 0 .. N : Len(R[i + d]) + d <= Len(R[i])}
<1>1. s \in Seq(Request) /\ \A k \in 1 .. n : IsRequest(s[k]) BY SentIs DEF IsPlan
<1>2. n \in Nat BY <1>1, LenProperties
<1>3. R \in [0 .. n -> Data] /\ \A k \in 1 .. n : R[k - 1] = Bytes(s[k]) \o R[k] BY DEF IsPlan
<1> HIDE DEF n
<1>4. N \in Nat /\ i \in Nat /\ i \in 0 .. n BY <1>2 DEF n
<1>5. \A k \in 0 .. n : Len(R[k]) \in Nat BY <1>3, LenOf
<1>6. \A k \in 1 .. n : Len(R[k - 1]) > Len(R[k])
  <2> SUFFICES ASSUME NEW k \in 1 .. n PROVE Len(R[k - 1]) > Len(R[k])
    OBVIOUS
  <2> DEFINE r == s[k]
             x == R[k]
  <2>1. k \in 0 .. n BY <1>2
  <2>2. x \in Data /\ IsRequest(r) BY <1>1, <1>3, <2>1
  <2>3. R[k - 1] = Bytes(r) \o x BY <1>3
  <2> HIDE DEF r, x
  <2>4. Len(Bytes(r) \o x) > Len(x) BY <2>2, BytesLeft
  <2> QED BY <2>3, <2>4 DEF x
<1>7. 0 \in T
  <2>1. i + 0 = i /\ 0 \in 0 .. N BY <1>4
  <2>2. Len(R[i]) \in Nat BY <1>4, <1>5
  <2> QED BY <2>1, <2>2
<1>8. ASSUME NEW d \in 1 .. N, d - 1 \in T PROVE d \in T
  <2> DEFINE k == i + d
  <2>1. k \in 1 .. n /\ k \in 0 .. n /\ k - 1 = i + (d - 1) /\ k - 1 \in 0 .. n /\ d \in 0 .. N
    BY <1>2, <1>4
  <2>2. Len(R[k - 1]) + (d - 1) <= Len(R[i]) BY <1>8, <2>1
  <2> HIDE DEF k, N
  <2>3. Len(R[k - 1]) > Len(R[k]) BY <1>6, <2>1
  <2>4. Len(R[k - 1]) \in Nat /\ Len(R[k]) \in Nat /\ Len(R[i]) \in Nat BY <1>4, <1>5, <2>1
  <2>5. d \in Nat BY <1>4
  <2>6. Len(R[k]) + d <= Len(R[i]) BY <2>2, <2>3, <2>4, <2>5
  <2> QED BY <2>1, <2>6 DEF k
<1>9. \A d \in 0 .. N : d \in T
  <2> HIDE DEF T, N
  <2> QED BY <1>4, <1>7, <1>8, UpTo
<1>10. ASSUME NEW k \in i .. n PROVE Len(R[k]) <= Len(R[i]) /\ (k # i => Len(R[k]) < Len(R[i]))
  <2> DEFINE d == k - i
  <2>1. d \in 0 .. N /\ i + d = k /\ k \in 0 .. n /\ (k # i => d > 0) BY <1>2, <1>4
  <2>2. d \in T BY <1>9, <2>1
  <2>3. Len(R[k]) + d <= Len(R[i]) BY <2>1, <2>2
  <2>4. Len(R[k]) \in Nat /\ Len(R[i]) \in Nat BY <1>4, <1>5, <2>1
  <2> HIDE DEF d
  <2>5. d \in Nat BY <1>4, <2>1
  <2> QED BY <2>1, <2>3, <2>4, <2>5
<1> QED BY <1>10 DEF n

\* What begins data is a prefix of it.
LEMMA PrefixIs ==
  ASSUME NEW a \in Data, NEW b \in Data, NEW x \in Data, a \o x = b
  PROVE  IsPrefix(a, b)
<1>1. Len(a \o x) = Len(a) + Len(x) /\ Len(a) \in Nat /\ Len(x) \in Nat BY LenOf
<1>2. a \in Seq(Byte) /\ x \in Seq(Byte) BY DEF Data
<1>3. SubSeq(a \o x, 1, Len(a)) = a BY <1>2, JoinedCut
<1>4. SubSeq(a, 1, Len(a)) = a
  <2>1. a \o <<>> = a BY NoneIn
  <2>2. <<>> \in Seq(Byte) BY EmptySeq
  <2>3. SubSeq(a \o <<>>, 1, Len(a)) = a BY <1>2, <2>2, JoinedCut
  <2> QED BY <2>1, <2>3
<1> QED BY <1>1, <1>3, <1>4 DEF IsPrefix

\* What has been taken of a body is a beginning of it.
LEMMA BodyBeginning ==
  ASSUME NEW c \in Conns, NEW left \in Data, NEW r, IsRequest(r), NEW later \in Data,
         InRequest(c, left, r, later)
  PROVE  IsPrefix(c.body, r.body)
<1> DEFINE b == c.body
           body == r.body
<1>1. b \in Data /\ body \in Data /\ c.bodyReadLen = Len(b) /\ Len(b) <= c.bodyLen
  BY DEF Conns, Conn, Counted, IsRequest
<1>2. ASSUME NEW x \in Data, NEW y \in Data, b \o y = body \o x, Len(b) <= Len(body)
      PROVE  IsPrefix(b, body)
  <2> HIDE DEF b, body
  <2>1. IsCut(body, b, x, y) BY <1>1, <1>2, TwoCuts
  <2>2. Behind(b, body) \in Data /\ b \o Behind(b, body) = body BY <2>1 DEF IsCut
  <2> QED BY <1>1, <2>2, PrefixIs
<1>3. CASE b = body
  <2>1. body \o <<>> = body /\ <<>> \in Data BY <1>1, NoneIn
  <2> HIDE DEF body
  <2>2. IsPrefix(body, body) BY <1>1, <2>1, PrefixIs
  <2> QED BY <1>3, <2>2 DEF body
<1>4. CASE InHead(c, left, r, later)
  <2>1. b = <<>> BY <1>4 DEF InHead, Conns, Counted
  <2>2. <<>> \o body = body /\ <<>> \in Data BY <1>1, NoneIn
  <2> HIDE DEF b, body
  <2>3. IsPrefix(b, body) BY <1>1, <2>1, <2>2, PrefixIs
  <2> QED BY <2>3 DEF b, body
<1>5. CASE InBody(c, left, r, later)
  <2>1. CASE r.sizes = <<>>
    <3>1. c.bodyLen = Len(body) /\ b \o left = body \o later BY <1>5, <2>1 DEF InBody, TakesAll
    <3> QED BY <1>1, <1>2, <3>1
  <2>2. CASE r.sizes # <<>>
    <3> DEFINE n == Len(r.sizes)
               last == Lines(r.trailer \o EmptyLine, r.eol) \o later
    <3>1. PICK S, C : IsChunkPlan(r, later, S, C) /\ TakesChunks(c, left, n, S, C, body, last)
      BY <1>5, <2>2 DEF InBody
    <3>2. IsChunking(n, S, C, body, last) BY <3>1 DEF IsChunkPlan
    <3>3. PICK k \in 0 .. n : InChunk(c, left, k, S, C, body)
      BY <1>5, <3>1 DEF InBody, TakesChunks
    <3> DEFINE m == S[k]
               p == SubSeq(body, 1, m)
               w == Crlf \o C[k]
               u == c.chunkHdr \o left
               q == From(body, m + 1)
    <3>4. m \in 0 .. Len(body) /\ C[k] \in Data BY <3>2 DEF IsChunking
    <3>5. c.bodyLen = m /\ b \o u = p \o w BY <3>3 DEF InChunk
    <3>6. w \in Data BY <3>4, CrlfIs, JoinIn
    <3>7. u \in Data
      <4>1. c.chunkHdr \in Data BY DEF Conns, Conn
      <4> QED BY <4>1, JoinIn
    <3>8. p \in Data /\ Len(p) = m /\ q \in Data /\ p \o q = body
      <4> HIDE DEF m, body
      <4>1. body \in Seq(Byte) BY <1>1 DEF Data
      <4>2. p \in Seq(Byte) /\ Len(p) = m BY <3>4, <4>1, FirstIs
      <4>3. p \o q = body BY <3>4, <4>1, CutAt
      <4>4. m + 1 \in Nat /\ m + 1 > 0 BY <3>4
      <4>5. q \in Seq(Byte) BY <4>1, <4>4, FromIs
      <4> QED BY <4>2, <4>3, <4>5 DEF Data
    <3>9. Len(b) <= Len(p) BY <1>1, <3>5, <3>8
    <3> HIDE DEF b, body, m, p, w, u, q
    <3>10. IsCut(p, b, w, u) BY <1>1, <3>5, <3>6, <3>7, <3>8, <3>9, TwoCuts
    <3> DEFINE t == Behind(b, p)
    <3>11. t \in Data /\ b \o t = p BY <3>10 DEF IsCut
    <3> HIDE DEF t
    <3>12. (b \o t) \o q = b \o (t \o q)
      <4>1. b \in Data /\ t \in Data /\ q \in Data BY <1>1, <3>8, <3>11
      <4> QED BY <4>1, Joins, ZenonT(60)
    <3>13. t \o q \in Data BY <3>8, <3>11, JoinIn
    <3> DEFINE z == t \o q
    <3>14. b \o z = body /\ z \in Data BY <3>8, <3>11, <3>12, <3>13
    <3> HIDE DEF z
    <3>15. IsPrefix(b, body) BY <1>1, <3>14, PrefixIs
    <3> QED BY <3>15 DEF b, body
  <2> QED BY <2>1, <2>2
<1>6. CASE InTrailer(c, left, r, later) \/ IsRead(c, left, r, later)
  BY <1>3, <1>6 DEF InTrailer, IsRead
<1> QED BY <1>4, <1>5, <1>6 DEF InRequest

\* the requests that have been read
Got == [header : Header, body : Data, mpdata : MpData]

AsSent(g, s) ==
  \A k \in 1 .. Len(g) : /\ g[k].header.request = s[k].request /\ g[k].header.lines = LinesOf(s[k])
                         /\ g[k].body = s[k].body

\* n requests have been read, and left is what is left to read
Where(c, left, s, R, n) ==
  /\ n \in 0 .. Len(s)
  /\ IF c.rrs = "RRS_READ_FINISHED" THEN n > 0 /\ left = R[n] /\ c.body = s[n].body
     ELSE IF n = Len(s) THEN left = <<>> /\ c.rrs \in {"RRS_IDLE", "RRS_READ_HEAD"} /\ c.body = <<>>
     ELSE InRequest(c, left, s[n + 1], R[n + 1])

Reads(s, w, e, f, c, g) ==
  /\ s \in Sent /\ w \in Data /\ f \in 0 .. Len(w) /\ c \in Conns /\ g \in Seq(Got) /\ AsSent(g, s)
  /\ \E R : IsPlan(s, w, e, R) /\ Where(c, c.buf \o From(w, f + 1), s, R, Len(g))

\* The inductive invariant: the requests that have been read are those that were sent, and
\* what is left of the bytes is what the request that is being read has left.
ReaderInv == Reads(sent, wire, ends, fed, conn, got)

\* A piece of what is left.
LEMMA PieceOf ==
  ASSUME NEW w \in Data, NEW f \in 0 .. Len(w), NEW n \in 1 .. Len(w) - f
  PROVE  LET d == SubSeq(w, f + 1, f + n)
         IN /\ d \in Data /\ d # <<>> /\ From(w, f + n + 1) \in Data
            /\ d \o From(w, f + n + 1) = From(w, f + 1) /\ f + n \in 0 .. Len(w)
<1> DEFINE d == SubSeq(w, f + 1, f + n)
           t == From(w, f + 1)
           x == From(w, f + n + 1)
           L == Len(w)
<1>1. w \in Seq(Byte) /\ L \in Nat BY LenOf DEF Data
<1>2. f \in Nat /\ n \in Nat /\ n > 0 /\ f + n \in Nat /\ f + n <= L /\ f + n \in 0 .. L BY <1>1
<1>3. \A j \in 1 .. L : w[j] \in Byte BY <1>1, ElementOfSeq
<1>4. d \in Seq(Byte) /\ Len(d) = n /\ \A k \in 1 .. n : d[k] = w[f + k]
  <2>1. f + 1 \in Int /\ f + n \in Int BY <1>2
  <2>2. \A j \in f + 1 .. f + n : j \in 1 .. L BY <1>1, <1>2
  <2>3. \A j \in f + 1 .. f + n : w[j] \in Byte BY <1>3, <2>2
  <2>4. (f + n) - (f + 1) + 1 = n /\ f + 1 <= (f + n) + 1 BY <1>2
  <2>5. /\ d \in Seq(Byte)
        /\ Len(d) = IF f + 1 <= f + n THEN (f + n) - (f + 1) + 1 ELSE 0
        /\ \A k \in 1 .. (f + n) - (f + 1) + 1 : d[k] = w[(f + 1) + k - 1]
    BY <2>1, <2>3, SubSeqProperties
  <2> HIDE DEF d
  <2>6. Len(d) = n BY <1>2, <2>4, <2>5
  <2>7. \A k \in 1 .. n : (f + 1) + k - 1 = f + k BY <1>2
  <2>8. \A k \in 1 .. n : d[k] = w[f + k] BY <2>4, <2>5, <2>7
  <2> QED BY <2>5, <2>6, <2>8
<1>5. t \in Seq(Byte) /\ Len(t) = L - f /\ \A k \in 1 .. L - f : t[k] = w[f + k]
  <2> DEFINE i == f + 1
  <2>1. i \in Nat /\ i > 0 /\ i <= L /\ L - i + 1 = L - f BY <1>1, <1>2
  <2>2. \A k \in 1 .. L - f : i + k - 1 = f + k BY <1>1, <1>2
  <2> HIDE DEF i
  <2>3. /\ From(w, i) \in Seq(Byte) /\ Len(From(w, i)) = L - f
        /\ \A k \in 1 .. L - f : From(w, i)[k] = w[i + k - 1]
    BY <1>1, <2>1, FromIs
  <2>4. \A k \in 1 .. L - f : From(w, i)[k] = w[f + k] BY <2>2, <2>3
  <2> QED BY <2>3, <2>4 DEF i
<1>6. x \in Seq(Byte) /\ Len(x) = L - f - n /\ \A k \in 1 .. L - f - n : x[k] = w[f + n + k]
  <2> DEFINE i == f + n + 1
  <2>1. i \in Nat /\ i > 0 /\ (i <= L => L - i + 1 = L - f - n) /\ (~(i <= L) => L - f - n = 0)
    BY <1>1, <1>2
  <2>2. \A k \in 1 .. L - f - n : i + k - 1 = f + n + k /\ k \in 1 .. L - i + 1 BY <1>1, <1>2
  <2> HIDE DEF i
  <2>3. /\ From(w, i) \in Seq(Byte) /\ Len(From(w, i)) = IF i <= L THEN L - i + 1 ELSE 0
        /\ \A k \in 1 .. L - i + 1 : From(w, i)[k] = w[i + k - 1]
    BY <1>1, <2>1, FromIs
  <2>4. Len(From(w, i)) = L - f - n BY <2>1, <2>3
  <2>5. \A k \in 1 .. L - f - n : From(w, i)[k] = w[f + n + k] BY <2>2, <2>3
  <2> QED BY <2>3, <2>4, <2>5 DEF i
<1> HIDE DEF d, t, x, L
<1>7. d \o x = t
  <2> DEFINE y == d \o x
  <2>1. /\ y \in Seq(Byte) /\ Len(y) = Len(d) + Len(x)
        /\ \A k \in 1 .. Len(d) + Len(x) : y[k] = IF k <= Len(d) THEN d[k] ELSE x[k - Len(d)]
    BY <1>4, <1>6, ConcatProperties
  <2> HIDE DEF y
  <2>2. Len(y) = L - f /\ Len(y) = Len(t) BY <1>1, <1>2, <1>4, <1>5, <1>6, <2>1
  <2>3. ASSUME NEW k \in 1 .. Len(y) PROVE y[k] = t[k]
    <3>1. k \in 1 .. L - f /\ k \in 1 .. Len(d) + Len(x) BY <2>1, <2>2
    <3>2. t[k] = w[f + k] BY <1>5, <3>1
    <3>3. CASE k <= n
      <4>1. k \in 1 .. n /\ k <= Len(d) BY <1>4, <3>1, <3>3
      <4>2. y[k] = d[k] BY <2>1, <3>1, <4>1
      <4>3. d[k] = w[f + k] BY <1>4, <4>1
      <4> QED BY <3>2, <4>2, <4>3
    <3>4. CASE ~(k <= n)
      <4> DEFINE i == k - n
      <4>1. i \in 1 .. L - f - n /\ f + n + i = f + k /\ ~(k <= Len(d)) /\ k - Len(d) = i
        BY <1>1, <1>2, <1>4, <3>1, <3>4
      <4> HIDE DEF i
      <4>2. y[k] = x[i] BY <2>1, <3>1, <4>1
      <4>3. x[i] = w[f + n + i] BY <1>6, <4>1
      <4> QED BY <3>2, <4>1, <4>2, <4>3
    <3> QED BY <3>3, <3>4
  <2>4. y = t BY <1>5, <2>1, <2>2, <2>3, SeqEqual
  <2> QED BY <2>4 DEF y
<1>8. d # <<>>
  <2>1. Len(<<>>) = 0 BY EmptySeq
  <2> QED BY <1>2, <1>4, <2>1
<1> QED BY <1>2, <1>4, <1>6, <1>7, <1>8 DEF d, t, x, L, Data

----------------------------------------------------------------------------
(* Every step keeps the invariant.                                           *)

\* What a request adds to those that have been read, when it has been read.
Added(g, c) ==
  IF c.rrs = "RRS_READ_FINISHED"
  THEN Append(g, [header |-> c.header, body |-> c.body, mpdata |-> c.mpdata]) ELSE g

\* One reading of a connection while a request is read.
LEMMA Appended ==
  ASSUME NEW s, NEW w, NEW e, NEW R, IsPlan(s, w, e, R), NEW c \in Conns, NEW rest \in Data,
         NEW g \in Seq(Got), AsSent(g, s), Len(g) < Len(s), NEW room \in Nat,
         InRequest(c, c.buf \o rest, s[Len(g) + 1], R[Len(g) + 1])
  PROVE  LET new == ReadTrailer(appendBodyData(ReadHead(c), room))
         IN /\ new \in Conns /\ Added(g, new) \in Seq(Got) /\ AsSent(Added(g, new), s)
            /\ Where(new, new.buf \o rest, s, R, Len(Added(g, new)))
<1> DEFINE n == Len(g)
           N == Len(s)
           m == n + 1
           r == s[m]
           later == R[m]
           new == ReadTrailer(appendBodyData(ReadHead(c), room))
           left == new.buf \o rest
           one == [header |-> new.header, body |-> new.body, mpdata |-> new.mpdata]
<1>1. s \in Seq(Request) /\ \A k \in 1 .. N : IsRequest(s[k]) BY SentIs DEF IsPlan
<1>2. N \in Nat /\ n \in Nat BY <1>1, LenProperties
<1>3. m \in 1 .. N /\ m \in 0 .. N /\ n \in 0 .. N /\ n # N /\ m > 0 BY <1>2
<1>4. IsRequest(r) /\ later \in Data
  <2>1. R \in [0 .. N -> Data] BY DEF IsPlan
  <2> QED BY <1>1, <1>3, <2>1
<1>5. InRequest(c, c.buf \o rest, r, later) OBVIOUS
<1> HIDE DEF r, later
<1>6. new \in Conns /\ InRequest(new, left, r, later) BY <1>4, <1>5, RequestStep
<1> HIDE DEF new, left, n, N
<1>7. CASE new.rrs # "RRS_READ_FINISHED"
  <2>1. Added(g, new) = g BY <1>7 DEF Added
  <2>2. Where(new, left, s, R, n) BY <1>3, <1>6, <1>7 DEF Where, r, later, N
  <2> QED BY <1>6, <2>1, <2>2 DEF new, left, n
<1>8. CASE new.rrs = "RRS_READ_FINISHED"
  <2>1. IsRead(new, left, r, later) BY <1>6, <1>8 DEF InRequest, InHead, InBody, InTrailer
  <2>2. /\ new.body = r.body /\ left = later /\ new.header.request = r.request
        /\ new.header.lines = LinesOf(r)
    BY <2>1 DEF IsRead, HasHeader
  <2>3. new.header \in Header /\ new.body \in Data /\ new.mpdata \in MpData BY <1>6 DEF Conns, Conn
  <2>4. one \in Got BY <2>3 DEF Got
  <2>5. Added(g, new) = Append(g, one) BY <1>8 DEF Added
  <2>6. one.header = new.header /\ one.body = new.body OBVIOUS
  <2> HIDE DEF one
  <2> DEFINE g2 == Append(g, one)
  <2>7. /\ g2 \in Seq(Got) /\ Len(g2) = m /\ g2[m] = one
        /\ \A k \in 1 .. n : g2[k] = g[k]
    BY <2>4, AppendProperties DEF n
  <2> HIDE DEF g2
  <2>8. AsSent(g2, s)
    <3> SUFFICES ASSUME NEW k \in 1 .. m
                 PROVE  /\ g2[k].header.request = s[k].request /\ g2[k].header.lines = LinesOf(s[k])
                        /\ g2[k].body = s[k].body
      BY <2>7 DEF AsSent
    <3>1. CASE k = m BY <2>2, <2>6, <2>7, <3>1 DEF r
    <3>2. CASE k # m
      <4>1. k \in 1 .. n BY <1>2, <3>2
      <4>2. g2[k] = g[k] BY <2>7, <4>1
      <4> QED BY <4>1, <4>2 DEF AsSent, n
    <3> QED BY <3>1, <3>2
  <2>9. Where(new, left, s, R, m) BY <1>3, <1>8, <2>2 DEF Where, r, later, N
  <2> QED BY <1>6, <2>5, <2>7, <2>8, <2>9 DEF new, left, g2
<1> QED BY <1>7, <1>8

\* The beginning.
LEMMA ReaderInit == Init => ReaderInv
<1> SUFFICES ASSUME Init PROVE Reads(sent, wire, ends, fed, conn, got)
  BY DEF ReaderInv
<1>1. sent \in Sent /\ fed = 0 /\ conn = conn_new /\ got = <<>> BY DEF Init
<1>2. PICK R : IsPlan(sent, wire, ends, R) BY <1>1, PlanExists DEF Init
<1>3. /\ wire \in Data /\ R[0] = wire /\ R[Len(sent)] = <<>> /\ R \in [0 .. Len(sent) -> Data]
      /\ \A k \in 1 .. Len(sent) : R[k - 1] = Bytes(sent[k]) \o R[k]
  BY <1>2 DEF IsPlan
<1>4. sent \in Seq(Request) /\ \A k \in 1 .. Len(sent) : IsRequest(sent[k]) BY <1>1, SentIs
<1>5. Len(sent) \in Nat /\ Len(wire) \in Nat BY <1>3, <1>4, LenProperties, LenOf
<1>6. conn \in Conns /\ conn.rrs = "RRS_READ_HEAD" /\ conn.header = reqhdr_new /\ conn.buf = <<>>
      /\ conn.body = <<>>
  BY <1>1, NewConn DEF conn_new
<1>7. got \in Seq(Got) /\ Len(got) = 0 /\ AsSent(got, sent) BY <1>1, EmptySeq DEF AsSent
<1>8. conn.buf \o From(wire, fed + 1) = wire
  <2>1. SubSeq(wire, 1, 0) \o From(wire, 0 + 1) = wire
    <3>1. 0 \in 0 .. Len(wire) /\ wire \in Seq(Byte) BY <1>3, <1>5 DEF Data
    <3> QED BY <3>1, CutAt
  <2>2. SubSeq(wire, 1, 0) = <<>> BY <1>3, TakeNone
  <2> QED BY <1>1, <1>6, <2>1, <2>2
<1>9. Where(conn, wire, sent, R, 0)
  <2>1. CASE Len(sent) = 0
    <3>1. wire = <<>> BY <1>3, <2>1
    <3> QED BY <1>5, <1>6, <2>1, <3>1 DEF Where
  <2>2. CASE Len(sent) # 0
    <3> DEFINE r == sent[1]
               later == R[1]
    <3>1. 1 \in 1 .. Len(sent) /\ 1 - 1 = 0 /\ 1 \in 0 .. Len(sent) /\ 0 \in 0 .. Len(sent) BY <1>5, <2>2
    <3>2. IsRequest(r) /\ later \in Data BY <1>3, <1>4, <3>1
    <3>3. wire = Bytes(r) \o later
      <4>1. R[1 - 1] = Bytes(r) \o later BY <1>3, <3>1
      <4> QED BY <1>3, <3>1, <4>1
    <3>4. HeadSoFar(conn) = reqhdr_new BY <1>6 DEF HeadSoFar
    <3> HIDE DEF r, later
    <3>5. InHead(conn, wire, r, later) BY <1>6, <3>2, <3>3, <3>4, HeadBegins
    <3>6. 0 + 1 = 1 OBVIOUS
    <3> QED BY <1>6, <2>2, <3>1, <3>5, <3>6 DEF Where, InRequest, r, later
  <2> QED BY <2>1, <2>2
<1> QED BY <1>1, <1>2, <1>3, <1>5, <1>6, <1>7, <1>8, <1>9 DEF Reads

\* What AppendBuffer makes of the connection and of the requests that have been read.
LEMMA BufferAppended ==
  ASSUME NEW c, conn.rrs # "RRS_READ_FINISHED", conn \in Conns, c \in Conns, AppendBuffer(c)
  PROVE  \E room \in Nat : /\ conn' = ReadTrailer(appendBodyData(ReadHead(c), room))
                           /\ got' = Added(got, conn')
<1> DEFINE head == ReadHead(c)
           rooms == IF head.handler = "CGI" THEN 0 .. Len(head.buf) ELSE {0}
<1>1. PICK room \in rooms : conn' = ReadTrailer(appendBodyData(head, room)) /\ got' = Completed(conn')
  BY DEF AppendBuffer
<1>2. room \in Nat BY <1>1
<1>3. got' = Added(got, conn') BY <1>1 DEF Completed, Added
<1> QED BY <1>1, <1>2, <1>3

\* A read keeps the invariant.
LEMMA ReaderRead == ReaderInv /\ Read => ReaderInv'
<1> SUFFICES ASSUME ReaderInv, Read PROVE Reads(sent', wire', ends', fed', conn', got')
  BY DEF ReaderInv
<1>1. /\ sent \in Sent /\ wire \in Data /\ fed \in 0 .. Len(wire) /\ conn \in Conns
      /\ got \in Seq(Got) /\ AsSent(got, sent)
  BY DEF ReaderInv, Reads
<1>2. PICK R : IsPlan(sent, wire, ends, R) /\ Where(conn, conn.buf \o From(wire, fed + 1), sent, R, Len(got))
  BY DEF ReaderInv, Reads
<1>3. conn.rrs # "RRS_READ_FINISHED" /\ conn.buf = <<>> /\ UNCHANGED <<sent, wire, ends>> BY DEF Read
<1>4. PICK n \in 1 .. Len(wire) - fed :
        /\ AppendBuffer([conn EXCEPT !.buf = SubSeq(wire, fed + 1, fed + n)])
        /\ fed' = fed + n
  BY DEF Read
<1> DEFINE d == SubSeq(wire, fed + 1, fed + n)
           c == [conn EXCEPT !.buf = d]
           rest == From(wire, fed + n + 1)
           left == From(wire, fed + 1)
           k == Len(got) + 1
<1>5. d \in Data /\ d # <<>> /\ rest \in Data /\ d \o rest = left /\ fed + n \in 0 .. Len(wire)
  BY <1>1, PieceOf
<1>6. left # <<>> /\ left \in Data
  <2> HIDE DEF d, rest, left
  <2>1. Len(d \o rest) = Len(d) + Len(rest) /\ Len(d) \in Nat /\ Len(rest) \in Nat /\ Len(d) # 0
    BY <1>5, LenOf
  <2>2. d \o rest \in Data BY <1>5, JoinIn
  <2>3. Len(left) # 0 BY <1>5, <2>1
  <2> QED BY <1>5, <2>2, <2>3, LenOf
<1>7. conn.buf \o left = left BY <1>3, <1>6, NoneIn
<1>8. Where(conn, left, sent, R, Len(got)) BY <1>2, <1>7
<1>9. Len(got) # Len(sent) /\ Len(got) \in 0 .. Len(sent) /\ InRequest(conn, left, sent[k], R[k])
  BY <1>3, <1>6, <1>8 DEF Where
<1>10. Len(got) < Len(sent) BY <1>9
<1> HIDE DEF d, left, k
<1>11. c \in Conns /\ c.buf = d /\ c.rrs = conn.rrs /\ InRequest(c, left, sent[k], R[k])
  BY <1>1, <1>5, <1>9, OtherBuffer
<1>12. AppendBuffer(c) BY <1>4 DEF d
<1> HIDE DEF c, rest
<1>13. PICK room \in Nat : /\ conn' = ReadTrailer(appendBodyData(ReadHead(c), room))
                           /\ got' = Added(got, conn')
  BY <1>1, <1>3, <1>11, <1>12, BufferAppended
<1>14. InRequest(c, c.buf \o rest, sent[k], R[k]) BY <1>5, <1>11
<1>15. /\ conn' \in Conns /\ got' \in Seq(Got) /\ AsSent(got', sent)
       /\ Where(conn', conn'.buf \o rest, sent, R, Len(got'))
  <2> DEFINE new == ReadTrailer(appendBodyData(ReadHead(c), room))
  <2>1. /\ new \in Conns /\ Added(got, new) \in Seq(Got) /\ AsSent(Added(got, new), sent)
        /\ Where(new, new.buf \o rest, sent, R, Len(Added(got, new)))
    BY <1>1, <1>2, <1>5, <1>10, <1>11, <1>14, Appended DEF k
  <2> HIDE DEF new
  <2> QED BY <1>13, <2>1 DEF new
<1>16. rest = From(wire, fed' + 1) /\ fed' \in 0 .. Len(wire) BY <1>4, <1>5 DEF rest
<1> QED BY <1>1, <1>2, <1>3, <1>15, <1>16 DEF Reads

\* So does what a CGI program takes of what has been read.
LEMMA ReaderAgain == ReaderInv /\ Again => ReaderInv'
<1> SUFFICES ASSUME ReaderInv, Again PROVE Reads(sent', wire', ends', fed', conn', got')
  BY DEF ReaderInv
<1>1. /\ sent \in Sent /\ wire \in Data /\ fed \in 0 .. Len(wire) /\ conn \in Conns
      /\ got \in Seq(Got) /\ AsSent(got, sent)
  BY DEF ReaderInv, Reads
<1> DEFINE rest == From(wire, fed + 1)
           buf == conn.buf
           k == Len(got) + 1
<1>2. PICK R : IsPlan(sent, wire, ends, R) /\ Where(conn, buf \o rest, sent, R, Len(got))
  BY DEF ReaderInv, Reads
<1>3. conn.rrs # "RRS_READ_FINISHED" /\ buf # <<>> /\ AppendBuffer(conn)
      /\ UNCHANGED <<sent, wire, ends, fed>>
  BY DEF Again
<1>4. rest \in Data BY <1>1, BehindIn
<1>5. buf \in Data BY <1>1 DEF Conns, Conn
<1> HIDE DEF rest, buf
<1>6. buf \o rest # <<>>
  <2>1. Len(buf \o rest) = Len(buf) + Len(rest) /\ Len(buf) \in Nat /\ Len(rest) \in Nat /\ Len(buf) # 0
    BY <1>3, <1>4, <1>5, LenOf
  <2>2. Len(<<>>) = 0 BY EmptySeq
  <2> QED BY <2>1, <2>2
<1>7. Len(got) # Len(sent) /\ Len(got) \in 0 .. Len(sent) /\ InRequest(conn, buf \o rest, sent[k], R[k])
  BY <1>2, <1>3, <1>6 DEF Where
<1>8. Len(got) < Len(sent) BY <1>7
<1>9. PICK room \in Nat : /\ conn' = ReadTrailer(appendBodyData(ReadHead(conn), room))
                          /\ got' = Added(got, conn')
  BY <1>1, <1>3, BufferAppended
<1>10. /\ conn' \in Conns /\ got' \in Seq(Got) /\ AsSent(got', sent)
       /\ Where(conn', conn'.buf \o rest, sent, R, Len(got'))
  <2> DEFINE new == ReadTrailer(appendBodyData(ReadHead(conn), room))
  <2>1. InRequest(conn, conn.buf \o rest, sent[Len(got) + 1], R[Len(got) + 1]) BY <1>7 DEF buf
  <2>2. /\ new \in Conns /\ Added(got, new) \in Seq(Got) /\ AsSent(Added(got, new), sent)
        /\ Where(new, new.buf \o rest, sent, R, Len(Added(got, new)))
    BY <1>1, <1>2, <1>4, <1>8, <2>1, Appended
  <2> HIDE DEF new
  <2> QED BY <1>9, <2>2 DEF new
<1> QED BY <1>1, <1>2, <1>3, <1>10 DEF Reads, rest

\* So does the re-initialization behind an answer.
LEMMA ReaderAnswered == ReaderInv /\ Answered => ReaderInv'
<1> SUFFICES ASSUME ReaderInv, Answered PROVE Reads(sent', wire', ends', fed', conn', got')
  BY DEF ReaderInv
<1>1. /\ sent \in Sent /\ wire \in Data /\ fed \in 0 .. Len(wire) /\ conn \in Conns
      /\ got \in Seq(Got) /\ AsSent(got, sent)
  BY DEF ReaderInv, Reads
<1> DEFINE left == conn.buf \o From(wire, fed + 1)
           n == Len(got)
           N == Len(sent)
           new == [conn_new EXCEPT !.rrs = "RRS_IDLE", !.buf = conn.buf]
<1>2. PICK R : IsPlan(sent, wire, ends, R) /\ Where(conn, left, sent, R, n) BY DEF ReaderInv, Reads
<1>3. conn.rrs = "RRS_READ_FINISHED" /\ conn' = new /\ UNCHANGED <<sent, wire, ends, fed, got>>
  BY DEF Answered
<1>4. conn.buf \in Data BY <1>1 DEF Conns, Conn
<1>5. new.rrs = "RRS_IDLE" /\ new.buf = conn.buf /\ new.body = <<>> BY DEF conn_new
<1>6. new \in Conns
  <2>1. conn_new \in Conn /\ Counted(conn_new) BY NewConn DEF Conns
  <2>2. "RRS_IDLE" \in Phases BY DEF Phases
  <2>3. new \in Conn
    <3> DEFINE c == conn_new
    <3> HIDE DEF c
    <3>1. c \in Conn BY <2>1 DEF c
    <3>2. [c EXCEPT !.rrs = "RRS_IDLE", !.buf = conn.buf] \in Conn BY <1>4, <2>2, <3>1 DEF Conn
    <3> QED BY <3>2 DEF c
  <2>4. new.bodyReadLen = conn_new.bodyReadLen /\ new.bodyLen = conn_new.bodyLen
        /\ conn_new.body = <<>>
    BY DEF conn_new
  <2> HIDE DEF new
  <2> QED BY <1>5, <2>1, <2>3, <2>4 DEF Conns, Counted
<1> HIDE DEF new
<1>7. n \in 0 .. N /\ left = R[n] BY <1>2, <1>3 DEF Where
<1> HIDE DEF left, n, N
<1>8. N \in Nat /\ \A k \in 1 .. N : IsRequest(sent[k])
  <2>1. sent \in Seq(Request) /\ \A k \in 1 .. Len(sent) : IsRequest(sent[k]) BY <1>1, SentIs
  <2> QED BY <2>1, LenProperties DEF N
<1>9. Where(new, left, sent, R, n)
  <2>1. CASE n = N
    <3>1. left = <<>> BY <1>2, <1>7, <2>1 DEF IsPlan, N
    <3> QED BY <1>5, <1>7, <2>1, <3>1 DEF Where, N
  <2>2. CASE n # N
    <3> DEFINE m == n + 1
               r == sent[m]
               later == R[m]
    <3>1. m \in 1 .. N /\ m \in 0 .. N /\ m - 1 = n BY <1>7, <1>8, <2>2
    <3>2. IsRequest(r) /\ later \in Data
      <4>1. R \in [0 .. N -> Data] BY <1>2 DEF IsPlan, N
      <4> QED BY <1>8, <3>1, <4>1
    <3>3. left = Bytes(r) \o later
      <4>1. R[m - 1] = Bytes(r) \o later BY <1>2, <3>1 DEF IsPlan, N
      <4> QED BY <1>7, <3>1, <4>1
    <3>4. HeadSoFar(new) = reqhdr_new BY <1>5 DEF HeadSoFar
    <3> HIDE DEF m, r, later
    <3>5. InHead(new, left, r, later) BY <1>5, <3>2, <3>3, <3>4, HeadBegins
    <3>6. InRequest(new, left, sent[n + 1], R[n + 1]) BY <3>5 DEF InRequest, m, r, later
    <3> QED BY <1>5, <1>7, <2>2, <3>6 DEF Where, N
  <2> QED BY <2>1, <2>2
<1>10. new.buf \o From(wire, fed + 1) = left BY <1>5 DEF left
<1> QED BY <1>1, <1>2, <1>3, <1>6, <1>9, <1>10 DEF Reads, n

----------------------------------------------------------------------------
(* The rounds of the loops suffice, so that nothing is left in the buffer but what *)
(* is held up or belongs to the next request.                                *)

\* a CGI program has taken all it takes, and that is not all of its body
IsStuck(s) ==
  s.c.rrs = "RRS_READ_BODY" /\ s.c.handler = "CGI" /\ s.room = 0 /\ s.c.bodyReadLen < s.c.bodyLen

InOrBehindBody == {"RRS_READ_BODY", "RRS_READ_TRAILER", "RRS_READ_FINISHED"}

\* A line with the size of a chunk is taken, or all there is.
LEMMA SizeTaken ==
  ASSUME NEW c \in Conns, c.bodyReadLen = c.bodyLen
  PROVE  LET new == ReadChunkHeader(c)
         IN new.buf = <<>> \/ LineEnds(new.buf) < LineEnds(c.buf)
<1> DEFINE skip == Skipped(c)
           line == From(c.buf, skip + 1)
           eol == IndexOf({"lf"}, line)
           chunkHdr == c.chunkHdr \o SubSeq(c.buf, 1, skip) \o Before(line, eol)
           new == ReadChunkHeader(c)
<1>1. c \in Conn /\ c.buf \in Data BY DEF Conns, Conn
<1>2. skip \in 0 .. Len(c.buf) /\ Len(c.buf) \in Nat BY <1>1, SkippedIn, LenOf
<1>3. skip \in Nat BY <1>2
<1>4. line \in Data BY <1>1, <1>3, BehindIn
<1>5. eol \in 0 .. Len(line) /\ Len(line) \in Nat BY <1>4, IndexOfIs, LenOf
<1>6. CASE eol = 0
  <2>1. new = [c EXCEPT !.buf = <<>>, !.chunkHdr = chunkHdr] BY <1>6 DEF ReadChunkHeader
  <2> HIDE DEF new, chunkHdr
  <2>2. new.buf = <<>> BY <1>1, <2>1 DEF Conn
  <2> QED BY <2>2 DEF new
<1>7. CASE eol # 0
  <2>1. new = ChunkSize(c, line, chunkHdr) BY <1>7 DEF ReadChunkHeader
  <2>2. new.buf = From(line, eol + 1)
    <3> HIDE DEF line, chunkHdr
    <3>1. ChunkSize(c, line, chunkHdr).buf = From(line, IndexOf({"lf"}, line) + 1)
      BY <1>1 DEF ChunkSize, Conn
    <3> QED BY <2>1, <3>1
  <2>3. line[eol] = "lf" /\ eol \in 1 .. Len(line) BY <1>4, <1>5, <1>7, IndexOfIs
  <2> DEFINE i == eol + 1
             j == skip + 1
  <2>4. i \in Nat /\ i > 0 /\ eol < i /\ eol \in 1 .. Len(line) BY <1>5, <2>3
  <2>5. j \in Nat /\ j > 0 BY <1>3
  <2>6. /\ LineEnds(line) <= LineEnds(c.buf) /\ LineEnds(line) \in Nat /\ LineEnds(c.buf) \in Nat
    <3>1. line = From(c.buf, j) OBVIOUS
    <3> HIDE DEF j, line
    <3> QED BY <1>1, <2>5, <3>1, LineEndsBehind
  <2>7. new.buf = From(line, i) BY <2>2
  <2> HIDE DEF i, j, line, eol, new
  <2>8. LineEnds(new.buf) < LineEnds(line) /\ LineEnds(new.buf) \in Nat
    BY <1>4, <2>3, <2>4, <2>7, LineEndsBehind
  <2>9. LineEnds(new.buf) < LineEnds(c.buf) BY <2>6, <2>8
  <2> QED BY <2>9 DEF new
<1> QED BY <1>6, <1>7

\* A round of the loop over pieces ends it, takes a line end, or leaves the CGI program stuck.
LEMMA PieceEnds ==
  ASSUME NEW s \in Pieces, s.c.rrs = "RRS_READ_BODY", s.c.buf # <<>>
  PROVE  LET new == NextPiece(s)
         IN /\ new.c.rrs \in InOrBehindBody
            /\ \/ new.c.rrs # "RRS_READ_BODY" \/ new.c.buf = <<>>
               \/ IsStuck(new) \/ LineEnds(new.c.buf) < LineEnds(s.c.buf)
<1> DEFINE c == s.c
           room == s.room
           add == AtMost(Len(c.buf), c.bodyLen - c.bodyReadLen)
           isCgi == c.handler = "CGI"
           p == IF isCgi THEN AtMost(add, room) ELSE add
           taken == TakeBody(c, p)
           c1 == IF p < add THEN taken ELSE BehindPiece(taken)
           room1 == IF isCgi THEN room - p ELSE room
           new == NextPiece(s)
<1>1. c \in Conn /\ Counted(c) /\ c.buf \in Data /\ room \in Nat BY DEF Pieces, Conns, Conn
<1>2. Len(c.buf) \in Nat /\ c.bodyLen \in Nat /\ c.bodyReadLen \in Nat /\ c.bodyReadLen <= c.bodyLen
  BY <1>1, LenOf DEF Conn, Counted
<1>3. add \in 0 .. Len(c.buf) /\ add <= c.bodyLen - c.bodyReadLen
      /\ (add # c.bodyLen - c.bodyReadLen => add = Len(c.buf))
  BY <1>2 DEF AtMost
<1>4. add \in Nat BY <1>2, <1>3
<1>5. p \in 0 .. add /\ (p < add => isCgi /\ p = room)
  <2> HIDE DEF add, c, room, isCgi
  <2> QED BY <1>1, <1>4 DEF AtMost
<1>6. new = [c |-> c1, room |-> room1] BY DEF NextPiece
<1>7. p \in Nat /\ p \in 0 .. Len(c.buf) /\ c.bodyReadLen + p <= c.bodyLen
  <2> HIDE DEF add, p, c
  <2> QED BY <1>2, <1>3, <1>5
<1>8. /\ taken \in Conn /\ taken.rrs = c.rrs /\ taken.bodyLen = c.bodyLen /\ taken.handler = c.handler
      /\ taken.bodyReadLen = c.bodyReadLen + p /\ taken.buf = From(c.buf, p + 1)
      /\ Len(taken.body) = Len(c.body) + p
  <2> HIDE DEF p, c
  <2> QED BY <1>1, <1>7, TakeBodyIs
<1>9. /\ LineEnds(taken.buf) <= LineEnds(c.buf)
      /\ LineEnds(taken.buf) \in Nat /\ LineEnds(c.buf) \in Nat
  <2> DEFINE i == p + 1
  <2>1. i \in Nat /\ i > 0 /\ taken.buf = From(c.buf, i) BY <1>7, <1>8
  <2> HIDE DEF i, c, taken
  <2> QED BY <1>1, <2>1, LineEndsBehind
<1> HIDE DEF add, p, taken
<1>10. CASE p < add
  <2>1. new.c = taken /\ new.room = room - p /\ isCgi /\ p = room BY <1>5, <1>6, <1>10
  <2>2. new.room = 0 BY <1>1, <2>1
  <2>3. taken.bodyReadLen < taken.bodyLen BY <1>2, <1>3, <1>4, <1>7, <1>8, <1>10
  <2> QED BY <1>8, <2>1, <2>2, <2>3 DEF IsStuck, InOrBehindBody
<1>11. CASE ~(p < add)
  <2>1. new.c = BehindPiece(taken) /\ p = add BY <1>4, <1>5, <1>6, <1>7, <1>11
  <2> HIDE DEF new, c
  <2>2. CASE taken.bodyReadLen < taken.bodyLen
    <3>1. new.c = taken BY <2>1, <2>2 DEF BehindPiece
    <3>2. p = Len(c.buf) BY <1>2, <1>3, <1>8, <2>1, <2>2
    <3>3. taken.buf = <<>>
      <4>1. taken.buf = From(c.buf, Len(c.buf) + 1) BY <1>8, <3>2
      <4>2. From(c.buf, Len(c.buf) + 1) = <<>> BY <1>1, <1>2, SubSeqEmpty DEF From
      <4> QED BY <4>1, <4>2
    <3>4. taken.rrs = "RRS_READ_BODY" BY <1>8 DEF c
    <3> QED BY <3>1, <3>3, <3>4 DEF new, InOrBehindBody
  <2>3. CASE ~(taken.bodyReadLen < taken.bodyLen) /\ taken.isChunked
    <3>1. new.c = ReadChunkHeader(taken) BY <2>1, <2>3 DEF BehindPiece
    <3>2. taken.bodyReadLen = taken.bodyLen BY <1>2, <1>7, <1>8, <2>3
    <3>3. taken \in Conns
      <4>1. taken.rrs = "RRS_READ_BODY" BY <1>8 DEF c
      <4>2. Counted(taken) BY <1>1, <1>2, <1>7, <1>8, <4>1 DEF Counted
      <4> QED BY <1>8, <4>2 DEF Conns
    <3>4. new.c.buf = <<>> \/ LineEnds(new.c.buf) < LineEnds(taken.buf)
      BY <3>1, <3>2, <3>3, SizeTaken
    <3>5. new.c \in Conns BY <1>8, <3>1, <3>2, <3>3, ReadChunkHeaderIn DEF c
    <3>6. new.c.buf \in Data BY <3>5 DEF Conns, Conn
    <3>7. LineEnds(new.c.buf) \in Nat BY <3>6, LineEndsIn
    <3>8. new.c.buf = <<>> \/ LineEnds(new.c.buf) < LineEnds(c.buf) BY <1>9, <3>4, <3>7
    <3>9. new.c.rrs \in InOrBehindBody
      <4>1. taken.rrs = "RRS_READ_BODY" BY <1>8 DEF c
      <4>2. ReadChunkHeader(taken).rrs \in {"RRS_READ_BODY", "RRS_READ_TRAILER"}
        BY <1>8, <4>1 DEF ReadChunkHeader, ChunkSize, Conn
      <4> QED BY <3>1, <4>2 DEF InOrBehindBody
    <3> QED BY <3>8, <3>9 DEF new, c
  <2>4. CASE ~(taken.bodyReadLen < taken.bodyLen) /\ ~taken.isChunked
    <3> DEFINE b == BehindPiece(taken)
    <3>1. b = [taken EXCEPT !.rrs = "RRS_READ_FINISHED"] BY <2>4 DEF BehindPiece
    <3> HIDE DEF b
    <3>2. b.rrs = "RRS_READ_FINISHED" BY <1>8, <3>1 DEF Conn
    <3>3. new.c.rrs = "RRS_READ_FINISHED" BY <2>1, <3>2 DEF b
    <3> QED BY <3>3 DEF new, InOrBehindBody
  <2> QED BY <2>2, <2>3, <2>4
<1> QED BY <1>10, <1>11

\* Another round takes nothing when the CGI program is stuck.
LEMMA StuckStays ==
  ASSUME NEW s \in Pieces, IsStuck(s)
  PROVE  IsStuck(NextPiece(s))
<1> DEFINE c == s.c
           add == AtMost(Len(c.buf), c.bodyLen - c.bodyReadLen)
           p == AtMost(add, s.room)
           taken == TakeBody(c, p)
           new == NextPiece(s)
<1>1. c \in Conn /\ Counted(c) /\ c.buf \in Data /\ c.body \in Data BY DEF Pieces, Conns, Conn
<1>2. Len(c.buf) \in Nat /\ c.bodyLen \in Nat /\ c.bodyReadLen \in Nat BY <1>1, LenOf DEF Conn
<1>3. c.rrs = "RRS_READ_BODY" /\ c.handler = "CGI" /\ s.room = 0 /\ c.bodyReadLen < c.bodyLen
  BY DEF IsStuck
<1>4. CASE c.buf = <<>>
  <2>1. new = s BY <1>4 DEF NextPiece
  <2> QED BY <2>1
<1>5. CASE c.buf # <<>>
  <2>1. Len(c.buf) # 0 BY <1>1, <1>5, LenOf
  <2>2. add \in Nat /\ add > 0
    <3> HIDE DEF c
    <3> QED BY <1>2, <1>3, <2>1 DEF AtMost
  <2>3. p = 0
    <3> HIDE DEF add
    <3> QED BY <1>3, <2>2 DEF AtMost
  <2>4. new = [c |-> IF p < add THEN taken ELSE BehindPiece(taken), room |-> s.room - p]
    BY <1>3, <1>5 DEF NextPiece
  <2>5. new.c = taken /\ new.room = s.room - p
    <3> HIDE DEF p, add, taken, c
    <3>1. p < add BY <2>2, <2>3
    <3> QED BY <2>4, <3>1
  <2>6. p \in 0 .. Len(c.buf)
    <3> HIDE DEF p, c
    <3> QED BY <1>2, <2>3
  <2>7. /\ taken.rrs = c.rrs /\ taken.handler = c.handler /\ taken.bodyLen = c.bodyLen
        /\ taken.bodyReadLen = c.bodyReadLen + p
    <3> HIDE DEF p, c
    <3> QED BY <1>1, <2>6, TakeBodyIs
  <2> HIDE DEF p, c, taken, new
  <2> QED BY <1>2, <1>3, <2>3, <2>5, <2>7 DEF IsStuck, new
<1> QED BY <1>4, <1>5

\* The rounds of the loop over pieces suffice: it stops behind the body, when all is taken, or
\* when a CGI program takes no more.
LEMMA BodyEndRead ==
  ASSUME NEW c \in Conns, NEW room \in Nat, c.rrs \in InOrBehindBody
  PROVE  LET new == appendBodyData(c, room)
         IN /\ new.rrs \in InOrBehindBody
            /\ \/ new.rrs # "RRS_READ_BODY" \/ new.buf = <<>>
               \/ new.handler = "CGI" /\ new.bodyReadLen < new.bodyLen
<1> DEFINE new == appendBodyData(c, room)
<1>1. PICK n \in Nat : \E g \in [0 .. n -> Pieces] : IsTaking(g, n, c, room) BY TakingExists
<1>2. PICK g \in [0 .. n -> Pieces] : IsTaking(g, n, c, room) BY <1>1
<1>3. /\ n = LineEnds(c.buf) + 1 /\ g[0].c = c /\ g[n].c = new
      /\ \A k \in 1 .. n : g[k] = NextPiece(g[k - 1])
  BY <1>2 DEF IsTaking
<1> HIDE DEF new
<1> DEFINE Ends(s, k) == /\ s.c.rrs \in InOrBehindBody
                         /\ \/ s.c.rrs # "RRS_READ_BODY" \/ s.c.buf = <<>> \/ IsStuck(s)
                            \/ LineEnds(s.c.buf) + k <= LineEnds(c.buf)
           T == {k \in 0 .. n : Ends(g[k], k)}
<1>4. LineEnds(c.buf) \in Nat
  <2>1. c.buf \in Data BY DEF Conns, Conn
  <2> QED BY <2>1, LineEndsIn
<1>5. 0 \in T BY <1>3, <1>4
<1>6. ASSUME NEW k \in 1 .. n, k - 1 \in T PROVE k \in T
  <2> DEFINE s == g[k - 1]
             t == g[k]
  <2>1. k - 1 \in 0 .. n /\ k \in 0 .. n BY <1>1
  <2>2. s \in Pieces /\ t \in Pieces /\ t = NextPiece(s) /\ Ends(s, k - 1)
    BY <1>2, <1>3, <1>6, <2>1
  <2>3. s.c.buf \in Data /\ t.c.buf \in Data BY <2>2 DEF Pieces, Conns, Conn
  <2>4. LineEnds(s.c.buf) \in Nat /\ LineEnds(t.c.buf) \in Nat BY <2>3, LineEndsIn
  <2> HIDE DEF s, t
  <2>5. CASE s.c.rrs # "RRS_READ_BODY" \/ s.c.buf = <<>>
    <3>1. t = s BY <2>2, <2>5 DEF NextPiece
    <3>2. Ends(t, k) BY <2>2, <2>5, <3>1
    <3> QED BY <2>1, <3>2 DEF t
  <2>6. CASE IsStuck(s)
    <3>1. IsStuck(t) BY <2>2, <2>6, StuckStays
    <3>2. Ends(t, k) BY <3>1 DEF IsStuck, InOrBehindBody
    <3> QED BY <2>1, <3>2 DEF t
  <2>7. CASE ~(s.c.rrs # "RRS_READ_BODY" \/ s.c.buf = <<>>) /\ ~IsStuck(s)
    <3>1. LineEnds(s.c.buf) + (k - 1) <= LineEnds(c.buf) BY <2>2, <2>7
    <3>2. /\ t.c.rrs \in InOrBehindBody
          /\ \/ t.c.rrs # "RRS_READ_BODY" \/ t.c.buf = <<>>
             \/ IsStuck(t) \/ LineEnds(t.c.buf) < LineEnds(s.c.buf)
      BY <2>2, <2>7, PieceEnds
    <3>3. LineEnds(t.c.buf) < LineEnds(s.c.buf) => LineEnds(t.c.buf) + k <= LineEnds(c.buf)
      BY <1>4, <2>4, <3>1
    <3>4. Ends(t, k) BY <3>2, <3>3
    <3> QED BY <2>1, <3>4 DEF t
  <2> QED BY <2>5, <2>6, <2>7
<1>7. n \in T
  <2> HIDE DEF T
  <2>1. \A k \in 0 .. n : k \in T BY <1>5, <1>6, UpTo
  <2> QED BY <1>1, <2>1
<1>8. Ends(g[n], n) BY <1>7
<1>9. g[n].c.buf \in Data BY <1>1, <1>2 DEF Pieces, Conns, Conn
<1>10. LineEnds(g[n].c.buf) \in Nat BY <1>9, LineEndsIn
<1>11. ~(LineEnds(g[n].c.buf) + n <= LineEnds(c.buf)) BY <1>1, <1>3, <1>4, <1>10
<1> QED BY <1>3, <1>8, <1>11 DEF IsStuck, new

\* what is in the buffer is held up by a CGI program, or belongs to the next request
Held(c) ==
  c.buf # <<>> => \/ c.rrs = "RRS_READ_FINISHED"
                  \/ c.rrs = "RRS_READ_BODY" /\ c.handler = "CGI" /\ c.bodyReadLen < c.bodyLen

\* A call of appendData takes all there is, unless the request is complete or held up.
LEMMA AllHandled ==
  ASSUME NEW c \in Conns, NEW room \in Nat, c.rrs # "RRS_READ_FINISHED"
  PROVE  LET new == ReadTrailer(appendBodyData(ReadHead(c), room))
         IN new.rrs # "RRS_IDLE" /\ Held(new)
<1> DEFINE c1 == ReadHead(c)
           c2 == appendBodyData(c1, room)
           c3 == ReadTrailer(c2)
<1>1. c1 \in Conns BY ReadHeadIn
<1>2. c1.rrs \in InOrBehindBody \/ (c1.rrs = "RRS_READ_HEAD" /\ c1.buf = <<>>)
  <2> DEFINE h == HeadSoFar(c)
             read == appendLines(h, c.buf)
             cr == WithHeader(c, read, "RRS_READ_HEAD")
  <2>1. CASE c.rrs \notin {"RRS_IDLE", "RRS_READ_HEAD"}
    <3>1. c1 = c BY <2>1 DEF ReadHead
    <3>2. c.rrs \in Phases BY DEF Conns, Conn
    <3> QED BY <2>1, <3>1, <3>2 DEF Phases, InOrBehindBody
  <2>2. CASE c.rrs \in {"RRS_IDLE", "RRS_READ_HEAD"}
    <3>1. c1 = IF read.finished THEN onFinishedHeader(cr) ELSE cr
      BY <2>2 DEF ReadHead, HeadSoFar
    <3>2. c.buf \in Data /\ h \in Header BY NewHeaders DEF Conns, Conn, HeadSoFar
    <3> HIDE DEF h, c1
    <3>3. read \in LineReads /\ (read.finished \/ read.rest = <<>>)
      BY <3>2, AppendLinesIn, LinesEndRead
    <3>4. c.body = <<>> BY <2>2 DEF Conns, Counted
    <3>5. "RRS_READ_HEAD" \in Phases BY DEF Phases
    <3> HIDE DEF read
    <3>6. cr \in Conns /\ cr.rrs = "RRS_READ_HEAD" /\ cr.buf = read.rest
      BY <3>3, <3>4, <3>5, WithHeaderIn
    <3> HIDE DEF cr
    <3>7. onFinishedHeader(cr).rrs \in InOrBehindBody
      <4>1. cr \in Conn BY <3>6 DEF Conns
      <4> QED BY <4>1 DEF onFinishedHeader, StartBody, Conn, InOrBehindBody
    <3> QED BY <3>1, <3>3, <3>6, <3>7
  <2> QED BY <2>1, <2>2
<1> HIDE DEF c1
<1>3. c2 \in Conns BY <1>1, AppendBodyDataIn
<1>4. CASE c1.rrs = "RRS_READ_HEAD" /\ c1.buf = <<>>
  <2>1. c2 = c1 BY <1>1, <1>4, NotBody
  <2>2. c3 = c2 BY <1>4, <2>1 DEF ReadTrailer
  <2>3. c3 = c1 BY <2>1, <2>2
  <2> HIDE DEF c2, c3
  <2>4. c3.rrs # "RRS_IDLE" /\ Held(c3) BY <1>4, <2>3 DEF Held
  <2> QED BY <2>4 DEF c3, c2, c1
<1>5. CASE c1.rrs \in InOrBehindBody
  <2>1. /\ c2.rrs \in InOrBehindBody
        /\ \/ c2.rrs # "RRS_READ_BODY" \/ c2.buf = <<>>
           \/ c2.handler = "CGI" /\ c2.bodyReadLen < c2.bodyLen
    BY <1>1, <1>5, BodyEndRead
  <2> HIDE DEF c2
  <2> DEFINE read == appendLines(c2.header, c2.buf)
             rrs == IF read.finished THEN "RRS_READ_FINISHED" ELSE c2.rrs
  <2>2. CASE c2.rrs # "RRS_READ_TRAILER" \/ c2.buf = <<>>
    <3>1. c3 = c2 BY <2>2 DEF ReadTrailer
    <3> HIDE DEF c3
    <3>2. c3.rrs # "RRS_IDLE" /\ Held(c3) BY <2>1, <2>2, <3>1 DEF Held, InOrBehindBody
    <3> QED BY <3>2 DEF c3, c2, c1
  <2>3. CASE ~(c2.rrs # "RRS_READ_TRAILER" \/ c2.buf = <<>>)
    <3>1. c3 = WithHeader(c2, read, rrs) BY <2>3 DEF ReadTrailer
    <3>2. c2.buf \in Data /\ c2.header \in Header BY <1>3 DEF Conns, Conn
    <3>3. read \in LineReads /\ (read.finished \/ read.rest = <<>>)
      BY <3>2, AppendLinesIn, LinesEndRead
    <3>4. rrs \in Phases /\ rrs \notin {"RRS_IDLE", "RRS_READ_HEAD"} BY <2>3 DEF Phases
    <3>5. read.finished => rrs = "RRS_READ_FINISHED" OBVIOUS
    <3> HIDE DEF read, rrs, c3
    <3>6. c3.rrs = rrs /\ c3.buf = read.rest BY <1>3, <3>1, <3>3, <3>4, WithHeaderIn
    <3>7. c3.rrs # "RRS_IDLE" /\ Held(c3) BY <3>3, <3>4, <3>5, <3>6 DEF Held
    <3> QED BY <3>7 DEF c3, c2, c1
  <2> QED BY <2>2, <2>3
<1> QED BY <1>2, <1>4, <1>5

\* what is held up, between the calls of appendData
HeldInv == conn.rrs = "RRS_IDLE" \/ Held(conn)

\* Input is held up only by a CGI program.
LEMMA HeldKept == ReaderInv /\ HeldInv /\ [Next]_vars => HeldInv'
<1> SUFFICES ASSUME ReaderInv, HeldInv, [Next]_vars PROVE HeldInv'
  OBVIOUS
<1>1. conn \in Conns /\ wire \in Data /\ fed \in 0 .. Len(wire) BY DEF ReaderInv, Reads
<1>2. ASSUME NEW c \in Conns, conn.rrs # "RRS_READ_FINISHED", c.rrs = conn.rrs, AppendBuffer(c)
      PROVE  HeldInv'
  <2>1. PICK room \in Nat : conn' = ReadTrailer(appendBodyData(ReadHead(c), room))
    BY <1>1, <1>2, BufferAppended
  <2> DEFINE new == ReadTrailer(appendBodyData(ReadHead(c), room))
  <2>2. new.rrs # "RRS_IDLE" /\ Held(new) BY <1>2, AllHandled
  <2> HIDE DEF new
  <2>3. conn' = new BY <2>1 DEF new
  <2> QED BY <2>2, <2>3 DEF HeldInv, Held
<1>3. CASE Read
  <2>1. PICK n \in 1 .. Len(wire) - fed :
          AppendBuffer([conn EXCEPT !.buf = SubSeq(wire, fed + 1, fed + n)])
    BY <1>3 DEF Read
  <2> DEFINE d == SubSeq(wire, fed + 1, fed + n)
             c == [conn EXCEPT !.buf = d]
  <2>2. d \in Data BY <1>1, PieceOf
  <2>3. AppendBuffer(c) BY <2>1
  <2> HIDE DEF d
  <2>4. c \in Conns /\ c.rrs = conn.rrs
    <3> HIDE DEF c
    <3>1. c = [conn EXCEPT !.buf = d] BY DEF c
    <3>2. conn \in Conn /\ Counted(conn) BY <1>1 DEF Conns
    <3>3. c \in Conn BY <2>2, <3>1, <3>2 DEF Conn
    <3>4. /\ c.rrs = conn.rrs /\ c.body = conn.body /\ c.bodyLen = conn.bodyLen
          /\ c.bodyReadLen = conn.bodyReadLen
      BY <3>1, <3>2 DEF Conn
    <3>5. Counted(c) BY <3>2, <3>4 DEF Counted
    <3> QED BY <3>3, <3>4, <3>5 DEF Conns
  <2>5. conn.rrs # "RRS_READ_FINISHED" BY <1>3 DEF Read
  <2> HIDE DEF c
  <2> QED BY <1>2, <2>3, <2>4, <2>5
<1>4. CASE Again
  <2>1. conn.rrs # "RRS_READ_FINISHED" /\ AppendBuffer(conn) BY <1>4 DEF Again
  <2> QED BY <1>1, <1>2, <2>1
<1>5. CASE Answered
  <2> DEFINE new == [conn_new EXCEPT !.rrs = "RRS_IDLE", !.buf = conn.buf]
  <2>1. conn' = new BY <1>5 DEF Answered
  <2>2. new.rrs = "RRS_IDLE" BY DEF conn_new
  <2> HIDE DEF new
  <2> QED BY <2>1, <2>2 DEF HeldInv
<1>6. CASE UNCHANGED vars
  <2>1. conn' = conn BY <1>6 DEF vars
  <2> QED BY <2>1 DEF HeldInv, Held
<1> QED BY <1>3, <1>4, <1>5, <1>6 DEF Next

----------------------------------------------------------------------------
(* The form that is read: the request has its handler when its header is     *)
(* complete, and the parser is behind the body that the handler has taken.    *)

\* A round of the loop over lines keeps the request of a header, and ends only a header with one.
LEMMA NextLineKeeps ==
  ASSUME NEW read \in LineReads
  PROVE  LET new == NextLine(read)
         IN /\ new.finished => read.finished \/ read.hdr.started
            /\ read.hdr.started => new.hdr.started /\ new.hdr.request = read.hdr.request
<1> DEFINE hdr == read.hdr
           eol == IndexOf({"lf"}, read.rest)
           line == LineEnded(hdr.cur, Before(read.rest, eol))
           new == NextLine(read)
           hdr2 == IF line = <<>> THEN [hdr EXCEPT !.cur = <<>>] ELSE StoreLine(hdr, line)
<1>1. hdr \in Header BY DEF LineReads
<1>2. CASE read.finished \/ read.rest = <<>>
  <2>1. new = read BY <1>2 DEF NextLine
  <2> QED BY <2>1
<1>3. CASE ~(read.finished \/ read.rest = <<>>) /\ eol = 0
  <2>1. new = [read EXCEPT !.hdr.cur = @ \o read.rest, !.rest = <<>>] BY <1>3 DEF NextLine
  <2> HIDE DEF new
  <2>2. new.finished = read.finished /\ new.hdr.started = read.hdr.started
        /\ new.hdr.request = read.hdr.request
    BY <2>1 DEF LineReads, Header
  <2> QED BY <2>2 DEF new
<1>4. CASE ~(read.finished \/ read.rest = <<>>) /\ eol # 0
  <2>1. new.hdr = hdr2 /\ new.finished = (line = <<>> /\ hdr.started) BY <1>4 DEF NextLine
  <2>2. hdr.started => hdr2.started /\ hdr2.request = hdr.request
    <3> HIDE DEF line, hdr
    <3> QED BY <1>1 DEF StoreLine, Header
  <2> HIDE DEF new, hdr2, line
  <2> QED BY <2>1, <2>2 DEF new
<1> QED BY <1>2, <1>3, <1>4

\* So does the loop.
LEMMA LinesKeep ==
  ASSUME NEW hdr \in Header, NEW d \in Data
  PROVE  LET read == appendLines(hdr, d)
         IN /\ read.finished => read.hdr.started
            /\ hdr.started => read.hdr.started /\ read.hdr.request = hdr.request
<1>1. PICK n \in Nat : \E g \in [0 .. n -> LineReads] : IsReading(g, n, hdr, d) BY ReadingExists
<1>2. PICK g \in [0 .. n -> LineReads] : IsReading(g, n, hdr, d) BY <1>1
<1>3. /\ g[0] = [hdr |-> hdr, finished |-> FALSE, rest |-> d] /\ g[n] = appendLines(hdr, d)
      /\ \A k \in 1 .. n : g[k] = NextLine(g[k - 1])
  BY <1>2 DEF IsReading
<1> DEFINE Keeps(read) == /\ read.finished => read.hdr.started
                          /\ hdr.started => read.hdr.started /\ read.hdr.request = hdr.request
           T == {k \in 0 .. n : Keeps(g[k])}
<1>4. 0 \in T BY <1>3
<1>5. ASSUME NEW k \in 1 .. n, k - 1 \in T PROVE k \in T
  <2> DEFINE read == g[k - 1]
  <2>1. k - 1 \in 0 .. n /\ k \in 0 .. n OBVIOUS
  <2>2. read \in LineReads /\ g[k] = NextLine(read) /\ Keeps(read) BY <1>2, <1>3, <1>5, <2>1
  <2> HIDE DEF read
  <2>3. /\ NextLine(read).finished => read.finished \/ read.hdr.started
        /\ read.hdr.started => NextLine(read).hdr.started /\ NextLine(read).hdr.request = read.hdr.request
    BY <2>2, NextLineKeeps
  <2>4. Keeps(NextLine(read)) BY <2>2, <2>3
  <2> QED BY <2>1, <2>2, <2>4
<1>6. n \in T
  <2> HIDE DEF T
  <2>1. \A k \in 0 .. n : k \in T BY <1>4, <1>5, UpTo
  <2> QED BY <1>1, <2>1
<1>7. Keeps(g[n]) BY <1>6
<1> QED BY <1>3, <1>7

\* the phases before the header is complete
Early == {"RRS_IDLE", "RRS_READ_HEAD"}

\* the parser of a form is behind the body that has been taken
FormTaken(c) == c.handler = "FORM" /\ IsForm(c.body) => FormAt(c.mpdata, Crlf \o c.body, <<>>)

\* the request has its handler when its header is complete
HasHandler(c) ==
  IF c.rrs \in Early THEN c.handler = "none"
  ELSE c.header.started /\ c.handler = HandlerOf(c.header.request)

FormGood(c) == HasHandler(c) /\ FormTaken(c)

\* The parser takes a piece of the body.
LEMMA TakeBodyGood ==
  ASSUME NEW c \in Conn, FormTaken(c), NEW n \in 0 .. Len(c.buf)
  PROVE  FormTaken(TakeBody(c, n))
<1> DEFINE d == SubSeq(c.buf, 1, n)
           b == c.body
           m == c.mpdata
           new == TakeBody(c, n)
<1>1. c.buf \in Data /\ b \in Data /\ m \in MpData BY DEF Conn
<1>2. d \in Data BY <1>1, FirstIs DEF Data
<1>3. /\ new.handler = c.handler /\ new.body = b \o d
      /\ new.mpdata = IF c.handler = "FORM" THEN mpdata_appendData(m, d) ELSE m
  BY TakeBodyIs
<1> HIDE DEF d, new
<1> SUFFICES ASSUME new.handler = "FORM", IsForm(new.body)
             PROVE  FormAt(new.mpdata, Crlf \o new.body, <<>>)
  BY DEF FormTaken, new
<1>4. c.handler = "FORM" /\ IsForm(b \o d) /\ new.mpdata = mpdata_appendData(m, d) BY <1>3
<1>5. FormTaken(c) OBVIOUS
<1> DEFINE s == Crlf \o b
<1>6. IsForm(b) /\ LinesClose(s \o d)
  <2> HIDE DEF b
  <2> QED BY <1>1, <1>2, <1>4, FormBefore DEF s
<1>7. FormAt(m, s, <<>>) BY <1>4, <1>5, <1>6 DEF FormTaken
<1>8. Crlf \in Data BY CrlfIs
<1>9. s \in Data /\ Crlf \o (b \o d) = s \o d
  <2> HIDE DEF b
  <2>1. Crlf \in Data /\ b \in Data /\ d \in Data BY <1>1, <1>2, <1>8
  <2>2. JoinsAs(Crlf, b, d) BY <2>1, Joined
  <2> QED BY <2>1, <2>2, JoinIn DEF JoinsAs
<1> HIDE DEF s, b, m
<1>10. FormAt(mpdata_appendData(m, d), s \o d, <<>>) BY <1>1, <1>2, <1>6, <1>7, <1>9, FormTakes
<1> QED BY <1>3, <1>4, <1>9, <1>10

\* What is behind a piece leaves the parser and the header alone.
LEMMA BehindPieceKeeps ==
  ASSUME NEW c \in Conn, c.rrs = "RRS_READ_BODY"
  PROVE  LET new == BehindPiece(c)
         IN /\ new.rrs \notin Early /\ new.header = c.header /\ new.handler = c.handler
            /\ new.mpdata = c.mpdata /\ new.body = c.body
<1> DEFINE line == From(c.buf, Skipped(c) + 1)
           eol == IndexOf({"lf"}, line)
           chunkHdr == c.chunkHdr \o SubSeq(c.buf, 1, Skipped(c)) \o Before(line, eol)
           size == Number(From(chunkHdr, 3), 16) % Wrap
           new == BehindPiece(c)
<1>1. CASE c.bodyReadLen < c.bodyLen BY <1>1 DEF BehindPiece, Early
<1>2. CASE ~(c.bodyReadLen < c.bodyLen) /\ c.isChunked /\ eol = 0
  <2>1. new = [c EXCEPT !.buf = <<>>, !.chunkHdr = chunkHdr] BY <1>2 DEF BehindPiece, ReadChunkHeader
  <2> HIDE DEF new, chunkHdr
  <2> QED BY <2>1 DEF Conn, Early, new
<1>3. CASE ~(c.bodyReadLen < c.bodyLen) /\ c.isChunked /\ eol # 0
  <2> DEFINE rrs == IF size = 0 THEN "RRS_READ_TRAILER" ELSE c.rrs
             buf == From(line, eol + 1)
             len == c.bodyLen + size
  <2>1. new = [c EXCEPT !.buf = buf, !.chunkHdr = <<>>, !.bodyLen = len, !.rrs = rrs]
    BY <1>3 DEF BehindPiece, ReadChunkHeader, ChunkSize
  <2>2. rrs \notin Early BY DEF Early
  <2> HIDE DEF new, buf, rrs, len
  <2> QED BY <2>1, <2>2 DEF Conn, new
<1>4. CASE ~(c.bodyReadLen < c.bodyLen) /\ ~c.isChunked
  <2>1. new = [c EXCEPT !.rrs = "RRS_READ_FINISHED"] BY <1>4 DEF BehindPiece
  <2> HIDE DEF new
  <2> QED BY <2>1 DEF Conn, Early, new
<1> QED BY <1>1, <1>2, <1>3, <1>4

\* A round of the loop over the pieces.
LEMMA NextPieceGood ==
  ASSUME NEW s \in Pieces, FormGood(s.c)
  PROVE  FormGood(NextPiece(s).c)
<1> DEFINE c == s.c
           room == s.room
           add == AtMost(Len(c.buf), c.bodyLen - c.bodyReadLen)
           processed == IF c.handler = "CGI" THEN AtMost(add, room) ELSE add
           taken == TakeBody(c, processed)
           c1 == IF processed < add THEN taken ELSE BehindPiece(taken)
<1>1. c \in Conn /\ Counted(c) /\ room \in Nat BY DEF Pieces, Conns
<1>2. Len(c.buf) \in Nat /\ c.bodyLen \in Nat /\ c.bodyReadLen \in Nat /\ c.bodyReadLen <= c.bodyLen
  <2>1. c.buf \in Data BY <1>1 DEF Conn
  <2> QED BY <1>1, <2>1, LenProperties DEF Conn, Counted, Data
<1>3. add \in 0 .. Len(c.buf) BY <1>2 DEF AtMost
<1>4. processed \in 0 .. Len(c.buf)
  <2> HIDE DEF add, c, room
  <2>1. add \in Nat BY <1>2, <1>3
  <2> QED BY <1>1, <1>2, <1>3, <2>1 DEF AtMost
<1>5. CASE c.rrs # "RRS_READ_BODY" \/ c.buf = <<>>
  <2>1. NextPiece(s) = s BY <1>5 DEF NextPiece
  <2> QED BY <2>1
<1>6. CASE ~(c.rrs # "RRS_READ_BODY" \/ c.buf = <<>>)
  <2>1. NextPiece(s).c = c1 BY <1>6 DEF NextPiece
  <2>2. HasHandler(c) /\ FormTaken(c) BY DEF FormGood
  <2> HIDE DEF processed, add, c
  <2>3. /\ taken \in Conn /\ taken.rrs = c.rrs /\ taken.header = c.header /\ taken.handler = c.handler
    BY <1>1, <1>4, TakeBodyIs
  <2>4. FormTaken(taken) BY <1>1, <1>4, <2>2, TakeBodyGood
  <2> HIDE DEF taken
  <2>5. c.rrs \notin Early BY <1>6 DEF Early
  <2>6. HasHandler(taken) BY <2>2, <2>3, <2>5 DEF HasHandler
  <2>7. LET new == BehindPiece(taken)
        IN /\ new.rrs \notin Early /\ new.header = taken.header /\ new.handler = taken.handler
           /\ new.mpdata = taken.mpdata /\ new.body = taken.body
    BY <1>6, <2>3, BehindPieceKeeps
  <2>8. FormGood(BehindPiece(taken))
    BY <2>3, <2>4, <2>5, <2>6, <2>7 DEF FormGood, FormTaken, HasHandler
  <2> QED BY <2>1, <2>4, <2>6, <2>8 DEF FormGood
<1> QED BY <1>5, <1>6

\* The loop.
LEMMA AppendBodyGood ==
  ASSUME NEW c \in Conns, NEW room \in Nat, FormGood(c)
  PROVE  FormGood(appendBodyData(c, room))
<1>1. PICK n \in Nat : \E g \in [0 .. n -> Pieces] : IsTaking(g, n, c, room) BY TakingExists
<1>2. PICK g \in [0 .. n -> Pieces] : IsTaking(g, n, c, room) BY <1>1
<1>3. /\ g[0].c = c /\ g[n].c = appendBodyData(c, room) /\ \A k \in 1 .. n : g[k] = NextPiece(g[k - 1])
  BY <1>2 DEF IsTaking
<1> DEFINE T == {k \in 0 .. n : FormGood(g[k].c)}
<1>4. 0 \in T BY <1>3
<1>5. ASSUME NEW k \in 1 .. n, k - 1 \in T PROVE k \in T
  <2> DEFINE s == g[k - 1]
  <2>1. k - 1 \in 0 .. n /\ k \in 0 .. n OBVIOUS
  <2>2. s \in Pieces /\ g[k] = NextPiece(s) /\ FormGood(s.c) BY <1>2, <1>3, <1>5, <2>1
  <2> HIDE DEF s
  <2>3. FormGood(NextPiece(s).c) BY <2>2, NextPieceGood
  <2> QED BY <2>1, <2>2, <2>3
<1>6. n \in T
  <2> HIDE DEF T
  <2>1. \A k \in 0 .. n : k \in T BY <1>4, <1>5, UpTo
  <2> QED BY <1>1, <2>1
<1> QED BY <1>3, <1>6

\* A body begins with a new parser.
LEMMA StartBodyGood ==
  ASSUME NEW c \in Conns, c.body = <<>>, c.header.started, NEW isChunked, NEW len
  PROVE  FormGood(StartBody(c, isChunked, len))
<1> DEFINE handler == HandlerOf(c.header.request)
           chunkHdr == IF isChunked THEN Crlf ELSE <<>>
           bodyLen == IF isChunked THEN 0 ELSE len
           rrs == IF isChunked \/ len > 0 THEN "RRS_READ_BODY" ELSE "RRS_READ_FINISHED"
           new == StartBody(c, isChunked, len)
<1>1. c \in Conn BY DEF Conns
<1>2. new = [c EXCEPT !.handler = handler, !.mpdata = mpdata_new, !.isChunked = isChunked,
                      !.chunkHdr = chunkHdr, !.bodyLen = bodyLen, !.rrs = rrs]
  BY DEF StartBody
<1>3. rrs \notin Early BY DEF Early
<1> HIDE DEF handler, chunkHdr, bodyLen, rrs, new
<1>4. /\ new.handler = handler /\ new.mpdata = mpdata_new /\ new.rrs = rrs /\ new.header = c.header
      /\ new.body = c.body
  BY <1>1, <1>2 DEF Conn
<1>5. HasHandler(new) BY <1>3, <1>4 DEF HasHandler, handler
<1>6. Crlf \o new.body = Crlf BY <1>4, CrlfIs, NoneIn
<1>7. FormTaken(new) BY <1>4, <1>6, FormBegins DEF FormTaken
<1> QED BY <1>5, <1>7 DEF FormGood, new

\* The head.
LEMMA ReadHeadGood ==
  ASSUME NEW c \in Conns, FormGood(c)
  PROVE  FormGood(ReadHead(c))
<1> DEFINE hdr == HeadSoFar(c)
           read == appendLines(hdr, c.buf)
           c1 == WithHeader(c, read, "RRS_READ_HEAD")
<1>1. CASE c.rrs \notin {"RRS_IDLE", "RRS_READ_HEAD"} BY <1>1 DEF ReadHead
<1>2. CASE c.rrs \in {"RRS_IDLE", "RRS_READ_HEAD"}
  <2>1. ReadHead(c) = IF read.finished THEN onFinishedHeader(c1) ELSE c1
    BY <1>2 DEF ReadHead, HeadSoFar
  <2>2. c.buf \in Data /\ hdr \in Header BY NewHeaders DEF Conns, Conn, HeadSoFar
  <2> HIDE DEF hdr
  <2>3. read \in LineReads /\ (read.finished => read.hdr.started) BY <2>2, AppendLinesIn, LinesKeep
  <2>4. c.body = <<>> /\ c.handler = "none" BY <1>2 DEF Conns, Counted, FormGood, HasHandler, Early
  <2>5. "RRS_READ_HEAD" \in Phases BY DEF Phases
  <2> HIDE DEF read
  <2>6. /\ c1 \in Conns /\ c1.body = <<>> /\ c1.header = read.hdr /\ c1.rrs = "RRS_READ_HEAD"
        /\ c1.handler = "none"
    BY <2>3, <2>4, <2>5, WithHeaderIn
  <2> HIDE DEF c1
  <2>7. CASE read.finished
    <3> DEFINE isChunked == isChunkedTransferEncoding(c1.header)
               len == Number(getHeaderVal(c1.header, "Content-Length"), 10)
    <3>1. ReadHead(c) = StartBody(c1, isChunked, len) BY <2>1, <2>7 DEF onFinishedHeader
    <3> HIDE DEF isChunked, len
    <3>2. FormGood(StartBody(c1, isChunked, len)) BY <2>3, <2>6, <2>7, StartBodyGood
    <3> QED BY <3>1, <3>2
  <2>8. CASE ~read.finished
    <3>1. FormGood(c1) BY <2>6 DEF FormGood, HasHandler, FormTaken, Early
    <3> QED BY <2>1, <2>8, <3>1
  <2> QED BY <2>7, <2>8
<1> QED BY <1>1, <1>2

\* The trailer.
LEMMA ReadTrailerGood ==
  ASSUME NEW c \in Conns, FormGood(c)
  PROVE  FormGood(ReadTrailer(c))
<1> DEFINE read == appendLines(c.header, c.buf)
           rrs == IF read.finished THEN "RRS_READ_FINISHED" ELSE c.rrs
           new == ReadTrailer(c)
<1>1. CASE c.rrs # "RRS_READ_TRAILER" \/ c.buf = <<>> BY <1>1 DEF ReadTrailer
<1>2. CASE ~(c.rrs # "RRS_READ_TRAILER" \/ c.buf = <<>>)
  <2>1. new = WithHeader(c, read, rrs) BY <1>2 DEF ReadTrailer
  <2>2. c.buf \in Data /\ c.header \in Header BY DEF Conns, Conn
  <2>3. HasHandler(c) /\ FormTaken(c) /\ c.rrs \notin Early BY <1>2 DEF FormGood, Early
  <2>4. c.header.started /\ c.handler = HandlerOf(c.header.request) BY <2>3 DEF HasHandler
  <2>5. /\ read \in LineReads
        /\ c.header.started => read.hdr.started /\ read.hdr.request = c.header.request
    BY <2>2, AppendLinesIn, LinesKeep
  <2>6. rrs \in Phases /\ rrs \notin {"RRS_IDLE", "RRS_READ_HEAD"} BY <1>2 DEF Phases
  <2> HIDE DEF read, rrs, new
  <2>7. /\ new.rrs = rrs /\ new.header = read.hdr /\ new.body = c.body
        /\ new.handler = c.handler /\ new.mpdata = c.mpdata
    BY <2>1, <2>5, <2>6, WithHeaderIn
  <2>8. HasHandler(new) BY <2>4, <2>5, <2>6, <2>7 DEF HasHandler, Early
  <2>9. FormTaken(new) BY <2>3, <2>7 DEF FormTaken
  <2> QED BY <2>8, <2>9 DEF FormGood, new
<1> QED BY <1>1, <1>2

\* what is held of a request that has been read
GotGood(x) ==
  HandlerOf(x.header.request) = "FORM" /\ IsForm(x.body) => FormAt(x.mpdata, Crlf \o x.body, <<>>)

AllGood(c, g) ==
  /\ FormGood(c) /\ \A k \in 1 .. Len(g) : GotGood(g[k])
  /\ c.rrs = "RRS_READ_FINISHED" => Len(g) > 0 /\ g[Len(g)].header = c.header

\* the invariant of the forms
FormInv == AllGood(conn, got)

\* What appendData makes of a connection.
LEMMA BufferGood ==
  ASSUME NEW c \in Conns, FormGood(c), NEW room \in Nat, NEW g, g \in Seq(Got),
         \A k \in 1 .. Len(g) : GotGood(g[k])
  PROVE  LET new == ReadTrailer(appendBodyData(ReadHead(c), room)) IN AllGood(new, Added(g, new))
<1> DEFINE head == ReadHead(c)
           body == appendBodyData(head, room)
           new == ReadTrailer(body)
           one == [header |-> new.header, body |-> new.body, mpdata |-> new.mpdata]
<1>1. head \in Conns /\ FormGood(head) BY ReadHeadIn, ReadHeadGood
<1> HIDE DEF head
<1>2. body \in Conns /\ FormGood(body) BY <1>1, AppendBodyDataIn, AppendBodyGood
<1> HIDE DEF body
<1>3. new \in Conns /\ FormGood(new) BY <1>2, ReadTrailerIn, ReadTrailerGood
<1> HIDE DEF new
<1>4. CASE new.rrs # "RRS_READ_FINISHED"
  <2>1. Added(g, new) = g BY <1>4 DEF Added
  <2>2. AllGood(new, Added(g, new)) BY <1>3, <1>4, <2>1 DEF AllGood
  <2> QED BY <2>2 DEF new, body, head
<1>5. CASE new.rrs = "RRS_READ_FINISHED"
  <2>1. new.header \in Header /\ new.body \in Data /\ new.mpdata \in MpData BY <1>3 DEF Conns, Conn
  <2>2. one \in Got BY <2>1 DEF Got
  <2>3. Added(g, new) = Append(g, one) BY <1>5 DEF Added
  <2>4. one.header = new.header /\ one.body = new.body /\ one.mpdata = new.mpdata OBVIOUS
  <2> HIDE DEF one
  <2> DEFINE g2 == Append(g, one)
             n == Len(g)
  <2>5. n \in Nat /\ Len(g2) = n + 1 /\ g2[n + 1] = one /\ \A k \in 1 .. n : g2[k] = g[k]
    BY <2>2, AppendProperties, LenProperties
  <2> HIDE DEF g2
  <2>6. HasHandler(new) /\ FormTaken(new) /\ new.rrs \notin Early BY <1>3, <1>5 DEF FormGood, Early
  <2>7. new.handler = HandlerOf(new.header.request) BY <2>6 DEF HasHandler
  <2>8. GotGood(one) BY <2>4, <2>6, <2>7 DEF GotGood, FormTaken
  <2>9. \A k \in 1 .. Len(g2) : GotGood(g2[k])
    <3> SUFFICES ASSUME NEW k \in 1 .. n + 1 PROVE GotGood(g2[k])
      BY <2>5
    <3>1. k = n + 1 \/ k \in 1 .. n BY <2>5
    <3> QED BY <2>5, <2>8, <3>1
  <2>10. Len(g2) > 0 /\ g2[Len(g2)].header = new.header BY <2>4, <2>5
  <2>11. AllGood(new, g2) BY <1>3, <2>9, <2>10 DEF AllGood
  <2> QED BY <2>3, <2>11 DEF g2, new, body, head
<1> QED BY <1>4, <1>5

\* The invariant is kept.
LEMMA FormKept == ReaderInv /\ FormInv /\ [Next]_vars => FormInv'
<1> SUFFICES ASSUME ReaderInv, FormInv, [Next]_vars PROVE FormInv'
  OBVIOUS
<1>1. conn \in Conns /\ wire \in Data /\ fed \in 0 .. Len(wire) /\ got \in Seq(Got)
  BY DEF ReaderInv, Reads
<1>2. /\ FormGood(conn) /\ \A k \in 1 .. Len(got) : GotGood(got[k])
      /\ conn.rrs = "RRS_READ_FINISHED" => Len(got) > 0 /\ got[Len(got)].header = conn.header
  BY DEF FormInv, AllGood
<1>3. ASSUME NEW c \in Conns, conn.rrs # "RRS_READ_FINISHED", FormGood(c), AppendBuffer(c)
      PROVE  FormInv'
  <2>1. PICK room \in Nat : /\ conn' = ReadTrailer(appendBodyData(ReadHead(c), room))
                            /\ got' = Added(got, conn')
    BY <1>1, <1>3, BufferAppended
  <2> DEFINE new == ReadTrailer(appendBodyData(ReadHead(c), room))
  <2>2. AllGood(new, Added(got, new)) BY <1>1, <1>2, <1>3, BufferGood
  <2> HIDE DEF new
  <2>3. conn' = new /\ got' = Added(got, new) BY <2>1 DEF new
  <2>4. AllGood(conn', got') BY <2>2, <2>3
  <2> QED BY <2>4 DEF FormInv
<1>4. CASE Read
  <2>1. PICK n \in 1 .. Len(wire) - fed :
          AppendBuffer([conn EXCEPT !.buf = SubSeq(wire, fed + 1, fed + n)])
    BY <1>4 DEF Read
  <2> DEFINE d == SubSeq(wire, fed + 1, fed + n)
             c == [conn EXCEPT !.buf = d]
  <2>2. d \in Data BY <1>1, PieceOf
  <2>3. AppendBuffer(c) BY <2>1
  <2> HIDE DEF d
  <2>4. c \in Conns /\ FormGood(c)
    <3> HIDE DEF c
    <3>1. c = [conn EXCEPT !.buf = d] BY DEF c
    <3>2. conn \in Conn /\ Counted(conn) BY <1>1 DEF Conns
    <3>3. c \in Conn BY <2>2, <3>1, <3>2 DEF Conn
    <3>4. /\ c.rrs = conn.rrs /\ c.body = conn.body /\ c.bodyLen = conn.bodyLen
          /\ c.bodyReadLen = conn.bodyReadLen /\ c.header = conn.header /\ c.handler = conn.handler
          /\ c.mpdata = conn.mpdata
      BY <3>1, <3>2 DEF Conn
    <3>5. Counted(c) BY <3>2, <3>4 DEF Counted
    <3>6. FormGood(c) BY <1>2, <3>4 DEF FormGood, HasHandler, FormTaken
    <3> QED BY <3>3, <3>5, <3>6 DEF Conns
  <2>5. conn.rrs # "RRS_READ_FINISHED" BY <1>4 DEF Read
  <2> HIDE DEF c
  <2> QED BY <1>3, <2>3, <2>4, <2>5
<1>5. CASE Again
  <2>1. conn.rrs # "RRS_READ_FINISHED" /\ AppendBuffer(conn) BY <1>5 DEF Again
  <2> QED BY <1>1, <1>2, <1>3, <2>1
<1>6. CASE Answered
  <2> DEFINE new == [conn_new EXCEPT !.rrs = "RRS_IDLE", !.buf = conn.buf]
  <2>1. conn' = new /\ got' = got BY <1>6 DEF Answered
  <2>2. new.rrs = "RRS_IDLE" /\ new.handler = "none" BY DEF conn_new
  <2> HIDE DEF new
  <2>3. FormGood(new) BY <2>2 DEF FormGood, HasHandler, FormTaken, Early
  <2>4. AllGood(conn', got') BY <1>2, <2>1, <2>2, <2>3 DEF AllGood
  <2> QED BY <2>4 DEF FormInv
<1>7. CASE UNCHANGED vars
  <2>1. conn' = conn /\ got' = got BY <1>7 DEF vars
  <2>2. AllGood(conn', got') BY <2>1 DEF FormInv
  <2> QED BY <2>2 DEF FormInv
<1> QED BY <1>4, <1>5, <1>6, <1>7 DEF Next

\* A line that is stored leaves the request of a header that has one.
LEMMA StoredKeeps ==
  ASSUME NEW hdr \in Header, hdr.started, NEW line \in Data
  PROVE  StoreLine(hdr, line).started /\ StoreLine(hdr, line).request = hdr.request
BY DEF StoreLine, Header

\* All headers behind a started one have its request.
LEMMA SameRequest ==
  ASSUME NEW n, NEW ls, NEW eol, NEW tail, NEW H, NEW R, IsHead(n, ls, eol, tail, H, R),
         NEW j \in 0 .. n, H[j].started
  PROVE  H[n].request = H[j].request
<1> DEFINE Same(k) == k >= j => H[k].started /\ H[k].request = H[j].request
           T == {k \in 0 .. n : Same(k)}
<1>1. /\ n \in Nat /\ H \in [0 .. n -> Header] /\ ls \in [1 .. n -> Data]
      /\ \A k \in 1 .. n : H[k] = StoreLine(H[k - 1], ls[k])
  BY DEF IsHead
<1>2. 0 \in T
  <2>1. 0 >= j => j = 0 OBVIOUS
  <2>2. Same(0) BY <2>1
  <2> QED BY <1>1, <2>2
<1>3. ASSUME NEW k \in 1 .. n, k - 1 \in T PROVE k \in T
  <2>1. k - 1 \in 0 .. n /\ k \in 0 .. n /\ (k >= j => k = j \/ k - 1 >= j) BY <1>1
  <2>2. Same(k - 1) BY <1>3
  <2> DEFINE h == H[k - 1]
             line == ls[k]
  <2>3. h \in Header /\ line \in Data /\ H[k] = StoreLine(h, line) BY <1>1, <2>1
  <2>4. CASE k = j
    <3>1. Same(k) BY <2>4
    <3> QED BY <2>1, <3>1
  <2>5. CASE k - 1 >= j
    <3>1. h.started /\ h.request = H[j].request BY <2>2, <2>5
    <3> HIDE DEF h, line
    <3>2. StoreLine(h, line).started /\ StoreLine(h, line).request = h.request
      BY <2>3, <3>1, StoredKeeps
    <3>3. Same(k) BY <2>3, <3>1, <3>2
    <3> QED BY <2>1, <3>3
  <2>6. CASE ~(k >= j)
    <3>1. Same(k) BY <2>6
    <3> QED BY <2>1, <3>1
  <2> QED BY <2>1, <2>4, <2>5, <2>6
<1>4. n \in T
  <2> HIDE DEF T
  <2>1. \A k \in 0 .. n : k \in T BY <1>1, <1>2, <1>3, UpTo
  <2> QED BY <1>1, <2>1
<1>5. Same(n) /\ n >= j BY <1>1, <1>4
<1> QED BY <1>5

\* The header of a request that is read behind its head is that of the request.
LEMMA RequestRead ==
  ASSUME NEW c \in Conns, NEW left, NEW r, NEW later, InRequest(c, left, r, later),
         c.rrs \notin Early, c.header.started
  PROVE  c.header.request = r.request
<1>1. CASE InHead(c, left, r, later) BY <1>1 DEF InHead, Early
<1>2. CASE InBody(c, left, r, later) BY <1>2 DEF InBody, HasHeader
<1>3. CASE InTrailer(c, left, r, later)
  <2> DEFINE n == Len(r.trailer)
             ls == r.trailer
             tail == later
             eol == r.eol
  <2>1. PICK H, R : /\ IsTrailerPlan(r, later, H, R)
                    /\ \E j \in 0 .. n : AtLine(c.header, j, left, H, R)
    BY <1>3 DEF InTrailer
  <2>2. PICK j \in 0 .. n : AtLine(c.header, j, left, H, R) BY <2>1
  <2>3. IsHead(n, ls, eol, tail, H, R) /\ H[n].request = r.request
    BY <2>1 DEF IsTrailerPlan, HasHeader
  <2>4. H \in [0 .. n -> Header] BY <2>3 DEF IsHead
  <2> DEFINE h == H[j]
  <2>5. h \in Header BY <2>2, <2>4
  <2>6. c.header = [h EXCEPT !.cur = c.header.cur] BY <2>2 DEF AtLine
  <2> HIDE DEF n, h, ls, tail, eol
  <2> DEFINE hdr == c.header
  <2>7. hdr.started = h.started /\ hdr.request = h.request
    <3>1. hdr = [h EXCEPT !.cur = hdr.cur] BY <2>6
    <3> HIDE DEF hdr
    <3> QED BY <2>5, <3>1 DEF Header
  <2>8. H[j].started BY <2>7 DEF h
  <2>9. H[n].request = H[j].request BY <2>2, <2>3, <2>8, SameRequest
  <2> QED BY <2>3, <2>7, <2>9 DEF h
<1>4. CASE IsRead(c, left, r, later) BY <1>4 DEF IsRead, HasHeader
<1> QED BY <1>1, <1>2, <1>3, <1>4 DEF InRequest

\* What has been taken of a form is the beginning of a form.
LEMMA FormBeginning ==
  ASSUME NEW b \in Data, NEW body \in Data, IsForm(body), IsPrefix(b, body)
  PROVE  IsForm(b)
<1> DEFINE n == Len(b)
           d == From(body, n + 1)
<1>1. n \in Nat /\ Len(body) \in Nat BY LenOf
<1>2. n <= Len(body) /\ SubSeq(b, 1, n) = SubSeq(body, 1, n) BY DEF IsPrefix
<1>3. SubSeq(b, 1, n) = b
  <2>1. b \o <<>> = b /\ <<>> \in Seq(Byte) /\ b \in Seq(Byte) BY NoneIn, EmptySeq DEF Data
  <2>2. SubSeq(b \o <<>>, 1, Len(b)) = b BY <2>1, JoinedCut
  <2> QED BY <2>1, <2>2
<1>4. SubSeq(body, 1, n) \o d = body
  <2>1. n \in 0 .. Len(body) /\ body \in Seq(Byte) BY <1>1, <1>2 DEF Data
  <2> QED BY <2>1, CutAt
<1>5. b \o d = body BY <1>2, <1>3, <1>4
<1>6. d \in Data BY <1>1, BehindIn
<1> HIDE DEF d
<1>7. IsForm(b \o d) BY <1>5
<1> QED BY <1>6, <1>7, FormBefore

----------------------------------------------------------------------------
(* The theorems.                                                             *)

\* The invariant holds.
LEMMA ReaderInvariant == Spec => []ReaderInv
<1>1. Init => ReaderInv BY ReaderInit
<1>2. ReaderInv /\ [Next]_vars => ReaderInv'
  <2>1. ReaderInv /\ Next => ReaderInv' BY ReaderRead, ReaderAgain, ReaderAnswered DEF Next
  <2>2. ReaderInv /\ UNCHANGED vars => ReaderInv' BY DEF vars, ReaderInv
  <2> QED BY <2>1, <2>2
<1> QED BY <1>1, <1>2, PTL DEF Spec

\* Input is held up only by a CGI program that has not taken its body.
LEMMA HeldUp == Spec => []HeldInv
<1>1. Init => HeldInv
  <2>1. conn_new.buf = <<>> BY DEF conn_new
  <2> QED BY <2>1 DEF Init, HeldInv, Held
<1>2. ReaderInv /\ HeldInv /\ [Next]_vars => HeldInv' BY HeldKept
<1> QED BY <1>1, <1>2, ReaderInvariant, PTL DEF Spec

\* The invariant gives the types.
LEMMA ReaderTyped == ReaderInv => TypeOK
<1> SUFFICES ASSUME ReaderInv PROVE TypeOK
  OBVIOUS
<1>1. sent \in Sent /\ fed \in 0 .. Len(wire) /\ conn \in Conns BY DEF ReaderInv, Reads
<1> DEFINE m == conn.mpdata
<1>2. conn \in Conn /\ conn.bodyReadLen = Len(conn.body) /\ conn.bodyReadLen <= conn.bodyLen
  BY <1>1 DEF Conns, Counted
<1>3. conn.rrs \in Phases /\ conn.isChunked \in BOOLEAN /\ m \in MpData BY <1>2 DEF Conn
<1> HIDE DEF m
<1>4. /\ m.parsePos \in {"PP_BODY", "PP_GOT_BOUNDARY"} /\ m.delimMatchPart \in 0 .. 2
      /\ m.parsePos # "PP_BODY" => m.delimMatchPart = 0
  BY <1>3 DEF MpData, Parsers
<1>5. m.epilogue \in BOOLEAN BY <1>3 DEF MpData, Parsers
<1>6. Len(Delim) - 1 = 2
  <2>1. Len(Delim) = 3 BY DelimIs
  <2> QED BY <2>1
<1> QED BY <1>1, <1>2, <1>3, <1>4, <1>5, <1>6 DEF TypeOK, Phases, m

\* The lines of a request.
LEMMA LinesAre ==
  ASSUME NEW r, IsRequest(r)
  PROVE  LinesOf(r) = HeaderOf(r) \o (IF r.sizes = <<>> THEN <<>> ELSE Kept(r.trailer))
<1> DEFINE all == r.headers \o LengthLine(r)
<1>1. HeaderOf(r) = Kept(all) BY DEF HeaderOf
<1>2. all \in Seq(Data) BY HeadLinesAre
<1> HIDE DEF all
<1>3. Kept(all) \in Seq(Data) BY <1>2, KeptIn
<1>4. Kept(all) \o <<>> = Kept(all) BY <1>3, ConcatEmptySeq
<1>5. CASE r.sizes = <<>> BY <1>1, <1>4, <1>5 DEF LinesOf
<1>6. CASE r.sizes # <<>> BY <1>6 DEF LinesOf
<1> QED BY <1>5, <1>6

\* Nothing is left unread behind the last byte of a request.
LEMMA NoneLeft ==
  ASSUME NEW s, NEW w, NEW e, NEW R, IsPlan(s, w, e, R), NEW c \in Conns, NEW f \in 0 .. Len(w), NEW n,
         Where(c, c.buf \o From(w, f + 1), s, R, n), c.buf = <<>>, NEW k \in 1 .. Len(s), e[k] <= f
  PROVE  k <= n
<1> DEFINE rest == From(w, f + 1)
           left == c.buf \o rest
           N == Len(s)
<1>1. s \in Seq(Request) /\ \A i \in 1 .. N : IsRequest(s[i]) BY SentIs DEF IsPlan
<1>2. N \in Nat /\ w \in Data /\ Len(w) \in Nat BY <1>1, LenProperties, LenOf DEF IsPlan
<1>3. R \in [0 .. N -> Data] /\ n \in 0 .. N BY DEF IsPlan, Where
<1>4. rest \in Data /\ Len(rest) = Len(w) - f
  <2> DEFINE i == f + 1
  <2>1. w \in Seq(Byte) /\ i \in Nat /\ i > 0 /\ (i <= Len(w) => Len(w) - i + 1 = Len(w) - f)
        /\ (~(i <= Len(w)) => Len(w) - f = 0)
    BY <1>2 DEF Data
  <2> HIDE DEF i
  <2>2. From(w, i) \in Seq(Byte) /\ Len(From(w, i)) = IF i <= Len(w) THEN Len(w) - i + 1 ELSE 0
    BY <2>1, FromIs
  <2>3. Len(From(w, i)) = Len(w) - f BY <2>1, <2>2
  <2> QED BY <2>2, <2>3 DEF i, Data
<1>5. left = rest
  <2> HIDE DEF rest
  <2> QED BY <1>4, NoneIn
<1>6. k \in 0 .. N /\ Len(R[k]) \in Nat /\ e[k] \in Nat /\ e[k] + Len(R[k]) = Len(w)
  <2>1. k \in 0 .. N BY <1>2
  <2>2. R[k] \in Data BY <1>3, <2>1
  <2> QED BY <2>1, <2>2, LenOf DEF IsPlan
<1>7. Len(left) \in Nat /\ Len(R[k]) >= Len(left)
  <2> HIDE DEF rest, left
  <2> QED BY <1>2, <1>4, <1>5, <1>6
<1>8. left \in Data BY <1>4, <1>5
<1> HIDE DEF left, rest, N
<1>9. CASE c.rrs = "RRS_READ_FINISHED"
  <2>1. left = R[n] BY <1>9 DEF Where, left, rest
  <2> SUFFICES ASSUME k > n PROVE FALSE
    BY <1>2, <1>3
  <2>2. k \in n .. N /\ k # n /\ n \in 0 .. N BY <1>2, <1>3, <1>6
  <2>3. Len(R[k]) < Len(R[n]) BY <2>2, LessBehind DEF N
  <2> QED BY <1>6, <1>7, <2>1, <2>3
<1>10. CASE c.rrs # "RRS_READ_FINISHED" /\ n = N BY <1>2, <1>6, <1>10
<1>11. CASE c.rrs # "RRS_READ_FINISHED" /\ n # N
  <2> DEFINE m == n + 1
             r == s[m]
             later == R[m]
  <2>1. InRequest(c, left, r, later) BY <1>11 DEF Where, left, rest, N
  <2>2. m \in 1 .. N /\ m \in 0 .. N BY <1>2, <1>3, <1>11
  <2>3. IsRequest(r) /\ later \in Data BY <1>1, <1>3, <2>2
  <2> HIDE DEF r, later
  <2>4. Len(left) > Len(later) BY <1>8, <1>11, <2>1, <2>3, MoreLeft
  <2> SUFFICES ASSUME k > n PROVE FALSE
    BY <1>2, <1>3
  <2>5. k \in m .. N BY <1>2, <1>3, <1>6
  <2> HIDE DEF m
  <2>6. Len(R[k]) <= Len(R[m]) BY <2>2, <2>5, LessBehind DEF N
  <2>7. Len(later) \in Nat BY <2>3, LenOf
  <2> QED BY <1>6, <1>7, <2>4, <2>6, <2>7 DEF later
<1> QED BY <1>9, <1>10, <1>11

\* What the invariant says of the requests.
LEMMA ReaderAsSent == ReaderInv /\ HeldInv => RequestsAsSent
<1> SUFFICES ASSUME ReaderInv, HeldInv PROVE RequestsAsSent
  OBVIOUS
<1>1. /\ sent \in Sent /\ wire \in Data /\ fed \in 0 .. Len(wire) /\ conn \in Conns
      /\ got \in Seq(Got) /\ AsSent(got, sent)
  BY DEF ReaderInv, Reads
<1> DEFINE left == conn.buf \o From(wire, fed + 1)
           g == Len(got)
           N == Len(sent)
<1>2. PICK R : IsPlan(sent, wire, ends, R) /\ Where(conn, left, sent, R, g) BY DEF ReaderInv, Reads
<1>3. DOMAIN got = 1 .. g /\ g \in Nat /\ N \in Nat /\ DOMAIN sent = 1 .. N
      /\ \A k \in 1 .. N : IsRequest(sent[k])
  <2>1. sent \in Seq(Request) /\ \A k \in 1 .. N : IsRequest(sent[k]) BY <1>1, SentIs
  <2> QED BY <1>1, <2>1, LenProperties
<1>4. g \in 0 .. N BY <1>2 DEF Where
<1>5. left \in Data
  <2>1. conn.buf \in Data /\ From(wire, fed + 1) \in Data BY <1>1, BehindIn DEF Conns, Conn
  <2> QED BY <2>1, JoinIn
<1> HIDE DEF left, g, N
<1>6. g <= N BY <1>3, <1>4
<1>7. \A k \in DOMAIN got : /\ got[k].header.request = sent[k].request
                            /\ got[k].header.lines =
                                 HeaderOf(sent[k])
                                   \o (IF sent[k].sizes = <<>> THEN <<>> ELSE Kept(sent[k].trailer))
                            /\ got[k].body = sent[k].body
  <2> SUFFICES ASSUME NEW k \in DOMAIN got
               PROVE  /\ got[k].header.request = sent[k].request
                      /\ got[k].header.lines =
                           HeaderOf(sent[k])
                             \o (IF sent[k].sizes = <<>> THEN <<>> ELSE Kept(sent[k].trailer))
                      /\ got[k].body = sent[k].body
    OBVIOUS
  <2>1. k \in 1 .. g /\ k \in 1 .. N BY <1>3, <1>6
  <2>2. got[k].header.request = sent[k].request /\ got[k].header.lines = LinesOf(sent[k])
        /\ got[k].body = sent[k].body
    BY <1>1, <2>1 DEF AsSent, g
  <2>3. IsRequest(sent[k]) BY <1>3, <2>1
  <2> DEFINE r == sent[k]
  <2> HIDE DEF r
  <2>4. LinesOf(r) = HeaderOf(r) \o (IF r.sizes = <<>> THEN <<>> ELSE Kept(r.trailer))
    BY <2>3, LinesAre DEF r
  <2> QED BY <2>2, <2>4 DEF r
<1> DEFINE n == g + (IF conn.rrs = "RRS_READ_FINISHED" THEN 0 ELSE 1)
<1>8. IF n > N THEN conn.body = <<>> ELSE n = 0 \/ IsPrefix(conn.body, sent[n].body)
  <2>1. CASE conn.rrs = "RRS_READ_FINISHED"
    <3>1. n = g /\ g > 0 /\ conn.body = sent[g].body
      <4>1. g > 0 /\ conn.body = sent[g].body BY <1>2, <2>1 DEF Where
      <4> QED BY <1>3, <2>1, <4>1
    <3> DEFINE b == conn.body
    <3>2. b \in Data BY <1>1 DEF Conns, Conn
    <3>3. b \o <<>> = b /\ <<>> \in Data
      <4> HIDE DEF b
      <4> QED BY <3>2, NoneIn
    <3> HIDE DEF b
    <3>4. IsPrefix(b, b) BY <3>2, <3>3, PrefixIs
    <3>5. IsPrefix(conn.body, sent[n].body) BY <3>1, <3>4 DEF b
    <3>6. ~(n > N) BY <1>3, <1>6, <3>1
    <3> HIDE DEF n
    <3> QED BY <3>5, <3>6
  <2>2. CASE conn.rrs # "RRS_READ_FINISHED" /\ g = N
    <3>1. n > N BY <1>3, <2>2
    <3>2. conn.body = <<>> BY <1>2, <2>2 DEF Where, N
    <3> QED BY <3>1, <3>2
  <2>3. CASE conn.rrs # "RRS_READ_FINISHED" /\ g # N
    <3>1. n = g + 1 /\ n \in 1 .. N /\ n \in 0 .. N /\ ~(n > N) BY <1>3, <1>6, <2>3
    <3> HIDE DEF n
    <3>2. InRequest(conn, left, sent[n], R[n]) BY <1>2, <2>3, <3>1 DEF Where, N
    <3>3. IsRequest(sent[n]) BY <1>3, <3>1
    <3>4. R[n] \in Data BY <1>2, <3>1 DEF IsPlan, N
    <3>5. IsPrefix(conn.body, sent[n].body) BY <1>1, <1>5, <3>2, <3>3, <3>4, BodyBeginning
    <3> QED BY <3>1, <3>5
  <2> QED BY <2>1, <2>2, <2>3
<1>9. conn.buf = <<>> => \A k \in DOMAIN sent : ends[k] <= fed => k <= g
  <2> SUFFICES ASSUME conn.buf = <<>>, NEW k \in 1 .. N, ends[k] <= fed PROVE k <= g
    BY <1>3
  <2>1. Where(conn, conn.buf \o From(wire, fed + 1), sent, R, g) BY <1>2 DEF left
  <2> QED BY <1>1, <1>2, <2>1, NoneLeft DEF N
<1>10. conn.buf # <<>> => \/ conn.rrs \in {"RRS_IDLE", "RRS_READ_FINISHED"}
                          \/ /\ conn.rrs = "RRS_READ_BODY" /\ conn.handler = "CGI"
                             /\ conn.bodyReadLen < conn.bodyLen
  BY DEF HeldInv, Held
<1> QED BY <1>6, <1>7, <1>8, <1>9, <1>10 DEF RequestsAsSent, g, N

\* The forms are read as MultipartProofs says.
LEMMA FormsRead == Spec => []FormInv
<1>1. Init => FormInv
  <2> SUFFICES ASSUME Init PROVE FormInv
    OBVIOUS
  <2>1. conn = conn_new /\ got = <<>> BY DEF Init
  <2>2. conn.rrs = "RRS_READ_HEAD" /\ conn.handler = "none" BY <2>1 DEF conn_new
  <2>3. FormGood(conn) BY <2>2 DEF FormGood, HasHandler, FormTaken, Early
  <2>4. Len(got) = 0 BY <2>1, EmptySeq
  <2>5. \A k \in 1 .. 0 : FALSE OBVIOUS
  <2> QED BY <2>2, <2>3, <2>4, <2>5 DEF FormInv, AllGood
<1>2. ReaderInv /\ FormInv /\ [Next]_vars => FormInv' BY FormKept
<1> QED BY <1>1, <1>2, ReaderInvariant, PTL DEF Spec

\* What the invariants say of the form that is read.
LEMMA FormRead == ReaderInv /\ HeldInv /\ FormInv => PartsAsWhole
<1> SUFFICES ASSUME ReaderInv, HeldInv, FormInv, conn.handler = "FORM"
             PROVE  PartsSeen(conn.mpdata.parts) = Reference(conn.body)
  BY DEF PartsAsWhole
<1>1. sent \in Sent /\ conn \in Conns /\ got \in Seq(Got) /\ AsSent(got, sent) BY DEF ReaderInv, Reads
<1>2. /\ HasHandler(conn) /\ FormTaken(conn)
      /\ conn.rrs = "RRS_READ_FINISHED" => Len(got) > 0 /\ got[Len(got)].header = conn.header
  BY DEF FormInv, AllGood, FormGood
<1>3. conn.rrs \notin Early /\ conn.header.started /\ HandlerOf(conn.header.request) = "FORM"
  BY <1>2 DEF HasHandler
<1> DEFINE g == Len(got)
           N == Len(sent)
           left == conn.buf \o From(wire, fed + 1)
           n == g + (IF conn.rrs = "RRS_READ_FINISHED" THEN 0 ELSE 1)
<1>4. PICK R : IsPlan(sent, wire, ends, R) /\ Where(conn, left, sent, R, g) BY DEF ReaderInv, Reads
<1>5. g \in Nat /\ N \in Nat /\ \A k \in 1 .. N : IsRequest(sent[k])
  <2>1. sent \in Seq(Request) /\ \A k \in 1 .. N : IsRequest(sent[k]) BY <1>1, SentIs
  <2> QED BY <1>1, <2>1, LenProperties
<1>6. n \in 1 .. N /\ sent[n].request = conn.header.request
  <2>1. g \in 0 .. N BY <1>4 DEF Where
  <2>2. CASE conn.rrs = "RRS_READ_FINISHED"
    <3>1. n = g /\ g \in 1 .. g /\ g > 0 BY <1>2, <1>5, <2>2
    <3>2. got[g].header.request = sent[g].request BY <1>1, <3>1 DEF AsSent
    <3>3. got[g].header = conn.header BY <1>2, <2>2
    <3> HIDE DEF g, n, N
    <3> QED BY <2>1, <3>1, <3>2, <3>3
  <2>3. CASE conn.rrs # "RRS_READ_FINISHED"
    <3>1. n = g + 1 BY <1>5, <2>3
    <3>2. g # N /\ InRequest(conn, left, sent[g + 1], R[g + 1])
      BY <1>3, <1>4, <2>3 DEF Where, Early
    <3>3. conn.header.request = sent[g + 1].request BY <1>1, <1>3, <3>2, RequestRead
    <3> HIDE DEF g, n, N
    <3> QED BY <1>5, <2>1, <3>1, <3>2, <3>3
  <2> QED BY <2>2, <2>3
<1> DEFINE r == sent[n]
<1>7. IsRequest(r) BY <1>5, <1>6
<1>8. IsPrefix(conn.body, r.body)
  <2>1. RequestsAsSent BY ReaderAsSent
  <2>2. IF n > N THEN conn.body = <<>> ELSE n = 0 \/ IsPrefix(conn.body, sent[n].body)
    BY <2>1 DEF RequestsAsSent
  <2>3. ~(n > N) /\ n # 0
    <3> HIDE DEF n, N
    <3> QED BY <1>5, <1>6
  <2> HIDE DEF n, N
  <2> QED BY <2>2, <2>3
<1> HIDE DEF n
<1> DEFINE b == conn.body
           m == conn.mpdata
<1>9. b \in Data /\ m \in MpData BY <1>1 DEF Conns, Conn
<1>10. r.body \in Data /\ IsForm(r.body)
  <2>1. HandlerOf(r.request) = "FORM" BY <1>3, <1>6
  <2> HIDE DEF r
  <2> QED BY <1>7, <2>1 DEF IsRequest, Filled
<1>11. IsForm(b)
  <2> DEFINE body == r.body
  <2>1. body \in Data /\ IsForm(body) /\ IsPrefix(b, body) BY <1>8, <1>10
  <2> HIDE DEF b, body
  <2> QED BY <1>9, <2>1, FormBeginning
<1>12. FormAt(m, Crlf \o b, <<>>) BY <1>2, <1>11 DEF FormTaken
<1> HIDE DEF b, m
<1>13. PartsSeen(m.parts) = Reference(b) BY <1>9, <1>12, FormSeen
<1> QED BY <1>13 DEF b, m

\* What they say of the forms that have been read.
LEMMA FormsAre == ReaderInv /\ FormInv => FormAsSent
<1> SUFFICES ASSUME ReaderInv, FormInv, NEW k \in DOMAIN got, sent[k].fields # <<>>
             PROVE  FieldsIn(PartsSeen(got[k].mpdata.parts)) = sent[k].fields
  BY DEF FormAsSent
<1>1. sent \in Sent /\ got \in Seq(Got) /\ AsSent(got, sent) BY DEF ReaderInv, Reads
<1>2. \A i \in 1 .. Len(got) : GotGood(got[i]) BY DEF FormInv, AllGood
<1>3. Len(got) \in 0 .. Len(sent) BY DEF ReaderInv, Reads, Where
<1>4. k \in 1 .. Len(got) /\ Len(got) \in Nat BY <1>1, LenProperties
<1>5. Len(sent) \in Nat /\ \A i \in 1 .. Len(sent) : IsRequest(sent[i])
  <2>1. sent \in Seq(Request) /\ \A i \in 1 .. Len(sent) : IsRequest(sent[i]) BY <1>1, SentIs
  <2> QED BY <2>1, LenProperties
<1> DEFINE x == got[k]
           r == sent[k]
           b == x.body
           m == x.mpdata
<1>6. x \in Got /\ GotGood(x) BY <1>1, <1>2, <1>4, ElementOfSeq
<1>7. IsRequest(r) BY <1>3, <1>4, <1>5
<1>8. b = r.body /\ x.header.request = r.request BY <1>1, <1>4 DEF AsSent
<1>9. r.fields # <<>> OBVIOUS
<1> HIDE DEF r, x
<1>10. HandlerOf(r.request) = "FORM" /\ IsForm(r.body) /\ FieldsIn(Reference(r.body)) = r.fields
  BY <1>7, <1>9 DEF IsRequest, Filled
<1>11. b \in Data /\ m \in MpData BY <1>6 DEF Got
<1>12. FormAt(m, Crlf \o b, <<>>) BY <1>6, <1>8, <1>10 DEF GotGood
<1> HIDE DEF b, m
<1>13. PartsSeen(m.parts) = Reference(b) BY <1>11, <1>12, FormSeen
<1>14. FieldsIn(PartsSeen(m.parts)) = r.fields BY <1>8, <1>10, <1>13
<1> QED BY <1>14 DEF m, x, r

\* Type correctness.
THEOREM ReaderTypes == Spec => []TypeOK
BY ReaderInvariant, ReaderTyped, PTL

\* However the bytes are cut, requests are read as they were sent.
THEOREM ReaderSound == Spec => []RequestsAsSent
BY ReaderInvariant, HeldUp, ReaderAsSent, PTL

\* The parts of a form are those of a parser that gets the whole body at once.
THEOREM FormWhole == Spec => []PartsAsWhole
BY ReaderInvariant, HeldUp, FormsRead, FormRead, PTL

\* A form that has been read has the fields that were sent.
THEOREM FormSent == Spec => []FormAsSent
BY ReaderInvariant, FormsRead, FormsAre, PTL
=============================================================================
