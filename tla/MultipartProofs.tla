---------------------------- MODULE MultipartProofs -------------------------
(* The parser of a form (Multipart) finds in the pieces of a body what the     *)
(* reference parser finds in the whole of it.  FormAt(m, s, rest) is the        *)
(* invariant: it says of a parser m that has taken s where in the form it is,   *)
(* and what its parts have of it.  FormBegins, FormTakes and FormSeen are what   *)
(* ReaderProofs needs: FormAt holds at first, each piece keeps it, and it gives  *)
(* what there is to see of the parts.  The facts on data and lines come first.  *)
EXTENDS Multipart, SequenceFacts, SequenceTheorems, FiniteSetTheorems, TLAPS

----------------------------------------------------------------------------
(* Data, and places in it.                                                   *)

\* a literal is a string, which the provers do not know
Byte == STRING \union {"cr", "lf", "sp", "b", "colon", "Content-Length"}
               \union {DigitList[i] : i \in 1 .. 16}

Data == Seq(Byte)

\* What is behind a place.
LEMMA FromIs ==
  ASSUME NEW S, NEW d \in Seq(S), NEW i \in Nat, i > 0
  PROVE  /\ From(d, i) \in Seq(S)
         /\ Len(From(d, i)) = IF i <= Len(d) THEN Len(d) - i + 1 ELSE 0
         /\ \A k \in 1 .. Len(d) - i + 1 : From(d, i)[k] = d[i + k - 1]
<1>1. Len(d) \in Nat /\ \A k \in 1 .. Len(d) : d[k] \in S BY LenProperties, ElementOfSeq
<1>2. \A k \in i .. Len(d) : d[k] \in S
  <2>1. \A k \in i .. Len(d) : k \in 1 .. Len(d) BY <1>1
  <2> QED BY <1>1, <2>1
<1>3. i \in Int /\ Len(d) \in Int BY <1>1
<1> QED BY <1>2, <1>3, SubSeqProperties DEF From

\* What is before a place.
LEMMA FirstIs ==
  ASSUME NEW S, NEW d \in Seq(S), NEW i \in 0 .. Len(d)
  PROVE  /\ SubSeq(d, 1, i) \in Seq(S) /\ Len(SubSeq(d, 1, i)) = i
         /\ \A k \in 1 .. i : SubSeq(d, 1, i)[k] = d[k]
<1>1. Len(d) \in Nat /\ \A k \in 1 .. Len(d) : d[k] \in S BY LenProperties, ElementOfSeq
<1>2. i \in Nat /\ i <= Len(d) BY <1>1
<1>3. \A k \in 1 .. i : d[k] \in S
  <2>1. \A k \in 1 .. i : k \in 1 .. Len(d) BY <1>1, <1>2
  <2> QED BY <1>1, <2>1
<1>4. /\ SubSeq(d, 1, i) \in Seq(S)
      /\ Len(SubSeq(d, 1, i)) = IF 1 <= i THEN i - 1 + 1 ELSE 0
      /\ \A k \in 1 .. i - 1 + 1 : SubSeq(d, 1, i)[k] = d[1 + k - 1]
  <2>1. 1 \in Int /\ i \in Int BY <1>2
  <2> QED BY <1>3, <2>1, SubSeqProperties
<1>5. Len(SubSeq(d, 1, i)) = i BY <1>2, <1>4
<1>6. \A k \in 1 .. i : SubSeq(d, 1, i)[k] = d[k]
  <2>1. \A k \in 1 .. i : k \in 1 .. i - 1 + 1 /\ 1 + k - 1 = k BY <1>2
  <2> QED BY <1>4, <2>1
<1> QED BY <1>4, <1>5, <1>6

\* A sequence is what is before a place and what is behind it.
LEMMA CutAt ==
  ASSUME NEW S, NEW d \in Seq(S), NEW i \in 0 .. Len(d)
  PROVE  SubSeq(d, 1, i) \o From(d, i + 1) = d
<1>1. Len(d) \in Nat /\ i \in Nat /\ i <= Len(d)
  <2>1. Len(d) \in Nat BY LenProperties
  <2> QED BY <2>1
<1>2. SubSeq(d, 1, i) \o SubSeq(d, i + 1, Len(d)) = SubSeq(d, 1, Len(d))
  <2>1. 1 \in 1 .. Len(d) + 1 /\ i \in 1 - 1 .. Len(d) /\ Len(d) \in i .. Len(d) BY <1>1
  <2> QED BY <2>1, ConcatAdjacentSubSeq
<1> QED BY <1>2, SubSeqFull DEF From

\* What memchr finds.
LEMMA IndexOfIs ==
  ASSUME NEW S, NEW d \in Data
  PROVE  /\ IndexOf(S, d) \in 0 .. Len(d)
         /\ IndexOf(S, d) = 0 => \A i \in 1 .. Len(d) : d[i] \notin S
         /\ IndexOf(S, d) # 0 => /\ d[IndexOf(S, d)] \in S
                                 /\ \A i \in 1 .. IndexOf(S, d) - 1 : d[i] \notin S
<1> DEFINE I == {i \in 1 .. Len(d) : d[i] \in S}
<1>1. IndexOf(S, d) = IF I # {} THEN Min(I) ELSE 0 BY DEF IndexOf, SelectInSeq
<1>2. Len(d) \in Nat BY LenProperties DEF Data
<1>3. CASE I = {} BY <1>1, <1>2, <1>3
<1>4. CASE I # {}
  <2>1. I \in SUBSET (1 .. Len(d)) OBVIOUS
  <2>2. Min(I) \in I /\ \A y \in I : Min(I) <= y
    <3> HIDE DEF I
    <3> QED BY <1>2, <1>4, <2>1, MinIn
  <2>3. Min(I) \in 1 .. Len(d) /\ d[Min(I)] \in S BY <2>2
  <2> DEFINE m == Min(I)
  <2>4. m \in I /\ \A y \in I : m <= y BY <2>2
  <2>5. ASSUME NEW i \in 1 .. m - 1 PROVE d[i] \notin S
    <3>1. m \in 1 .. Len(d) BY <2>3
    <3> HIDE DEF m
    <3>2. i \in 1 .. Len(d) /\ ~(m <= i) BY <1>2, <3>1
    <3> QED BY <2>4, <3>2
  <2>6. IndexOf(S, d) = m BY <1>1, <1>4
  <2>7. m \in 1 .. Len(d) /\ d[m] \in S BY <2>3
  <2> HIDE DEF m
  <2> QED BY <1>2, <2>5, <2>6, <2>7
<1> QED BY <1>3, <1>4

\* The first place, when it is known.
LEMMA IndexOfAt ==
  ASSUME NEW S, NEW d \in Data, NEW e \in 1 .. Len(d), d[e] \in S,
         \A i \in 1 .. e - 1 : d[i] \notin S
  PROVE  IndexOf(S, d) = e
<1> DEFINE at == IndexOf(S, d)
<1>1. Len(d) \in Nat BY LenProperties DEF Data
<1>2. /\ at \in 0 .. Len(d)
      /\ at = 0 => \A i \in 1 .. Len(d) : d[i] \notin S
      /\ at # 0 => d[at] \in S /\ \A i \in 1 .. at - 1 : d[i] \notin S
  BY IndexOfIs
<1> HIDE DEF at
<1>3. at # 0 BY <1>2
<1>4. ~(e < at)
  <2> SUFFICES ASSUME e < at PROVE FALSE
    OBVIOUS
  <2>1. e \in 1 .. at - 1 BY <1>1, <1>2
  <2> QED BY <1>2, <1>3, <2>1
<1>5. ~(at < e)
  <2> SUFFICES ASSUME at < e PROVE FALSE
    OBVIOUS
  <2>1. at \in 1 .. e - 1 BY <1>1, <1>2, <1>3
  <2> QED BY <1>2, <1>3, <2>1
<1>6. at = e BY <1>1, <1>2, <1>4, <1>5
<1> QED BY <1>6 DEF at

\* The first of two joined sequences, and the second.
LEMMA JoinedCut ==
  ASSUME NEW S, NEW a \in Seq(S), NEW b \in Seq(S)
  PROVE  SubSeq(a \o b, 1, Len(a)) = a /\ From(a \o b, Len(a) + 1) = b
<1> DEFINE n == Len(a)
           d == a \o b
<1>1. n \in Nat /\ Len(b) \in Nat BY LenProperties
<1>2. /\ d \in Seq(S) /\ Len(d) = n + Len(b)
      /\ \A i \in 1 .. n + Len(b) : d[i] = IF i <= n THEN a[i] ELSE b[i - n]
  BY ConcatProperties
<1>3. SubSeq(d, 1, n) = a
  <2>1. n \in 0 .. Len(d)
    <3> HIDE DEF d, n
    <3> QED BY <1>1, <1>2
  <2>2. /\ SubSeq(d, 1, n) \in Seq(S) /\ Len(SubSeq(d, 1, n)) = n
        /\ \A k \in 1 .. n : SubSeq(d, 1, n)[k] = d[k]
    <3> HIDE DEF d, n
    <3> QED BY <1>2, <2>1, FirstIs
  <2>3. \A k \in 1 .. n : SubSeq(d, 1, n)[k] = a[k]
    <3>1. \A k \in 1 .. n : k \in 1 .. n + Len(b) /\ k <= n BY <1>1
    <3> HIDE DEF d
    <3> QED BY <1>2, <2>2, <3>1
  <2> DEFINE s == SubSeq(d, 1, n)
  <2>4. s \in Seq(S) /\ Len(s) = Len(a) /\ \A k \in 1 .. Len(s) : s[k] = a[k] BY <2>2, <2>3
  <2> HIDE DEF s
  <2>5. s = a BY <2>4, SeqEqual
  <2> QED BY <2>5 DEF s
<1>4. From(d, n + 1) = b
  <2>1. n \in 0 .. Len(d) /\ n + 1 \in Nat /\ n + 1 > 0
    <3> HIDE DEF d, n
    <3> QED BY <1>1, <1>2
  <2>2. SubSeq(d, 1, n) \o From(d, n + 1) = d /\ From(d, n + 1) \in Seq(S)
    <3> HIDE DEF d, n
    <3> QED BY <1>2, <2>1, CutAt, FromIs
  <2>3. a \o From(d, n + 1) = a \o b BY <1>3, <2>2
  <2>4. From(d, n + 1) \in Seq(S) BY <2>2
  <2> DEFINE f == From(d, n + 1)
  <2>5. a \o f = a \o b /\ f \in Seq(S) BY <2>3, <2>4
  <2> HIDE DEF f
  <2>6. f = b BY <2>5, ConcatSimplifications
  <2> QED BY <2>6 DEF f
<1> QED BY <1>3, <1>4

\* a byte that does not occur
Without(d, x) == \A i \in 1 .. Len(d) : d[i] # x

\* A byte that is in neither of two joined sequences.
LEMMA WithoutJoined ==
  ASSUME NEW a \in Data, NEW b \in Data, NEW x
  PROVE  Without(a \o b, x) <=> Without(a, x) /\ Without(b, x)
<1> DEFINE n == Len(a)
           m == Len(b)
           d == a \o b
<1>1. n \in Nat /\ m \in Nat BY LenProperties DEF Data
<1>2. /\ Len(d) = n + m
      /\ \A i \in 1 .. n + m : d[i] = IF i <= n THEN a[i] ELSE b[i - n]
  BY ConcatProperties DEF Data
<1> HIDE DEF n, m, d
<1>3. ASSUME Without(d, x) PROVE Without(a, x) /\ Without(b, x)
  <2>1. ASSUME NEW i \in 1 .. n PROVE a[i] # x
    <3>1. i \in 1 .. n + m /\ i <= n BY <1>1
    <3> QED BY <1>2, <1>3, <3>1 DEF Without
  <2>2. ASSUME NEW i \in 1 .. m PROVE b[i] # x
    <3>1. n + i \in 1 .. n + m /\ ~(n + i <= n) /\ (n + i) - n = i BY <1>1
    <3>2. d[n + i] = b[i] BY <1>2, <3>1
    <3> QED BY <1>2, <1>3, <3>1, <3>2 DEF Without
  <2> QED BY <2>1, <2>2 DEF Without, n, m
<1>4. ASSUME Without(a, x), Without(b, x) PROVE Without(d, x)
  <2> SUFFICES ASSUME NEW i \in 1 .. n + m PROVE d[i] # x
    BY <1>2 DEF Without
  <2>1. CASE i <= n
    <3>1. i \in 1 .. n BY <1>1, <2>1
    <3> QED BY <1>2, <1>4, <2>1, <3>1 DEF Without, n
  <2>2. CASE ~(i <= n)
    <3>1. i - n \in 1 .. m BY <1>1, <2>2
    <3> QED BY <1>2, <1>4, <2>2, <3>1 DEF Without, m
  <2> QED BY <2>1, <2>2
<1> QED BY <1>3, <1>4 DEF d

\* A sequence of one element.
LEMMA OneByte ==
  ASSUME NEW S, NEW x \in S
  PROVE  <<x>> \in Seq(S) /\ Len(<<x>>) = 1 /\ <<x>>[1] = x
OBVIOUS

\* The byte that is looked for, behind data without it.
LEMMA FoundAt ==
  ASSUME NEW a \in Data, NEW b \in Data, NEW x \in Byte, Without(a, x)
  PROVE  LET d == a \o (<<x>> \o b)
         IN /\ d \in Data /\ IndexOf({x}, d) = Len(a) + 1 /\ SubSeq(d, 1, Len(a)) = a
            /\ From(d, Len(a) + 2) = b
<1> DEFINE n == Len(a)
           one == <<x>>
           up == a \o one
           d == a \o (one \o b)
<1>1. n \in Nat /\ Len(b) \in Nat BY LenProperties DEF Data
<1>2. one \in Data /\ Len(one) = 1 /\ one[1] = x BY OneByte DEF Data
<1> HIDE DEF one
<1>3. /\ up \in Data /\ Len(up) = n + 1
      /\ \A i \in 1 .. n + 1 : up[i] = IF i <= n THEN a[i] ELSE one[i - n]
  <2>1. /\ up \in Data /\ Len(up) = n + Len(one)
        /\ \A i \in 1 .. n + Len(one) : up[i] = IF i <= n THEN a[i] ELSE one[i - n]
    BY <1>2, ConcatProperties DEF Data
  <2> HIDE DEF up
  <2> QED BY <1>2, <2>1
<1>4. d = up \o b BY <1>2, ConcatAssociative DEF Data
<1>5. one \o b \in Data BY <1>2, ConcatProperties DEF Data
<1>6. d \in Data /\ SubSeq(d, 1, n) = a BY <1>5, ConcatProperties, JoinedCut DEF Data
<1>7. /\ Len(d) = Len(up) + Len(b)
      /\ \A i \in 1 .. Len(up) + Len(b) : d[i] = IF i <= Len(up) THEN up[i] ELSE b[i - Len(up)]
  <2> HIDE DEF d, up
  <2> QED BY <1>3, <1>4, ConcatProperties DEF Data
<1>8. From(d, Len(up) + 1) = b
  <2> HIDE DEF d, up
  <2> QED BY <1>3, <1>4, JoinedCut DEF Data
<1> HIDE DEF d, up, n
<1>9. From(d, n + 2) = b
  <2>1. Len(up) + 1 = n + 2 BY <1>1, <1>3
  <2> QED BY <1>8, <2>1
<1>10. n + 1 \in 1 .. Len(d) /\ d[n + 1] = x
  <2>1. n + 1 \in 1 .. n + 1 /\ n + 1 \in 1 .. Len(up) + Len(b) /\ n + 1 <= Len(up)
        /\ ~(n + 1 <= n) /\ (n + 1) - n = 1
    BY <1>1, <1>3
  <2>2. up[n + 1] = one[(n + 1) - n] BY <1>3, <2>1
  <2>3. d[n + 1] = up[n + 1] BY <1>7, <2>1
  <2> QED BY <1>2, <1>7, <2>1, <2>2, <2>3
<1>11. ASSUME NEW i \in 1 .. (n + 1) - 1 PROVE d[i] \notin {x}
  <2>1. i \in 1 .. n + 1 /\ i \in 1 .. Len(up) + Len(b) /\ i <= Len(up) /\ i <= n /\ i \in 1 .. n
    BY <1>1, <1>3
  <2>2. d[i] = a[i] BY <1>3, <1>7, <2>1
  <2> QED BY <2>1, <2>2 DEF Without, n
<1>12. IndexOf({x}, d) = n + 1
  <2> DEFINE S == {x}
             e == n + 1
  <2>1. e \in 1 .. Len(d) /\ d[e] \in S /\ \A i \in 1 .. e - 1 : d[i] \notin S BY <1>10, <1>11
  <2> HIDE DEF S, e
  <2>2. IndexOf(S, d) = e BY <1>6, <2>1, IndexOfAt
  <2> QED BY <2>2 DEF S, e
<1> QED BY <1>6, <1>9, <1>12 DEF d, one, n

\* Data can be cut in one way only at the first place of a byte.
LEMMA OneCut ==
  ASSUME NEW a \in Data, NEW b \in Data, NEW p \in Data, NEW q \in Data, NEW x \in Byte,
         Without(a, x), Without(p, x), a \o (<<x>> \o b) = p \o (<<x>> \o q)
  PROVE  a = p /\ b = q
<1> DEFINE d == a \o (<<x>> \o b)
           e == p \o (<<x>> \o q)
<1>1. /\ IndexOf({x}, d) = Len(a) + 1 /\ SubSeq(d, 1, Len(a)) = a /\ From(d, Len(a) + 2) = b
  BY FoundAt
<1>2. /\ IndexOf({x}, e) = Len(p) + 1 /\ SubSeq(e, 1, Len(p)) = p /\ From(e, Len(p) + 2) = q
  BY FoundAt
<1>3. Len(a) \in Nat /\ Len(p) \in Nat BY LenProperties DEF Data
<1>4. d = e OBVIOUS
<1> HIDE DEF d, e
<1>5. Len(a) = Len(p)
  <2>1. Len(a) + 1 = Len(p) + 1 BY <1>1, <1>2, <1>4
  <2> QED BY <1>3, <2>1
<1> QED BY <1>1, <1>2, <1>4, <1>5

----------------------------------------------------------------------------
(* The lines of a header, read in pieces.                                    *)

Requests == {NoRequest} \union {decodeRequestStartLine(line) : line \in Data}

Header == [started : BOOLEAN, request : Requests, lines : Seq(Data), cur : Data]

LineReads == [hdr : Header, finished : BOOLEAN, rest : Data]

\* What is before a place, or all.
LEMMA BeforeIn ==
  ASSUME NEW S, NEW d \in Seq(S), NEW i \in 0 .. Len(d)
  PROVE  Before(d, i) \in Seq(S)
<1>1. Len(d) \in Nat BY LenProperties
<1>2. CASE i = 0 BY <1>2 DEF Before
<1>3. CASE i # 0
  <2>1. i - 1 \in 0 .. Len(d) BY <1>1, <1>3
  <2>2. SubSeq(d, 1, i - 1) \in Seq(S) BY <2>1, FirstIs
  <2> QED BY <1>3, <2>2 DEF Before
<1> QED BY <1>2, <1>3

\* A line without its carriage return.
LEMMA StripCrIn ==
  ASSUME NEW d \in Data
  PROVE  StripCr(d) \in Data
<1>1. Len(d) \in Nat /\ (d # <<>> => Len(d) > 0) BY LenProperties, EmptySeq DEF Data
<1>2. CASE d = <<>> BY <1>2 DEF StripCr
<1>3. CASE d # <<>>
  <2>1. Len(d) - 1 \in 0 .. Len(d) BY <1>1, <1>3
  <2>2. SubSeq(d, 1, Len(d) - 1) \in Data BY <2>1, FirstIs DEF Data
  <2> QED BY <2>2 DEF StripCr, Front
<1> QED BY <1>2, <1>3

\* The beginning of a header.
LEMMA NewHeaders == datahdr_new \in Header /\ reqhdr_new \in Header
<1>1. <<>> \in Data /\ <<>> \in Seq(Data) BY EmptySeq DEF Data
<1>2. NoRequest \in Requests BY DEF Requests
<1> QED BY <1>1, <1>2 DEF datahdr_new, reqhdr_new, Header

\* A line that is stored.
LEMMA StoreLineIn ==
  ASSUME NEW hdr \in Header, NEW line \in Data
  PROVE  StoreLine(hdr, line) \in Header
<1>1. <<>> \in Data BY EmptySeq DEF Data
<1>2. decodeRequestStartLine(line) \in Requests BY DEF Requests
<1>3. hdr.lines \in Seq(Data) BY DEF Header
<1>4. Append(hdr.lines, line) \in Seq(Data) BY <1>3, AppendProperties
<1> QED BY <1>1, <1>2, <1>4 DEF StoreLine, Header

\* A step of the loop over lines.
LEMMA NextLineIn ==
  ASSUME NEW read \in LineReads
  PROVE  NextLine(read) \in LineReads
<1> DEFINE hdr == read.hdr
           eol == IndexOf({"lf"}, read.rest)
           piece == Before(read.rest, eol)
           line == LineEnded(hdr.cur, piece)
<1>1. read.rest \in Data /\ hdr \in Header /\ read.finished \in BOOLEAN /\ <<>> \in Data
  BY EmptySeq DEF LineReads, Data
<1>2. hdr.cur \in Data BY <1>1 DEF Header
<1>3. eol \in 0 .. Len(read.rest) /\ Len(read.rest) \in Nat BY <1>1, IndexOfIs, LenProperties DEF Data
<1>4. piece \in Data BY <1>1, <1>3, BeforeIn DEF Data
<1>5. hdr.cur \o piece \in Data /\ hdr.cur \o read.rest \in Data
  BY <1>1, <1>2, <1>4, ConcatProperties DEF Data
<1>6. line \in Data BY <1>5, StripCrIn DEF LineEnded
<1>7. From(read.rest, eol + 1) \in Data
  <2>1. eol + 1 \in Nat /\ eol + 1 > 0 BY <1>3
  <2> QED BY <1>1, <2>1, FromIs DEF Data
<1>8. StoreLine(hdr, line) \in Header BY <1>1, <1>6, StoreLineIn
<1>9. hdr.started \in BOOLEAN BY <1>1 DEF Header
<1>10. CASE read.finished \/ read.rest = <<>> BY <1>10 DEF NextLine
<1>11. CASE ~(read.finished \/ read.rest = <<>>) /\ eol = 0
  <2>1. NextLine(read) = [read EXCEPT !.hdr.cur = @ \o read.rest, !.rest = <<>>]
    BY <1>11 DEF NextLine
  <2> DEFINE cur == hdr.cur \o read.rest
  <2>2. cur \in Data BY <1>5
  <2>3. NextLine(read) = [read EXCEPT !.hdr.cur = cur, !.rest = <<>>] BY <2>1
  <2> HIDE DEF cur
  <2> QED BY <1>1, <2>2, <2>3 DEF LineReads, Header
<1>12. CASE ~(read.finished \/ read.rest = <<>>) /\ eol # 0
  <2>1. NextLine(read) =
          [hdr |-> IF line = <<>> THEN [hdr EXCEPT !.cur = <<>>] ELSE StoreLine(hdr, line),
           finished |-> line = <<>> /\ hdr.started, rest |-> From(read.rest, eol + 1)]
    BY <1>12 DEF NextLine
  <2>2. [hdr EXCEPT !.cur = <<>>] \in Header BY <1>1 DEF Header
  <2> DEFINE h == IF line = <<>> THEN [hdr EXCEPT !.cur = <<>>] ELSE StoreLine(hdr, line)
             f == line = <<>> /\ hdr.started
             r == From(read.rest, eol + 1)
  <2>3. h \in Header BY <1>8, <2>2
  <2>4. f \in BOOLEAN BY <1>9
  <2>5. r \in Data BY <1>7
  <2>6. NextLine(read) = [hdr |-> h, finished |-> f, rest |-> r] BY <2>1
  <2> HIDE DEF h, f, r
  <2> QED BY <2>3, <2>4, <2>5, <2>6 DEF LineReads
<1> QED BY <1>10, <1>11, <1>12

\* There are as many line ends as there are.
LEMMA LineEndsIn ==
  ASSUME NEW d \in Data
  PROVE  LineEnds(d) \in Nat
<1> DEFINE E == {i \in DOMAIN d : d[i] = "lf"}
<1>1. Len(d) \in Nat /\ DOMAIN d = 1 .. Len(d) BY LenProperties DEF Data
<1>2. IsFiniteSet(1 .. Len(d))
  <2>1. 1 \in Int /\ Len(d) \in Int BY <1>1
  <2> QED BY <2>1, FS_Interval
<1>3. E \subseteq 1 .. Len(d) BY <1>1
<1>4. IsFiniteSet(E)
  <2> HIDE DEF E
  <2> QED BY <1>2, <1>3, FS_Subset
<1>5. Cardinality(E) \in Nat
  <2> HIDE DEF E
  <2> QED BY <1>4, FS_CardinalityType
<1> QED BY <1>5 DEF LineEnds

\* g is what is held in each round of the loop over lines
IsReading(g, n, hdr, d) ==
  /\ n = LineEnds(d) + 1 /\ g[0] = [hdr |-> hdr, finished |-> FALSE, rest |-> d]
  /\ g[n] = appendLines(hdr, d)
  /\ \A k \in 1 .. n : g[k] = NextLine(g[k - 1])

\* The loop over lines has such rounds.
LEMMA ReadingExists ==
  ASSUME NEW hdr \in Header, NEW d \in Data
  PROVE  \E n \in Nat : \E g \in [0 .. n -> LineReads] : IsReading(g, n, hdr, d)
<1> DEFINE n == LineEnds(d) + 1
           x == [hdr |-> hdr, finished |-> FALSE, rest |-> d]
           step == [r \in LineReads |-> NextLine(r)]
           Loop(h) == [k \in 0 .. n |-> IF k = 0 THEN x ELSE NextLine(h[k - 1])]
           h == CHOOSE h : h = Loop(h)
<1>1. appendLines(hdr, d) = h[n] BY DEF appendLines, Repeated
<1>2. n \in Nat BY LineEndsIn
<1>3. x \in LineReads BY DEF LineReads
<1>4. step \in [LineReads -> LineReads] /\ \A r \in LineReads : step[r] = NextLine(r) BY NextLineIn
<1> HIDE DEF x, step, n
<1>5. PICK g \in [0 .. n -> LineReads] : IsLoop(g, n, x, step) BY <1>2, <1>3, <1>4, LoopExists
<1>6. g[0] = x /\ \A k \in 1 .. n : g[k] = NextLine(g[k - 1]) BY <1>2, <1>4, <1>5 DEF IsLoop
<1>7. g = Loop(g) BY <1>2, <1>6
<1>8. h = Loop(h)
  <2> HIDE DEF Loop
  <2> QED BY <1>7
<1>9. g[n] = h[n]
  <2> HIDE DEF h
  <2> DEFINE S == {k \in 0 .. n : g[k] = h[k]}
  <2>1. 0 \in S BY <1>2, <1>6, <1>8
  <2>2. \A k \in 1 .. n : k - 1 \in S => k \in S BY <1>2, <1>6, <1>8
  <2>3. n \in S
    <3> HIDE DEF S
    <3> QED BY <1>2, <2>1, <2>2, UpTo
  <2> QED BY <2>3
<1>10. IsReading(g, n, hdr, d) BY <1>1, <1>6, <1>9 DEF IsReading, n, x
<1> QED BY <1>2, <1>10

\* What is read of a header is one.
LEMMA AppendLinesIn ==
  ASSUME NEW hdr \in Header, NEW d \in Data
  PROVE  appendLines(hdr, d) \in LineReads
<1>1. PICK n \in Nat : \E g \in [0 .. n -> LineReads] : IsReading(g, n, hdr, d) BY ReadingExists
<1>2. PICK g \in [0 .. n -> LineReads] : IsReading(g, n, hdr, d) BY <1>1
<1> QED BY <1>2 DEF IsReading

\* A byte alone is data.
LEMMA OneIn ==
  ASSUME NEW x \in Byte
  PROVE  <<x>> \in Data /\ Len(<<x>>) = 1 /\ <<x>>[1] = x
  BY OneByte DEF Data

\* No bytes are data, and joining them changes nothing.
LEMMA NoneIn ==
  /\ <<>> \in Data
  /\ \A a \in Data : <<>> \o a = a /\ a \o <<>> = a
<1>1. <<>> \in Data BY EmptySeq DEF Data
<1>2. ASSUME NEW a \in Data PROVE <<>> \o a = a /\ a \o <<>> = a
  <2>1. a \in Seq(Byte) BY DEF Data
  <2> QED BY <2>1, ConcatEmptySeq
<1> QED BY <1>1, <1>2

\* Joined data is data.
LEMMA JoinIn == \A a, b \in Data : a \o b \in Data
  BY ConcatProperties DEF Data

\* Which of three pieces are joined first does not matter.
LEMMA Joins ==
  ASSUME NEW a \in Data, NEW b \in Data, NEW c \in Data
  PROVE  (a \o b) \o c = a \o (b \o c)
<1>1. a \in Seq(Byte) /\ b \in Seq(Byte) /\ c \in Seq(Byte) BY DEF Data
<1> QED BY <1>1, ConcatAssociative

\* the same as a name for it, so that the provers need not look for the three pieces
JoinsAs(a, b, c) == (a \o b) \o c = a \o (b \o c)

\* That is so of all data.
LEMMA Joined ==
  ASSUME NEW a \in Data, NEW b \in Data, NEW c \in Data
  PROVE  JoinsAs(a, b, c)
<1>1. (a \o b) \o c = a \o (b \o c) BY Joins
<1> QED BY <1>1 DEF JoinsAs

Lf == <<"lf">>

\* Two ways to write data with a line feed have the same first line.
LEMMA OneLineCut ==
  ASSUME NEW a \in Data, NEW b \in Data, NEW p \in Data, NEW q \in Data, Without(a, "lf"), Without(p, "lf"),
         a \o (Lf \o b) = p \o (Lf \o q)
  PROVE  a = p /\ b = q
<1> DEFINE x == "lf"
<1>1. x \in Byte /\ Without(a, x) /\ Without(p, x) /\ Lf = <<x>> BY DEF Byte, Lf
<1> HIDE DEF x
<1>2. a \o (<<x>> \o b) = p \o (<<x>> \o q) BY <1>1
<1> QED BY <1>1, <1>2, OneCut

\* Storing a line leaves nothing of it in the header.
LEMMA StoredIs ==
  ASSUME NEW h \in Header, NEW c \in Data, NEW line \in Data, NEW hdr, hdr = [h EXCEPT !.cur = c]
  PROVE  StoreLine(hdr, line) = StoreLine(h, line) /\ StoreLine(h, line).cur = <<>>
  BY DEF StoreLine, Header

\* The first cut at a line feed.
LEMMA LineCut ==
  ASSUME NEW rest \in Data, IndexOf({"lf"}, rest) # 0
  PROVE  LET eol == IndexOf({"lf"}, rest)
         IN /\ Before(rest, eol) \in Data /\ Without(Before(rest, eol), "lf")
            /\ From(rest, eol + 1) \in Data
            /\ rest = Before(rest, eol) \o (Lf \o From(rest, eol + 1))
<1> DEFINE eol == IndexOf({"lf"}, rest)
           p == Before(rest, eol)
           q == From(rest, eol + 1)
           t == From(rest, eol)
<1>1. Len(rest) \in Nat BY LenProperties DEF Data
<1>2. eol \in 1 .. Len(rest) /\ rest[eol] = "lf" /\ \A i \in 1 .. eol - 1 : rest[i] # "lf"
  BY IndexOfIs DEF Data
<1>3. p = SubSeq(rest, 1, eol - 1) BY DEF Before
<1> HIDE DEF eol
<1>4. eol - 1 \in 0 .. Len(rest) /\ eol \in Nat /\ eol > 0 /\ (eol - 1) + 1 = eol /\ eol + 1 \in Nat
      /\ eol + 1 > 0 /\ eol <= Len(rest)
  BY <1>1, <1>2
<1>5. p \in Data /\ Len(p) = eol - 1 /\ \A k \in 1 .. eol - 1 : p[k] = rest[k]
  <2> HIDE DEF p
  <2> QED BY <1>3, <1>4, FirstIs DEF Data
<1>6. Without(p, "lf") BY <1>2, <1>5 DEF Without
<1>7. p \o t = rest
  <2>1. SubSeq(rest, 1, eol - 1) \o From(rest, (eol - 1) + 1) = rest BY <1>4, CutAt DEF Data
  <2> QED BY <1>3, <1>4, <2>1
<1>8. q \in Data BY <1>4, FromIs DEF Data
<1>9. t = Lf \o q
  <2>1. eol \in 1 .. Len(rest) /\ Len(rest) \in eol .. Len(rest) BY <1>1, <1>2
  <2>2. SubSeq(rest, eol, Len(rest)) = <<rest[eol]>> \o SubSeq(rest, eol + 1, Len(rest))
    BY <2>1, SubSeqRecursiveFirst DEF Data
  <2> QED BY <1>2, <2>2 DEF From, Lf
<1> QED BY <1>5, <1>6, <1>7, <1>8, <1>9 DEF eol

----------------------------------------------------------------------------
(* The parser of a form: the types of what it keeps.                         *)

Names == {<<>>} \union {FieldName(Disposition(hdr)) : hdr \in Header}
                \union {FileName(Disposition(hdr)) : hdr \in Header}

Part == [hdr : Header, isContent : BOOLEAN, name : Names, fileName : Names, content : Data]

Parsers == [parsePos : {"PP_BODY", "PP_GOT_BOUNDARY"}, delimMatchPart : 0 .. 2,
            parts : Seq(Part), epilogue : BOOLEAN]

MpData == {m \in Parsers : m.parsePos # "PP_BODY" => m.delimMatchPart = 0}

\* The delimiter of the parts.
LEMMA DelimIs == Delim \in Data /\ Len(Delim) = 3
  BY DEF Delim, Data, Byte

\* What is behind a place is data.
LEMMA BehindIn ==
  ASSUME NEW d \in Data, NEW i \in Nat
  PROVE  From(d, i + 1) \in Data
<1>1. i + 1 \in Nat /\ i + 1 > 0 OBVIOUS
<1> QED BY <1>1, FromIs DEF Data

\* A part that takes data is one.
LEMMA PartIn ==
  ASSUME NEW part \in Part, NEW d \in Data
  PROVE  cpart_appendData(part, d) \in Part
<1>1. CASE part.isContent
  <2> DEFINE c == part.content \o d
  <2>1. part.content \in Data BY DEF Part
  <2>2. c \in Data BY <2>1, JoinIn
  <2>3. cpart_appendData(part, d) = [part EXCEPT !.content = c] BY <1>1 DEF cpart_appendData
  <2> HIDE DEF c
  <2> QED BY <2>2, <2>3 DEF Part
<1>2. CASE ~part.isContent
  <2> DEFINE read == appendLines(part.hdr, d)
  <2>1. part.hdr \in Header BY DEF Part
  <2>2. read \in LineReads BY <2>1, AppendLinesIn
  <2>3. cpart_appendData(part, d) = HeaderRead(part, read) BY <1>2 DEF cpart_appendData
  <2> HIDE DEF read
  <2>4. CASE read.finished
    <3> DEFINE name == FieldName(Disposition(read.hdr))
               file == FileName(Disposition(read.hdr))
    <3>1. HeaderRead(part, read) = [hdr |-> read.hdr, isContent |-> TRUE, content |-> read.rest,
                                    name |-> name, fileName |-> file]
      BY <2>4 DEF HeaderRead, StartContent
    <3>2. read.hdr \in Header /\ read.rest \in Data BY <2>2 DEF LineReads
    <3>3. name \in Names /\ file \in Names BY <3>2 DEF Names
    <3> HIDE DEF name, file
    <3> QED BY <2>3, <3>1, <3>2, <3>3 DEF Part
  <2>5. CASE ~read.finished
    <3>1. HeaderRead(part, read) = [part EXCEPT !.hdr = read.hdr] BY <2>5 DEF HeaderRead
    <3>2. read.hdr \in Header BY <2>2 DEF LineReads
    <3> QED BY <2>3, <3>1, <3>2 DEF Part
  <2> QED BY <2>4, <2>5
<1> QED BY <1>1, <1>2

\* Taking data changes nothing but the parts.
LEMMA AppendToPartIs ==
  ASSUME NEW m \in MpData, NEW d \in Data
  PROVE  \E parts \in Seq(Part) : AppendToPart(m, d) = [m EXCEPT !.parts = parts]
<1>1. m.parts \in Seq(Part) BY DEF MpData, Parsers
<1>2. CASE m.parts = <<>>
  <2>1. m \in Parsers BY DEF MpData
  <2>2. m = [m EXCEPT !.parts = m.parts] BY <2>1 DEF Parsers
  <2>3. AppendToPart(m, d) = m BY <1>2 DEF AppendToPart
  <2> QED BY <1>1, <2>2, <2>3
<1>3. CASE m.parts # <<>>
  <2> DEFINE ps == m.parts
             n == Len(ps)
             part == cpart_appendData(Last(ps), d)
  <2>1. ps \in Seq(Part) BY <1>1
  <2>2. n \in 1 .. n
    <3>1. n \in Nat \ {0} BY <1>1, <1>3, EmptySeq
    <3> HIDE DEF n
    <3> QED BY <3>1
  <2>3. part \in Part
    <3>1. ps[n] \in Part
      <4> HIDE DEF ps
      <4> QED BY <2>1, <2>2, ElementOfSeq
    <3> HIDE DEF n, ps
    <3>2. Last(ps) = ps[n] BY DEF Last, n
    <3> QED BY <3>1, <3>2, PartIn
  <2> DEFINE new == ReplaceAt(ps, n, part)
  <2>4. new = [ps EXCEPT ![n] = part]
    <3>1. ps = [i \in DOMAIN ps |-> ps[i]]
      <4> HIDE DEF ps
      <4> QED BY <2>1
    <3> HIDE DEF n, part, ps
    <3> QED BY <3>1 DEF ReplaceAt
  <2>5. new \in Seq(Part)
    <3> HIDE DEF n, part, ps, new
    <3>1. n \in 1 .. Len(ps) BY <2>2 DEF n
    <3> QED BY <2>1, <2>3, <2>4, <3>1, ExceptSeq
  <2>6. AppendToPart(m, d) = [m EXCEPT !.parts = new] BY <1>3 DEF AppendToPart
  <2> HIDE DEF new
  <2> QED BY <2>5, <2>6
<1> QED BY <1>2, <1>3

\* Where the delimiter begins.
LEMMA PartEndIn ==
  ASSUME NEW d \in Data
  PROVE  PartEnd(d) \in 1 .. Len(d) + 1
<1> DEFINE B == {i \in 1 .. Len(d) : d[i] = "cr" /\ Matches(From(d, i), 0)}
<1>1. Len(d) \in Nat BY LenProperties DEF Data
<1>2. CASE B = {} BY <1>1, <1>2 DEF PartEnd
<1>3. CASE B # {}
  <2>1. B \in SUBSET (1 .. Len(d)) OBVIOUS
  <2>2. PartEnd(d) = CHOOSE i \in B : \A j \in B : i <= j BY <1>3 DEF PartEnd
  <2> HIDE DEF B
  <2>3. Min(B) \in B /\ \A j \in B : Min(B) <= j BY <1>1, <1>3, <2>1, MinIn
  <2>4. \E i \in B : \A j \in B : i <= j BY <2>3
  <2>5. PartEnd(d) \in B BY <2>2, <2>4
  <2>6. PartEnd(d) \in 1 .. Len(d) BY <2>1, <2>5
  <2> DEFINE e == PartEnd(d)
  <2>7. e \in 1 .. Len(d) BY <2>6
  <2> HIDE DEF e
  <2>8. e \in 1 .. Len(d) + 1 BY <1>1, <2>7
  <2> QED BY <2>8 DEF e
<1> QED BY <1>2, <1>3

\* in the loop nothing is pending of a delimiter when there is more data
ScanStates == {s \in [m : MpData, rest : Data] : s.rest # <<>> => s.m.delimMatchPart = 0}

\* A new part is one.
LEMMA NewPartIn == cpart_new \in Part
<1>1. <<>> \in Data /\ <<>> \in Names BY NoneIn DEF Names
<1> QED BY <1>1, NewHeaders DEF cpart_new, Part

\* Before the loop.
LEMMA ResumeIn ==
  ASSUME NEW m \in MpData, NEW d \in Data
  PROVE  [m |-> Resume(m, d), rest |-> Rest(m, d)] \in ScanStates
<1> DEFINE k == m.delimMatchPart
           n == Len(d)
<1>1. k \in 0 .. 2 /\ n \in Nat /\ Len(Delim) = 3 BY DelimIs, LenProperties DEF MpData, Parsers, Data
<1>2. CASE k = 0
  <2>1. Resume(m, d) = m BY <1>2 DEF Resume
  <2>2. Rest(m, d) = d BY <1>2 DEF Rest
  <2> QED BY <1>2, <2>1, <2>2 DEF ScanStates
<1>3. CASE k # 0 /\ ~Matches(d, k)
  <2> DEFINE D == SubSeq(Delim, 1, k)
  <2>1. D \in Data
    <3>1. k \in 0 .. Len(Delim) BY <1>1
    <3> HIDE DEF k
    <3> QED BY <3>1, DelimIs, FirstIs DEF Data
  <2>2. PICK parts \in Seq(Part) : AppendToPart(m, D) = [m EXCEPT !.parts = parts]
    <3> HIDE DEF D
    <3> QED BY <2>1, AppendToPartIs
  <2>3. Resume(m, d) = [AppendToPart(m, D) EXCEPT !.delimMatchPart = 0]
    BY <1>3 DEF Resume, NotDelimiter
  <2>4. Resume(m, d) \in MpData /\ Resume(m, d).delimMatchPart = 0
    <3> HIDE DEF D, k
    <3> DEFINE r == Resume(m, d)
    <3>1. m \in Parsers BY DEF MpData
    <3>2. r = [m EXCEPT !.parts = parts, !.delimMatchPart = 0] BY <2>2, <2>3, <3>1 DEF Parsers
    <3> HIDE DEF r
    <3>3. r \in Parsers
      <4> DEFINE zero == 0
      <4>1. zero \in 0 .. 2 /\ r = [m EXCEPT !.parts = parts, !.delimMatchPart = zero] BY <3>2
      <4> HIDE DEF zero
      <4> QED BY <2>2, <3>1, <4>1 DEF Parsers
    <3>5. r.delimMatchPart = 0 BY <3>1, <3>2 DEF Parsers
    <3>4. r \in MpData BY <3>3, <3>5 DEF MpData
    <3> QED BY <3>5, <3>4 DEF r
  <2>5. Rest(m, d) = d BY <1>3 DEF Rest
  <2> QED BY <2>4, <2>5 DEF ScanStates
<1>4. CASE k # 0 /\ Matches(d, k) /\ k + n < 3
  <2>1. Resume(m, d) = [m EXCEPT !.delimMatchPart = k + n] BY <1>1, <1>4 DEF Resume
  <2>2. m.parsePos = "PP_BODY" BY <1>4 DEF MpData, Parsers
  <2>3. k + n \in 0 .. 2 BY <1>1, <1>4
  <2>4. Resume(m, d) \in MpData
    <3> DEFINE j == k + n
    <3>1. j \in 0 .. 2 /\ Resume(m, d) = [m EXCEPT !.delimMatchPart = j] BY <2>1, <2>3
    <3> HIDE DEF j
    <3> QED BY <2>2, <3>1 DEF MpData, Parsers
  <2>5. Rest(m, d) = SubSeq(d, (3 - k) + 1, n) BY <1>1, <1>4 DEF Rest
  <2>6. Rest(m, d) = <<>>
    <3>1. (3 - k) + 1 \in Int /\ n \in Int /\ n < (3 - k) + 1 BY <1>1, <1>4
    <3> QED BY <2>5, <3>1, SubSeqEmpty
  <2> QED BY <2>4, <2>6, NoneIn DEF ScanStates
<1>5. CASE k # 0 /\ Matches(d, k) /\ ~(k + n < 3)
  <2>1. Resume(m, d) = [m EXCEPT !.delimMatchPart = 0, !.parsePos = "PP_GOT_BOUNDARY"]
    BY <1>1, <1>5 DEF Resume
  <2>2. Resume(m, d) \in MpData /\ Resume(m, d).delimMatchPart = 0
    <3> DEFINE r == Resume(m, d)
    <3>1. m \in Parsers BY DEF MpData
    <3>2. r = [m EXCEPT !.delimMatchPart = 0, !.parsePos = "PP_GOT_BOUNDARY"] BY <2>1
    <3> HIDE DEF r
    <3>3. r \in Parsers
      <4> DEFINE zero == 0
      <4>1. zero \in 0 .. 2 /\ r = [m EXCEPT !.delimMatchPart = zero, !.parsePos = "PP_GOT_BOUNDARY"]
        BY <3>2
      <4> HIDE DEF zero
      <4> QED BY <3>1, <4>1 DEF Parsers
    <3>5. r.delimMatchPart = 0 BY <3>1, <3>2 DEF Parsers
    <3>4. r \in MpData BY <3>3, <3>5 DEF MpData
    <3> QED BY <3>5, <3>4 DEF r
  <2>3. Rest(m, d) = From(d, (3 - k) + 1) BY <1>1, <1>5, SMTT(60) DEF Rest, From
  <2>4. Rest(m, d) \in Data
    <3> DEFINE i == 3 - k
    <3>1. i \in Nat BY <1>1
    <3> HIDE DEF i
    <3>2. From(d, i + 1) \in Data BY <3>1, BehindIn
    <3> QED BY <2>3, <3>2 DEF i
  <2> QED BY <2>2, <2>4 DEF ScanStates
<1> QED BY <1>2, <1>3, <1>4, <1>5

\* A round of the loop.
LEMMA ScanNextIn ==
  ASSUME NEW s \in ScanStates
  PROVE  ScanNext(s) \in ScanStates
<1> DEFINE m == s.m
           d == s.rest
           n == Len(d)
<1>1. m \in MpData /\ d \in Data /\ (d # <<>> => m.delimMatchPart = 0) BY DEF ScanStates
<1>2. n \in Nat BY <1>1, LenProperties DEF Data
<1>3. CASE d = <<>> BY <1>3 DEF ScanNext
<1>4. CASE d # <<>> /\ m.parsePos = "PP_BODY"
  <2> DEFINE end == PartEnd(d)
             D == SubSeq(d, 1, end - 1)
             rest == From(d, end + 3)
  <2>1. end \in 1 .. n + 1 BY <1>1, PartEndIn
  <2>2. D \in Data
    <3>1. end - 1 \in 0 .. n BY <1>2, <2>1
    <3> HIDE DEF end, d
    <3> QED BY <1>1, <3>1, FirstIs DEF Data, n
  <2>3. rest \in Data
    <3> DEFINE i == end + 2
    <3>1. i \in Nat /\ end + 3 = i + 1 BY <1>2, <2>1
    <3> HIDE DEF i, end, d
    <3>2. From(d, i + 1) \in Data BY <1>1, <3>1, BehindIn
    <3> QED BY <3>1, <3>2
  <2>4. PICK parts \in Seq(Part) : AppendToPart(m, D) = [m EXCEPT !.parts = parts]
    <3> HIDE DEF D, m, d
    <3> QED BY <1>1, <2>2, AppendToPartIs
  <2> DEFINE left == n + 1 - end
             added == [m EXCEPT !.parts = parts]
  <2>5. ScanNext(s) = [m |-> IF left < 3 THEN [added EXCEPT !.delimMatchPart = left]
                             ELSE [added EXCEPT !.parsePos = "PP_GOT_BOUNDARY"],
                       rest |-> rest]
    BY <1>4, <2>4, DelimIs DEF ScanNext, Content
  <2>6. CASE left < 3
    <3>1. left \in 0 .. 2 BY <1>2, <2>1, <2>6
    <3>2. rest = <<>>
      <4> HIDE DEF end, d, n
      <4>1. end + 3 \in Int /\ n \in Int /\ n < end + 3 BY <1>2, <2>1, <2>6
      <4>2. From(d, end + 3) = SubSeq(d, end + 3, n) BY DEF From, n
      <4> QED BY <4>1, <4>2, SubSeqEmpty
    <3> HIDE DEF left, rest, n, end
    <3>3. [added EXCEPT !.delimMatchPart = left] \in MpData BY <1>1, <1>4, <3>1 DEF MpData, Parsers
    <3> DEFINE m1 == [added EXCEPT !.delimMatchPart = left]
    <3>4. ScanNext(s) = [m |-> m1, rest |-> <<>>] BY <2>5, <2>6, <3>2
    <3>5. m1 \in MpData BY <3>3
    <3> HIDE DEF added, m1
    <3> QED BY <3>4, <3>5, NoneIn DEF ScanStates
  <2>7. CASE ~(left < 3)
    <3> HIDE DEF left, rest, n, end
    <3>1. /\ [added EXCEPT !.parsePos = "PP_GOT_BOUNDARY"] \in MpData
          /\ [added EXCEPT !.parsePos = "PP_GOT_BOUNDARY"].delimMatchPart = 0
      BY <1>1, <1>4 DEF MpData, Parsers
    <3> DEFINE m1 == [added EXCEPT !.parsePos = "PP_GOT_BOUNDARY"]
    <3>2. ScanNext(s) = [m |-> m1, rest |-> rest] BY <2>5, <2>7
    <3>3. m1 \in MpData /\ m1.delimMatchPart = 0 BY <3>1
    <3> HIDE DEF added, m1
    <3> QED BY <2>3, <3>2, <3>3 DEF ScanStates
  <2> QED BY <2>6, <2>7
<1>5. CASE d # <<>> /\ m.parsePos # "PP_BODY"
  <2> DEFINE eol == IndexOf({"lf"}, d)
             parts == Append(m.parts, cpart_new)
             new == NewPart(m)
  <2>1. ScanNext(s) = AfterBoundary(m, d) BY <1>5 DEF ScanNext
  <2>2. m.parts \in Seq(Part) BY <1>1 DEF MpData, Parsers
  <2>3. parts \in Seq(Part)
    <3> HIDE DEF m
    <3> QED BY <2>2, NewPartIn, AppendProperties
  <2>4. new = [m EXCEPT !.parts = parts] BY DEF NewPart
  <2> HIDE DEF parts, new
  <2>5. new \in MpData /\ new.delimMatchPart = 0 BY <1>1, <1>5, <2>3, <2>4 DEF MpData, Parsers
  <2>6. CASE Head(d) = "hyphen"
    <3>1. AfterBoundary(m, d) = [m |-> [m EXCEPT !.epilogue = TRUE], rest |-> <<>>]
      BY <2>6 DEF AfterBoundary
    <3>2. [m EXCEPT !.epilogue = TRUE] \in MpData BY <1>1 DEF MpData, Parsers
    <3> QED BY <2>1, <3>1, <3>2, NoneIn DEF ScanStates
  <2>7. CASE Head(d) # "hyphen" /\ eol = 0
    <3>1. AfterBoundary(m, d) = [m |-> new, rest |-> <<>>] BY <2>7 DEF AfterBoundary, new
    <3> QED BY <2>1, <2>5, <3>1, NoneIn DEF ScanStates
  <2>8. CASE Head(d) # "hyphen" /\ eol # 0
    <3> DEFINE rest == From(d, eol + 1)
    <3>1. AfterBoundary(m, d) = [m |-> [new EXCEPT !.parsePos = "PP_BODY"], rest |-> rest]
      BY <2>8 DEF AfterBoundary, new
    <3>2. rest \in Data
      <4>1. eol \in Nat BY <1>1, <1>2, IndexOfIs DEF Data
      <4> HIDE DEF eol, d
      <4> QED BY <1>1, <4>1, BehindIn
    <3>3. /\ [new EXCEPT !.parsePos = "PP_BODY"] \in MpData
          /\ [new EXCEPT !.parsePos = "PP_BODY"].delimMatchPart = 0
      BY <2>5 DEF MpData, Parsers
    <3> DEFINE m1 == [new EXCEPT !.parsePos = "PP_BODY"]
    <3>4. ScanNext(s) = [m |-> m1, rest |-> rest] BY <2>1, <3>1
    <3>5. m1 \in MpData /\ m1.delimMatchPart = 0 BY <3>3
    <3> HIDE DEF rest, m1
    <3> QED BY <3>2, <3>4, <3>5 DEF ScanStates
  <2> QED BY <2>6, <2>7, <2>8
<1> QED BY <1>3, <1>4, <1>5

----------------------------------------------------------------------------
(* Joined data, and data that is cut in two ways.                            *)

\* F[k] is what the first k of some data are together
IsJoined(F, s) ==
  F[0] = <<>> /\ F[Len(s)] = FlattenSeq(s) /\ \A k \in 1 .. Len(s) : F[k] = F[k - 1] \o s[k]

\* FlattenSeq joins one after the other.
LEMMA JoinsExist ==
  ASSUME NEW S, NEW s \in Seq(Seq(S))
  PROVE  \E F \in [0 .. Len(s) -> Seq(S)] : IsJoined(F, s)
<1> DEFINE D == Seq(S)
           n == Len(s)
           none == <<>>
           step == [p \in (1 .. n) \X D |-> p[2] \o s[p[1]]]
           Loop(h) == [i \in 1 .. n |-> IF i = 1 THEN s[i] ELSE h[i - 1] \o s[i]]
           h == CHOOSE h : h = Loop(h)
<1>1. n \in Nat /\ none \in D /\ (\A x, y \in D : x \o y \in D) /\ \A x \in D : none \o x = x
  <2>1. n \in Nat /\ none \in D BY LenProperties, EmptySeq
  <2>2. \A x, y \in D : x \o y \in D BY ConcatProperties
  <2>3. \A x \in D : none \o x = x BY ConcatEmptySeq
  <2> QED BY <2>1, <2>2, <2>3
<1>2. step \in [(1 .. n) \X D -> D]
  <2>1. \A i \in 1 .. n, x \in D : x \o s[i] \in D
    <3>1. \A i \in 1 .. n : s[i] \in D BY ElementOfSeq
    <3> HIDE DEF D, n
    <3> QED BY <1>1, <3>1
  <2> HIDE DEF D, n
  <2> QED BY <2>1
<1>3. \A i \in 1 .. n, x \in D : step[<<i, x>>] = x \o s[i]
  <2> HIDE DEF D, n
  <2> QED OBVIOUS
<1>4. FlattenSeq(s) = IF n = 0 THEN s ELSE h[n] BY DEF FlattenSeq
<1>5. n = 0 => s = <<>> BY EmptySeq
<1>6. \A i \in 1 .. n : s[i] \in D BY ElementOfSeq
<1> HIDE DEF D, n, none, step
<1>7. PICK F \in [0 .. n -> D] : IsRun(F, n, none, step, F[n]) BY <1>1, <1>2, RunExists
<1>8. \A k \in 1 .. n : F[k] = F[k - 1] \o s[k]
  <2>1. \A k \in 1 .. n : F[k - 1] \in D BY <1>1
  <2> QED BY <1>3, <1>7, <2>1 DEF IsRun
<1>9. F[0] = none BY <1>7 DEF IsRun
<1>10. CASE n = 0
  <2>1. F[n] = FlattenSeq(s) BY <1>4, <1>5, <1>9, <1>10 DEF none
  <2> QED BY <1>8, <1>9, <2>1 DEF IsJoined, n, none, D
<1>11. CASE n # 0
  <2> DEFINE f == [i \in 1 .. n |-> F[i]]
  <2>1. ASSUME NEW i \in 1 .. n PROVE f[i] = IF i = 1 THEN s[i] ELSE f[i - 1] \o s[i]
    <3>1. CASE i = 1
      <4>1. F[i] = F[i - 1] \o s[i]
        <5> HIDE DEF f
        <5> QED BY <1>8
      <4>3. i - 1 = 0 BY <3>1
      <4>2. none \o s[i] = s[i] BY <1>1, <1>6
      <4> QED BY <1>9, <3>1, <4>1, <4>2, <4>3
    <3>2. CASE i # 1
      <4>1. i - 1 \in 1 .. n BY <1>1, <3>2
      <4> QED BY <1>8, <3>2, <4>1
    <3> QED BY <3>1, <3>2
  <2>2. f = Loop(f) BY <2>1
  <2>3. h = Loop(h)
    <3> HIDE DEF Loop, f
    <3> QED BY <2>2
  <2>4. ASSUME NEW i \in 1 .. n PROVE h[i] = IF i = 1 THEN s[i] ELSE h[i - 1] \o s[i]
    <3> HIDE DEF h
    <3> QED BY <2>3
  <2> HIDE DEF h, f, Loop
  <2> DEFINE K == {k \in 0 .. n : k > 0 => h[k] = F[k]}
  <2>5. 0 \in K BY <1>1
  <2>6. ASSUME NEW k \in 1 .. n, k - 1 \in K PROVE k \in K
    <3>1. CASE k = 1
      <4>1. h[1] = s[1] BY <2>4, <3>1
      <4>2. F[1] = s[1] BY <2>1, <3>1 DEF f
      <4>3. h[k] = F[k] /\ k \in 0 .. n BY <1>1, <3>1, <4>1, <4>2
      <4> QED BY <4>3
    <3>2. CASE k # 1
      <4>1. k - 1 > 0 /\ k - 1 \in 1 .. n BY <1>1, <3>2
      <4>2. h[k - 1] = F[k - 1] BY <2>6, <4>1
      <4>3. h[k] = h[k - 1] \o s[k] BY <2>4, <3>2
      <4>4. F[k] = F[k - 1] \o s[k] BY <1>8
      <4>5. h[k] = F[k] /\ k \in 0 .. n BY <1>1, <4>2, <4>3, <4>4
      <4> QED BY <4>5
    <3> QED BY <3>1, <3>2
  <2>7. n \in K
    <3> HIDE DEF K
    <3>1. \A k \in 0 .. n : k \in K BY <1>1, <2>5, <2>6, UpTo
    <3> QED BY <1>1, <3>1
  <2>8. F[n] = FlattenSeq(s) BY <1>1, <1>4, <1>11, <2>7
  <2> QED BY <1>8, <1>9, <2>8 DEF IsJoined, n, none, D
<1> QED BY <1>10, <1>11 DEF D, n

\* The same of data.
LEMMA JoinedExists ==
  ASSUME NEW s \in Seq(Data)
  PROVE  \E F \in [0 .. Len(s) -> Data] : IsJoined(F, s)
BY JoinsExist DEF Data

\* R[k] is what those behind the first k of some data are together
IsRest(R, s) ==
  R[0] = FlattenSeq(s) /\ R[Len(s)] = <<>> /\ \A k \in 1 .. Len(s) : R[k - 1] = s[k] \o R[k]

\* What is behind the first of some data, for each of them.
LEMMA RestExists ==
  ASSUME NEW s \in Seq(Data)
  PROVE  \E R \in [0 .. Len(s) -> Data] :
           IsRest(R, s) /\ \A k \in 0 .. Len(s) : FlattenSeq(SubSeq(s, 1, k)) \o R[k] = R[0]
<1> DEFINE n == Len(s)
           none == <<>>
           step == [p \in (1 .. n) \X Data |-> s[n - p[1] + 1] \o p[2]]
<1>1. n \in Nat /\ none \in Data BY LenProperties, NoneIn
<1>2. \A i \in 1 .. n : s[i] \in Data BY ElementOfSeq
<1>3. step \in [(1 .. n) \X Data -> Data]
  <2> HIDE DEF n
  <2>1. \A i \in 1 .. n, x \in Data : s[n - i + 1] \o x \in Data
    <3>1. \A i \in 1 .. n : n - i + 1 \in 1 .. n BY <1>1
    <3> QED BY <1>2, <3>1, JoinIn
  <2> QED BY <2>1
<1>4. \A i \in 1 .. n, x \in Data : step[<<i, x>>] = s[n - i + 1] \o x
  <2> HIDE DEF n
  <2> QED OBVIOUS
<1>5. PICK F \in [0 .. n -> Data] : IsJoined(F, s) BY JoinedExists
<1>6. F[0] = <<>> /\ F[n] = FlattenSeq(s) /\ \A k \in 1 .. n : F[k] = F[k - 1] \o s[k]
  BY <1>5 DEF IsJoined
<1> HIDE DEF n, none, step
<1>7. PICK G \in [0 .. n -> Data] : IsRun(G, n, none, step, G[n]) BY <1>1, <1>3, RunExists
<1>8. G[0] = <<>> /\ \A k \in 1 .. n : G[k] = s[n - k + 1] \o G[k - 1]
  <2>1. \A k \in 1 .. n : G[k - 1] \in Data BY <1>1
  <2> QED BY <1>4, <1>7, <2>1 DEF IsRun, none
<1> DEFINE R == [k \in 0 .. n |-> G[n - k]]
<1>9. R \in [0 .. n -> Data] /\ R[n] = <<>> /\ \A k \in 1 .. n : R[k - 1] = s[k] \o R[k]
  <2>1. R \in [0 .. n -> Data]
    <3>1. \A k \in 0 .. n : n - k \in 0 .. n BY <1>1
    <3> QED BY <3>1
  <2>2. R[n] = <<>>
    <3>1. n \in 0 .. n /\ n - n = 0 BY <1>1
    <3> QED BY <1>8, <3>1
  <2>3. ASSUME NEW k \in 1 .. n PROVE R[k - 1] = s[k] \o R[k]
    <3> DEFINE j == n - k + 1
    <3>1. j \in 1 .. n /\ n - j + 1 = k /\ j - 1 = n - k /\ n - (k - 1) = j /\ k - 1 \in 0 .. n
          /\ k \in 0 .. n
      BY <1>1
    <3>2. G[j] = s[n - j + 1] \o G[j - 1]
      <4> HIDE DEF j
      <4> QED BY <1>8, <3>1
    <3> HIDE DEF j
    <3> QED BY <3>1, <3>2
  <2> QED BY <2>1, <2>2, <2>3
<1> HIDE DEF R
<1> DEFINE S == {k \in 0 .. n : F[k] \o R[k] = R[0]}
<1>10. \A k \in 0 .. n : F[k] \in Data /\ R[k] \in Data BY <1>9
<1>11. \A k \in 0 .. n : k \in S
  <2>1. 0 \in S
    <3>1. 0 \in 0 .. n BY <1>1
    <3> QED BY <1>6, <1>10, <3>1, NoneIn
  <2>2. ASSUME NEW k \in 1 .. n, k - 1 \in S PROVE k \in S
    <3>1. k - 1 \in 0 .. n /\ k \in 0 .. n BY <1>1
    <3> DEFINE a == F[k - 1]
               b == s[k]
               c == R[k]
    <3>2. a \in Data /\ b \in Data /\ c \in Data BY <1>2, <1>10, <3>1
    <3>3. F[k] = a \o b /\ R[k - 1] = b \o c /\ a \o R[k - 1] = R[0] BY <1>6, <1>9, <2>2
    <3> HIDE DEF a, b
    <3>4. (a \o b) \o c = a \o (b \o c)
      <4> HIDE DEF c
      <4> QED BY <3>2, Joins
    <3> QED BY <3>1, <3>3, <3>4
  <2> HIDE DEF S
  <2> QED BY <1>1, <2>1, <2>2, UpTo
<1>12. R[0] = FlattenSeq(s)
  <2>1. n \in S /\ n \in 0 .. n BY <1>1, <1>11
  <2>2. F[n] \o <<>> = F[n] BY <1>10, <2>1, NoneIn
  <2> QED BY <1>6, <1>9, <2>1, <2>2
<1>13. ASSUME NEW k \in 0 .. n PROVE FlattenSeq(SubSeq(s, 1, k)) = F[k]
  <2> DEFINE t == SubSeq(s, 1, k)
  <2>1. t \in Seq(Data) /\ Len(t) = k /\ \A i \in 1 .. k : t[i] = s[i] BY FirstIs DEF n
  <2> HIDE DEF t
  <2>2. PICK F1 \in [0 .. Len(t) -> Data] : IsJoined(F1, t) BY <2>1, JoinedExists
  <2>3. F1[0] = <<>> /\ F1[k] = FlattenSeq(t) /\ \A i \in 1 .. k : F1[i] = F1[i - 1] \o s[i]
    BY <2>1, <2>2 DEF IsJoined
  <2>4. k \in Nat /\ \A i \in 1 .. k : i \in 1 .. n BY <1>1
  <2>5. Alike(F1, F, k) BY <1>6, <2>3, <2>4 DEF Alike
  <2>6. F1[k] = F[k] BY <2>4, <2>5, RunsAgree
  <2> QED BY <2>3, <2>6 DEF t
<1>14. \A k \in 0 .. n : FlattenSeq(SubSeq(s, 1, k)) \o R[k] = R[0] BY <1>11, <1>13
<1>15. IsRest(R, s) BY <1>9, <1>12 DEF IsRest, n
<1> QED BY <1>9, <1>14, <1>15 DEF n

\* Joining a sequence of data gives data.
LEMMA FlattenIn ==
  ASSUME NEW s \in Seq(Data)
  PROVE  FlattenSeq(s) \in Data
<1>1. PICK F \in [0 .. Len(s) -> Data] : IsJoined(F, s) BY JoinedExists
<1>2. Len(s) \in 0 .. Len(s)
  <2>1. Len(s) \in Nat BY LenProperties
  <2> QED BY <2>1
<1> QED BY <1>1, <1>2 DEF IsJoined

\* A line with a colon.
LEMMA ColonIs ==
  ASSUME NEW line \in Data
  PROVE  IndexOf({"colon"}, line) = 0 <=> "colon" \notin ToSet(line)
<1>1. Len(line) \in Nat /\ DOMAIN line = 1 .. Len(line) BY LenProperties DEF Data
<1> DEFINE x == "colon"
           at == IndexOf({x}, line)
<1>2. /\ at \in 0 .. Len(line)
      /\ at = 0 => \A i \in 1 .. Len(line) : line[i] \notin {x}
      /\ at # 0 => line[at] \in {x}
  BY IndexOfIs
<1> HIDE DEF x, at
<1>3. at = 0 => x \notin ToSet(line) BY <1>1, <1>2 DEF ToSet
<1>4. at # 0 => x \in ToSet(line)
  <2> DEFINE m == Len(line)
  <2>1. m \in Nat /\ at \in 0 .. m BY <1>1, <1>2
  <2> HIDE DEF m
  <2>2. at # 0 => at \in 1 .. m BY <2>1
  <2> QED BY <1>1, <1>2, <2>2 DEF ToSet, m
<1> QED BY <1>3, <1>4 DEF x, at

\* Nothing is taken.
LEMMA TakeNone ==
  ASSUME NEW d \in Data
  PROVE  SubSeq(d, 1, 0) = <<>> /\ From(d, 0 + 1) = d
<1>1. SubSeq(d, 1, 0) = <<>> BY SubSeqEmpty
<1>2. SubSeq(d, 1, Len(d)) = d BY SubSeqFull DEF Data
<1>3. 0 + 1 = 1 OBVIOUS
<1> QED BY <1>1, <1>2, <1>3 DEF From

\* The length of joined data.
LEMMA LenOf ==
  /\ \A a \in Data : Len(a) \in Nat /\ (Len(a) = 0 <=> a = <<>>)
  /\ \A a, b \in Data : Len(a \o b) = Len(a) + Len(b)
<1>1. \A a \in Data : Len(a) \in Nat /\ (Len(a) = 0 <=> a = <<>>) BY LenProperties, EmptySeq DEF Data
<1>2. \A a, b \in Data : Len(a \o b) = Len(a) + Len(b) BY ConcatProperties DEF Data
<1> QED BY <1>1, <1>2

\* what of a sequence is behind its beginning
Behind(p, a) == From(a, Len(p) + 1)

\* it begins with p, and what is behind that is followed by b as q says
IsCut(a, p, b, q) == Behind(p, a) \in Data /\ p \o Behind(p, a) = a /\ Behind(p, a) \o b = q

\* Data cut in two ways, the second not behind the first.
LEMMA TwoCuts ==
  ASSUME NEW a \in Data, NEW b \in Data, NEW p \in Data, NEW q \in Data, a \o b = p \o q, Len(p) <= Len(a)
  PROVE  IsCut(a, p, b, q)
<1> DEFINE n == Len(p)
           f == SubSeq(a, 1, n)
           t == From(a, n + 1)
<1>1. n \in Nat /\ Len(a) \in Nat /\ n \in 0 .. Len(a) BY LenOf
<1>2. f \in Data /\ Len(f) = n BY <1>1, FirstIs DEF Data
<1>3. t \in Data BY <1>1, BehindIn
<1>4. f \o t = a BY <1>1, CutAt DEF Data
<1> HIDE DEF f, t
<1>5. f \o (t \o b) = p \o q /\ t \o b \in Data
  <2>1. (f \o t) \o b = f \o (t \o b)
    <3>1. JoinsAs(f, t, b) BY <1>2, <1>3, Joined
    <3> QED BY <3>1 DEF JoinsAs
  <2> QED BY <1>3, <1>4, <2>1, JoinIn
<1>6. f = p
  <2>1. SubSeq(f \o (t \o b), 1, Len(f)) = f BY <1>2, <1>5, JoinedCut DEF Data
  <2>2. SubSeq(p \o q, 1, Len(p)) = p BY JoinedCut DEF Data
  <2> QED BY <1>2, <1>5, <2>1, <2>2
<1>7. t \o b = q
  <2> DEFINE u == t \o b
  <2>1. p \o u = p \o q /\ u \in Data BY <1>5, <1>6
  <2> HIDE DEF u
  <2>2. u = q BY <2>1, ConcatSimplifications DEF Data
  <2> QED BY <2>2 DEF u
<1> QED BY <1>3, <1>4, <1>6, <1>7 DEF IsCut, Behind, t

\* Data cut at the same place.
LEMMA SameCut ==
  ASSUME NEW a \in Data, NEW b \in Data, NEW p \in Data, NEW q \in Data, a \o b = p \o q, Len(p) = Len(a)
  PROVE  a = p /\ b = q
<1>1. SubSeq(a \o b, 1, Len(a)) = a BY JoinedCut DEF Data
<1>2. SubSeq(p \o q, 1, Len(p)) = p BY JoinedCut DEF Data
<1>3. a = p BY <1>1, <1>2
<1>4. b = q BY <1>3, ConcatSimplifications DEF Data
<1> QED BY <1>3, <1>4

\* Data with no line feed ends before the first one.
LEMMA MoreThan ==
  ASSUME NEW a \in Data, NEW b \in Data, NEW p \in Data, NEW q \in Data, Without(a, "lf"),
         a \o b = p \o (Lf \o q)
  PROVE  Len(b) > Len(q)
<1> DEFINE u == Lf \o q
<1>1. Lf \in Data /\ Len(Lf) = 1 /\ Lf[1] = "lf"
  <2>1. "lf" \in Byte BY DEF Byte
  <2>2. \A x \in Byte : <<x>> \in Data /\ Len(<<x>>) = 1 /\ <<x>>[1] = x BY OneIn
  <2> QED BY <2>1, <2>2 DEF Lf
<1>2. u \in Data /\ Len(u) = Len(q) + 1
  <2>1. Len(u) = Len(Lf) + Len(q) BY <1>1, LenOf
  <2>2. Len(q) \in Nat BY LenOf
  <2> QED BY <1>1, <2>1, <2>2, JoinIn
<1>3. u[1] = "lf"
  <2>1. Len(q) \in Nat BY LenOf
  <2>2. 1 \in 1 .. Len(Lf) + Len(q) /\ 1 <= Len(Lf) BY <1>1, <2>1
  <2> QED BY <1>1, <2>2, ConcatProperties DEF Data
<1> HIDE DEF u
<1>4. a \o b = p \o u BY DEF u
<1>5. Len(a) \in Nat /\ Len(b) \in Nat /\ Len(p) \in Nat /\ Len(q) \in Nat BY LenOf
<1>6. Len(a) + Len(b) = Len(p) + Len(u)
  <2>1. Len(a \o b) = Len(a) + Len(b) BY LenOf
  <2>2. Len(p \o u) = Len(p) + Len(u) BY <1>2, LenOf
  <2> QED BY <1>4, <2>1, <2>2
<1>7. ~(Len(a) > Len(p))
  <2> SUFFICES ASSUME Len(a) > Len(p) PROVE FALSE
    OBVIOUS
  <2> DEFINE i == Len(p) + 1
  <2>1. i \in 1 .. Len(a) /\ i \in 1 .. Len(a) + Len(b) /\ i <= Len(a) BY <1>5
  <2>2. i \in 1 .. Len(p) + Len(u) /\ ~(i <= Len(p)) /\ i - Len(p) = 1 BY <1>2, <1>5
  <2>3. (a \o b)[i] = a[i] BY <2>1, ConcatProperties DEF Data
  <2>4. (p \o u)[i] = u[i - Len(p)] BY <1>2, <2>2, ConcatProperties DEF Data
  <2>5. a[i] # "lf" BY <2>1 DEF Without
  <2>6. a[i] = "lf"
    <3> HIDE DEF i
    <3> QED BY <1>3, <1>4, <2>2, <2>3, <2>4
  <2> QED BY <2>5, <2>6
<1> QED BY <1>2, <1>5, <1>6, <1>7

\* Behind a place there are no more line ends than in all, and fewer when one is before it.
LEMMA LineEndsBehind ==
  ASSUME NEW d \in Data, NEW i \in Nat, i > 0
  PROVE  /\ LineEnds(From(d, i)) \in Nat /\ LineEnds(d) \in Nat
         /\ LineEnds(From(d, i)) <= LineEnds(d)
         /\ \A j \in 1 .. Len(d) : j < i /\ d[j] = "lf" => LineEnds(From(d, i)) < LineEnds(d)
<1> DEFINE n == Len(d)
           t == From(d, i)
           All == {k \in DOMAIN d : d[k] = "lf"}
           Above == {k \in All : k >= i}
           InT == {k \in DOMAIN t : t[k] = "lf"}
           f == [k \in InT |-> k + i - 1]
<1>1. n \in Nat /\ DOMAIN d = 1 .. n BY LenProperties DEF Data
<1>2. /\ t \in Data /\ DOMAIN t = 1 .. Len(t) /\ Len(t) = IF i <= n THEN n - i + 1 ELSE 0
      /\ \A k \in 1 .. n - i + 1 : t[k] = d[i + k - 1]
  BY FromIs, LenProperties DEF Data
<1>3. LineEnds(t) = Cardinality(InT) /\ LineEnds(d) = Cardinality(All) BY DEF LineEnds
<1>4. Cardinality(InT) \in Nat /\ Cardinality(All) \in Nat BY <1>2, <1>3, LineEndsIn
<1>5. IsFiniteSet(All) /\ IsFiniteSet(InT)
  <2>1. IsFiniteSet(1 .. n) /\ IsFiniteSet(1 .. Len(t))
    <3>1. 1 \in Int /\ n \in Int /\ Len(t) \in Int BY <1>1, <1>2
    <3> QED BY <3>1, FS_Interval
  <2>2. All \in SUBSET (1 .. n) /\ InT \in SUBSET (1 .. Len(t)) BY <1>1, <1>2
  <2> HIDE DEF All, InT
  <2> QED BY <2>1, <2>2, FS_Subset
<1>6. f \in [InT -> Above]
  <2>1. ASSUME NEW k \in InT PROVE k + i - 1 \in Above
    <3>1. k \in 1 .. Len(t) /\ t[k] = "lf" BY <1>2
    <3>2. k \in Nat /\ k >= 1 /\ k <= n - i + 1 /\ i <= n BY <1>1, <1>2, <3>1
    <3>3. k + i - 1 \in 1 .. n /\ k + i - 1 >= i /\ i + k - 1 = k + i - 1 BY <1>1, <3>2
    <3>4. d[k + i - 1] = "lf" BY <1>1, <1>2, <3>1, <3>2, <3>3
    <3> QED BY <1>1, <3>3, <3>4
  <2> QED BY <2>1
<1>7. \A k \in InT : k \in Nat BY <1>2
<1>8. \A k, l \in InT : f[k] = f[l] => k = l
  <2> HIDE DEF InT, Above
  <2> QED BY <1>7
<1>9. \A m \in Above : \E k \in InT : f[k] = m
  <2>1. ASSUME NEW m \in Above PROVE \E k \in InT : f[k] = m
    <3>1. m \in 1 .. n /\ m >= i /\ d[m] = "lf" BY <1>1
    <3> DEFINE k == m - i + 1
    <3>2. k \in 1 .. n - i + 1 /\ i + k - 1 = m /\ k + i - 1 = m /\ i <= n BY <1>1, <3>1
    <3>3. k \in DOMAIN t /\ t[k] = "lf" BY <1>2, <3>1, <3>2
    <3>4. k \in InT /\ f[k] = m BY <3>2, <3>3
    <3> QED BY <3>4
  <2> QED BY <2>1
<1>10. Cardinality(Above) = Cardinality(InT)
  <2> HIDE DEF f, Above, InT
  <2>1. f \in Bijection(InT, Above)
    BY <1>6, <1>8, <1>9 DEF Bijection, Injection, Surjection, IsInjective
  <2>2. ExistsBijection(InT, Above) BY <2>1 DEF ExistsBijection
  <2> QED BY <1>5, <2>2, FS_Bijection
<1>11. Cardinality(Above) <= Cardinality(All)
  <2>1. Above \in SUBSET All OBVIOUS
  <2> HIDE DEF Above, All
  <2> QED BY <1>5, <2>1, FS_Subset
<1>12. ASSUME NEW j \in 1 .. n, j < i, d[j] = "lf" PROVE Cardinality(Above) < Cardinality(All)
  <2>1. j \in All BY <1>1, <1>12
  <2>2. j \notin Above BY <1>12
  <2>3. Above \in SUBSET All /\ Above # All BY <2>1, <2>2
  <2> HIDE DEF Above, All
  <2>4. Cardinality(Above) # Cardinality(All) BY <1>5, <2>3, FS_Subset
  <2> QED BY <1>4, <1>10, <1>11, <2>4
<1> HIDE DEF All, Above, InT, f, t
<1>13. \A j \in 1 .. n : j < i /\ d[j] = "lf" => LineEnds(t) < LineEnds(d) BY <1>3, <1>10, <1>12
<1> QED BY <1>3, <1>4, <1>10, <1>11, <1>13 DEF t

\* The rounds of the loop over lines suffice: reading stops behind the header or when all is read.
LEMMA LinesEndRead ==
  ASSUME NEW hdr \in Header, NEW d \in Data
  PROVE  appendLines(hdr, d).finished \/ appendLines(hdr, d).rest = <<>>
<1>1. PICK n \in Nat : \E g \in [0 .. n -> LineReads] : IsReading(g, n, hdr, d) BY ReadingExists
<1>2. PICK g \in [0 .. n -> LineReads] : IsReading(g, n, hdr, d) BY <1>1
<1>3. /\ n = LineEnds(d) + 1 /\ g[0].rest = d /\ g[n] = appendLines(hdr, d)
      /\ \A k \in 1 .. n : g[k] = NextLine(g[k - 1])
  BY <1>2 DEF IsReading
<1> DEFINE Ends(read, k) == read.finished \/ read.rest = <<>> \/ LineEnds(read.rest) + k <= LineEnds(d)
           T == {k \in 0 .. n : Ends(g[k], k)}
<1>4. LineEnds(d) \in Nat BY LineEndsIn
<1>5. 0 \in T BY <1>3, <1>4
<1>6. ASSUME NEW k \in 1 .. n, k - 1 \in T PROVE k \in T
  <2> DEFINE read == g[k - 1]
             rest == read.rest
             eol == IndexOf({"lf"}, rest)
             new == NextLine(read)
  <2>1. k - 1 \in 0 .. n /\ k \in 0 .. n BY <1>1
  <2>2. read \in LineReads /\ g[k] = new /\ Ends(read, k - 1) BY <1>2, <1>3, <1>6, <2>1
  <2>3. rest \in Data BY <2>2 DEF LineReads
  <2>4. CASE read.finished \/ rest = <<>>
    <3>1. new = read BY <2>4 DEF NextLine
    <3>2. g[k].finished \/ g[k].rest = <<>> BY <2>2, <2>4, <3>1
    <3> QED BY <2>1, <3>2
  <2>5. CASE ~(read.finished \/ rest = <<>>) /\ eol = 0
    <3>1. new = [read EXCEPT !.hdr.cur = @ \o read.rest, !.rest = <<>>] BY <2>5 DEF NextLine
    <3>2. new.rest = <<>>
      <4> HIDE DEF new
      <4> QED BY <2>2, <3>1 DEF LineReads
    <3> QED BY <2>1, <2>2, <3>2
  <2>6. CASE ~(read.finished \/ rest = <<>>) /\ eol # 0
    <3>1. new.rest = From(rest, eol + 1) BY <2>6 DEF NextLine
    <3>2. eol \in 1 .. Len(rest) /\ rest[eol] = "lf" /\ eol \in Nat
      BY <2>3, <2>6, IndexOfIs, LenOf DEF Data
    <3>3. LineEnds(rest) + (k - 1) <= LineEnds(d) BY <2>2, <2>6
    <3> HIDE DEF eol, rest, read, new
    <3> DEFINE i == eol + 1
    <3>4. i \in Nat /\ i > 0 /\ eol < i BY <3>2
    <3>5. From(rest, i) = new.rest BY <3>1
    <3> HIDE DEF i
    <3>6. /\ LineEnds(From(rest, i)) < LineEnds(rest)
          /\ LineEnds(From(rest, i)) \in Nat /\ LineEnds(rest) \in Nat
      BY <2>3, <3>2, <3>4, LineEndsBehind
    <3>7. LineEnds(new.rest) + k <= LineEnds(d) BY <1>4, <3>3, <3>5, <3>6
    <3> QED BY <2>1, <2>2, <3>7
  <2> QED BY <2>4, <2>5, <2>6
<1>7. n \in T
  <2> HIDE DEF T
  <2>1. \A k \in 0 .. n : k \in T BY <1>5, <1>6, UpTo
  <2> QED BY <1>1, <2>1
<1>8. Ends(g[n], n) BY <1>7
<1>9. g[n].rest \in Data BY <1>1, <1>2 DEF LineReads
<1>10. LineEnds(g[n].rest) \in Nat BY <1>9, LineEndsIn
<1> QED BY <1>3, <1>4, <1>8, <1>10

\* A sequence of data that is given by its elements.
LEMMA DataSeq ==
  ASSUME NEW n \in Nat, NEW s, s \in [1 .. n -> Data]
  PROVE  s \in Seq(Data) /\ Len(s) = n
  BY SeqDef

----------------------------------------------------------------------------
(* A part, read in pieces by the parser and byte by byte by the reference.   *)

\* what has been read of a part, byte by byte
ReadStates == [lines : Seq(Data), cur : Data, isContent : BOOLEAN, content : Data]

\* g is what has been read after each byte
IsByteRun(g, r, t) ==
  g[0] = r /\ g[Len(t)] = ReadBytes(r, t) /\ \A k \in 1 .. Len(t) : g[k] = ReadByte(g[k - 1], t[k])

\* A data is longer by a byte.
LEMMA AppendIn ==
  ASSUME NEW d \in Data, NEW x \in Byte
  PROVE  /\ Append(d, x) \in Data /\ Append(d, x) = d \o <<x>>
         /\ Len(Append(d, x)) = Len(d) + 1
<1>1. d \in Seq(Byte) BY DEF Data
<1>2. Append(d, x) \in Seq(Byte) /\ Len(Append(d, x)) = Len(d) + 1 BY <1>1, AppendProperties
<1>3. Append(d, x) = d \o <<x>> BY <1>1, AppendIsConcat
<1> QED BY <1>2, <1>3 DEF Data

\* The first bytes are those before the last of them, and that one.
LEMMA FirstNext ==
  ASSUME NEW d \in Data, NEW k \in 1 .. Len(d)
  PROVE  /\ SubSeq(d, 1, k - 1) \in Data /\ d[k] \in Byte
         /\ SubSeq(d, 1, k) = Append(SubSeq(d, 1, k - 1), d[k])
<1>1. d \in Seq(Byte) /\ Len(d) \in Nat BY LenProperties DEF Data
<1>2. k - 1 \in 0 .. Len(d) /\ k \in 0 .. Len(d) BY <1>1
<1> DEFINE a == SubSeq(d, 1, k - 1)
           b == SubSeq(d, 1, k)
<1>3. a \in Seq(Byte) /\ Len(a) = k - 1 /\ \A i \in 1 .. k - 1 : a[i] = d[i] BY <1>1, <1>2, FirstIs
<1>4. b \in Seq(Byte) /\ Len(b) = k /\ \A i \in 1 .. k : b[i] = d[i] BY <1>1, <1>2, FirstIs
<1>5. d[k] \in Byte BY <1>1, ElementOfSeq
<1> HIDE DEF a, b
<1> DEFINE c == Append(a, d[k])
<1>6. c \in Seq(Byte) /\ Len(c) = k /\ c[k] = d[k] /\ \A i \in 1 .. k - 1 : c[i] = a[i]
  BY <1>2, <1>3, <1>5, AppendProperties
<1> HIDE DEF c
<1>7. b = c
  <2>1. \A i \in 1 .. k : b[i] = c[i] BY <1>2, <1>3, <1>4, <1>6
  <2> QED BY <1>4, <1>6, <2>1, SeqEqual
<1> QED BY <1>3, <1>5, <1>7 DEF a, b, c, Data

\* A byte read.
LEMMA ReadByteIn ==
  ASSUME NEW r \in ReadStates, NEW x \in Byte
  PROVE  ReadByte(r, x) \in ReadStates
<1> DEFINE line == StripCr(r.cur)
           lines == IF "colon" \in ToSet(line) THEN Append(r.lines, line) ELSE r.lines
           content == Append(r.content, x)
           cur == Append(r.cur, x)
           done == line = <<>>
<1>1. r.cur \in Data /\ r.content \in Data /\ r.lines \in Seq(Data) BY DEF ReadStates
<1>2. line \in Data BY <1>1, StripCrIn
<1>3. content \in Data /\ cur \in Data /\ <<>> \in Data BY <1>1, AppendIn, NoneIn
<1>4. lines \in Seq(Data)
  <2> HIDE DEF line
  <2> QED BY <1>1, <1>2, AppendProperties
<1>5. ReadByte(r, x) = IF r.isContent THEN [r EXCEPT !.content = content]
                       ELSE IF x # "lf" THEN [r EXCEPT !.cur = cur]
                       ELSE [r EXCEPT !.cur = <<>>, !.isContent = done, !.lines = lines]
  BY DEF ReadByte
<1>6. done \in BOOLEAN OBVIOUS
<1> HIDE DEF line, lines, content, cur, done
<1> QED BY <1>1, <1>3, <1>4, <1>5, <1>6 DEF ReadStates

\* ReadBytes takes one byte after the other.
LEMMA ByteRunExists ==
  ASSUME NEW r \in ReadStates, NEW s \in Data
  PROVE  \E g \in [0 .. Len(s) -> ReadStates] : IsByteRun(g, r, s)
<1> DEFINE n == Len(s)
           T == ReadStates
           step == [p \in (1 .. n) \X T |-> ReadByte(p[2], s[p[1]])]
           Fold(h) == [t \in SUBSET DOMAIN s |->
                         IF t = {} THEN r ELSE ReadByte(h[t \ {Max(t)}], s[Max(t)])]
           h == CHOOSE h : h = Fold(h)
<1>1. ReadBytes(r, s) = h[DOMAIN s]
  BY DEF ReadBytes, FoldLeft, MapThenFoldSet
<1>2. n \in Nat /\ DOMAIN s = 1 .. n /\ r \in T /\ step \in [(1 .. n) \X T -> T]
  <2>1. n \in Nat /\ DOMAIN s = 1 .. n /\ r \in T BY LenProperties DEF Data
  <2>2. \A i \in 1 .. n, x \in T : ReadByte(x, s[i]) \in T
    <3>1. \A i \in 1 .. n : s[i] \in Byte BY ElementOfSeq DEF Data
    <3> HIDE DEF n
    <3> QED BY <3>1, ReadByteIn
  <2> QED
    <3> HIDE DEF T, n
    <3> QED BY <2>1, <2>2
<1>3. \A i \in 1 .. n, x \in T : step[<<i, x>>] = ReadByte(x, s[i])
  <2> HIDE DEF T, n
  <2> QED OBVIOUS
<1> HIDE DEF n, T, step
<1>4. PICK h0 \in [SUBSET (1 .. n) -> T] : IsFold(h0, n, r, step)
  BY <1>2, FoldExists
<1>5. h0 = Fold(h0)
  <2>1. ASSUME NEW t \in SUBSET (1 .. n), t # {}
        PROVE  step[<<Max(t), h0[t \ {Max(t)}]>>] = ReadByte(h0[t \ {Max(t)}], s[Max(t)])
    BY <2>1, <1>2, <1>3, MaxIn
  <2>2. \A t \in SUBSET DOMAIN s : h0[t] = Fold(h0)[t] BY <1>2, <1>4, <2>1 DEF IsFold
  <2> QED BY <1>2, <2>2
<1>6. h = Fold(h)
  <2> HIDE DEF Fold
  <2> QED BY <1>5
<1>7. Follows(h, n, T, r, step)
  <2> HIDE DEF h
  <2>1. h[{}] = r BY <1>6
  <2>3. \A t \in SUBSET DOMAIN s :
          h[t] = IF t = {} THEN r ELSE ReadByte(h[t \ {Max(t)}], s[Max(t)])
    BY <1>6
  <2> HIDE DEF Fold
  <2>2. ASSUME NEW k \in 1 .. n, h[1 .. k - 1] \in T PROVE h[1 .. k] = step[<<k, h[1 .. k - 1]>>]
    <3>1. 1 .. k \in SUBSET DOMAIN s /\ k \in Nat /\ k > 0 BY <1>2
    <3>2. Max(1 .. k) = k /\ (1 .. k) \ {k} = 1 .. k - 1 /\ 1 .. k # {} BY <3>1, MaxOfFirst
    <3>3. h[1 .. k] = ReadByte(h[1 .. k - 1], s[k]) BY <2>3, <3>1, <3>2
    <3> QED BY <1>3, <2>2, <3>3
  <2> QED BY <2>1, <2>2 DEF Follows
<1>8. PICK g \in [0 .. n -> T] : IsRun(g, n, r, step, h[1 .. n])
  <2> HIDE DEF h
  <2> QED BY <1>2, <1>7, FoldRuns
<1>9. \A k \in 1 .. n : g[k] = ReadByte(g[k - 1], s[k])
  <2>1. ASSUME NEW k \in 1 .. n PROVE g[k - 1] \in T BY <1>2
  <2> QED BY <1>3, <1>8, <2>1 DEF IsRun
<1>10. g[n] = ReadBytes(r, s) BY <1>1, <1>2, <1>8 DEF IsRun
<1>11. g[0] = r BY <1>8 DEF IsRun
<1>12. IsByteRun(g, r, s) BY <1>9, <1>10, <1>11 DEF IsByteRun, n
<1> QED BY <1>12 DEF n, T

\* What is read of bytes.
LEMMA ReadBytesIn ==
  ASSUME NEW r \in ReadStates, NEW t \in Data
  PROVE  ReadBytes(r, t) \in ReadStates
<1>1. PICK g \in [0 .. Len(t) -> ReadStates] : IsByteRun(g, r, t) BY ByteRunExists
<1>2. Len(t) \in 0 .. Len(t) BY LenOf
<1> QED BY <1>1, <1>2 DEF IsByteRun

\* Nothing changes nothing, and one byte is read as one.
LEMMA ReadOne ==
  ASSUME NEW r \in ReadStates
  PROVE  /\ ReadBytes(r, <<>>) = r
         /\ \A x \in Byte : ReadBytes(r, <<x>>) = ReadByte(r, x)
<1>1. ReadBytes(r, <<>>) = r
  <2>1. <<>> \in Data /\ Len(<<>>) = 0 BY NoneIn, LenOf
  <2>2. PICK g \in [0 .. Len(<<>>) -> ReadStates] : IsByteRun(g, r, <<>>) BY <2>1, ByteRunExists
  <2> QED BY <2>1, <2>2 DEF IsByteRun
<1>2. ASSUME NEW x \in Byte PROVE ReadBytes(r, <<x>>) = ReadByte(r, x)
  <2> DEFINE t == <<x>>
  <2>1. t \in Data /\ Len(t) = 1 /\ t[1] = x BY OneIn
  <2> HIDE DEF t
  <2>2. PICK g \in [0 .. Len(t) -> ReadStates] : IsByteRun(g, r, t) BY <2>1, ByteRunExists
  <2>3. g[0] = r /\ g[1] = ReadBytes(r, t) /\ g[1] = ReadByte(g[1 - 1], t[1]) BY <2>1, <2>2 DEF IsByteRun
  <2>4. ReadBytes(r, t) = ReadByte(r, x) BY <2>1, <2>3
  <2> QED BY <2>4 DEF t
<1> QED BY <1>1, <1>2

\* Bytes that are read in two pieces.
LEMMA ReadJoined ==
  ASSUME NEW r \in ReadStates, NEW a \in Data, NEW b \in Data
  PROVE  ReadBytes(r, a \o b) = ReadBytes(ReadBytes(r, a), b)
<1> DEFINE c == a \o b
           m == Len(a)
           n == Len(b)
           r1 == ReadBytes(r, a)
<1>1. c \in Data /\ Len(c) = m + n /\ m \in Nat /\ n \in Nat BY JoinIn, LenOf
<1>2. /\ \A k \in 1 .. m : c[k] = a[k]
      /\ \A k \in 1 .. n : c[m + k] = b[k]
  <2>1. a \in Seq(Byte) /\ b \in Seq(Byte) BY DEF Data
  <2>2. \A k \in 1 .. m + n : c[k] = IF k <= m THEN a[k] ELSE b[k - m] BY <2>1, ConcatProperties
  <2> HIDE DEF c, m, n
  <2>3. \A k \in 1 .. n : m + k \in 1 .. m + n /\ ~(m + k <= m) /\ (m + k) - m = k BY <1>1
  <2>4. \A k \in 1 .. m : k \in 1 .. m + n /\ k <= m BY <1>1
  <2>5. ASSUME NEW k \in 1 .. n PROVE c[m + k] = b[k] BY <2>2, <2>3
  <2> QED BY <2>2, <2>4, <2>5
<1>3. r1 \in ReadStates BY ReadBytesIn
<1> HIDE DEF c
<1>4. PICK g \in [0 .. Len(c) -> ReadStates] : IsByteRun(g, r, c) BY <1>1, ByteRunExists
<1>5. PICK p \in [0 .. m -> ReadStates] : IsByteRun(p, r, a) BY ByteRunExists
<1> HIDE DEF r1
<1>6. PICK q \in [0 .. n -> ReadStates] : IsByteRun(q, r1, b) BY <1>3, ByteRunExists
<1>7. /\ g[0] = r /\ g[m + n] = ReadBytes(r, c)
      /\ \A k \in 1 .. m + n : g[k] = ReadByte(g[k - 1], c[k])
  BY <1>1, <1>4 DEF IsByteRun
<1>8. /\ p[0] = r /\ p[m] = r1 /\ \A k \in 1 .. m : p[k] = ReadByte(p[k - 1], a[k])
  BY <1>5 DEF IsByteRun, r1
<1>9. /\ q[0] = r1 /\ q[n] = ReadBytes(r1, b) /\ \A k \in 1 .. n : q[k] = ReadByte(q[k - 1], b[k])
  BY <1>6 DEF IsByteRun
<1> HIDE DEF m, n
<1>10. g[m] = r1
  <2>1. \A k \in 1 .. m : k \in 1 .. m + n BY <1>1
  <2>2. Alike(g, p, m) BY <1>2, <1>7, <1>8, <2>1 DEF Alike
  <2> QED BY <1>1, <1>8, <2>2, RunsAgree
<1>11. g[m + n] = q[n]
  <2> DEFINE f == [k \in 0 .. n |-> g[m + k]]
  <2>1. f[0] = g[m] /\ f[n] = g[m + n] BY <1>1
  <2>2. ASSUME NEW k \in 1 .. n PROVE f[k] = ReadByte(f[k - 1], b[k])
    <3>1. k \in 0 .. n /\ k - 1 \in 0 .. n /\ m + k \in 1 .. m + n /\ m + (k - 1) = (m + k) - 1 BY <1>1
    <3>2. g[m + k] = ReadByte(g[(m + k) - 1], c[m + k]) BY <1>7, <3>1
    <3>3. f[k] = g[m + k] /\ f[k - 1] = g[(m + k) - 1] BY <3>1
    <3>4. c[m + k] = b[k] BY <1>2
    <3> HIDE DEF f
    <3> QED BY <3>2, <3>3, <3>4
  <2> HIDE DEF f
  <2>3. Alike(f, q, n) BY <1>9, <1>10, <2>1, <2>2 DEF Alike
  <2>4. f[n] = q[n] BY <1>1, <2>3, RunsAgree
  <2> QED BY <2>1, <2>4
<1>12. ReadBytes(r, c) = ReadBytes(r1, b) BY <1>7, <1>9, <1>11
<1> QED BY <1>12 DEF c, r1

\* A piece of a header line.
LEMMA ReadPiece ==
  ASSUME NEW r \in ReadStates, ~r.isContent, NEW a \in Data, Without(a, "lf")
  PROVE  ReadBytes(r, a) = [r EXCEPT !.cur = r.cur \o a]
<1> DEFINE n == Len(a)
           At(k) == [r EXCEPT !.cur = r.cur \o SubSeq(a, 1, k)]
<1>1. PICK g \in [0 .. Len(a) -> ReadStates] : IsByteRun(g, r, a) BY ByteRunExists
<1>2. g[0] = r /\ g[n] = ReadBytes(r, a) /\ \A k \in 1 .. n : g[k] = ReadByte(g[k - 1], a[k])
  BY <1>1 DEF IsByteRun
<1>3. n \in Nat /\ r.cur \in Data BY LenOf DEF ReadStates
<1> DEFINE S == {k \in 0 .. n : g[k] = At(k)}
<1>4. 0 \in S
  <2>1. SubSeq(a, 1, 0) = <<>> /\ r.cur \o <<>> = r.cur BY <1>3, TakeNone, NoneIn
  <2>2. r = [r EXCEPT !.cur = r.cur] BY DEF ReadStates
  <2>3. r = At(0) BY <2>1, <2>2
  <2> HIDE DEF n, At
  <2> QED BY <1>2, <1>3, <2>3
<1>5. ASSUME NEW k \in 1 .. n, k - 1 \in S PROVE k \in S
  <2> DEFINE b == SubSeq(a, 1, k - 1)
             x == a[k]
             u == r.cur \o b
             v == Append(u, x)
  <2>1. b \in Data /\ x \in Byte /\ SubSeq(a, 1, k) = Append(b, x) BY FirstNext
  <2>2. x # "lf" BY DEF Without
  <2>3. g[k - 1] = [r EXCEPT !.cur = u] BY <1>5
  <2>4. u \in Data BY <1>3, <2>1, JoinIn
  <2>5. r.cur \o SubSeq(a, 1, k) = v
    <3>1. Append(b, x) = b \o <<x>> /\ Append(u, x) = u \o <<x>> /\ <<x>> \in Data
      <4> HIDE DEF b, u, x
      <4> QED BY <2>1, <2>4, AppendIn, OneIn
    <3> DEFINE y == <<x>>
               c == r.cur
    <3>2. y \in Data /\ b \in Data /\ c \in Data BY <1>3, <2>1, <3>1
    <3>3. (c \o b) \o y = c \o (b \o y)
      <4> HIDE DEF c, b, y
      <4> QED BY <3>2, Joins
    <3> QED BY <2>1, <3>1, <3>3
  <2>6. ReadByte(g[k - 1], x) = [r EXCEPT !.cur = v]
    <3> HIDE DEF u, x
    <3>1. g[k - 1] = [r EXCEPT !.cur = u] /\ ~r.isContent BY <2>3
    <3>2. g[k - 1].cur = u /\ ~g[k - 1].isContent BY <3>1 DEF ReadStates
    <3>3. ReadByte(g[k - 1], x) = [g[k - 1] EXCEPT !.cur = v] BY <2>2, <3>2 DEF ReadByte
    <3> HIDE DEF v
    <3> QED BY <3>1, <3>3 DEF ReadStates
  <2>7. g[k] = ReadByte(g[k - 1], x) BY <1>2
  <2> HIDE DEF b, x, u, v
  <2>8. k \in 0 .. n BY <1>3
  <2>9. g[k] = At(k) BY <2>5, <2>6, <2>7
  <2> HIDE DEF At
  <2> QED BY <2>8, <2>9
<1>6. n \in S
  <2> HIDE DEF S, n
  <2>1. \A k \in 0 .. n : k \in S BY <1>3, <1>4, <1>5, UpTo
  <2> QED BY <1>3, <2>1
<1>7. SubSeq(a, 1, n) = a
  <2>1. a \in Seq(Byte) BY DEF Data
  <2> QED BY <2>1, SubSeqFull
<1> QED BY <1>2, <1>6, <1>7

\* Content.
LEMMA ReadContent ==
  ASSUME NEW r \in ReadStates, r.isContent, NEW a \in Data
  PROVE  ReadBytes(r, a) = [r EXCEPT !.content = r.content \o a]
<1> DEFINE n == Len(a)
           At(k) == [r EXCEPT !.content = r.content \o SubSeq(a, 1, k)]
<1>1. PICK g \in [0 .. Len(a) -> ReadStates] : IsByteRun(g, r, a) BY ByteRunExists
<1>2. g[0] = r /\ g[n] = ReadBytes(r, a) /\ \A k \in 1 .. n : g[k] = ReadByte(g[k - 1], a[k])
  BY <1>1 DEF IsByteRun
<1>3. n \in Nat /\ r.content \in Data BY LenOf DEF ReadStates
<1> DEFINE S == {k \in 0 .. n : g[k] = At(k)}
<1>4. 0 \in S
  <2>1. SubSeq(a, 1, 0) = <<>> /\ r.content \o <<>> = r.content BY <1>3, TakeNone, NoneIn
  <2>2. r = [r EXCEPT !.content = r.content] BY DEF ReadStates
  <2>3. r = At(0) BY <2>1, <2>2
  <2> HIDE DEF n, At
  <2> QED BY <1>2, <1>3, <2>3
<1>5. ASSUME NEW k \in 1 .. n, k - 1 \in S PROVE k \in S
  <2> DEFINE b == SubSeq(a, 1, k - 1)
             x == a[k]
             u == r.content \o b
             v == Append(u, x)
  <2>1. b \in Data /\ x \in Byte /\ SubSeq(a, 1, k) = Append(b, x) BY FirstNext
  <2>3. g[k - 1] = [r EXCEPT !.content = u] BY <1>5
  <2>4. u \in Data BY <1>3, <2>1, JoinIn
  <2>5. r.content \o SubSeq(a, 1, k) = v
    <3>1. Append(b, x) = b \o <<x>> /\ Append(u, x) = u \o <<x>> /\ <<x>> \in Data
      <4> HIDE DEF b, u, x
      <4> QED BY <2>1, <2>4, AppendIn, OneIn
    <3> DEFINE y == <<x>>
               c == r.content
    <3>2. y \in Data /\ b \in Data /\ c \in Data BY <1>3, <2>1, <3>1
    <3>3. (c \o b) \o y = c \o (b \o y)
      <4> HIDE DEF c, b, y
      <4> QED BY <3>2, Joins
    <3> QED BY <2>1, <3>1, <3>3
  <2>6. ReadByte(g[k - 1], x) = [r EXCEPT !.content = v]
    <3> HIDE DEF u, x
    <3>1. g[k - 1] = [r EXCEPT !.content = u] /\ r.isContent BY <2>3
    <3>2. g[k - 1].content = u /\ g[k - 1].isContent BY <3>1 DEF ReadStates
    <3>3. ReadByte(g[k - 1], x) = [g[k - 1] EXCEPT !.content = v] BY <3>2 DEF ReadByte
    <3> HIDE DEF v
    <3> QED BY <3>1, <3>3 DEF ReadStates
  <2>7. g[k] = ReadByte(g[k - 1], x) BY <1>2
  <2> HIDE DEF b, x, u, v
  <2>8. k \in 0 .. n BY <1>3
  <2>9. g[k] = At(k) BY <2>5, <2>6, <2>7
  <2> HIDE DEF At
  <2> QED BY <2>8, <2>9
<1>6. n \in S
  <2> HIDE DEF S, n
  <2>1. \A k \in 0 .. n : k \in S BY <1>3, <1>4, <1>5, UpTo
  <2> QED BY <1>3, <2>1
<1>7. SubSeq(a, 1, n) = a
  <2>1. a \in Seq(Byte) BY DEF Data
  <2> QED BY <2>1, SubSeqFull
<1> QED BY <1>2, <1>6, <1>7

\* the header is as it is when it is read byte by byte
LikeHeader(hdr, finished, r) ==
  /\ hdr.started /\ hdr.lines = r.lines /\ r.content = <<>> /\ r.isContent = finished
  /\ ~finished => hdr.cur = r.cur

\* the part is as it is when it is read byte by byte
LikePart(p, r) ==
  IF p.isContent
  THEN /\ r.isContent /\ p.hdr.lines = r.lines /\ p.content = r.content
       /\ p.name = FieldName(Disposition(r)) /\ p.fileName = FileName(Disposition(r))
  ELSE LikeHeader(p.hdr, FALSE, r)

\* bytes of what was left have been taken, byte by byte
TakesBytes(new, left, r) ==
  \E c \in Data : left = c \o new.rest /\ LikeHeader(new.hdr, new.finished, ReadBytes(r, c))

\* A round of the loop over lines takes bytes.
LEMMA NextLineBytes ==
  ASSUME NEW read \in LineReads, ~read.finished, NEW r \in ReadStates, LikeHeader(read.hdr, FALSE, r)
  PROVE  TakesBytes(NextLine(read), read.rest, r)
<1> DEFINE new == NextLine(read)
           hdr == read.hdr
           rest == read.rest
           eol == IndexOf({"lf"}, rest)
<1>1. hdr \in Header /\ rest \in Data /\ hdr.cur \in Data /\ hdr.lines \in Seq(Data) BY DEF LineReads, Header
<1>2. CASE rest = <<>>
  <2>1. new = read BY <1>2 DEF NextLine
  <2>2. ReadBytes(r, <<>>) = r /\ <<>> \in Data /\ <<>> \o rest = rest BY <1>1, ReadOne, NoneIn
  <2> HIDE DEF new
  <2>3. read.finished = FALSE BY DEF LineReads
  <2>4. TakesBytes(new, rest, r) BY <2>1, <2>2, <2>3 DEF TakesBytes
  <2> QED BY <2>4 DEF new
<1>3. CASE rest # <<>> /\ eol = 0
  <2> DEFINE cur == hdr.cur \o rest
  <2>1. new = [read EXCEPT !.hdr.cur = cur, !.rest = <<>>] BY <1>3 DEF NextLine
  <2>2. Without(rest, "lf") BY <1>1, <1>3, IndexOfIs DEF Without
  <2>3. ReadBytes(r, rest) = [r EXCEPT !.cur = r.cur \o rest]
    <3>1. ~r.isContent BY DEF LikeHeader
    <3> HIDE DEF rest
    <3> QED BY <1>1, <2>2, <3>1, ReadPiece
  <2>4. r.cur = hdr.cur BY DEF LikeHeader
  <2>5. ReadBytes(r, rest) = [r EXCEPT !.cur = cur] BY <2>3, <2>4
  <2> HIDE DEF new, cur
  <2>6. new.rest = <<>> /\ new.finished = FALSE /\ new.hdr = [hdr EXCEPT !.cur = cur]
    BY <2>1 DEF LineReads
  <2>7. LikeHeader(new.hdr, new.finished, ReadBytes(r, rest))
    <3> HIDE DEF hdr, rest
    <3>1. LikeHeader(hdr, FALSE, r) BY DEF hdr
    <3> QED BY <1>1, <2>5, <2>6, <3>1 DEF LikeHeader, Header, ReadStates
  <2>8. rest \o <<>> = rest BY <1>1, NoneIn
  <2>9. TakesBytes(new, rest, r) BY <1>1, <2>6, <2>7, <2>8 DEF TakesBytes
  <2> QED BY <2>9 DEF new
<1>4. CASE rest # <<>> /\ eol # 0
  <2> DEFINE piece == Before(rest, eol)
             behind == From(rest, eol + 1)
             cur == hdr.cur \o piece
             line == StripCr(cur)
             hdr1 == IF line = <<>> THEN [hdr EXCEPT !.cur = <<>>] ELSE StoreLine(hdr, line)
             done == line = <<>> /\ hdr.started
  <2>1. new = [hdr |-> hdr1, finished |-> done, rest |-> behind]
    BY <1>4 DEF NextLine, LineEnded
  <2>2. /\ piece \in Data /\ behind \in Data /\ Without(piece, "lf") /\ rest = piece \o (Lf \o behind)
    <3> HIDE DEF rest
    <3> QED BY <1>1, <1>4, LineCut
  <2> HIDE DEF piece, behind, rest
  <2>3. Lf \in Data /\ cur \in Data /\ piece \o Lf \in Data /\ rest = (piece \o Lf) \o behind
    <3>1. Lf \in Data BY OneIn DEF Lf, Byte
    <3>2. cur \in Data /\ piece \o Lf \in Data BY <1>1, <2>2, <3>1, JoinIn
    <3>3. (piece \o Lf) \o behind = piece \o (Lf \o behind) BY <2>2, <3>1, Joins
    <3> QED BY <2>2, <3>1, <3>2, <3>3
  <2>4. line \in Data
    <3> HIDE DEF cur
    <3> QED BY <2>3, StripCrIn
  <2> DEFINE r1 == ReadBytes(r, piece)
             r2 == ReadBytes(r, piece \o Lf)
             lines == IF "colon" \in ToSet(line) THEN Append(r.lines, line) ELSE r.lines
             empty == line = <<>>
  <2>5. r.cur = hdr.cur /\ ~r.isContent /\ r.lines = hdr.lines /\ hdr.started /\ r.content = <<>>
    BY DEF LikeHeader
  <2>6. r1 = [r EXCEPT !.cur = cur] /\ r1 \in ReadStates
    <3>1. r1 = [r EXCEPT !.cur = r.cur \o piece] BY <2>2, <2>5, ReadPiece
    <3> QED BY <2>2, <2>5, <3>1, ReadBytesIn
  <2>7. r2 = ReadByte(r1, "lf")
    <3>1. r2 = ReadBytes(ReadBytes(r, piece), Lf) BY <2>2, <2>3, ReadJoined
    <3>2. "lf" \in Byte BY DEF Byte
    <3> HIDE DEF r2
    <3> QED BY <2>6, <3>1, <3>2, ReadOne DEF Lf
  <2>8. r2 = [r EXCEPT !.cur = <<>>, !.isContent = empty, !.lines = lines]
    <3> HIDE DEF r1, r2, cur
    <3>1. r1.cur = cur /\ ~r1.isContent /\ r1.lines = r.lines BY <2>5, <2>6 DEF ReadStates
    <3>2. r2 = [r1 EXCEPT !.cur = <<>>, !.isContent = empty, !.lines = lines] BY <2>7, <3>1 DEF ReadByte
    <3> HIDE DEF line, lines, empty
    <3> QED BY <2>6, <3>2 DEF ReadStates
  <2>9. hdr1.started /\ hdr1.lines = lines /\ hdr1.cur = <<>>
    <3> HIDE DEF hdr, line
    <3>1. CASE line = <<>>
      <4>1. ToSet(<<>>) = {} BY DEF ToSet
      <4>2. hdr1 = [hdr EXCEPT !.cur = <<>>] /\ lines = r.lines BY <3>1, <4>1
      <4> HIDE DEF hdr1
      <4> QED BY <1>1, <2>5, <4>2 DEF Header
    <3>2. CASE line # <<>>
      <4>1. hdr1 = StoreLine(hdr, line) BY <3>2
      <4> DEFINE stored == IF IndexOf({"colon"}, line) = 0 THEN hdr.lines ELSE Append(hdr.lines, line)
      <4>2. hdr1 = [hdr EXCEPT !.cur = <<>>, !.lines = stored] BY <2>5, <4>1 DEF StoreLine
      <4>3. stored = lines BY <2>4, <2>5, ColonIs
      <4> HIDE DEF stored, hdr1, lines
      <4> QED BY <1>1, <2>5, <4>2, <4>3 DEF Header
    <3> QED BY <3>1, <3>2
  <2> HIDE DEF hdr1, r1, r2, lines, line, done
  <2>10. r2.content = <<>> /\ r2.isContent = empty /\ r2.lines = lines /\ r2.cur = <<>>
    <3> HIDE DEF empty
    <3> QED BY <2>5, <2>8 DEF ReadStates
  <2>11. done = empty BY <2>5 DEF done
  <2>12. LikeHeader(hdr1, done, r2) BY <2>9, <2>10, <2>11 DEF LikeHeader
  <2>13. new.hdr = hdr1 /\ new.finished = done /\ new.rest = behind
    <3> HIDE DEF new
    <3> QED BY <2>1
  <2> HIDE DEF new
  <2>14. LikeHeader(new.hdr, new.finished, ReadBytes(r, piece \o Lf)) BY <2>12, <2>13 DEF r2
  <2>15. TakesBytes(new, rest, r) BY <2>3, <2>13, <2>14 DEF TakesBytes
  <2> QED BY <2>15 DEF new, rest
<1> QED BY <1>2, <1>3, <1>4

\* The loop over lines takes bytes.
LEMMA AppendLinesBytes ==
  ASSUME NEW hdr \in Header, NEW d \in Data, NEW r \in ReadStates, LikeHeader(hdr, FALSE, r)
  PROVE  TakesBytes(appendLines(hdr, d), d, r)
<1>1. PICK m \in Nat : \E g \in [0 .. m -> LineReads] : IsReading(g, m, hdr, d) BY ReadingExists
<1>2. PICK g \in [0 .. m -> LineReads] : IsReading(g, m, hdr, d) BY <1>1
<1> DEFINE Good(x) == TakesBytes(x, d, r)
           S == {k \in 0 .. m : Good(g[k])}
<1>3. 0 \in S
  <2> DEFINE x == [hdr |-> hdr, finished |-> FALSE, rest |-> d]
  <2>1. g[0] = x /\ x.finished = FALSE /\ x.hdr = hdr /\ x.rest = d BY <1>2 DEF IsReading
  <2> HIDE DEF x
  <2>2. <<>> \in Data /\ <<>> \o d = d /\ ReadBytes(r, <<>>) = r BY NoneIn, ReadOne
  <2>3. Good(x) BY <2>1, <2>2 DEF TakesBytes
  <2> QED BY <2>1, <2>3
<1>4. ASSUME NEW k \in 1 .. m, k - 1 \in S PROVE k \in S
  <2> DEFINE x == g[k - 1]
             y == NextLine(x)
  <2>1. k - 1 \in 0 .. m /\ k \in 0 .. m OBVIOUS
  <2>2. x \in LineReads /\ g[k] = y /\ Good(x) BY <1>2, <1>4, <2>1 DEF IsReading
  <2>3. PICK c \in Data : d = c \o x.rest /\ LikeHeader(x.hdr, x.finished, ReadBytes(r, c))
    BY <2>2 DEF TakesBytes
  <2> HIDE DEF x
  <2>4. CASE x.finished
    <3>1. y = x BY <2>4 DEF NextLine
    <3> HIDE DEF y
    <3> QED BY <2>1, <2>2, <3>1
  <2>5. CASE ~x.finished
    <3> DEFINE r1 == ReadBytes(r, c)
    <3>1. r1 \in ReadStates /\ LikeHeader(x.hdr, FALSE, r1)
      <4>1. x.finished = FALSE BY <2>2, <2>5 DEF LineReads
      <4> QED BY <2>3, <4>1, ReadBytesIn
    <3>2. PICK c1 \in Data : x.rest = c1 \o y.rest /\ LikeHeader(y.hdr, y.finished, ReadBytes(r1, c1))
      <4> HIDE DEF r1
      <4> QED BY <2>2, <2>5, <3>1, NextLineBytes DEF TakesBytes
    <3>3. y.rest \in Data
      <4>1. y \in LineReads BY <2>2, NextLineIn
      <4> QED BY <4>1 DEF LineReads
    <3> HIDE DEF y
    <3>4. ReadBytes(r, c \o c1) = ReadBytes(r1, c1) BY ReadJoined
    <3>5. c \o c1 \in Data BY JoinIn
    <3>6. (c \o c1) \o y.rest = c \o (c1 \o y.rest)
      <4> DEFINE b == y.rest
      <4>1. b \in Data BY <3>3
      <4> HIDE DEF b
      <4>2. (c \o c1) \o b = c \o (c1 \o b) BY <4>1, Joins
      <4> QED BY <4>2 DEF b
    <3> HIDE DEF r1
    <3>7. Good(y) BY <2>3, <3>2, <3>4, <3>5, <3>6 DEF TakesBytes
    <3> QED BY <2>1, <2>2, <3>7
  <2> QED BY <2>4, <2>5
<1>5. m \in S
  <2> HIDE DEF S
  <2>1. \A k \in 0 .. m : k \in S BY <1>3, <1>4, UpTo
  <2> QED BY <2>1
<1> QED BY <1>2, <1>5 DEF IsReading

\* A part that takes data is as it is byte by byte.
LEMMA PartTakes ==
  ASSUME NEW p \in Part, NEW r \in ReadStates, LikePart(p, r), NEW d \in Data
  PROVE  LikePart(cpart_appendData(p, d), ReadBytes(r, d))
<1> DEFINE new == cpart_appendData(p, d)
           r1 == ReadBytes(r, d)
<1>1. r.content \in Data /\ p.hdr \in Header /\ p.content \in Data BY DEF ReadStates, Part
<1>2. CASE p.isContent
  <2> DEFINE content == p.content \o d
  <2>1. new = [p EXCEPT !.content = content] BY <1>2 DEF cpart_appendData
  <2>2. r.isContent /\ p.content = r.content /\ p.hdr.lines = r.lines
        /\ p.name = FieldName(Disposition(r)) /\ p.fileName = FileName(Disposition(r))
    BY <1>2 DEF LikePart
  <2>3. r1 = [r EXCEPT !.content = content] BY <2>2, ReadContent
  <2> HIDE DEF new, r1, content
  <2>4. /\ new.isContent /\ new.content = content /\ new.hdr = p.hdr /\ new.name = p.name
        /\ new.fileName = p.fileName
    BY <1>2, <2>1 DEF Part
  <2>5. r1.isContent /\ r1.content = content /\ r1.lines = r.lines BY <2>2, <2>3 DEF ReadStates
  <2>6. Disposition(r1) = Disposition(r) BY <2>5 DEF Disposition, getHeaderVal
  <2>7. LikePart(new, r1) BY <2>2, <2>4, <2>5, <2>6 DEF LikePart
  <2> QED BY <2>7 DEF new, r1
<1>3. CASE ~p.isContent
  <2> DEFINE read == appendLines(p.hdr, d)
             hdr == read.hdr
             rest == read.rest
  <2>1. LikeHeader(p.hdr, FALSE, r) BY <1>3 DEF LikePart
  <2>2. TakesBytes(read, d, r) BY <1>1, <2>1, AppendLinesBytes
  <2>3. read \in LineReads /\ (read.finished \/ read.rest = <<>>) BY <1>1, AppendLinesIn, LinesEndRead
  <2>4. new = HeaderRead(p, read) BY <1>3 DEF cpart_appendData
  <2> HIDE DEF read
  <2>5. PICK c \in Data : d = c \o rest /\ LikeHeader(hdr, read.finished, ReadBytes(r, c))
    BY <2>2 DEF TakesBytes
  <2>6. hdr \in Header /\ rest \in Data /\ read.finished \in BOOLEAN BY <2>3 DEF LineReads
  <2> DEFINE r2 == ReadBytes(r, c)
  <2>7. r2 \in ReadStates BY ReadBytesIn
  <2>8. r1 = ReadBytes(r2, rest)
    <3> HIDE DEF rest
    <3> QED BY <2>5, <2>6, ReadJoined
  <2>9. CASE read.finished
    <3> DEFINE name == FieldName(Disposition(hdr))
               fileName == FileName(Disposition(hdr))
    <3>1. new = [hdr |-> hdr, isContent |-> TRUE, content |-> rest, name |-> name, fileName |-> fileName]
      BY <2>4, <2>9 DEF HeaderRead, StartContent
    <3>2. r2.isContent /\ r2.content = <<>> /\ hdr.lines = r2.lines BY <2>5, <2>9 DEF LikeHeader
    <3> HIDE DEF r2, rest, hdr, name, fileName, new
    <3>3. r1 = [r2 EXCEPT !.content = rest]
      <4>1. ReadBytes(r2, rest) = [r2 EXCEPT !.content = r2.content \o rest]
        BY <2>6, <2>7, <3>2, ReadContent
      <4>2. r2.content \o rest = rest BY <2>6, <3>2, NoneIn
      <4> QED BY <2>8, <4>1, <4>2
    <3> HIDE DEF r1
    <3>4. r1.isContent /\ r1.content = rest /\ r1.lines = hdr.lines BY <2>7, <3>2, <3>3 DEF ReadStates
    <3>5. Disposition(r1) = Disposition(hdr) BY <3>4 DEF Disposition, getHeaderVal
    <3>6. LikePart(new, r1) BY <3>1, <3>4, <3>5 DEF LikePart, name, fileName
    <3> QED BY <3>6 DEF new, r1
  <2>10. CASE ~read.finished
    <3>1. new = [p EXCEPT !.hdr = hdr] BY <2>4, <2>10 DEF HeaderRead
    <3>2. rest = <<>> BY <2>3, <2>10
    <3>3. r1 = r2 /\ read.finished = FALSE
      <4> HIDE DEF r1, r2, rest
      <4> QED BY <2>6, <2>7, <2>8, <2>10, <3>2, ReadOne
    <3> HIDE DEF r1, r2, rest, hdr, new
    <3>4. new.hdr = hdr /\ ~new.isContent BY <1>3, <3>1 DEF Part
    <3>5. LikeHeader(hdr, FALSE, r1) BY <2>5, <3>3 DEF r2
    <3>6. LikePart(new, r1) BY <3>4, <3>5 DEF LikePart
    <3> QED BY <3>6 DEF new, r1
  <2> QED BY <2>9, <2>10
<1> QED BY <1>2, <1>3

\* Nothing has been read of a new part.
LEMMA NewPartLike == NothingRead \in ReadStates /\ LikePart(cpart_new, NothingRead)
<1>1. <<>> \in Data /\ <<>> \in Seq(Data) BY NoneIn, EmptySeq
<1>2. NothingRead \in ReadStates BY <1>1 DEF NothingRead, ReadStates
<1>3. LikePart(cpart_new, NothingRead) BY DEF cpart_new, datahdr_new, NothingRead, LikePart, LikeHeader
<1> QED BY <1>2, <1>3

\* A part is seen as the reference has it.
LEMMA SeenLike ==
  ASSUME NEW p, NEW t, LikePart(p, ReadBytes(NothingRead, t)), p.isContent \in BOOLEAN
  PROVE  PartSeen(p) = ReferencePart(t)
<1> DEFINE r == ReadBytes(NothingRead, t)
           name == FieldName(Disposition(r))
           fileName == FileName(Disposition(r))
<1>1. ReferencePart(t) = Seen(r, r.lines, name, fileName) BY DEF ReferencePart
<1>2. LikePart(p, r) OBVIOUS
<1> HIDE DEF r
<1>3. CASE p.isContent
  <2>1. r.isContent /\ p.hdr.lines = r.lines /\ p.content = r.content /\ p.name = name /\ p.fileName = fileName
    BY <1>2, <1>3 DEF LikePart
  <2> HIDE DEF name, fileName
  <2> QED BY <1>1, <1>3, <2>1 DEF PartSeen, Seen
<1>4. CASE ~p.isContent
  <2>1. ~r.isContent BY <1>2, <1>4 DEF LikePart, LikeHeader
  <2> HIDE DEF name, fileName
  <2> QED BY <1>1, <1>4, <2>1 DEF PartSeen, Seen
<1> QED BY <1>3, <1>4

----------------------------------------------------------------------------
(* Delimiters, and the beginning of one at the end of what has come.         *)

\* the bytes from a place on are those of a delimiter
DelimAt(s, i) == s[i] = "cr" /\ s[i + 1] = "lf" /\ s[i + 2] = "b"

\* they are, as far as there are bytes
MatchAt(s, i) == Matches(From(s, i), 0)

\* there is no delimiter
NoDelim(s) == \A i \in 1 .. Len(s) - 2 : ~DelimAt(s, i)

\* Where the bytes of joined data are.
LEMMA JoinedAt ==
  ASSUME NEW a \in Data, NEW b \in Data
  PROVE  /\ a \o b \in Data /\ Len(a) \in Nat /\ Len(b) \in Nat /\ Len(a \o b) = Len(a) + Len(b)
         /\ \A i \in 1 .. Len(a) : (a \o b)[i] = a[i]
         /\ \A i \in 1 .. Len(b) : (a \o b)[Len(a) + i] = b[i]
<1> DEFINE c == a \o b
           m == Len(a)
           n == Len(b)
<1>1. c \in Data /\ Len(c) = m + n /\ m \in Nat /\ n \in Nat BY JoinIn, LenOf
<1>2. a \in Seq(Byte) /\ b \in Seq(Byte) BY DEF Data
<1>3. \A k \in 1 .. m + n : c[k] = IF k <= m THEN a[k] ELSE b[k - m] BY <1>2, ConcatProperties
<1> HIDE DEF c, m, n
<1>4. \A k \in 1 .. n : m + k \in 1 .. m + n /\ ~(m + k <= m) /\ (m + k) - m = k BY <1>1
<1>5. \A k \in 1 .. m : k \in 1 .. m + n /\ k <= m BY <1>1
<1>6. ASSUME NEW k \in 1 .. n PROVE c[m + k] = b[k] BY <1>3, <1>4
<1>7. \A k \in 1 .. m : c[k] = a[k] BY <1>3, <1>5
<1> QED BY <1>1, <1>6, <1>7 DEF c, m, n

\* The bytes of the delimiter.
LEMMA DelimBytes ==
  /\ Delim \in Data /\ Len(Delim) = 3
  /\ Delim[1] = "cr" /\ Delim[2] = "lf" /\ Delim[3] = "b"
<1> QED BY DelimIs DEF Delim

\* What it is to match.
LEMMA MatchesIs ==
  ASSUME NEW d \in Data
  PROVE  /\ Matches(d, 0) <=> /\ 1 <= Len(d) => d[1] = "cr"
                              /\ 2 <= Len(d) => d[2] = "lf"
                              /\ 3 <= Len(d) => d[3] = "b"
         /\ Matches(d, 1) <=> (1 <= Len(d) => d[1] = "lf") /\ (2 <= Len(d) => d[2] = "b")
         /\ Matches(d, 2) <=> (1 <= Len(d) => d[1] = "b")
<1>1. Len(d) \in Nat BY LenOf
<1> DEFINE n == Len(d)
<1>2. \A k \in 0 .. 2 : Matches(d, k) <=> \A i \in 1 .. n : k + i <= 3 => d[i] = Delim[k + i]
  BY DelimBytes DEF Matches
<1> HIDE DEF n
<1>3. Matches(d, 0) <=> (1 <= n => d[1] = "cr") /\ (2 <= n => d[2] = "lf") /\ (3 <= n => d[3] = "b")
  <2>1. ASSUME NEW i \in 1 .. n, 0 + i <= 3 PROVE i = 1 \/ i = 2 \/ i = 3 BY <1>1, <2>1 DEF n
  <2>2. 0 + 1 = 1 /\ 0 + 2 = 2 /\ 0 + 3 = 3 OBVIOUS
  <2>3. /\ 1 <= n => 1 \in 1 .. n
        /\ 2 <= n => 2 \in 1 .. n
        /\ 3 <= n => 3 \in 1 .. n
    BY <1>1 DEF n
  <2> QED BY <1>2, <2>1, <2>2, <2>3, DelimBytes
<1>4. Matches(d, 1) <=> (1 <= n => d[1] = "lf") /\ (2 <= n => d[2] = "b")
  <2>1. ASSUME NEW i \in 1 .. n, 1 + i <= 3 PROVE i = 1 \/ i = 2 BY <1>1, <2>1 DEF n
  <2>2. 1 + 1 = 2 /\ 1 + 2 = 3 OBVIOUS
  <2>3. (1 <= n => 1 \in 1 .. n) /\ (2 <= n => 2 \in 1 .. n) BY <1>1 DEF n
  <2> QED BY <1>2, <2>1, <2>2, <2>3, DelimBytes
<1>5. Matches(d, 2) <=> (1 <= n => d[1] = "b")
  <2>1. ASSUME NEW i \in 1 .. n, 2 + i <= 3 PROVE i = 1 BY <1>1, <2>1 DEF n
  <2>2. 2 + 1 = 3 OBVIOUS
  <2>3. 1 <= n => 1 \in 1 .. n BY <1>1 DEF n
  <2> QED BY <1>2, <2>1, <2>2, <2>3, DelimBytes
<1> QED BY <1>3, <1>4, <1>5 DEF n

\* What it is to match at a place.
LEMMA MatchAtIs ==
  ASSUME NEW s \in Data, NEW i \in 1 .. Len(s)
  PROVE  MatchAt(s, i) <=> /\ s[i] = "cr"
                           /\ i + 1 <= Len(s) => s[i + 1] = "lf"
                           /\ i + 2 <= Len(s) => s[i + 2] = "b"
<1> DEFINE d == From(s, i)
           n == Len(s)
<1>1. n \in Nat /\ s \in Seq(Byte) BY LenOf DEF Data
<1>2. i \in Nat /\ i > 0 /\ i <= n BY <1>1
<1>3. d \in Data /\ Len(d) = n - i + 1 /\ \A k \in 1 .. n - i + 1 : d[k] = s[i + k - 1]
  BY <1>1, <1>2, FromIs DEF Data
<1> HIDE DEF d, n
<1>4. 1 \in 1 .. n - i + 1 /\ i + 1 - 1 = i /\ 1 <= n - i + 1 BY <1>1, <1>2
<1>5. /\ 2 <= n - i + 1 <=> i + 1 <= n
      /\ i + 1 <= n => 2 \in 1 .. n - i + 1
      /\ i + 2 - 1 = i + 1
  BY <1>1, <1>2
<1>6. /\ 3 <= n - i + 1 <=> i + 2 <= n
      /\ i + 2 <= n => 3 \in 1 .. n - i + 1
      /\ i + 3 - 1 = i + 2
  BY <1>1, <1>2
<1>7. d[1] = s[i] BY <1>3, <1>4
<1>8. i + 1 <= n => d[2] = s[i + 1]
  <2> SUFFICES ASSUME i + 1 <= n PROVE d[2] = s[i + 1] OBVIOUS
  <2>1. 2 \in 1 .. n - i + 1 BY <1>5
  <2>2. d[2] = s[i + 2 - 1] BY <1>3, <2>1
  <2> QED BY <1>5, <2>2
<1>9. i + 2 <= n => d[3] = s[i + 2]
  <2> SUFFICES ASSUME i + 2 <= n PROVE d[3] = s[i + 2] OBVIOUS
  <2>1. 3 \in 1 .. n - i + 1 BY <1>6
  <2>2. d[3] = s[i + 3 - 1] BY <1>3, <2>1
  <2> QED BY <1>6, <2>2
<1>10. Matches(d, 0) <=> /\ 1 <= Len(d) => d[1] = "cr"
                         /\ 2 <= Len(d) => d[2] = "lf"
                         /\ 3 <= Len(d) => d[3] = "b"
  BY <1>3, MatchesIs
<1>11. Matches(d, 0) <=> s[i] = "cr" /\ (i + 1 <= n => s[i + 1] = "lf") /\ (i + 2 <= n => s[i + 2] = "b")
  BY <1>3, <1>4, <1>5, <1>6, <1>7, <1>8, <1>9, <1>10
<1> QED BY <1>11 DEF MatchAt, d, n

\* A piece that is the delimiter.
LEMMA DelimSub ==
  ASSUME NEW s \in Data, NEW i \in 1 .. Len(s) - 2
  PROVE  SubSeq(s, i, i + Len(Delim) - 1) = Delim <=> DelimAt(s, i)
<1> DEFINE d == SubSeq(s, i, i + 2)
<1>1. Len(s) \in Nat /\ s \in Seq(Byte) BY LenOf DEF Data
<1>2. i + Len(Delim) - 1 = i + 2 BY <1>1, DelimBytes
<1>3. i \in 1 .. Len(s) /\ i + 2 \in i .. Len(s) BY <1>1
<1>4. d \in Seq(Byte) /\ Len(d) = 3 /\ \A k \in 1 .. 3 : d[k] = s[i + k - 1]
  <2>1. (i + 2) - i + 1 = 3 /\ i \in Nat /\ i + 2 \in Nat BY <1>1
  <2>2. d \in Seq(Byte) /\ Len(d) = IF i <= i + 2 THEN (i + 2) - i + 1 ELSE 0
    BY <1>1, <1>3, SubSeqProperties, SMTT(60)
  <2>3. \A k \in 1 .. (i + 2) - i + 1 : d[k] = s[i + k - 1]
    BY <1>1, <1>3, SubSeqProperties, SMTT(60)
  <2> HIDE DEF d
  <2>4. i <= i + 2 BY <1>1
  <2> QED BY <2>1, <2>2, <2>3, <2>4
<1> HIDE DEF d
<1>5. d[1] = s[i] /\ d[2] = s[i + 1] /\ d[3] = s[i + 2]
  <2>1. i + 1 - 1 = i /\ i + 2 - 1 = i + 1 /\ i + 3 - 1 = i + 2 BY <1>1
  <2>2. 1 \in 1 .. 3 /\ 2 \in 1 .. 3 /\ 3 \in 1 .. 3 OBVIOUS
  <2>3. d[1] = s[i + 1 - 1] /\ d[2] = s[i + 2 - 1] /\ d[3] = s[i + 3 - 1] BY <1>4, <2>2
  <2> QED BY <2>1, <2>3
<1>6. d = Delim <=> d[1] = "cr" /\ d[2] = "lf" /\ d[3] = "b"
  <2>1. d = Delim => d[1] = "cr" /\ d[2] = "lf" /\ d[3] = "b" BY DelimBytes
  <2>2. ASSUME d[1] = "cr", d[2] = "lf", d[3] = "b" PROVE d = Delim
    <3>1. Delim \in Seq(Byte) BY DelimBytes DEF Data
    <3>2. \A k \in 1 .. Len(d) : k = 1 \/ k = 2 \/ k = 3 BY <1>4
    <3>3. \A k \in 1 .. Len(d) : d[k] = Delim[k] BY <2>2, <3>2, DelimBytes
    <3> QED BY <1>4, <3>1, <3>3, DelimBytes, SeqEqual
  <2> QED BY <2>1, <2>2
<1> QED BY <1>2, <1>5, <1>6 DEF DelimAt, d

\* A delimiter matches.
LEMMA DelimMatches ==
  ASSUME NEW s \in Data, NEW i \in 1 .. Len(s)
  PROVE  /\ i <= Len(s) - 2 => (MatchAt(s, i) <=> DelimAt(s, i))
<1>1. Len(s) \in Nat BY LenOf
<1>2. i <= Len(s) - 2 => i + 1 <= Len(s) /\ i + 2 <= Len(s) BY <1>1
<1> QED BY <1>2, MatchAtIs DEF DelimAt

\* No delimiter is found when there is none.
LEMMA AfterNone ==
  ASSUME NEW s \in Data, NEW from \in Nat \ {0}, \A i \in from .. Len(s) - 2 : ~DelimAt(s, i)
  PROVE  AfterDelim(s, from) = 0
<1>1. Len(s) \in Nat /\ Len(Delim) = 3 BY LenOf, DelimBytes
<1>2. ASSUME NEW i \in from .. Len(s) + 1 - Len(Delim) PROVE SubSeq(s, i, i + Len(Delim) - 1) # Delim
  <2>1. i \in from .. Len(s) - 2 /\ i \in 1 .. Len(s) - 2 BY <1>1
  <2> QED BY <2>1, DelimSub
<1> QED BY <1>2 DEF AfterDelim

\* The first delimiter is found.
LEMMA AfterFound ==
  ASSUME NEW s \in Data, NEW from \in Nat \ {0}, NEW i \in from .. Len(s) - 2, DelimAt(s, i),
         \A j \in from .. i - 1 : ~DelimAt(s, j)
  PROVE  AfterDelim(s, from) = i + 3
<1>1. Len(s) \in Nat /\ Len(Delim) = 3 BY LenOf, DelimBytes
<1> DEFINE found == {j \in from .. Len(s) + 1 - Len(Delim) : SubSeq(s, j, j + Len(Delim) - 1) = Delim}
<1>2. i \in found
  <2>1. i \in from .. Len(s) + 1 - Len(Delim) /\ i \in 1 .. Len(s) - 2 BY <1>1
  <2> QED BY <2>1, DelimSub
<1>3. ASSUME NEW j \in found PROVE j \in Int /\ i <= j
  <2>1. j \in 1 .. Len(s) - 2 /\ j >= from BY <1>1
  <2>2. DelimAt(s, j) BY <2>1, DelimSub
  <2>3. ~(j \in from .. i - 1) BY <2>2
  <2> QED BY <1>1, <2>1, <2>3
<1>4. AfterDelim(s, from) = (CHOOSE k \in found : \A j \in found : k <= j) + Len(Delim)
  BY <1>2 DEF AfterDelim
<1> HIDE DEF found
<1>5. (CHOOSE k \in found : \A j \in found : k <= j) = i
  <2> DEFINE k == CHOOSE k \in found : \A j \in found : k <= j
  <2>1. k \in found /\ \A j \in found : k <= j BY <1>2, <1>3
  <2> HIDE DEF k
  <2>2. k = i BY <1>2, <1>3, <2>1
  <2> QED BY <2>2 DEF k
<1> QED BY <1>1, <1>4, <1>5

\* What matches is what the first bytes of the data decide, as far as they go.
LEMMA MatchJoined ==
  ASSUME NEW a \in Data, NEW b \in Data
  PROVE  /\ \A i \in 1 .. Len(a) : MatchAt(a \o b, i) => MatchAt(a, i)
         /\ \A i \in 1 .. Len(b) : Len(a) + i \in 1 .. Len(a \o b)
                                   /\ (MatchAt(a \o b, Len(a) + i) <=> MatchAt(b, i))
         /\ \A i \in 1 .. Len(a) - 2 : DelimAt(a, i) => MatchAt(a \o b, i)
<1> DEFINE c == a \o b
           m == Len(a)
           n == Len(b)
<1>1. /\ c \in Data /\ m \in Nat /\ n \in Nat /\ Len(c) = m + n
      /\ \A i \in 1 .. m : c[i] = a[i]
      /\ \A i \in 1 .. n : c[m + i] = b[i]
  BY JoinedAt
<1> HIDE DEF c
<1>2. ASSUME NEW i \in 1 .. m
      PROVE  /\ MatchAt(c, i) => MatchAt(a, i)
             /\ i <= m - 2 => (DelimAt(a, i) => MatchAt(c, i))
  <2>1. i \in 1 .. Len(c) /\ c[i] = a[i] /\ i \in Nat BY <1>1
  <2>2. i + 1 <= m => i + 1 \in 1 .. m /\ i + 1 <= m + n BY <1>1
  <2>3. i + 2 <= m => i + 2 \in 1 .. m /\ i + 2 <= m + n BY <1>1
  <2>4. i + 1 <= m => c[i + 1] = a[i + 1] BY <1>1, <2>2
  <2>5. i + 2 <= m => c[i + 2] = a[i + 2] BY <1>1, <2>3
  <2>6. MatchAt(c, i) <=> /\ c[i] = "cr" /\ (i + 1 <= m + n => c[i + 1] = "lf")
                          /\ (i + 2 <= m + n => c[i + 2] = "b")
    BY <1>1, <2>1, MatchAtIs
  <2>7. MatchAt(a, i) <=> /\ a[i] = "cr" /\ (i + 1 <= m => a[i + 1] = "lf")
                          /\ (i + 2 <= m => a[i + 2] = "b")
    BY MatchAtIs
  <2>8. i <= m - 2 => i + 1 <= m /\ i + 2 <= m BY <1>1
  <2> QED BY <2>1, <2>2, <2>3, <2>4, <2>5, <2>6, <2>7, <2>8 DEF DelimAt
<1>3. ASSUME NEW i \in 1 .. n PROVE m + i \in 1 .. Len(c) /\ (MatchAt(c, m + i) <=> MatchAt(b, i))
  <2> DEFINE k == m + i
  <2>1. k \in 1 .. Len(c) /\ c[k] = b[i] /\ i \in Nat BY <1>1
  <2>2. /\ i + 1 <= n <=> k + 1 <= m + n
        /\ i + 2 <= n <=> k + 2 <= m + n
        /\ i + 1 <= n => i + 1 \in 1 .. n
        /\ i + 2 <= n => i + 2 \in 1 .. n
        /\ m + (i + 1) = k + 1 /\ m + (i + 2) = k + 2
    BY <1>1
  <2>3. i + 1 <= n => c[m + (i + 1)] = b[i + 1] BY <1>1, <2>2
  <2>4. i + 2 <= n => c[m + (i + 2)] = b[i + 2] BY <1>1, <2>2
  <2> HIDE DEF k
  <2>5. MatchAt(c, k) <=> /\ c[k] = "cr" /\ (k + 1 <= Len(c) => c[k + 1] = "lf")
                          /\ (k + 2 <= Len(c) => c[k + 2] = "b")
    <3>1. c \in Data /\ k \in 1 .. Len(c) BY <1>1, <2>1
    <3> QED BY <3>1, MatchAtIs
  <2>6. MatchAt(c, k) <=> /\ c[k] = "cr" /\ (k + 1 <= m + n => c[k + 1] = "lf")
                          /\ (k + 2 <= m + n => c[k + 2] = "b")
    <3>1. Len(c) = m + n BY <1>1
    <3> QED BY <2>5, <3>1
  <2>7. MatchAt(b, i) <=> /\ b[i] = "cr" /\ (i + 1 <= n => b[i + 1] = "lf")
                          /\ (i + 2 <= n => b[i + 2] = "b")
    BY MatchAtIs
  <2>8. MatchAt(c, k) <=> MatchAt(b, i) BY <2>1, <2>2, <2>3, <2>4, <2>6, <2>7
  <2> QED BY <2>1, <2>8 DEF k
<1>4. ASSUME NEW i \in 1 .. m - 2, DelimAt(a, i) PROVE MatchAt(c, i)
  <2>1. i \in 1 .. m /\ i <= m - 2 BY <1>1
  <2> QED BY <1>2, <1>4, <2>1
<1> QED BY <1>2, <1>3, <1>4 DEF c, m, n

\* the data without the beginning of a delimiter at its end
Taken(t, k) == SubSeq(t, 1, Len(t) - k)

\* the data ends with k bytes of a delimiter, and there is none in it; rest is what
\* there is already of the bytes behind it
Pends(t, k, rest) ==
  /\ k \in 0 .. 2 /\ k <= Len(t) /\ (rest # <<>> => k = 0)
  /\ \A i \in 1 .. Len(t) - k : ~MatchAt(t \o rest, i)
  /\ k > 0 => MatchAt(t, Len(t) - k + 1)

\* There is no delimiter in the beginning of data without one.
LEMMA NoDelimFirst ==
  ASSUME NEW a \in Data, NEW b \in Data, NoDelim(a \o b)
  PROVE  NoDelim(a)
<1> DEFINE c == a \o b
           m == Len(a)
           n == Len(b)
<1>1. /\ c \in Data /\ m \in Nat /\ n \in Nat /\ Len(c) = m + n
      /\ \A i \in 1 .. m : c[i] = a[i]
  BY JoinedAt
<1>2. \A i \in 1 .. Len(c) - 2 : ~DelimAt(c, i) BY DEF NoDelim
<1> HIDE DEF c, n, m
<1>3. ASSUME NEW i \in 1 .. m - 2 PROVE ~DelimAt(a, i)
  <2>1. i \in 1 .. Len(c) - 2 /\ i \in 1 .. m /\ i + 1 \in 1 .. m /\ i + 2 \in 1 .. m BY <1>1
  <2>2. c[i] = a[i] /\ c[i + 1] = a[i + 1] /\ c[i + 2] = a[i + 2] BY <1>1, <2>1
  <2>3. ~DelimAt(c, i) BY <1>2, <2>1
  <2> QED BY <2>2, <2>3 DEF DelimAt
<1> QED BY <1>3 DEF NoDelim, m

\* Data is what has been taken of it, and what pends.
LEMMA TakenCut ==
  ASSUME NEW t \in Data, NEW k \in 0 .. Len(t)
  PROVE  /\ Taken(t, k) \in Data /\ Len(Taken(t, k)) = Len(t) - k
         /\ From(t, Len(t) - k + 1) \in Data /\ Taken(t, k) \o From(t, Len(t) - k + 1) = t
<1>1. Len(t) \in Nat /\ t \in Seq(Byte) BY LenOf DEF Data
<1> DEFINE i == Len(t) - k
<1>2. i \in 0 .. Len(t) /\ i \in Nat BY <1>1
<1> HIDE DEF i
<1>3. SubSeq(t, 1, i) \in Data /\ Len(SubSeq(t, 1, i)) = i BY <1>1, <1>2, FirstIs DEF Data
<1>4. From(t, i + 1) \in Data BY <1>2, BehindIn
<1>5. SubSeq(t, 1, i) \o From(t, i + 1) = t BY <1>1, <1>2, CutAt
<1> QED BY <1>3, <1>4, <1>5 DEF Taken, i

\* There is no delimiter in what pends.
LEMMA PendsNoDelim ==
  ASSUME NEW t \in Data, NEW rest \in Data, NEW k, Pends(t, k, rest)
  PROVE  NoDelim(t) /\ Taken(t, k) \in Data /\ NoDelim(Taken(t, k))
<1>1. k \in 0 .. 2 /\ k <= Len(t) /\ Len(t) \in Nat BY LenOf DEF Pends
<1>2. ASSUME NEW i \in 1 .. Len(t) - 2 PROVE ~DelimAt(t, i)
  <2>1. i \in 1 .. Len(t) - k BY <1>1
  <2>2. ~MatchAt(t \o rest, i) BY <2>1 DEF Pends
  <2>3. \A j \in 1 .. Len(t) - 2 : DelimAt(t, j) => MatchAt(t \o rest, j) BY MatchJoined
  <2> QED BY <2>2, <2>3
<1>3. NoDelim(t) BY <1>2 DEF NoDelim
<1> DEFINE a == Taken(t, k)
           b == From(t, Len(t) - k + 1)
<1>4. a \in Data /\ b \in Data /\ a \o b = t
  <2>1. k \in 0 .. Len(t) BY <1>1
  <2> QED BY <2>1, TakenCut
<1> HIDE DEF a, b
<1>5. NoDelim(a \o b) BY <1>3, <1>4
<1>6. NoDelim(a) BY <1>4, <1>5, NoDelimFirst
<1> QED BY <1>3, <1>4, <1>6 DEF a

\* What pends is the beginning of a delimiter.
LEMMA TailIsFirst ==
  ASSUME NEW t \in Data, NEW k \in 1 .. 2, k <= Len(t)
  PROVE  MatchAt(t, Len(t) - k + 1) <=> From(t, Len(t) - k + 1) = SubSeq(Delim, 1, k)
<1> DEFINE i == Len(t) - k + 1
           a == From(t, i)
           b == SubSeq(Delim, 1, k)
<1>1. Len(t) \in Nat /\ t \in Seq(Byte) /\ Delim \in Seq(Byte) /\ Len(Delim) = 3 BY LenOf, DelimBytes DEF Data
<1>2. i \in Nat /\ i > 0 /\ i <= Len(t) /\ Len(t) - i + 1 = k BY <1>1
<1> HIDE DEF i
<1>3. a \in Data /\ Len(a) = k
  <2>1. a \in Seq(Byte) /\ Len(a) = IF i <= Len(t) THEN Len(t) - i + 1 ELSE 0 BY <1>1, <1>2, FromIs
  <2> QED BY <1>2, <2>1 DEF Data
<1>4. b \in Data /\ Len(b) = k /\ \A j \in 1 .. k : b[j] = Delim[j]
  <2>1. k \in 0 .. Len(Delim) BY <1>1
  <2> QED BY <1>1, <2>1, FirstIs DEF Data
<1> HIDE DEF a, b
<1>5. Matches(a, 0) <=> \A j \in 1 .. k : a[j] = Delim[j]
  <2>1. Matches(a, 0) <=> \A j \in 1 .. Len(a) : 0 + j <= Len(Delim) => a[j] = Delim[0 + j] BY DEF Matches
  <2>2. \A j \in 1 .. k : 0 + j <= 3 /\ 0 + j = j OBVIOUS
  <2> QED BY <1>1, <1>3, <2>1, <2>2
<1>6. a = b <=> \A j \in 1 .. k : a[j] = Delim[j]
  <2>1. (\A j \in 1 .. k : a[j] = Delim[j]) => a = b
    <3> SUFFICES ASSUME \A j \in 1 .. k : a[j] = Delim[j] PROVE a = b OBVIOUS
    <3>1. a \in Seq(Byte) /\ b \in Seq(Byte) BY <1>3, <1>4 DEF Data
    <3>2. \A j \in 1 .. Len(a) : a[j] = b[j] BY <1>3, <1>4
    <3> QED BY <1>3, <1>4, <3>1, <3>2, SeqEqual
  <2> QED BY <1>4, <2>1
<1> QED BY <1>5, <1>6 DEF MatchAt, a, b, i

\* A match at the end of data goes on as what is behind it.
LEMMA MatchGoesOn ==
  ASSUME NEW t \in Data, NEW d \in Data, NEW k \in 1 .. 2, k <= Len(t), MatchAt(t, Len(t) - k + 1)
  PROVE  /\ MatchAt(t \o d, Len(t) - k + 1) <=> Matches(d, k)
         /\ k = 2 => ~MatchAt(t \o d, Len(t))
<1> DEFINE s == t \o d
           m == Len(t)
           n == Len(d)
           i == m - k + 1
<1>1. /\ s \in Data /\ m \in Nat /\ n \in Nat /\ Len(s) = m + n
      /\ \A j \in 1 .. m : s[j] = t[j]
      /\ \A j \in 1 .. n : s[m + j] = d[j]
  BY JoinedAt
<1> HIDE DEF s, n
<1>2. k <= m OBVIOUS
<1>3. i \in 1 .. m /\ i \in 1 .. Len(s) /\ m \in 1 .. Len(s) BY <1>1, <1>2
<1>4. t[i] = "cr" /\ (i + 1 <= m => t[i + 1] = "lf")
  <2>1. MatchAt(t, i) OBVIOUS
  <2> HIDE DEF i
  <2> QED BY <1>3, <2>1, MatchAtIs DEF m
<1>5. MatchAt(s, i) <=> /\ s[i] = "cr" /\ (i + 1 <= Len(s) => s[i + 1] = "lf")
                        /\ (i + 2 <= Len(s) => s[i + 2] = "b")
  <2> HIDE DEF i, m
  <2> QED BY <1>1, <1>3, MatchAtIs
<1>6. s[i] = "cr"
  <2> HIDE DEF i
  <2> QED BY <1>1, <1>3, <1>4
<1>7. CASE k = 1
  <2>1. i = m /\ (1 <= n <=> i + 1 <= Len(s)) /\ (2 <= n <=> i + 2 <= Len(s)) BY <1>1, <1>7
  <2>2. (1 <= n => 1 \in 1 .. n) /\ (2 <= n => 2 \in 1 .. n) BY <1>1
  <2>3. (1 <= n => s[i + 1] = d[1]) /\ (2 <= n => s[i + 2] = d[2])
    <3> HIDE DEF i, m
    <3> QED BY <1>1, <2>1, <2>2
  <2>4. Matches(d, 1) <=> (1 <= n => d[1] = "lf") /\ (2 <= n => d[2] = "b") BY MatchesIs DEF n
  <2>5. MatchAt(s, i) <=> Matches(d, k)
    <3> HIDE DEF i, m
    <3> QED BY <1>5, <1>6, <1>7, <2>1, <2>3, <2>4
  <2> QED BY <1>7, <2>5 DEF s
<1>8. CASE k = 2
  <2>1. /\ i + 1 = m /\ i + 1 <= Len(s) /\ (1 <= n <=> i + 2 <= Len(s)) /\ i + 2 = m + 1
        /\ i + 1 \in 1 .. m
    BY <1>1, <1>2, <1>8
  <2>2. 1 <= n => 1 \in 1 .. n BY <1>1
  <2>3. /\ s[i + 1] = "lf" /\ s[m] = "lf"
        /\ 1 <= n => s[i + 2] = d[1]
    <3> HIDE DEF i, m
    <3>1. s[i + 1] = t[i + 1] BY <1>1, <2>1
    <3>2. t[i + 1] = "lf" BY <1>4, <2>1
    <3> QED BY <1>1, <2>1, <2>2, <3>1, <3>2
  <2>4. Matches(d, 2) <=> (1 <= n => d[1] = "b") BY MatchesIs DEF n
  <2>5. MatchAt(s, i) <=> Matches(d, k)
    <3> HIDE DEF i, m
    <3> QED BY <1>5, <1>6, <1>8, <2>1, <2>3, <2>4
  <2>6. ~MatchAt(s, m)
    <3> HIDE DEF i, m
    <3>1. MatchAt(s, m) => s[m] = "cr" BY <1>1, <1>3, MatchAtIs
    <3> QED BY <2>3, <3>1
  <2> QED BY <2>5, <2>6 DEF s
<1> QED BY <1>7, <1>8

\* Nothing pends, and nothing of a delimiter begins before what comes now.
LEMMA PendsNothing ==
  ASSUME NEW t \in Data, Pends(t, 0, <<>>), NEW d \in Data
  PROVE  Pends(t, 0, d)
<1>1. t \o <<>> = t /\ Len(t) \in Nat BY NoneIn, LenOf
<1>2. \A i \in 1 .. Len(t) - 0 : ~MatchAt(t, i) BY <1>1 DEF Pends
<1>3. ASSUME NEW i \in 1 .. Len(t) - 0 PROVE ~MatchAt(t \o d, i)
  <2>1. i \in 1 .. Len(t) BY <1>1
  <2> QED BY <1>2, <2>1, MatchJoined
<1> QED BY <1>1, <1>3 DEF Pends

\* What pends does not go on as a delimiter.
LEMMA PendsOver ==
  ASSUME NEW t \in Data, NEW k \in 1 .. 2, Pends(t, k, <<>>), NEW d \in Data, ~Matches(d, k)
  PROVE  /\ Pends(t, 0, d) /\ Taken(t, k) \in Data /\ SubSeq(Delim, 1, k) \in Data
         /\ Taken(t, k) \o SubSeq(Delim, 1, k) = Taken(t, 0)
<1> DEFINE m == Len(t)
<1>1. m \in Nat /\ k <= m /\ t \o <<>> = t BY NoneIn, LenOf DEF Pends
<1>2. MatchAt(t, m - k + 1) BY <1>1 DEF Pends
<1>3. ~MatchAt(t \o d, m - k + 1) /\ (k = 2 => ~MatchAt(t \o d, m))
  <2>1. k <= Len(t) /\ MatchAt(t, Len(t) - k + 1) BY <1>1, <1>2
  <2> QED BY <2>1, MatchGoesOn
<1>4. ASSUME NEW i \in 1 .. m PROVE ~MatchAt(t \o d, i)
  <2>1. i \in 1 .. m - k \/ i = m - k + 1 \/ (k = 2 /\ i = m) BY <1>1
  <2>2. CASE i \in 1 .. m - k
    <3>1. ~MatchAt(t, i) BY <1>1, <2>2 DEF Pends
    <3> QED BY <3>1, MatchJoined
  <2>3. CASE i = m - k + 1 BY <1>3, <2>3
  <2>4. CASE k = 2 /\ i = m BY <1>3, <2>4
  <2> QED BY <2>1, <2>2, <2>3, <2>4
<1>5. Pends(t, 0, d)
  <2>1. \A i \in 1 .. m - 0 : ~MatchAt(t \o d, i) BY <1>1, <1>4
  <2> QED BY <1>1, <2>1 DEF Pends
<1>6. From(t, m - k + 1) = SubSeq(Delim, 1, k)
  <2>1. k <= Len(t) /\ MatchAt(t, Len(t) - k + 1) BY <1>1, <1>2
  <2> QED BY <2>1, TailIsFirst
<1>7. /\ Taken(t, k) \in Data /\ From(t, m - k + 1) \in Data
      /\ Taken(t, k) \o From(t, m - k + 1) = t
  <2>1. k \in 0 .. Len(t) BY <1>1
  <2> QED BY <2>1, TakenCut
<1>8. Taken(t, 0) = t
  <2>1. t \in Seq(Byte) /\ Len(t) - 0 = Len(t) BY <1>1 DEF Data
  <2> QED BY <2>1, SubSeqFull DEF Taken
<1> QED BY <1>5, <1>6, <1>7, <1>8

\* What pends goes on, and more is needed.
LEMMA PendsMore ==
  ASSUME NEW t \in Data, NEW k \in 1 .. 2, Pends(t, k, <<>>), NEW d \in Data, Matches(d, k), k + Len(d) < 3
  PROVE  Pends(t \o d, k + Len(d), <<>>) /\ Taken(t \o d, k + Len(d)) = Taken(t, k)
<1> DEFINE s == t \o d
           m == Len(t)
           n == Len(d)
           j == k + n
<1>1. s \in Data /\ m \in Nat /\ n \in Nat /\ Len(s) = m + n BY JoinedAt
<1>2. k <= m /\ t \o <<>> = t /\ s \o <<>> = s BY <1>1, NoneIn DEF Pends
<1>3. MatchAt(t, m - k + 1) BY <1>1, <1>2 DEF Pends
<1>4. MatchAt(s, m - k + 1)
  <2>1. k <= Len(t) /\ MatchAt(t, Len(t) - k + 1) BY <1>2, <1>3
  <2> QED BY <2>1, MatchGoesOn
<1>5. j \in 0 .. 2 /\ j <= Len(s) /\ Len(s) - j = m - k BY <1>1, <1>2
<1>6. ASSUME NEW i \in 1 .. m - k PROVE ~MatchAt(s, i)
  <2>1. i \in 1 .. m BY <1>1
  <2>2. ~MatchAt(t, i) BY <1>2 DEF Pends
  <2> QED BY <2>1, <2>2, MatchJoined
<1>7. Pends(s, j, <<>>)
  <2> HIDE DEF s, j, m, n
  <2>1. Len(s) - j + 1 = m - k + 1 BY <1>5
  <2>2. \A i \in 1 .. Len(s) - j : ~MatchAt(s \o <<>>, i) BY <1>2, <1>5, <1>6
  <2>3. MatchAt(s, Len(s) - j + 1) BY <1>4, <2>1
  <2> QED BY <1>5, <2>2, <2>3 DEF Pends
<1>8. Taken(s, j) = Taken(t, k)
  <2>1. Taken(s, j) = SubSeq(s, 1, m - k) BY <1>5 DEF Taken
  <2> DEFINE a == Taken(t, k)
             b == From(t, Len(t) - k + 1)
  <2>2. a \in Data /\ Len(a) = m - k /\ b \in Data /\ a \o b = t
    <3>1. k \in 0 .. Len(t) BY <1>1, <1>2
    <3> QED BY <3>1, TakenCut
  <2> HIDE DEF a, b
  <2>3. s = a \o (b \o d) /\ b \o d \in Data
    <3>1. (a \o b) \o d = a \o (b \o d)
      <4>1. JoinsAs(a, b, d) BY <2>2, Joined
      <4> QED BY <4>1 DEF JoinsAs
    <3>2. b \o d \in Data BY <2>2, JoinIn
    <3> QED BY <2>2, <3>1, <3>2
  <2>4. SubSeq(a \o (b \o d), 1, Len(a)) = a
    <3>1. a \in Seq(Byte) /\ b \o d \in Seq(Byte) BY <2>2, <2>3 DEF Data
    <3> QED BY <3>1, JoinedCut
  <2>5. Taken(s, j) = a
    <3> HIDE DEF s, j
    <3> QED BY <2>1, <2>2, <2>3, <2>4
  <2> QED BY <2>5 DEF a
<1> QED BY <1>7, <1>8

\* What pends goes on to the end of the delimiter.
LEMMA PendsEnds ==
  ASSUME NEW t \in Data, NEW k \in 1 .. 2, Pends(t, k, <<>>), NEW d \in Data, Matches(d, k), k + Len(d) >= 3
  PROVE  LET a == Taken(t, k)
             rest == SubSeq(d, (3 - k) + 1, Len(d))
         IN /\ a \in Data /\ NoDelim(a) /\ rest \in Data
                /\ \E c \in Data : d = c \o rest /\ t \o c = a \o Delim
<1> DEFINE a == Taken(t, k)
           b == From(t, Len(t) - k + 1)
           p == SubSeq(Delim, 1, k)
           q == From(Delim, k + 1)
           i == 3 - k
           c == SubSeq(d, 1, i)
           rest == From(d, i + 1)
<1>1. Len(t) \in Nat /\ Len(d) \in Nat /\ k <= Len(t) /\ t \o <<>> = t BY NoneIn, LenOf DEF Pends
<1>2. MatchAt(t, Len(t) - k + 1) BY <1>1 DEF Pends
<1>3. a \in Data /\ b \in Data /\ a \o b = t
  <2>1. k \in 0 .. Len(t) BY <1>1
  <2> QED BY <2>1, TakenCut
<1>4. b = p BY <1>1, <1>2, TailIsFirst
<1>5. NoDelim(a)
  <2>1. <<>> \in Data BY NoneIn
  <2> QED BY <2>1, PendsNoDelim
<1>6. i \in 0 .. Len(d) /\ i \in Nat BY <1>1
<1>7. c \in Data /\ Len(c) = i /\ (\A j \in 1 .. i : c[j] = d[j]) /\ rest \in Data /\ c \o rest = d
  <2> HIDE DEF i
  <2>1. d \in Seq(Byte) BY DEF Data
  <2>2. c \in Seq(Byte) /\ Len(c) = i /\ \A j \in 1 .. i : c[j] = d[j] BY <1>6, <2>1, FirstIs
  <2>3. rest \in Data BY <1>6, BehindIn
  <2>4. c \o rest = d BY <1>6, <2>1, CutAt
  <2> HIDE DEF c, rest
  <2> QED BY <2>2, <2>3, <2>4 DEF Data
<1>8. k + 1 \in Nat /\ k + 1 > 0 /\ k + 1 <= 3 /\ 3 - (k + 1) + 1 = i OBVIOUS
<1>9. p \in Data /\ q \in Data /\ Len(q) = i /\ p \o q = Delim /\ \A j \in 1 .. i : q[j] = Delim[k + 1 + j - 1]
  <2>1. Delim \in Seq(Byte) /\ Len(Delim) = 3 BY DelimBytes DEF Data
  <2>2. k \in 0 .. Len(Delim) BY <2>1
  <2>3. p \in Seq(Byte) /\ p \o q = Delim BY <2>1, <2>2, FirstIs, CutAt
  <2> HIDE DEF i
  <2>4. q \in Seq(Byte) /\ Len(q) = i /\ \A j \in 1 .. i : q[j] = Delim[k + 1 + j - 1]
    <3> DEFINE e == k + 1
    <3>1. e \in Nat /\ e > 0 /\ e <= Len(Delim) /\ Len(Delim) - e + 1 = i BY <1>8, <2>1
    <3> HIDE DEF e
    <3>2. /\ From(Delim, e) \in Seq(Byte)
          /\ Len(From(Delim, e)) = IF e <= Len(Delim) THEN Len(Delim) - e + 1 ELSE 0
          /\ \A j \in 1 .. Len(Delim) - e + 1 : From(Delim, e)[j] = Delim[e + j - 1]
      BY <2>1, <3>1, FromIs
    <3>3. From(Delim, e) \in Seq(Byte) /\ Len(From(Delim, e)) = i
          /\ \A j \in 1 .. i : From(Delim, e)[j] = Delim[e + j - 1]
      BY <3>1, <3>2
    <3> QED BY <3>3 DEF e
  <2> QED BY <2>3, <2>4 DEF Data
<1>10. c = q
  <2>1. \A j \in 1 .. Len(d) : k + j <= 3 => d[j] = Delim[k + j] BY DelimBytes DEF Matches
  <2>2. ASSUME NEW j \in 1 .. i PROVE c[j] = q[j]
    <3>1. j \in 1 .. Len(d) /\ k + j <= 3 /\ k + 1 + j - 1 = k + j BY <1>6
    <3> HIDE DEF i, c, q
    <3> QED BY <1>7, <1>9, <2>1, <3>1
  <2> HIDE DEF i, c, q
  <2>3. c \in Seq(Byte) /\ q \in Seq(Byte) /\ Len(c) = Len(q) BY <1>7, <1>9 DEF Data
  <2> QED BY <1>7, <2>2, <2>3, SeqEqual
<1> HIDE DEF a, b, c, p, q, rest, i
<1>11. d = c \o rest /\ t \o c = a \o Delim
  <2>1. t = a \o p /\ c = q BY <1>3, <1>4, <1>10
  <2>2. (a \o p) \o q = a \o (p \o q)
    <3>1. a \in Data /\ p \in Data /\ q \in Data BY <1>3, <1>9
    <3> QED BY <3>1, Joins
  <2> QED BY <1>7, <1>9, <2>1, <2>2
<1>12. rest = SubSeq(d, (3 - k) + 1, Len(d)) BY DEF rest, From, i
<1> QED BY <1>3, <1>5, <1>7, <1>11, <1>12 DEF a

\* Where a delimiter begins is the first place that matches.
LEMMA PartEndIs ==
  ASSUME NEW d \in Data
  PROVE  LET e == PartEnd(d)
         IN /\ e \in 1 .. Len(d) + 1 /\ \A i \in 1 .. e - 1 : ~MatchAt(d, i)
            /\ e <= Len(d) => MatchAt(d, e)
<1> DEFINE B == {i \in 1 .. Len(d) : d[i] = "cr" /\ Matches(From(d, i), 0)}
           e == PartEnd(d)
<1>1. Len(d) \in Nat BY LenOf
<1>2. \A i \in 1 .. Len(d) : i \in B <=> MatchAt(d, i)
  <2>1. \A i \in 1 .. Len(d) : MatchAt(d, i) => d[i] = "cr" BY MatchAtIs
  <2> QED BY <2>1 DEF MatchAt
<1>3. e \in 1 .. Len(d) + 1 BY PartEndIn
<1>4. CASE B = {}
  <2>1. e = Len(d) + 1 BY <1>4 DEF PartEnd
  <2> HIDE DEF e, B
  <2>2. \A i \in 1 .. e - 1 : i \in 1 .. Len(d) BY <1>1, <2>1
  <2>3. ~(e <= Len(d)) BY <1>1, <2>1
  <2>4. \A i \in 1 .. e - 1 : ~MatchAt(d, i) BY <1>2, <1>4, <2>2
  <2> QED BY <1>3, <2>3, <2>4 DEF e
<1>5. CASE B # {}
  <2>1. B \in SUBSET (1 .. Len(d)) OBVIOUS
  <2>2. e = CHOOSE i \in B : \A j \in B : i <= j BY <1>5 DEF PartEnd
  <2> HIDE DEF B, e
  <2>3. Min(B) \in B /\ \A j \in B : Min(B) <= j BY <1>1, <1>5, <2>1, MinIn
  <2>4. \E i \in B : \A j \in B : i <= j BY <2>3
  <2>5. e \in B /\ \A j \in B : e <= j BY <2>2, <2>4
  <2>6. MatchAt(d, e) BY <1>2, <2>1, <2>5
  <2>7. ASSUME NEW i \in 1 .. e - 1 PROVE ~MatchAt(d, i)
    <3>1. i \in 1 .. Len(d) /\ ~(e <= i) BY <1>1, <1>3
    <3> QED BY <1>2, <2>5, <3>1
  <2> QED BY <1>3, <2>6, <2>7 DEF e
<1> QED BY <1>4, <1>5

\* The beginning of data that ends where another does.
LEMMA TakenBehind ==
  ASSUME NEW t \in Data, NEW c \in Data, NEW b \in Data
  PROVE  Taken(t \o (c \o b), Len(b)) = t \o c
<1> DEFINE a == t \o c
           s == t \o (c \o b)
<1>1. a \in Data /\ s = a \o b
  <2>1. (t \o c) \o b = t \o (c \o b) BY Joins
  <2> QED BY <2>1, JoinIn
<1> HIDE DEF a, s
<1>2. Len(s) = Len(a) + Len(b) /\ Len(a) \in Nat /\ Len(b) \in Nat BY <1>1, LenOf
<1>3. Len(s) - Len(b) = Len(a) BY <1>2
<1>4. SubSeq(a \o b, 1, Len(a)) = a
  <2>1. a \in Seq(Byte) /\ b \in Seq(Byte) BY <1>1 DEF Data
  <2> QED BY <2>1, JoinedCut
<1>5. Taken(s, Len(b)) = a BY <1>1, <1>3, <1>4 DEF Taken
<1> QED BY <1>5 DEF a, s

\* Content up to a delimiter, or to the beginning of one at the end of the data.
LEMMA ContentPends ==
  ASSUME NEW t \in Data, NEW d \in Data, d # <<>>, Pends(t, 0, d)
  PROVE  LET e == PartEnd(d)
             c == SubSeq(d, 1, e - 1)
             left == Len(d) + 1 - e
             rest == From(d, e + 3)
         IN /\ c \in Data /\ rest \in Data
            /\ left < 3 => /\ rest = <<>> /\ Pends(t \o d, left, <<>>) /\ Taken(t \o d, left) = t \o c
            /\ ~(left < 3) => NoDelim(t \o c) /\ d = c \o (Delim \o rest)
<1> DEFINE e == PartEnd(d)
           c == SubSeq(d, 1, e - 1)
           n == Len(d)
           m == Len(t)
           left == n + 1 - e
           b == From(d, e)
           s == t \o d
           rest == From(d, e + 3)
<1>1. /\ s \in Data /\ m \in Nat /\ n \in Nat /\ Len(s) = m + n
  BY JoinedAt
<1>2. e \in 1 .. n + 1 /\ (\A i \in 1 .. e - 1 : ~MatchAt(d, i)) /\ (e <= n => MatchAt(d, e)) BY PartEndIs
<1> HIDE DEF e
<1>3. e - 1 \in 0 .. n /\ e \in Nat /\ e - 1 \in Nat /\ (e - 1) + 1 = e /\ (e + 2) + 1 = e + 3 /\ e + 2 \in Nat
  BY <1>1, <1>2
<1>4. c \in Data /\ Len(c) = e - 1 /\ b \in Data /\ c \o b = d
  <2>1. d \in Seq(Byte) BY DEF Data
  <2> DEFINE i == e - 1
  <2>2. i \in 0 .. n /\ i \in Nat /\ i + 1 = e BY <1>3
  <2>3. SubSeq(d, 1, i) \in Data /\ Len(SubSeq(d, 1, i)) = i /\ From(d, i + 1) \in Data
        /\ SubSeq(d, 1, i) \o From(d, i + 1) = d
    <3> HIDE DEF i
    <3> QED BY <2>1, <2>2, FirstIs, CutAt, BehindIn DEF Data, n
  <2> HIDE DEF i
  <2> QED BY <2>2, <2>3 DEF i
<1>5. rest \in Data
  <2> DEFINE i == e + 2
  <2>1. i \in Nat /\ i + 1 = e + 3 BY <1>3
  <2> HIDE DEF i
  <2>2. From(d, i + 1) \in Data BY <2>1, BehindIn
  <2> QED BY <2>1, <2>2
<1> HIDE DEF c, b, n, m, s, rest
<1>6. Len(b) = left
  <2>1. Len(c \o b) = Len(c) + Len(b) /\ Len(b) \in Nat BY <1>4, LenOf
  <2> QED BY <1>1, <1>2, <1>4, <2>1 DEF n
<1>7. \A i \in 1 .. m + e - 1 : ~MatchAt(s, i)
  <2> SUFFICES ASSUME NEW i \in 1 .. m + e - 1 PROVE ~MatchAt(s, i) OBVIOUS
  <2>1. CASE i <= m
    <3>1. i \in 1 .. Len(t) - 0 BY <1>1, <1>2, <2>1 DEF m
    <3> QED BY <3>1 DEF Pends, s
  <2>2. CASE ~(i <= m)
    <3> DEFINE j == i - m
    <3>1. j \in 1 .. e - 1 /\ j \in 1 .. n /\ i = m + j BY <1>1, <1>2, <2>2
    <3>2. ~MatchAt(d, j) BY <1>2, <3>1
    <3> HIDE DEF j
    <3>3. MatchAt(t \o d, Len(t) + j) <=> MatchAt(d, j) BY <3>1, MatchJoined DEF n
    <3> QED BY <3>1, <3>2, <3>3 DEF s, m
  <2> QED BY <2>1, <2>2
<1>8. ASSUME left < 3
      PROVE  rest = <<>> /\ Pends(s, left, <<>>) /\ Taken(s, left) = t \o c
  <2>1. rest = <<>>
    <3>1. e + 3 \in Int /\ n \in Int /\ n < e + 3 BY <1>1, <1>2, <1>8
    <3>2. rest = SubSeq(d, e + 3, n) BY DEF From, n, rest
    <3> QED BY <3>1, <3>2, SubSeqEmpty
  <2>2. left \in 0 .. 2 /\ left <= Len(s) /\ Len(s) - left = m + e - 1 BY <1>1, <1>2, <1>8
  <2>3. s \o <<>> = s BY <1>1, NoneIn
  <2>4. left > 0 => MatchAt(s, Len(s) - left + 1)
    <3> SUFFICES ASSUME left > 0 PROVE MatchAt(s, Len(s) - left + 1) OBVIOUS
    <3>1. e \in 1 .. n /\ e <= n /\ Len(s) - left + 1 = m + e BY <1>1, <1>2, <2>2
    <3>2. MatchAt(d, e) BY <1>2, <3>1
    <3>3. MatchAt(t \o d, Len(t) + e) BY <3>1, <3>2, MatchJoined DEF n
    <3> HIDE DEF left
    <3> QED BY <3>1, <3>3 DEF s, m
  <2>5. Pends(s, left, <<>>)
    <3> HIDE DEF left
    <3>1. \A i \in 1 .. Len(s) - left : ~MatchAt(s \o <<>>, i) BY <1>7, <2>2, <2>3
    <3> QED BY <2>2, <2>4, <3>1 DEF Pends
  <2>6. Taken(s, left) = t \o c
    <3>1. Taken(t \o (c \o b), Len(b)) = t \o c BY <1>4, TakenBehind
    <3> HIDE DEF left
    <3> QED BY <1>4, <1>6, <3>1 DEF s
  <2> QED BY <2>1, <2>5, <2>6
<1>9. ASSUME ~(left < 3)
      PROVE  NoDelim(t \o c) /\ d = c \o (Delim \o rest)
  <2>1. NoDelim(t \o c)
    <3> DEFINE a == t \o c
    <3>1. a \in Data /\ Len(a) = m + (e - 1) /\ a \o b = s
      <4>1. a \in Data /\ Len(a) = Len(t) + Len(c) BY <1>4, JoinIn, LenOf
      <4>2. (t \o c) \o b = t \o (c \o b) BY <1>4, Joins
      <4> QED BY <1>4, <4>1, <4>2 DEF m, s
    <3> HIDE DEF a
    <3>2. ASSUME NEW i \in 1 .. Len(a) - 2 PROVE ~DelimAt(a, i)
      <4>1. i \in 1 .. m + e - 1 BY <1>1, <1>2, <3>1
      <4>2. ~MatchAt(a \o b, i) BY <1>7, <3>1, <4>1
      <4>3. \A j \in 1 .. Len(a) - 2 : DelimAt(a, j) => MatchAt(a \o b, j) BY <1>4, <3>1, MatchJoined
      <4> QED BY <4>2, <4>3
    <3>3. NoDelim(a) BY <3>2 DEF NoDelim
    <3> QED BY <3>3 DEF a
  <2>2. e \in 1 .. n /\ e <= n - 2 BY <1>1, <1>2, <1>9
  <2>3. DelimAt(d, e)
    <3>1. e <= n BY <1>1, <2>2
    <3>2. MatchAt(d, e) BY <1>2, <3>1
    <3>3. e \in 1 .. Len(d) /\ e <= Len(d) - 2 BY <2>2 DEF n
    <3> QED BY <3>2, <3>3, DelimMatches
  <2>4. SubSeq(d, e, e + Len(Delim) - 1) = Delim
    <3>1. e \in 1 .. Len(d) - 2 BY <1>1, <2>2 DEF n
    <3> QED BY <2>3, <3>1, DelimSub
  <2>5. b = Delim \o rest
    <3>1. d \in Seq(Byte) BY DEF Data
    <3>2. b = SubSeq(d, e, n) /\ rest = SubSeq(d, e + 3, n) BY DEF From, b, rest, n
    <3>3. Delim = SubSeq(d, e, e + 2)
      <4>1. e + Len(Delim) - 1 = e + 2 BY <1>3, DelimBytes
      <4> QED BY <2>4, <4>1
    <3>4. SubSeq(d, e, n) = SubSeq(d, e, e + 2) \o SubSeq(d, (e + 2) + 1, n)
      <4>1. e \in 1 .. Len(d) + 1 /\ e + 2 \in e - 1 .. Len(d) /\ n \in e + 2 .. Len(d) BY <1>1, <2>2 DEF n
      <4> QED BY <3>1, <4>1, ConcatAdjacentSubSeq
    <3> QED BY <1>3, <3>2, <3>3, <3>4
  <2> QED BY <1>4, <2>1, <2>5
<1> QED BY <1>4, <1>5, <1>8, <1>9 DEF e, c, n, s, rest

----------------------------------------------------------------------------
(* The sections of the reference, and what it finds in them.                 *)

\* Joined pieces, and one more.
LEMMA FlattenMore ==
  ASSUME NEW S, NEW n \in Nat, NEW g \in [1 .. n + 1 -> Seq(S)], NEW h, h = [i \in 1 .. n |-> g[i]]
  PROVE  FlattenSeq(g) = FlattenSeq(h) \o g[n + 1] /\ FlattenSeq(h) \in Seq(S)
<1> DEFINE D == Seq(S)
<1>1. g \in Seq(D) /\ Len(g) = n + 1
  <2> HIDE DEF D
  <2>1. n + 1 \in Nat OBVIOUS
  <2> QED BY <2>1 DEF D
<1>2. h \in Seq(D) /\ Len(h) = n /\ \A i \in 1 .. n : h[i] = g[i]
  <2> HIDE DEF D
  <2>1. \A i \in 1 .. n : i \in 1 .. n + 1 OBVIOUS
  <2>2. h \in [1 .. n -> D] BY <2>1 DEF D
  <2> QED BY <2>2
<1>3. PICK F \in [0 .. Len(g) -> Seq(S)] : IsJoined(F, g) BY <1>1, JoinsExist
<1>4. PICK G \in [0 .. Len(h) -> Seq(S)] : IsJoined(G, h) BY <1>2, JoinsExist
<1>5. /\ F[0] = <<>> /\ F[n + 1] = FlattenSeq(g) /\ \A k \in 1 .. n + 1 : F[k] = F[k - 1] \o g[k]
      /\ G[0] = <<>> /\ G[n] = FlattenSeq(h) /\ \A k \in 1 .. n : G[k] = G[k - 1] \o h[k]
  BY <1>1, <1>2, <1>3, <1>4 DEF IsJoined
<1>6. Alike(F, G, n)
  <2>1. \A k \in 1 .. n : k \in 1 .. n + 1 OBVIOUS
  <2> QED BY <1>2, <1>5, <2>1 DEF Alike
<1>7. F[n] = G[n] BY <1>6, RunsAgree
<1>8. n + 1 \in 1 .. n + 1 /\ (n + 1) - 1 = n /\ n \in 0 .. n OBVIOUS
<1>9. F[n + 1] = F[n] \o g[n + 1] BY <1>5, <1>8
<1>10. G[n] \in Seq(S) BY <1>2, <1>4, <1>8
<1> QED BY <1>5, <1>7, <1>9, <1>10

\* Pieces that show one thing, or nothing, and one more.
LEMMA FlattenSeen ==
  ASSUME NEW n \in Nat, NEW g, g = [i \in 1 .. n + 1 |-> g[i]],
         \A i \in 1 .. n + 1 : g[i] = <<>> \/ \E x : g[i] = <<x>>,
         NEW h, h = [i \in 1 .. n |-> g[i]]
  PROVE  FlattenSeq(g) = FlattenSeq(h) \o g[n + 1] /\ FlattenSeq(h) \o <<>> = FlattenSeq(h)
<1> DEFINE S == {g[i][1] : i \in 1 .. n + 1}
<1>1. ASSUME NEW i \in 1 .. n + 1 PROVE g[i] \in Seq(S)
  <2>1. CASE g[i] = <<>> BY <2>1, EmptySeq
  <2>2. ASSUME NEW x, g[i] = <<x>> PROVE g[i] \in Seq(S)
    <3>1. g[i][1] = x BY <2>2
    <3>2. x \in S BY <3>1
    <3> HIDE DEF S
    <3>3. <<x>> \in Seq(S) BY <3>2, OneByte
    <3> QED BY <2>2, <3>3
  <2> QED BY <2>1, <2>2
<1> HIDE DEF S
<1>2. g \in [1 .. n + 1 -> Seq(S)] BY <1>1
<1>3. FlattenSeq(g) = FlattenSeq(h) \o g[n + 1] /\ FlattenSeq(h) \in Seq(S) BY <1>2, FlattenMore
<1>4. FlattenSeq(h) \o <<>> = FlattenSeq(h) BY <1>3, ConcatEmptySeq
<1> QED BY <1>3, <1>4

\* Nothing or one thing is seen.
LEMMA SeenIs ==
  ASSUME NEW part, NEW lines, NEW name, NEW fileName
  PROVE  Seen(part, lines, name, fileName) = <<>> \/ \E x : Seen(part, lines, name, fileName) = <<x>>
BY DEF Seen

\* What is seen of some parts and one more.
LEMMA PartsSeenMore ==
  ASSUME NEW ps \in Seq(Part), NEW p \in Part
  PROVE  /\ PartsSeen(Append(ps, p)) = PartsSeen(ps) \o PartSeen(p)
         /\ PartsSeen(ps) \o <<>> = PartsSeen(ps)
<1> DEFINE n == Len(ps)
           qs == Append(ps, p)
           g == [i \in 1 .. n + 1 |-> PartSeen(qs[i])]
           h == [i \in 1 .. n |-> PartSeen(ps[i])]
<1>1. n \in Nat /\ Len(qs) = n + 1 /\ qs[n + 1] = p /\ \A i \in 1 .. n : qs[i] = ps[i] OBVIOUS
<1>2. PartsSeen(qs) = FlattenSeq(g) /\ PartsSeen(ps) = FlattenSeq(h) BY <1>1 DEF PartsSeen
<1> HIDE DEF qs, n
<1>3. h = [i \in 1 .. n |-> g[i]]
  <2>1. \A i \in 1 .. n : i \in 1 .. n + 1 BY <1>1
  <2> QED BY <1>1, <2>1
<1>4. \A i \in 1 .. n + 1 : g[i] = <<>> \/ \E x : g[i] = <<x>> BY SeenIs DEF PartSeen
<1>5. g[n + 1] = PartSeen(p) BY <1>1
<1>6. g = [i \in 1 .. n + 1 |-> g[i]] OBVIOUS
<1> HIDE DEF g, h
<1>7. FlattenSeq(g) = FlattenSeq(h) \o g[n + 1] /\ FlattenSeq(h) \o <<>> = FlattenSeq(h)
  BY <1>1, <1>3, <1>4, <1>6, FlattenSeen
<1> QED BY <1>2, <1>5, <1>7 DEF qs

\* what the reference sees of sections behind which a delimiter follows
RefOf(q) == FlattenSeq([i \in 1 .. Len(q) |-> ReferencePart(PartOf(q[i], FALSE))])

\* What is seen of some sections and one more.
LEMMA RefMore ==
  ASSUME NEW q \in Seq(Data), NEW a \in Data
  PROVE  /\ RefOf(Append(q, a)) = RefOf(q) \o ReferencePart(PartOf(a, FALSE))
         /\ FlattenSeq([i \in 1 .. Len(Append(q, a)) |->
                          ReferencePart(PartOf(Append(q, a)[i], i = Len(Append(q, a))))])
              = RefOf(q) \o ReferencePart(PartOf(a, TRUE))
<1> DEFINE n == Len(q)
           qs == Append(q, a)
           g == [i \in 1 .. n + 1 |-> ReferencePart(PartOf(qs[i], FALSE))]
           f == [i \in 1 .. n + 1 |-> ReferencePart(PartOf(qs[i], i = n + 1))]
           h == [i \in 1 .. n |-> ReferencePart(PartOf(q[i], FALSE))]
<1>1. n \in Nat /\ Len(qs) = n + 1 /\ qs[n + 1] = a /\ \A i \in 1 .. n : qs[i] = q[i] OBVIOUS
<1>2. RefOf(qs) = FlattenSeq(g) /\ RefOf(q) = FlattenSeq(h) BY <1>1 DEF RefOf
<1> HIDE DEF qs, n
<1>3. h = [i \in 1 .. n |-> g[i]] /\ h = [i \in 1 .. n |-> f[i]]
  <2>1. \A i \in 1 .. n : i \in 1 .. n + 1 /\ (i = n + 1) = FALSE BY <1>1
  <2> QED BY <1>1, <2>1
<1>4. \A t : ReferencePart(t) = <<>> \/ \E x : ReferencePart(t) = <<x>> BY SeenIs DEF ReferencePart
<1>5. g[n + 1] = ReferencePart(PartOf(a, FALSE)) /\ f[n + 1] = ReferencePart(PartOf(a, TRUE))
  <2>1. (n + 1 = n + 1) = TRUE /\ n + 1 \in 1 .. n + 1 BY <1>1
  <2>2. f[n + 1] = ReferencePart(PartOf(qs[n + 1], n + 1 = n + 1)) BY <2>1
  <2>3. g[n + 1] = ReferencePart(PartOf(qs[n + 1], FALSE)) BY <2>1
  <2> HIDE DEF g, f
  <2>4. f[n + 1] = ReferencePart(PartOf(a, TRUE)) BY <1>1, <2>1, <2>2
  <2> QED BY <1>1, <2>3, <2>4
<1>6. /\ g = [i \in 1 .. n + 1 |-> g[i]] /\ f = [i \in 1 .. n + 1 |-> f[i]]
      /\ \A i \in 1 .. n + 1 : g[i] = <<>> \/ \E x : g[i] = <<x>>
      /\ \A i \in 1 .. n + 1 : f[i] = <<>> \/ \E x : f[i] = <<x>>
  BY <1>4
<1>7. FlattenSeq([i \in 1 .. Len(qs) |-> ReferencePart(PartOf(qs[i], i = Len(qs)))]) = FlattenSeq(f)
  BY <1>1
<1> HIDE DEF g, f, h
<1>8. FlattenSeq(g) = FlattenSeq(h) \o g[n + 1] BY <1>1, <1>3, <1>6, FlattenSeen
<1>9. FlattenSeq(f) = FlattenSeq(h) \o f[n + 1] BY <1>1, <1>3, <1>6, FlattenSeen
<1> QED BY <1>2, <1>5, <1>7, <1>8, <1>9 DEF qs

\* What pends is what the reference leaves out.
LEMMA PendingIs ==
  ASSUME NEW t \in Data, NEW k, Pends(t, k, <<>>)
  PROVE  Pending(t) = k
<1> DEFINE S == {n \in 0 .. Len(Delim) - 1 :
                   n <= Len(t) /\ From(t, Len(t) + 1 - n) = SubSeq(Delim, 1, n)}
<1>1. /\ Len(t) \in Nat /\ t \o <<>> = t /\ k \in 0 .. 2 /\ k <= Len(t)
      /\ \A i \in 1 .. Len(t) - k : ~MatchAt(t, i)
      /\ k > 0 => MatchAt(t, Len(t) - k + 1)
  BY NoneIn, LenOf DEF Pends
<1>2. S = {n \in 0 .. 2 : n <= Len(t) /\ From(t, Len(t) + 1 - n) = SubSeq(Delim, 1, n)}
  <2>1. Len(Delim) - 1 = 2 BY DelimBytes
  <2> QED BY <2>1
<1> HIDE DEF S
<1>3. \A n \in 1 .. 2 : n <= Len(t) => (MatchAt(t, Len(t) - n + 1) <=> n \in S)
  <2> SUFFICES ASSUME NEW n \in 1 .. 2, n <= Len(t)
               PROVE  MatchAt(t, Len(t) - n + 1) <=> n \in S
    OBVIOUS
  <2>1. Len(t) - n + 1 = Len(t) + 1 - n /\ n \in 0 .. 2 BY <1>1
  <2>2. MatchAt(t, Len(t) - n + 1) <=> From(t, Len(t) - n + 1) = SubSeq(Delim, 1, n) BY TailIsFirst
  <2> QED BY <1>2, <2>1, <2>2
<1>4. 0 \in S
  <2>1. From(t, Len(t) + 1) = <<>>
    <3>1. Len(t) + 1 \in Int /\ Len(t) \in Int /\ Len(t) < Len(t) + 1 BY <1>1
    <3> QED BY <3>1, SubSeqEmpty DEF From
  <2>2. SubSeq(Delim, 1, 0) = <<>> BY DelimBytes, TakeNone
  <2>3. Len(t) + 1 - 0 = Len(t) + 1 BY <1>1
  <2>4. From(t, Len(t) + 1 - 0) = SubSeq(Delim, 1, 0) BY <2>1, <2>2, <2>3
  <2>5. 0 \in 0 .. 2 /\ 0 <= Len(t) BY <1>1
  <2> QED BY <1>2, <2>4, <2>5
<1>5. k \in S
  <2>1. CASE k = 0 BY <1>4, <2>1
  <2>2. CASE k # 0
    <3>1. k \in 1 .. 2 /\ k > 0 BY <1>1, <2>2
    <3> QED BY <1>1, <1>3, <3>1
  <2> QED BY <2>1, <2>2
<1>6. \A n \in S : k >= n
  <2> SUFFICES ASSUME NEW n \in S, n > k PROVE FALSE BY <1>1, <1>2
  <2>1. n \in 1 .. 2 /\ n <= Len(t) BY <1>1, <1>2
  <2>2. MatchAt(t, Len(t) - n + 1) BY <1>3, <2>1
  <2>3. Len(t) - n + 1 \in 1 .. Len(t) - k BY <1>1, <2>1
  <2> QED BY <1>1, <2>2, <2>3
<1>7. S \in SUBSET Int BY <1>2
<1>8. Pending(t) = Max(S) BY DEF Pending, S
<1> QED BY <1>5, <1>6, <1>7, <1>8, MaxIs

\* The delimiter behind data in which there is none is the first one.
LEMMA FirstDelim ==
  ASSUME NEW a \in Data, NEW r \in Data, NoDelim(a)
  PROVE  LET s == a \o (Delim \o r)
         IN /\ s \in Data /\ Len(a) + 1 \in 1 .. Len(s) - 2 /\ DelimAt(s, Len(a) + 1)
            /\ \A i \in 1 .. Len(a) : ~DelimAt(s, i)
            /\ SubSeq(s, 1, Len(a)) = a /\ From(s, Len(a) + 4) = r
<1> DEFINE n == Len(a)
           b == Delim \o r
           s == a \o b
<1>1. /\ b \in Data /\ n \in Nat /\ Len(b) = 3 + Len(r) /\ Len(r) \in Nat
      /\ b[1] = "cr" /\ b[2] = "lf" /\ b[3] = "b"
  <2>1. /\ b \in Data /\ Len(b) = 3 + Len(r) /\ Len(r) \in Nat
        /\ \A i \in 1 .. 3 : b[i] = Delim[i]
    <3>1. Delim \in Data /\ Len(Delim) = 3 BY DelimBytes
    <3>2. /\ b \in Data /\ Len(r) \in Nat /\ Len(b) = Len(Delim) + Len(r)
          /\ \A i \in 1 .. Len(Delim) : b[i] = Delim[i]
      BY <3>1, JoinedAt
    <3> QED BY <3>1, <3>2
  <2> HIDE DEF b
  <2>2. 1 \in 1 .. 3 /\ 2 \in 1 .. 3 /\ 3 \in 1 .. 3 OBVIOUS
  <2> QED BY <2>1, <2>2, DelimBytes, LenOf
<1> HIDE DEF b
<1>3. /\ s \in Data /\ Len(s) = n + Len(b)
      /\ \A i \in 1 .. n : s[i] = a[i]
      /\ \A i \in 1 .. Len(b) : s[n + i] = b[i]
  BY <1>1, JoinedAt
<1> HIDE DEF s
<1>4. 1 \in 1 .. Len(b) /\ 2 \in 1 .. Len(b) /\ 3 \in 1 .. Len(b) BY <1>1
<1>5. s[n + 1] = "cr" /\ s[n + 2] = "lf" /\ s[n + 3] = "b" BY <1>1, <1>3, <1>4
<1>6. n + 1 + 1 = n + 2 /\ n + 1 + 2 = n + 3 BY <1>1
<1>7. DelimAt(s, n + 1) BY <1>5, <1>6 DEF DelimAt
<1>8. ASSUME NEW i \in 1 .. n, DelimAt(s, i) PROVE FALSE
  <2>1. s[i + 1] = "lf" /\ s[i + 2] = "b" /\ s[i] = "cr" BY <1>8 DEF DelimAt
  <2>2. CASE i \in 1 .. n - 2
    <3>1. i \in 1 .. n /\ i + 1 \in 1 .. n /\ i + 2 \in 1 .. n BY <1>1, <2>2
    <3>2. DelimAt(a, i) BY <1>3, <2>1, <3>1 DEF DelimAt
    <3> QED BY <2>2, <3>2 DEF NoDelim
  <2>3. CASE i = n - 1
    <3>1. i + 2 = n + 1 BY <1>1, <2>3
    <3> QED BY <1>5, <2>1, <3>1
  <2>4. CASE i = n
    <3>1. i + 1 = n + 1 BY <2>4
    <3> QED BY <1>5, <2>1, <3>1
  <2>5. i \in 1 .. n - 2 \/ i = n - 1 \/ i = n BY <1>1
  <2> QED BY <2>2, <2>3, <2>4, <2>5
<1>9. SubSeq(s, 1, n) = a /\ From(s, n + 1) = b
  <2>1. a \in Seq(Byte) /\ b \in Seq(Byte) BY <1>1 DEF Data
  <2> QED BY <2>1, JoinedCut DEF s
<1>10. From(s, n + 4) = r
  <2>1. From(s, n + 4) \in Data /\ Len(From(s, n + 4)) = Len(r)
        /\ \A k \in 1 .. Len(r) : From(s, n + 4)[k] = s[n + 3 + k]
    <3>1. s \in Seq(Byte) /\ n + 4 \in Nat /\ n + 4 > 0 BY <1>1, <1>3 DEF Data
    <3> DEFINE e == n + 4
    <3>2. e \in Nat /\ e > 0 BY <3>1
    <3>3. Len(s) - e + 1 = Len(r) /\ (e <= Len(s) \/ (Len(r) = 0 /\ e = Len(s) + 1)) /\ Len(s) \in Nat
          /\ \A k \in 1 .. Len(r) : e + k - 1 = n + 3 + k
      BY <1>1, <1>3
    <3> HIDE DEF e
    <3>4. /\ From(s, e) \in Seq(Byte)
          /\ Len(From(s, e)) = IF e <= Len(s) THEN Len(s) - e + 1 ELSE 0
          /\ \A k \in 1 .. Len(s) - e + 1 : From(s, e)[k] = s[e + k - 1]
      BY <3>1, <3>2, FromIs
    <3>5. Len(From(s, e)) = Len(r) BY <3>2, <3>3, <3>4
    <3>6. \A k \in 1 .. Len(r) : From(s, e)[k] = s[n + 3 + k] BY <3>3, <3>4
    <3>7. From(s, e) \in Data BY <3>4 DEF Data
    <3> QED BY <3>5, <3>6, <3>7 DEF e
  <2>2. \A k \in 1 .. Len(r) : s[n + 3 + k] = r[k]
    <3> SUFFICES ASSUME NEW k \in 1 .. Len(r) PROVE s[n + 3 + k] = r[k] OBVIOUS
    <3>1. b[3 + k] = r[k]
      <4>1. \A i \in 1 .. Len(r) : (Delim \o r)[Len(Delim) + i] = r[i] BY DelimBytes, JoinedAt
      <4> QED BY <4>1, DelimBytes DEF b
    <3>2. 3 + k \in 1 .. Len(b) /\ n + (3 + k) = n + 3 + k BY <1>1
    <3> QED BY <1>3, <3>1, <3>2
  <2> DEFINE c == From(s, n + 4)
  <2>3. c \in Seq(Byte) /\ r \in Seq(Byte) /\ Len(c) = Len(r) /\ \A k \in 1 .. Len(r) : c[k] = r[k]
    BY <2>1, <2>2 DEF Data
  <2> HIDE DEF c
  <2>4. c = r BY <2>3, SeqEqual
  <2> QED BY <2>4 DEF c
<1> QED BY <1>3, <1>1, <1>7, <1>8, <1>9, <1>10 DEF s, b

\* what follows a delimiter is a section with a text
HasText(a) == a # <<>> /\ Head(a) # "hyphen" /\ IndexOf({"lf"}, a) # 0

\* Data with a line are the line and what is behind it.
LEMMA TextIs ==
  ASSUME NEW a \in Data, IndexOf({"lf"}, a) # 0
  PROVE  /\ TextOf(a) \in Data
         /\ \E line \in Data : /\ Without(line, "lf") /\ Len(line) + 1 = IndexOf({"lf"}, a)
                               /\ a = line \o (Lf \o TextOf(a)) /\ line = Before(a, IndexOf({"lf"}, a))
<1> DEFINE eol == IndexOf({"lf"}, a)
           line == Before(a, eol)
           t == From(a, eol + 1)
<1>1. line \in Data /\ Without(line, "lf") /\ t \in Data /\ a = line \o (Lf \o t) BY LineCut
<1>2. TextOf(a) = t BY DEF TextOf
<1>3. Len(line) + 1 = eol
  <2>1. "lf" \in Byte BY DEF Byte
  <2> HIDE DEF line, t, eol
  <2>2. IndexOf({"lf"}, line \o (<<"lf">> \o t)) = Len(line) + 1 BY <1>1, <2>1, FoundAt
  <2> QED BY <1>1, <2>2 DEF Lf, eol
<1> HIDE DEF line, t, eol
<1> QED BY <1>1, <1>2, <1>3 DEF eol, line

\* The line stays when there is more data.
LEMMA TextGrows ==
  ASSUME NEW a \in Data, IndexOf({"lf"}, a) # 0, NEW d \in Data
  PROVE  /\ IndexOf({"lf"}, a \o d) = IndexOf({"lf"}, a) /\ TextOf(a \o d) = TextOf(a) \o d
         /\ Before(a \o d, IndexOf({"lf"}, a)) = Before(a, IndexOf({"lf"}, a))
         /\ HasText(a) => HasText(a \o d)
<1> DEFINE t == TextOf(a)
           s == a \o d
           eol == IndexOf({"lf"}, a)
<1>1. PICK line \in Data : /\ Without(line, "lf") /\ Len(line) + 1 = eol
                           /\ a = line \o (Lf \o t) /\ line = Before(a, eol)
  BY TextIs
<1>2. t \in Data BY TextIs
<1>3. Lf \in Data /\ "lf" \in Byte BY OneIn DEF Lf, Byte
<1> HIDE DEF t, eol
<1>4. t \o d \in Data /\ Lf \o t \in Data /\ Lf \o (t \o d) \in Data BY <1>2, <1>3, JoinIn
<1>5. s = line \o (Lf \o (t \o d))
  <2>1. (line \o (Lf \o t)) \o d = line \o ((Lf \o t) \o d) BY <1>4, Joins
  <2>2. (Lf \o t) \o d = Lf \o (t \o d)
    <3>1. JoinsAs(Lf, t, d) BY <1>2, <1>3, Joined
    <3> QED BY <3>1 DEF JoinsAs
  <2> QED BY <1>1, <2>1, <2>2
<1> HIDE DEF s
<1>6. IndexOf({"lf"}, s) = Len(line) + 1 /\ SubSeq(s, 1, Len(line)) = line /\ From(s, Len(line) + 2) = t \o d
  <2> DEFINE v == t \o d
  <2>1. v \in Data /\ s = line \o (<<"lf">> \o v) BY <1>4, <1>5 DEF Lf
  <2> HIDE DEF v
  <2>2. /\ IndexOf({"lf"}, line \o (<<"lf">> \o v)) = Len(line) + 1
        /\ SubSeq(line \o (<<"lf">> \o v), 1, Len(line)) = line
        /\ From(line \o (<<"lf">> \o v), Len(line) + 2) = v
    BY <1>1, <1>3, <2>1, FoundAt
  <2> QED BY <2>1, <2>2 DEF v
<1>7. Len(line) \in Nat /\ eol = Len(line) + 1 /\ eol - 1 = Len(line) /\ eol + 1 = Len(line) + 2 /\ eol # 0
  BY <1>1, LenOf
<1>8. Before(s, eol) = line BY <1>6, <1>7 DEF Before
<1>9. TextOf(s) = t \o d BY <1>6, <1>7 DEF TextOf
<1>10. HasText(a) => HasText(s)
  <2> SUFFICES ASSUME HasText(a) PROVE HasText(s) OBVIOUS
  <2>1. Len(a) \in Nat /\ Len(a) # 0 /\ s \in Data /\ Len(s) = Len(a) + Len(d) /\ Len(d) \in Nat
        /\ \A i \in 1 .. Len(a) : s[i] = a[i]
    BY JoinedAt, LenOf DEF HasText, s
  <2>2. s # <<>> BY <2>1, LenOf
  <2>3. Head(s) = s[1] /\ Head(a) = a[1] /\ s[1] = a[1] BY <2>1
  <2> QED BY <1>6, <1>7, <2>2, <2>3 DEF HasText
<1> QED BY <1>1, <1>6, <1>7, <1>8, <1>9, <1>10 DEF s, t, eol

\* A delimiter in data that come behind others.
LEMMA DelimShift ==
  ASSUME NEW b \in Data, NEW u \in Data
  PROVE  \A j \in 1 .. Len(u) - 2 : DelimAt(b \o u, Len(b) + j) <=> DelimAt(u, j)
<1> SUFFICES ASSUME NEW j \in 1 .. Len(u) - 2
             PROVE  DelimAt(b \o u, Len(b) + j) <=> DelimAt(u, j)
  OBVIOUS
<1> DEFINE s == b \o u
<1> DEFINE m == Len(b)
           n == Len(u)
<1>1. m \in Nat /\ n \in Nat /\ \A i \in 1 .. n : s[m + i] = u[i] BY JoinedAt
<1>0. j \in 1 .. n - 2 OBVIOUS
<1> HIDE DEF s, m, n
<1>2. j \in 1 .. n /\ j + 1 \in 1 .. n /\ j + 2 \in 1 .. n BY <1>0, <1>1
<1>3. m + j + 1 = m + (j + 1) /\ m + j + 2 = m + (j + 2) BY <1>0, <1>1
<1>4. s[m + j] = u[j] /\ s[m + j + 1] = u[j + 1] /\ s[m + j + 2] = u[j + 2] BY <1>1, <1>2, <1>3
<1>5. DelimAt(s, m + j) <=> DelimAt(u, j) BY <1>4 DEF DelimAt
<1> QED BY <1>5 DEF s, m

\* Data with a line, cut behind it.
LEMMA BehindLine ==
  ASSUME NEW a \in Data, IndexOf({"lf"}, a) # 0
  PROVE  \E b \in Data : Len(b) = IndexOf({"lf"}, a) /\ a = b \o TextOf(a)
<1> DEFINE t == TextOf(a)
<1>1. PICK line \in Data : /\ Without(line, "lf") /\ Len(line) + 1 = IndexOf({"lf"}, a)
                           /\ a = line \o (Lf \o t)
  BY TextIs
<1>2. t \in Data BY TextIs
<1>3. Lf \in Data /\ Len(Lf) = 1 BY OneIn DEF Lf, Byte
<1> HIDE DEF t
<1> DEFINE b == line \o Lf
<1>4. b \in Data /\ Len(b) = Len(line) + 1
  <2>1. b \in Data /\ Len(b) = Len(line) + Len(Lf) BY <1>3, JoinIn, LenOf
  <2> QED BY <1>3, <2>1
<1>5. b \o t = line \o (Lf \o t) BY <1>2, <1>3, Joins
<1> HIDE DEF b
<1> QED BY <1>1, <1>4, <1>5 DEF t

\* A line alone is a section with an empty text.
LEMMA TextBegins ==
  ASSUME NEW a \in Data, IndexOf({"lf"}, a) # 0
  PROVE  \E b \in Data : /\ Len(b) = IndexOf({"lf"}, a) /\ IndexOf({"lf"}, b) = Len(b) /\ a = b \o TextOf(a)
                         /\ b # <<>> /\ TextOf(b) = <<>> /\ (HasText(a) => HasText(b))
                         /\ Head(b) = Head(a)
<1> DEFINE t == TextOf(a)
<1>1. PICK line \in Data : /\ Without(line, "lf") /\ Len(line) + 1 = IndexOf({"lf"}, a)
                           /\ a = line \o (Lf \o t)
  BY TextIs
<1>2. t \in Data BY TextIs
<1>3. Lf \in Data /\ Len(Lf) = 1 /\ "lf" \in Byte BY OneIn DEF Lf, Byte
<1> HIDE DEF t
<1> DEFINE b == line \o Lf
<1>4. b \in Data /\ Len(b) = Len(line) + 1 /\ Len(line) \in Nat
  <2>1. b \in Data /\ Len(b) = Len(line) + Len(Lf) /\ Len(line) \in Nat BY <1>3, JoinIn, LenOf
  <2> QED BY <1>3, <2>1
<1>5. b \o t = line \o (Lf \o t) BY <1>2, <1>3, Joins
<1>6. IndexOf({"lf"}, b) = Len(line) + 1 /\ From(b, Len(line) + 2) = <<>>
  <2>1. Lf \o <<>> = Lf /\ <<>> \in Data BY <1>3, NoneIn
  <2>2. /\ IndexOf({"lf"}, line \o (<<"lf">> \o <<>>)) = Len(line) + 1
        /\ From(line \o (<<"lf">> \o <<>>), Len(line) + 2) = <<>>
    BY <1>1, <1>3, <2>1, FoundAt
  <2>3. b = line \o (<<"lf">> \o <<>>) BY <2>1 DEF Lf
  <2> HIDE DEF b
  <2> QED BY <2>2, <2>3
<1>7. Len(line) + 1 + 1 = Len(line) + 2 /\ Len(line) + 1 # 0 BY <1>4
<1>8. TextOf(b) = <<>> BY <1>6, <1>7 DEF TextOf
<1> HIDE DEF b
<1>9. b # <<>> BY <1>4, <1>7, LenOf
<1>10. a = b \o t BY <1>1, <1>5
<1>11. Head(b) = Head(a)
  <2>1. /\ Len(a) = Len(b) + Len(t) /\ Len(t) \in Nat /\ Len(b) \in Nat /\ \A i \in 1 .. Len(b) : a[i] = b[i]
    <3>1. b \in Data /\ t \in Data BY <1>2, <1>4
    <3> QED BY <1>10, <3>1, JoinedAt
  <2>2. 1 \in 1 .. Len(b) BY <1>4
  <2>3. a[1] = b[1] BY <2>1, <2>2
  <2> QED BY <2>1, <2>2, <2>3
<1>12. HasText(a) => HasText(b) BY <1>6, <1>7, <1>9, <1>11 DEF HasText
<1> QED BY <1>1, <1>4, <1>6, <1>8, <1>9, <1>10, <1>11, <1>12 DEF t

\* A section is cut off at the delimiter behind its text.
LEMMA SectionCut ==
  ASSUME NEW a \in Data, HasText(a), NoDelim(TextOf(a)), NEW r \in Data
  PROVE  LET s == a \o (Delim \o r)
         IN /\ s \in Data /\ HasText(s) /\ IndexOf({"lf"}, s) = IndexOf({"lf"}, a)
            /\ AfterDelim(s, IndexOf({"lf"}, s) + 1) = Len(a) + 4
            /\ SubSeq(s, 1, Len(a)) = a /\ From(s, Len(a) + 4) = r
<1> DEFINE t == TextOf(a)
           d == Delim \o r
           s == a \o d
           u == t \o d
           eol == IndexOf({"lf"}, a)
<1>1. eol # 0 /\ t \in Data /\ d \in Data
  <2>1. eol # 0 BY DEF HasText
  <2>2. t \in Data BY <2>1, TextIs
  <2>3. d \in Data BY DelimBytes, JoinIn
  <2> QED BY <2>1, <2>2, <2>3
<1>2. PICK b \in Data : Len(b) = eol /\ a = b \o t BY <1>1, BehindLine
<1>3. u \in Data /\ Len(t) + 1 \in 1 .. Len(u) - 2 /\ DelimAt(u, Len(t) + 1)
      /\ \A i \in 1 .. Len(t) : ~DelimAt(u, i)
  <2> HIDE DEF t
  <2>1. NoDelim(t) BY DEF t
  <2> QED BY <1>1, <2>1, FirstDelim
<1>4. HasText(s) /\ IndexOf({"lf"}, s) = eol
  <2> HIDE DEF d
  <2> QED BY <1>1, TextGrows
<1> HIDE DEF t, eol, d
<1>5. s = b \o u
  <2>1. (b \o t) \o d = b \o (t \o d) BY <1>1, <1>2, Joins
  <2> QED BY <1>2, <2>1
<1>6. s \in Data BY <1>1, JoinIn
<1>7. Len(s) = Len(b) + Len(u) /\ Len(a) = Len(b) + Len(t) /\ Len(b) \in Nat /\ Len(u) \in Nat /\ Len(t) \in Nat
  <2> HIDE DEF u, s
  <2> QED BY <1>1, <1>2, <1>3, <1>5, LenOf
<1>8. \A j \in 1 .. Len(u) - 2 : DelimAt(s, Len(b) + j) <=> DelimAt(u, j)
  <2> HIDE DEF u, s
  <2> QED BY <1>3, <1>5, DelimShift
<1>9. (a \o Delim) \o r = s /\ Len(a \o Delim) = Len(a) + 3 /\ a \o Delim \in Data
  <2>1. Delim \in Data /\ Len(Delim) = 3 BY DelimBytes
  <2>2. (a \o Delim) \o r = a \o (Delim \o r)
    <3>1. JoinsAs(a, Delim, r) BY <2>1, Joined
    <3> QED BY <3>1 DEF JoinsAs
  <2>3. a \o Delim \in Data /\ Len(a \o Delim) = Len(a) + Len(Delim) BY <2>1, JoinIn, LenOf
  <2> QED BY <2>1, <2>2, <2>3 DEF d
<1> HIDE DEF u
<1>10. AfterDelim(s, eol + 1) = Len(a) + 4
  <2> DEFINE i == Len(b) + (Len(t) + 1)
             from == eol + 1
  <2>1. from \in Nat \ {0} /\ i \in from .. Len(s) - 2 /\ i + 3 = Len(a) + 4
    <3> HIDE DEF s
    <3>1. Len(b) = eol BY <1>2
    <3>2. Len(t) + 1 <= Len(u) - 2 BY <1>3, <1>7
    <3> QED BY <1>7, <3>1, <3>2
  <2>2. DelimAt(s, i) BY <1>3, <1>8
  <2>3. \A j \in from .. i - 1 : ~DelimAt(s, j)
    <3> SUFFICES ASSUME NEW j \in from .. i - 1 PROVE ~DelimAt(s, j) OBVIOUS
    <3> DEFINE k == j - Len(b)
    <3>1. k \in 1 .. Len(t) /\ k \in 1 .. Len(u) - 2 /\ Len(b) + k = j
      <4> HIDE DEF s
      <4>1. Len(b) = eol BY <1>2
      <4>2. Len(t) <= Len(u) - 2 BY <1>3, <1>7
      <4> QED BY <1>7, <4>1, <4>2
    <3> HIDE DEF k, s
    <3>2. ~DelimAt(u, k) BY <1>3, <3>1
    <3>3. DelimAt(s, Len(b) + k) <=> DelimAt(u, k) BY <1>8, <3>1
    <3> QED BY <3>1, <3>2, <3>3
  <2> HIDE DEF i, from, s
  <2>4. AfterDelim(s, from) = i + 3 BY <1>6, <2>1, <2>2, <2>3, AfterFound
  <2> QED BY <2>1, <2>4 DEF from
<1>11. SubSeq(s, 1, Len(a)) = a
  <2>1. a \in Seq(Byte) /\ d \in Seq(Byte) BY <1>1 DEF Data
  <2> QED BY <2>1, JoinedCut
<1>12. From(s, Len(a) + 4) = r
  <2> DEFINE c == a \o Delim
  <2>1. c \in Seq(Byte) /\ r \in Seq(Byte) /\ Len(c) + 1 = Len(a) + 4
    <3>1. Len(a) \in Nat BY LenOf
    <3> QED BY <1>9, <3>1 DEF Data
  <2> HIDE DEF c
  <2>2. From(c \o r, Len(c) + 1) = r BY <2>1, JoinedCut
  <2> HIDE DEF s
  <2> QED BY <1>9, <2>1, <2>2 DEF c
<1> QED BY <1>4, <1>6, <1>10, <1>11, <1>12 DEF s, d, eol

\* No delimiter is behind a line when there is none in the text.
LEMMA NoneBehind ==
  ASSUME NEW s \in Data, IndexOf({"lf"}, s) # 0, NoDelim(TextOf(s))
  PROVE  AfterDelim(s, IndexOf({"lf"}, s) + 1) = 0
<1> DEFINE u == TextOf(s)
           eol == IndexOf({"lf"}, s)
           from == eol + 1
<1>1. NoDelim(u) /\ u \in Data BY TextIs
<1>2. PICK b \in Data : Len(b) = eol /\ s = b \o u BY BehindLine
<1> HIDE DEF u, eol
<1> DEFINE m == Len(b)
           n == Len(u)
<1>3. m \in Nat /\ n \in Nat /\ Len(s) = m + n /\ m = eol BY <1>1, <1>2, LenOf
<1>4. \A j \in 1 .. n - 2 : DelimAt(s, m + j) <=> DelimAt(u, j) BY <1>1, <1>2, DelimShift
<1>5. \A j \in 1 .. n - 2 : ~DelimAt(u, j) BY <1>1 DEF NoDelim
<1> HIDE DEF m, n
<1>6. from \in Nat \ {0} BY <1>3
<1>7. \A i \in from .. Len(s) - 2 : ~DelimAt(s, i)
  <2> SUFFICES ASSUME NEW i \in from .. Len(s) - 2 PROVE ~DelimAt(s, i) OBVIOUS
  <2> DEFINE j == i - m
  <2>1. j \in 1 .. n - 2 /\ m + j = i BY <1>3
  <2> HIDE DEF j
  <2> QED BY <1>4, <1>5, <2>1
<1> HIDE DEF from
<1>8. AfterDelim(s, from) = 0 BY <1>6, <1>7, AfterNone
<1> QED BY <1>8 DEF from, eol

\* nothing is cut off the last section
IsLastSection(tail) == HasText(tail) => NoDelim(TextOf(tail))

\* The last section stays.
LEMMA SectionStays ==
  ASSUME NEW cut, cut.rest \in Data, IsLastSection(cut.rest)
  PROVE  NextSection(cut) = cut
<1> DEFINE s == cut.rest
           next == AfterDelim(s, IndexOf({"lf"}, s) + 1)
<1>1. CASE ~HasText(s) BY <1>1 DEF NextSection, HasText
<1>2. CASE HasText(s)
  <2>1. s \in Data /\ IndexOf({"lf"}, s) # 0 /\ NoDelim(TextOf(s)) BY <1>2 DEF IsLastSection, HasText
  <2>2. next = 0
    <3> HIDE DEF s
    <3> QED BY <2>1, NoneBehind
  <2> QED BY <2>2 DEF NextSection
<1> QED BY <1>1, <1>2

\* what the reference has cut into sections
Cuts == [sections : Seq(Data), rest : Data]

\* y is what is left of x when a section has been cut off
CutOff(x, y) ==
  \E a \in Data : /\ HasText(a) /\ NoDelim(TextOf(a)) /\ x.rest = a \o (Delim \o y.rest)
                  /\ y.sections = Append(x.sections, a)

Closed(P, s) ==
  [sections |-> <<>>, rest |-> s] \in P /\ \A x \in P, y \in Cuts : CutOff(x, y) => y \in P

\* sections can be cut off s, one after the other, until c is left
Reaches(s, c) == \A P \in SUBSET Cuts : Closed(P, s) => c \in P

\* The place behind a delimiter, if there is one.
LEMMA AfterDelimIn ==
  ASSUME NEW s \in Data, NEW from \in Nat \ {0}
  PROVE  AfterDelim(s, from) = 0 \/ AfterDelim(s, from) \in 4 .. Len(s) + 1
<1> DEFINE n == Len(s)
           D == {i \in from .. n - 2 : DelimAt(s, i)}
<1>1. n \in Nat BY LenOf
<1>2. CASE D = {} BY <1>2, AfterNone
<1>3. CASE D # {}
  <2>1. D \in SUBSET (1 .. n) BY <1>1
  <2> DEFINE i == Min(D)
  <2>2. i \in D /\ \A y \in D : i <= y
    <3> HIDE DEF D, n
    <3> QED BY <1>1, <1>3, <2>1, MinIn
  <2> HIDE DEF i
  <2>3. i \in from .. n - 2 /\ DelimAt(s, i) BY <2>2
  <2>4. \A j \in from .. i - 1 : ~DelimAt(s, j)
    <3> SUFFICES ASSUME NEW j \in from .. i - 1, DelimAt(s, j) PROVE FALSE OBVIOUS
    <3>1. j \in from .. n - 2 /\ ~(i <= j) BY <1>1, <2>3
    <3>2. j \in D BY <3>1
    <3> QED BY <2>2, <3>1, <3>2
  <2>5. AfterDelim(s, from) = i + 3 BY <2>3, <2>4, AfterFound
  <2> QED BY <1>1, <2>3, <2>5
<1> QED BY <1>2, <1>3

\* What a round of the reference cuts off.
LEMMA NextSectionIn ==
  ASSUME NEW c \in Cuts
  PROVE  NextSection(c) \in Cuts
<1> DEFINE s == c.rest
           from == IndexOf({"lf"}, s) + 1
           next == AfterDelim(s, from)
           q == c.sections
<1>1. s \in Data /\ q \in Seq(Data) BY DEF Cuts
<1>2. Len(s) \in Nat /\ from \in Nat \ {0}
  <2> HIDE DEF s
  <2>1. Len(s) \in Nat /\ IndexOf({"lf"}, s) \in 0 .. Len(s) BY <1>1, LenOf, IndexOfIs
  <2> QED BY <2>1
<1>3. NextSection(c) = c
      \/ (next # 0 /\ NextSection(c) = [sections |-> Append(q, SubSeq(s, 1, next - 1 - Len(Delim))),
                                        rest |-> From(s, next)])
  BY DEF NextSection
<1>4. next = 0 \/ next \in 4 .. Len(s) + 1
  <2> HIDE DEF s, from
  <2> QED BY <1>1, <1>2, AfterDelimIn
<1>5. CASE next # 0
  <2> DEFINE i == next - 1
             j == next - 1 - Len(Delim)
  <2>1. i \in Nat /\ next = i + 1 /\ j \in 0 .. Len(s) BY <1>2, <1>4, <1>5, DelimBytes
  <2> DEFINE a == SubSeq(s, 1, j)
             b == From(s, next)
  <2>2. b \in Data
    <3> HIDE DEF s, i, next
    <3> QED BY <1>1, <2>1, BehindIn
  <2>3. a \in Data
    <3> HIDE DEF s, j
    <3> QED BY <1>1, <2>1, FirstIs DEF Data
  <2>4. NextSection(c) = c \/ NextSection(c) = [sections |-> Append(q, a), rest |-> b] BY <1>3
  <2> HIDE DEF a, b, q
  <2>5. Append(q, a) \in Seq(Data) BY <1>1, <2>3, AppendProperties
  <2> QED BY <2>2, <2>4, <2>5 DEF Cuts
<1>6. CASE next = 0 BY <1>3, <1>6
<1> QED BY <1>5, <1>6

\* A section that can be cut off is.
LEMMA NextCutOff ==
  ASSUME NEW x \in Cuts, NEW y \in Cuts, CutOff(x, y)
  PROVE  /\ NextSection(x) = y /\ Len(y.sections) = Len(x.sections) + 1
         /\ LineEnds(y.rest) \in Nat /\ LineEnds(x.rest) \in Nat /\ LineEnds(y.rest) < LineEnds(x.rest)
<1> DEFINE s == x.rest
           r == y.rest
           q == x.sections
           eol == IndexOf({"lf"}, s)
<1>1. s \in Data /\ r \in Data /\ q \in Seq(Data) BY DEF Cuts
<1>2. PICK a \in Data : HasText(a) /\ NoDelim(TextOf(a)) /\ s = a \o (Delim \o r) /\ y.sections = Append(q, a)
  BY DEF CutOff
<1>3. y = [sections |-> Append(q, a), rest |-> r] BY <1>2 DEF Cuts
<1>4. /\ HasText(s) /\ eol = IndexOf({"lf"}, a) /\ AfterDelim(s, eol + 1) = Len(a) + 4
      /\ SubSeq(s, 1, Len(a)) = a /\ From(s, Len(a) + 4) = r
  <2> HIDE DEF s, r
  <2> QED BY <1>1, <1>2, SectionCut
<1>5. Len(a) \in Nat /\ Len(a) + 4 # 0 /\ Len(a) + 4 - 1 - Len(Delim) = Len(a) BY LenOf, DelimBytes
<1>6. NextSection(x) = [sections |-> Append(q, SubSeq(s, 1, Len(a) + 4 - 1 - Len(Delim))),
                        rest |-> From(s, Len(a) + 4)]
  <2> DEFINE next == AfterDelim(s, eol + 1)
             new == [sections |-> Append(q, SubSeq(s, 1, next - 1 - Len(Delim))), rest |-> From(s, next)]
  <2>1. NextSection(x) = IF s = <<>> \/ Head(s) = "hyphen" \/ eol = 0 \/ next = 0 THEN x ELSE new
    BY DEF NextSection
  <2>2. ~(s = <<>> \/ Head(s) = "hyphen" \/ eol = 0) BY <1>4 DEF HasText
  <2>3. next = Len(a) + 4 BY <1>4
  <2> HIDE DEF next, s, eol
  <2>4. NextSection(x) = new BY <1>5, <2>1, <2>2, <2>3
  <2> QED BY <2>3, <2>4
<1>7. NextSection(x) = y BY <1>3, <1>4, <1>5, <1>6
<1>8. Len(Append(q, a)) = Len(q) + 1
  <2> HIDE DEF q
  <2> QED BY <1>1, AppendProperties
<1>9. eol \in 1 .. Len(a) /\ Len(a) <= Len(s) /\ s[eol] = "lf"
  <2>1. eol # 0 /\ Len(s) = Len(a) + Len(Delim \o r)
    <3> HIDE DEF s, r
    <3>1. Delim \o r \in Data BY <1>1, DelimBytes, JoinIn
    <3> QED BY <1>2, <1>4, <3>1, LenOf DEF HasText
  <2>2. Delim \o r \in Data /\ Len(Delim \o r) \in Nat BY <1>1, DelimBytes, JoinIn, LenOf
  <2>3. IndexOf({"lf"}, a) \in 0 .. Len(a) BY IndexOfIs
  <2>4. s[IndexOf({"lf"}, s)] \in {"lf"}
    <3> HIDE DEF s
    <3> QED BY <1>1, <2>1, IndexOfIs
  <2> HIDE DEF s, r
  <2> QED BY <1>4, <1>5, <2>1, <2>2, <2>3, <2>4
<1>10. LineEnds(r) \in Nat /\ LineEnds(s) \in Nat /\ LineEnds(r) < LineEnds(s)
  <2> DEFINE i == Len(a) + 4
  <2>1. i \in Nat /\ i > 0 /\ eol \in 1 .. Len(s) /\ eol < i
    <3>1. Len(s) \in Nat BY <1>1, LenOf
    <3> HIDE DEF s, eol
    <3> QED BY <1>5, <1>9, <3>1
  <2>2. r = From(s, i) BY <1>4
  <2> HIDE DEF i, s, eol, r
  <2>3. /\ LineEnds(From(s, i)) \in Nat /\ LineEnds(s) \in Nat
        /\ \A j \in 1 .. Len(s) : j < i /\ s[j] = "lf" => LineEnds(From(s, i)) < LineEnds(s)
    BY <1>1, <2>1, LineEndsBehind
  <2> QED BY <1>9, <2>1, <2>2, <2>3
<1> QED BY <1>2, <1>7, <1>8, <1>10

\* At first nothing is cut off; one section more can be; and all can be when more data come behind.
LEMMA ReachesMore ==
  ASSUME NEW s \in Data
  PROVE  /\ Reaches(s, [sections |-> <<>>, rest |-> s])
         /\ \A x, y \in Cuts : Reaches(s, x) /\ CutOff(x, y) => Reaches(s, y)
         /\ \A x \in Cuts, d \in Data :
              Reaches(s, x) => Reaches(s \o d, [sections |-> x.sections, rest |-> x.rest \o d])
<1>1. Reaches(s, [sections |-> <<>>, rest |-> s]) BY DEF Reaches, Closed
<1>2. \A x, y \in Cuts : Reaches(s, x) /\ CutOff(x, y) => Reaches(s, y) BY DEF Reaches, Closed
<1>3. ASSUME NEW x \in Cuts, NEW d \in Data, Reaches(s, x)
      PROVE  Reaches(s \o d, [sections |-> x.sections, rest |-> x.rest \o d])
  <2> DEFINE More(c) == [sections |-> c.sections, rest |-> c.rest \o d]
  <2> SUFFICES ASSUME NEW P \in SUBSET Cuts, Closed(P, s \o d) PROVE More(x) \in P BY DEF Reaches
  <2> DEFINE Q == {c \in Cuts : More(c) \in P}
  <2>1. \A c \in Cuts : More(c) \in Cuts /\ More(c).sections = c.sections /\ More(c).rest = c.rest \o d
    BY JoinIn DEF Cuts
  <2>2. [sections |-> <<>>, rest |-> s] \in Q
    <3> DEFINE c == [sections |-> <<>>, rest |-> s]
    <3>1. c \in Cuts /\ More(c) = [sections |-> <<>>, rest |-> s \o d] BY EmptySeq DEF Cuts
    <3>2. More(c) \in P BY <3>1 DEF Closed
    <3> QED BY <3>1, <3>2
  <2>3. ASSUME NEW c \in Q, NEW y \in Cuts, CutOff(c, y) PROVE y \in Q
    <3>1. PICK a \in Data : /\ HasText(a) /\ NoDelim(TextOf(a)) /\ c.rest = a \o (Delim \o y.rest)
                            /\ y.sections = Append(c.sections, a)
      BY <2>3 DEF CutOff
    <3>2. c \in Cuts /\ More(c) \in P OBVIOUS
    <3>3. c.rest \o d = a \o (Delim \o (y.rest \o d))
      <4> DEFINE r == y.rest
      <4>1. r \in Data /\ Delim \in Data BY DelimBytes DEF Cuts
      <4> HIDE DEF r
      <4>2. Delim \o r \in Data BY <4>1, JoinIn
      <4>3. (a \o (Delim \o r)) \o d = a \o ((Delim \o r) \o d)
        <5>1. JoinsAs(a, Delim \o r, d) BY <4>2, Joined
        <5> QED BY <5>1 DEF JoinsAs
      <4>4. (Delim \o r) \o d = Delim \o (r \o d)
        <5>1. JoinsAs(Delim, r, d) BY <4>1, Joined
        <5> QED BY <5>1 DEF JoinsAs
      <4>5. c.rest = a \o (Delim \o r) BY <3>1 DEF r
      <4>6. c.rest \o d = a \o (Delim \o (r \o d)) BY <4>3, <4>4, <4>5
      <4> QED BY <4>6 DEF r
    <3>4. More(c).rest = c.rest \o d /\ More(c).sections = c.sections /\ More(y) \in Cuts
          /\ More(y).rest = y.rest \o d /\ More(y).sections = y.sections
      BY <2>1, <3>2
    <3> HIDE DEF More
    <3>5. CutOff(More(c), More(y)) BY <3>1, <3>3, <3>4 DEF CutOff
    <3>6. More(y) \in P BY <3>2, <3>4, <3>5 DEF Closed
    <3> QED BY <3>6
  <2>4. Closed(Q, s) /\ Q \in SUBSET Cuts
    <3> HIDE DEF More
    <3>1. Q \in SUBSET Cuts OBVIOUS
    <3> HIDE DEF Q
    <3> QED BY <2>2, <2>3, <3>1 DEF Closed
  <2>5. x \in Q BY <1>3, <2>4 DEF Reaches
  <2> QED BY <2>5
<1> QED BY <1>1, <1>2, <1>3

\* A loop of the reference and its rounds.
LEMMA CuttingExists ==
  ASSUME NEW s \in Data
  PROVE  \E g \in [0 .. LineEnds(s) -> Cuts] :
           /\ g[0] = [sections |-> <<>>, rest |-> s]
           /\ \A k \in 1 .. LineEnds(s) : g[k] = NextSection(g[k - 1])
           /\ Sections(s) = Append(g[LineEnds(s)].sections, g[LineEnds(s)].rest)
<1> DEFINE n == LineEnds(s)
           x == [sections |-> <<>>, rest |-> s]
           step == [c \in Cuts |-> NextSection(c)]
           Loop(h) == [k \in 0 .. n |-> IF k = 0 THEN x ELSE NextSection(h[k - 1])]
           h == CHOOSE h : h = Loop(h)
<1>1. Sections(s) = Append(h[n].sections, h[n].rest) BY DEF Sections, Repeated
<1>2. n \in Nat BY LineEndsIn
<1>3. x \in Cuts BY EmptySeq DEF Cuts
<1>4. step \in [Cuts -> Cuts] /\ \A c \in Cuts : step[c] = NextSection(c) BY NextSectionIn
<1> HIDE DEF x, step, n
<1>5. PICK g \in [0 .. n -> Cuts] : IsLoop(g, n, x, step) BY <1>2, <1>3, <1>4, LoopExists
<1>6. g[0] = x /\ \A k \in 1 .. n : g[k] = NextSection(g[k - 1]) BY <1>2, <1>4, <1>5 DEF IsLoop
<1>7. g = Loop(g) BY <1>2, <1>6
<1>8. h = Loop(h)
  <2> HIDE DEF Loop
  <2> QED BY <1>7
<1>9. g[n] = h[n]
  <2> HIDE DEF h
  <2> DEFINE S == {k \in 0 .. n : g[k] = h[k]}
  <2>1. 0 \in S BY <1>2, <1>6, <1>8
  <2>2. \A k \in 1 .. n : k - 1 \in S => k \in S BY <1>2, <1>6, <1>8
  <2>3. n \in S
    <3> HIDE DEF S
    <3>1. \A k \in 0 .. n : k \in S BY <1>2, <2>1, <2>2, UpTo
    <3> QED BY <1>2, <3>1
  <2> QED BY <2>3
<1>10. Sections(s) = Append(g[n].sections, g[n].rest) BY <1>1, <1>9
<1> QED BY <1>6, <1>10 DEF n, x

\* What is left when nothing more can be cut off makes the sections.
LEMMA SectionsAre ==
  ASSUME NEW s \in Data, NEW c \in Cuts, Reaches(s, c), IsLastSection(c.rest)
  PROVE  Sections(s) = Append(c.sections, c.rest)
<1> DEFINE n == LineEnds(s)
           x0 == [sections |-> <<>>, rest |-> s]
<1>1. n \in Nat BY LineEndsIn
<1>2. PICK g \in [0 .. n -> Cuts] :
        /\ g[0] = x0 /\ \A k \in 1 .. n : g[k] = NextSection(g[k - 1])
        /\ Sections(s) = Append(g[n].sections, g[n].rest)
  BY CuttingExists
<1> DEFINE P == {x \in Cuts : /\ Len(x.sections) + LineEnds(x.rest) <= n /\ LineEnds(x.rest) \in Nat
                              /\ g[Len(x.sections)] = x}
<1>3. x0 \in P
  <2>1. x0 \in Cuts /\ Len(x0.sections) = 0 /\ x0.rest = s BY EmptySeq DEF Cuts
  <2> HIDE DEF x0
  <2> QED BY <1>1, <1>2, <2>1
<1> HIDE DEF n, x0
<1>4. ASSUME NEW x \in P, NEW y \in Cuts, CutOff(x, y) PROVE y \in P
  <2>1. x \in Cuts /\ Len(x.sections) + LineEnds(x.rest) <= n /\ g[Len(x.sections)] = x OBVIOUS
  <2>2. /\ NextSection(x) = y /\ Len(y.sections) = Len(x.sections) + 1
        /\ LineEnds(y.rest) \in Nat /\ LineEnds(x.rest) \in Nat /\ LineEnds(y.rest) < LineEnds(x.rest)
    BY <1>4, <2>1, NextCutOff
  <2>3. Len(x.sections) \in Nat
    <3>1. x.sections \in Seq(Data) BY <2>1 DEF Cuts
    <3> QED BY <3>1, LenProperties
  <2> DEFINE i == Len(x.sections)
             j == Len(y.sections)
             lx == LineEnds(x.rest)
             ly == LineEnds(y.rest)
  <2>4. i \in Nat /\ j = i + 1 /\ lx \in Nat /\ ly \in Nat /\ ly < lx /\ i + lx <= n BY <2>1, <2>2, <2>3
  <2>5. g[i] = x BY <2>1
  <2> HIDE DEF i, j, lx, ly
  <2>6. j \in 1 .. n /\ j - 1 = i /\ j + ly <= n BY <1>1, <2>4
  <2>7. g[j] = y BY <1>2, <2>2, <2>5, <2>6
  <2> QED BY <2>4, <2>6, <2>7 DEF j, ly
<1>5. c \in P
  <2> HIDE DEF P
  <2>1. P \in SUBSET Cuts BY DEF P
  <2>2. Closed(P, s) BY <1>3, <1>4 DEF Closed, x0
  <2> QED BY <2>1, <2>2 DEF Reaches
<1> DEFINE i == Len(c.sections)
<1>6. i \in 0 .. n /\ g[i] = c
  <2>1. c.sections \in Seq(Data) BY DEF Cuts
  <2>2. i \in Nat BY <2>1, LenProperties
  <2> DEFINE l == LineEnds(c.rest)
  <2>3. i + l <= n /\ l \in Nat /\ g[i] = c BY <1>5
  <2> HIDE DEF i, l, P
  <2> QED BY <1>1, <2>2, <2>3
<1>7. NextSection(c) = c
  <2>1. c.rest \in Data BY DEF Cuts
  <2> QED BY <2>1, SectionStays
<1> HIDE DEF i, P
<1> DEFINE S == {k \in 0 .. n : k >= i => g[k] = c}
<1>8. 0 \in S BY <1>1, <1>6
<1>9. ASSUME NEW k \in 1 .. n, k - 1 \in S PROVE k \in S
  <2> SUFFICES ASSUME k >= i PROVE g[k] = c BY <1>1
  <2>1. CASE k = i BY <1>6, <2>1
  <2>2. CASE k # i
    <3>1. k - 1 >= i BY <1>1, <1>6, <2>2
    <3>2. g[k - 1] = c BY <1>9, <3>1
    <3> QED BY <1>2, <1>7, <3>2
  <2> QED BY <2>1, <2>2
<1>10. g[n] = c
  <2> HIDE DEF S
  <2>1. \A k \in 0 .. n : k \in S BY <1>1, <1>8, <1>9, UpTo
  <2>2. n \in S BY <1>1, <2>1
  <2> QED BY <1>1, <1>6, <2>2 DEF S
<1> QED BY <1>2, <1>10

\* the parts of text are those of the sections q and of the last one, tail
IsCutUp(s, q, tail) ==
  \E x \in Data, r \in Data : /\ s = x \o (Delim \o r) /\ NoDelim(x)
                              /\ Reaches(r, [sections |-> q, rest |-> tail])

\* What the reference sees of a body.
LEMMA ReferenceIs ==
  ASSUME NEW body \in Data
  PROVE  /\ Crlf \o body \in Data
         /\ NoDelim(Crlf \o body) => Reference(body) = <<>>
         /\ \A q \in Seq(Data), tail \in Data :
              IsCutUp(Crlf \o body, q, tail) /\ IsLastSection(tail)
                => Reference(body) = RefOf(q) \o ReferencePart(PartOf(tail, TRUE))
<1> DEFINE s == Crlf \o body
           first == AfterDelim(s, 1)
<1>1. s \in Data
  <2>1. Crlf \in Data
    <3>1. "cr" \in Byte /\ "lf" \in Byte BY DEF Byte
    <3> QED BY <3>1 DEF Crlf, Data
  <2> QED BY <2>1, JoinIn
<1>2. AllSections(body) = IF first = 0 THEN <<>> ELSE Sections(From(s, first)) BY DEF AllSections
<1>3. Reference(body) = FlattenSeq([i \in 1 .. Len(AllSections(body)) |->
                          ReferencePart(PartOf(AllSections(body)[i], i = Len(AllSections(body))))])
  BY DEF Reference
<1> HIDE DEF s
<1>4. ASSUME NoDelim(s) PROVE Reference(body) = <<>>
  <2>1. first = 0
    <3>1. 1 \in Nat \ {0} OBVIOUS
    <3>2. \A i \in 1 .. Len(s) - 2 : ~DelimAt(s, i) BY <1>4 DEF NoDelim
    <3> QED BY <1>1, <3>1, <3>2, AfterNone
  <2>2. AllSections(body) = <<>> BY <1>2, <2>1
  <2>3. Len(<<>>) = 0 /\ 1 .. 0 = {} OBVIOUS
  <2> DEFINE f == [i \in 1 .. Len(<<>>) |-> ReferencePart(PartOf(<<>>[i], i = Len(<<>>)))]
  <2>4. f = <<>> BY <2>3
  <2>5. Reference(body) = FlattenSeq(f) BY <1>3, <2>2
  <2> HIDE DEF f
  <2>6. <<>> \in Seq(Data) BY EmptySeq
  <2>7. PICK F \in [0 .. Len(<<>>) -> Data] : IsJoined(F, <<>>) BY <2>6, JoinedExists
  <2>8. FlattenSeq(<<>>) = <<>> BY <2>7 DEF IsJoined
  <2> QED BY <2>4, <2>5, <2>8
<1>5. ASSUME NEW q \in Seq(Data), NEW tail \in Data, IsCutUp(s, q, tail), IsLastSection(tail)
      PROVE  Reference(body) = RefOf(q) \o ReferencePart(PartOf(tail, TRUE))
  <2> DEFINE c == [sections |-> q, rest |-> tail]
  <2>1. PICK x \in Data, r \in Data : s = x \o (Delim \o r) /\ NoDelim(x) /\ Reaches(r, c) BY <1>5 DEF IsCutUp
  <2>2. /\ Len(x) + 1 \in 1 .. Len(s) - 2 /\ DelimAt(s, Len(x) + 1)
        /\ \A i \in 1 .. Len(x) : ~DelimAt(s, i)
        /\ From(s, Len(x) + 4) = r
    <3>1. LET u == x \o (Delim \o r)
          IN /\ u \in Data /\ Len(x) + 1 \in 1 .. Len(u) - 2 /\ DelimAt(u, Len(x) + 1)
             /\ \A i \in 1 .. Len(x) : ~DelimAt(u, i)
             /\ SubSeq(u, 1, Len(x)) = x /\ From(u, Len(x) + 4) = r
      BY <2>1, FirstDelim
    <3> QED BY <2>1, <3>1
  <2>3. first = Len(x) + 4
    <3> DEFINE i == Len(x) + 1
    <3>1. Len(x) \in Nat BY LenOf
    <3>2. 1 \in Nat \ {0} /\ i \in 1 .. Len(s) - 2 /\ DelimAt(s, i) BY <2>2
    <3>3. \A j \in 1 .. i - 1 : ~DelimAt(s, j)
      <4>1. i - 1 = Len(x) BY <3>1
      <4> QED BY <2>2, <4>1
    <3>4. i + 3 = Len(x) + 4 BY <3>1
    <3> HIDE DEF i
    <3>5. AfterDelim(s, 1) = i + 3 BY <1>1, <3>2, <3>3, AfterFound
    <3> QED BY <3>4, <3>5
  <2>4. AllSections(body) = Sections(r)
    <3>1. Len(x) \in Nat BY LenOf
    <3>2. Len(x) + 4 # 0 BY <3>1
    <3> HIDE DEF first
    <3>3. first # 0 BY <2>3, <3>2
    <3>4. From(s, first) = r BY <2>2, <2>3
    <3> QED BY <1>2, <3>3, <3>4
  <2>5. c \in Cuts /\ c.rest = tail /\ c.sections = q BY DEF Cuts
  <2>6. Sections(r) = Append(q, tail)
    <3> HIDE DEF c
    <3>1. Sections(r) = Append(c.sections, c.rest) BY <1>5, <2>1, <2>5, SectionsAre
    <3> QED BY <2>5, <3>1
  <2> DEFINE all == Append(q, tail)
  <2>7. Reference(body) = FlattenSeq([i \in 1 .. Len(all) |-> ReferencePart(PartOf(all[i], i = Len(all)))])
    BY <1>3, <2>4, <2>6
  <2> QED BY <2>7, RefMore
<1> QED BY <1>1, <1>4, <1>5 DEF s

----------------------------------------------------------------------------
(* Where the parser is in a body: before the end of the line of a delimiter, *)
(* in a text, or behind the last delimiter.                                  *)

DelimJoined(a, b, w) ==
  a \o (Delim \o b) \in Data /\ (a \o (Delim \o b)) \o w = a \o (Delim \o (b \o w))

\* A delimiter between pieces.
LEMMA DelimJoins ==
  ASSUME NEW a \in Data, NEW b \in Data, NEW w \in Data
  PROVE  DelimJoined(a, b, w)
<1> DEFINE v == Delim \o b
<1>1. Delim \in Data BY DelimBytes
<1>2. v \in Data BY <1>1, JoinIn
<1>3. v \o w = Delim \o (b \o w) BY <1>1, Joins
<1> HIDE DEF v
<1>4. (a \o v) \o w = a \o (v \o w) /\ a \o v \in Data BY <1>2, Joins, JoinIn
<1> QED BY <1>3, <1>4 DEF v, DelimJoined

\* What is cut into sections at first, when more data come, and when one more can be cut off.
LEMMA CutUpFirst ==
  ASSUME NEW x \in Data, NoDelim(x)
  PROVE  IsCutUp(x \o Delim, <<>>, <<>>)
<1>1. Reaches(<<>>, [sections |-> <<>>, rest |-> <<>>]) BY NoneIn, ReachesMore
<1>2. Delim \o <<>> = Delim BY DelimBytes, NoneIn
<1> QED BY <1>1, <1>2, NoneIn DEF IsCutUp

\* More data go to the last section.
LEMMA CutUpMore ==
  ASSUME NEW s \in Data, NEW q \in Seq(Data), NEW tail \in Data, IsCutUp(s, q, tail), NEW d \in Data
  PROVE  IsCutUp(s \o d, q, tail \o d)
<1> DEFINE c == [sections |-> q, rest |-> tail]
<1>1. PICK x \in Data, r \in Data : s = x \o (Delim \o r) /\ NoDelim(x) /\ Reaches(r, c) BY DEF IsCutUp
<1>2. c \in Cuts /\ c.sections = q /\ c.rest = tail BY DEF Cuts
<1> HIDE DEF c
<1>3. Reaches(r \o d, [sections |-> q, rest |-> tail \o d])
  <2>1. Reaches(r \o d, [sections |-> c.sections, rest |-> c.rest \o d]) BY <1>1, <1>2, ReachesMore
  <2> QED BY <1>2, <2>1
<1>4. s \o d = x \o (Delim \o (r \o d))
  <2>1. DelimJoined(x, r, d) BY DelimJoins
  <2> QED BY <1>1, <2>1 DEF DelimJoined
<1>5. r \o d \in Data BY JoinIn
<1> QED BY <1>1, <1>3, <1>4, <1>5 DEF IsCutUp

\* One section more.
LEMMA CutUpNext ==
  ASSUME NEW s \in Data, NEW q \in Seq(Data), NEW a \in Data, NEW r \in Data,
         IsCutUp(s, q, a \o (Delim \o r)), HasText(a), NoDelim(TextOf(a))
  PROVE  IsCutUp(s, Append(q, a), r)
<1> DEFINE tail == a \o (Delim \o r)
           c == [sections |-> q, rest |-> tail]
           y == [sections |-> Append(q, a), rest |-> r]
<1>1. PICK x \in Data, b \in Data : s = x \o (Delim \o b) /\ NoDelim(x) /\ Reaches(b, c) BY DEF IsCutUp
<1>2. tail \in Data
  <2>1. Delim \o r \in Data BY DelimBytes, JoinIn
  <2> QED BY <2>1, JoinIn
<1>3. Append(q, a) \in Seq(Data) BY AppendProperties
<1>4. c \in Cuts /\ c.sections = q /\ c.rest = tail
  <2> HIDE DEF tail
  <2> QED BY <1>2 DEF Cuts
<1>5. y \in Cuts /\ y.sections = Append(q, a) /\ y.rest = r BY <1>3 DEF Cuts
<1> HIDE DEF c, y
<1>6. CutOff(c, y) BY <1>4, <1>5 DEF CutOff
<1>7. Reaches(b, y) BY <1>1, <1>4, <1>5, <1>6, ReachesMore
<1> QED BY <1>1, <1>7 DEF IsCutUp, y

\* The last section is behind a delimiter.
LEMMA CutUpBehind ==
  ASSUME NEW s \in Data, NEW q \in Seq(Data), NEW tail \in Data, IsCutUp(s, q, tail)
  PROVE  \E a \in Data : s = a \o (Delim \o tail)
<1> DEFINE c == [sections |-> q, rest |-> tail]
<1>1. PICK x \in Data, r \in Data : s = x \o (Delim \o r) /\ NoDelim(x) /\ Reaches(r, c) BY DEF IsCutUp
<1>2. c \in Cuts /\ c.rest = tail BY DEF Cuts
<1> DEFINE P == {y \in Cuts : \E a \in Data : s = a \o (Delim \o y.rest)}
<1>3. [sections |-> <<>>, rest |-> r] \in P
  <2> DEFINE z == [sections |-> <<>>, rest |-> r]
  <2>1. z \in Cuts /\ z.rest = r BY EmptySeq DEF Cuts
  <2> HIDE DEF z
  <2>2. z \in P BY <1>1, <2>1
  <2> QED BY <2>2 DEF z
<1>4. ASSUME NEW y \in P, NEW z \in Cuts, CutOff(y, z) PROVE z \in P
  <2>1. PICK a \in Data : s = a \o (Delim \o y.rest) OBVIOUS
  <2>2. PICK b \in Data : y.rest = b \o (Delim \o z.rest) BY <1>4 DEF CutOff
  <2> DEFINE e == z.rest
             w == Delim \o e
  <2>3. w \in Data
    <3>1. e \in Data BY DEF Cuts
    <3> HIDE DEF e
    <3> QED BY <3>1, DelimBytes, JoinIn
  <2>4. s = a \o (Delim \o (b \o w)) BY <2>1, <2>2
  <2> HIDE DEF w, e
  <2>7. s = (a \o (Delim \o b)) \o w /\ a \o (Delim \o b) \in Data
    <3>1. DelimJoined(a, b, w) BY <2>3, DelimJoins
    <3> QED BY <2>4, <3>1 DEF DelimJoined
  <2>8. s = (a \o (Delim \o b)) \o (Delim \o z.rest) BY <2>7 DEF w, e
  <2> QED BY <2>7, <2>8
<1>5. c \in P
  <2> HIDE DEF P
  <2>1. P \in SUBSET Cuts BY DEF P
  <2>2. Closed(P, r) BY <1>3, <1>4 DEF Closed
  <2> QED BY <1>1, <2>1, <2>2 DEF Reaches
<1> QED BY <1>2, <1>5

\* in the line of a delimiter there is a hyphen only as its first byte
LinesClose(s) ==
  \A i \in 1 .. Len(s) - Len(Delim) + 1 :
    SubSeq(s, i, i + Len(Delim) - 1) = Delim
      => ClosesLast(Before(From(s, i + Len(Delim)), IndexOf({"lf"}, From(s, i + Len(Delim)))))

\* What that says of what is behind a delimiter.
LEMMA LineCloses ==
  ASSUME NEW a \in Data, NEW u \in Data, LinesClose(a \o (Delim \o u))
  PROVE  ClosesLast(Before(u, IndexOf({"lf"}, u)))
<1> DEFINE s == a \o (Delim \o u)
           n == Len(a)
           b == a \o Delim
<1>1. n \in Nat /\ Len(u) \in Nat /\ Delim \in Data /\ Len(Delim) = 3 BY LenOf, DelimBytes
<1>2. b \in Data /\ s = b \o u /\ Len(b) = n + 3 /\ Len(s) = n + 3 + Len(u)
  <2>1. b \in Data /\ Len(b) = n + Len(Delim) BY <1>1, JoinIn, LenOf
  <2>2. s = b \o u BY <1>1, Joins
  <2> HIDE DEF b, s
  <2>3. Len(s) = Len(b) + Len(u) BY <2>1, <2>2, LenOf
  <2> QED BY <1>1, <2>1, <2>2, <2>3
<1>3. From(s, n + 4) = u
  <2> HIDE DEF b
  <2>1. b \in Seq(Byte) /\ u \in Seq(Byte) BY <1>2 DEF Data
  <2>2. From(b \o u, Len(b) + 1) = u BY <2>1, JoinedCut
  <2>3. Len(b) + 1 = n + 4 BY <1>1, <1>2
  <2> HIDE DEF s
  <2> QED BY <1>2, <2>2, <2>3
<1>4. SubSeq(s, n + 1, n + 1 + Len(Delim) - 1) = Delim
  <2> DEFINE i == n + 1
  <2>1. i \in 1 .. Len(s) - 2
    <3> HIDE DEF s
    <3> QED BY <1>1, <1>2
  <2>2. DelimAt(s, i)
    <3> HIDE DEF n
    <3>1. /\ \A j \in 1 .. 3 : (Delim \o u)[j] = Delim[j]
          /\ \A j \in 1 .. Len(Delim \o u) : (a \o (Delim \o u))[Len(a) + j] = (Delim \o u)[j]
          /\ Len(Delim \o u) = 3 + Len(u)
      <4>1. /\ Delim \o u \in Data /\ Len(Delim \o u) = Len(Delim) + Len(u)
            /\ \A j \in 1 .. Len(Delim) : (Delim \o u)[j] = Delim[j]
        BY <1>1, JoinedAt
      <4>2. \A j \in 1 .. Len(Delim \o u) : (a \o (Delim \o u))[Len(a) + j] = (Delim \o u)[j]
        BY <4>1, JoinedAt
      <4> QED BY <1>1, <4>1, <4>2
    <3>2. 1 \in 1 .. 3 /\ 2 \in 1 .. 3 /\ 3 \in 1 .. 3 OBVIOUS
    <3>3. 1 \in 1 .. Len(Delim \o u) /\ 2 \in 1 .. Len(Delim \o u) /\ 3 \in 1 .. Len(Delim \o u)
      BY <1>1, <3>1
    <3> HIDE DEF s
    <3>4. s[n + 1] = "cr" /\ s[n + 2] = "lf" /\ s[n + 3] = "b" BY <3>1, <3>2, <3>3, DelimBytes DEF s, n
    <3>5. n + 1 + 1 = n + 2 /\ n + 1 + 2 = n + 3 BY <1>1
    <3> QED BY <3>4, <3>5 DEF DelimAt
  <2>3. s \in Data
    <3> HIDE DEF b, s
    <3> QED BY <1>2, JoinIn
  <2> HIDE DEF i, s
  <2>4. SubSeq(s, i, i + Len(Delim) - 1) = Delim BY <2>1, <2>2, <2>3, DelimSub
  <2> QED BY <2>4 DEF i
<1>5. n + 1 \in 1 .. Len(s) - Len(Delim) + 1 /\ n + 1 + Len(Delim) = n + 4
  <2> HIDE DEF s
  <2> QED BY <1>1, <1>2
<1> DEFINE i == n + 1
<1>6. i \in 1 .. Len(s) - Len(Delim) + 1 /\ SubSeq(s, i, i + Len(Delim) - 1) = Delim
      /\ From(s, i + Len(Delim)) = u /\ LinesClose(s)
  <2>1. LinesClose(s) OBVIOUS
  <2> HIDE DEF s, n
  <2> QED BY <1>3, <1>4, <1>5, <2>1
<1> HIDE DEF i, s
<1>7. ClosesLast(Before(From(s, i + Len(Delim)), IndexOf({"lf"}, From(s, i + Len(Delim)))))
  BY <1>6 DEF LinesClose
<1> QED BY <1>6, <1>7

\* the text of the last section is t, of which the last part has taken all that is to take
TextAt(q, tail, ps, p, parts, s, t, taken) ==
  /\ IsCutUp(s, q, tail) /\ HasText(tail) /\ t = TextOf(tail)
  /\ parts = Append(ps, p) /\ PartsSeen(ps) = RefOf(q) /\ LikePart(p, ReadBytes(NothingRead, taken))

\* there is no part yet, before the first delimiter, or there is such a text
InText(parts, s, t, taken) ==
  \/ parts = <<>> /\ t = s
  \/ \E q \in Seq(Data), tail \in Data, ps \in Seq(Part), p \in Part :
       TextAt(q, tail, ps, p, parts, s, t, taken)

\* the line of a delimiter has begun
AtBoundary(parts, s) ==
  \E q \in Seq(Data), tail \in Data :
    /\ IsCutUp(s, q, tail) /\ IndexOf({"lf"}, tail) = 0 /\ (tail # <<>> => Head(tail) # "hyphen")
    /\ PartsSeen(parts) = RefOf(q)

\* there was a hyphen behind a delimiter
AtEnd(parts, s) ==
  \E q \in Seq(Data), tail \in Data :
    IsCutUp(s, q, tail) /\ tail # <<>> /\ Head(tail) = "hyphen" /\ PartsSeen(parts) = RefOf(q)

\* Data are taken by the last part.
LEMMA LastTakes ==
  ASSUME NEW ps \in Seq(Part), NEW p \in Part, NEW m, m.parts = Append(ps, p), NEW d \in Data
  PROVE  AppendToPart(m, d) = [m EXCEPT !.parts = Append(ps, cpart_appendData(p, d))]
<1> DEFINE n == Len(ps)
           qs == Append(ps, p)
           new == cpart_appendData(p, d)
<1>1. /\ n \in Nat /\ Len(qs) = n + 1 /\ qs[n + 1] = p /\ qs # <<>>
      /\ \A i \in 1 .. n : qs[i] = ps[i]
      /\ qs = [i \in 1 .. n + 1 |-> qs[i]]
  <2>1. n \in Nat BY LenProperties
  <2>2. /\ qs \in Seq(Part) /\ Len(qs) = n + 1 /\ qs[n + 1] = p
        /\ \A i \in 1 .. n : qs[i] = ps[i]
    BY AppendProperties
  <2> HIDE DEF qs, n
  <2>3. qs # <<>> /\ qs = [i \in 1 .. n + 1 |-> qs[i]] BY <2>1, <2>2
  <2> QED BY <2>1, <2>2, <2>3
<1>2. Last(qs) = p BY <1>1 DEF Last
<1>3. ReplaceAt(qs, Len(qs), new) = Append(ps, new)
  <2> DEFINE a == [qs EXCEPT ![n + 1] = new]
  <2>1. ReplaceAt(qs, Len(qs), new) = a
    <3> HIDE DEF n, qs, new
    <3>1. ReplaceAt(qs, Len(qs), new) = ReplaceAt(qs, n + 1, new) BY <1>1
    <3> QED BY <1>1, <3>1 DEF ReplaceAt
  <2>2. a = [i \in 1 .. n + 1 |-> IF i = n + 1 THEN new ELSE qs[i]]
    <3> HIDE DEF n, qs, new
    <3> QED BY <1>1
  <2>3. Append(ps, new) = [i \in 1 .. n + 1 |-> IF i = n + 1 THEN new ELSE ps[i]]
    <3> DEFINE b == Append(ps, new)
    <3>1. new \in Part BY PartIn
    <3> HIDE DEF new
    <3>2. /\ b \in Seq(Part) /\ Len(b) = n + 1 /\ b[n + 1] = new
          /\ \A i \in 1 .. n : b[i] = ps[i]
      BY <3>1, AppendProperties
    <3> HIDE DEF b, n
    <3>3. b = [i \in 1 .. n + 1 |-> b[i]] BY <3>2
    <3>4. \A i \in 1 .. n + 1 : i = n + 1 \/ i \in 1 .. n BY <1>1
    <3>5. \A i \in 1 .. n + 1 : b[i] = IF i = n + 1 THEN new ELSE ps[i] BY <3>2, <3>4
    <3>6. b = [i \in 1 .. n + 1 |-> IF i = n + 1 THEN new ELSE ps[i]] BY <3>3, <3>5
    <3> QED BY <3>6 DEF b
  <2>4. \A i \in 1 .. n + 1 : i # n + 1 => i \in 1 .. n BY <1>1
  <2> DEFINE f == [i \in 1 .. n + 1 |-> IF i = n + 1 THEN new ELSE qs[i]]
             g == [i \in 1 .. n + 1 |-> IF i = n + 1 THEN new ELSE ps[i]]
  <2>5. f = g
    <3> HIDE DEF a, new, qs, n
    <3>1. \A i \in 1 .. n + 1 : f[i] = g[i] BY <1>1, <2>4
    <3> QED BY <3>1
  <2>6. a = f /\ Append(ps, new) = g BY <2>2, <2>3
  <2> HIDE DEF a, f, g
  <2> QED BY <2>1, <2>5, <2>6
<1> HIDE DEF qs, new
<1>4. m.parts = qs BY DEF qs
<1> QED BY <1>1, <1>2, <1>3, <1>4 DEF AppendToPart, qs, new

\* Data that belong to the text are taken.
LEMMA TextTakes ==
  ASSUME NEW m \in MpData, NEW s \in Data, NEW t \in Data, NEW taken \in Data,
         InText(m.parts, s, t, taken), NEW d \in Data
  PROVE  \E parts \in Seq(Part) : /\ AppendToPart(m, d) = [m EXCEPT !.parts = parts]
                                  /\ InText(parts, s, t, taken \o d)
<1>1. m.parts \in Seq(Part) /\ m \in Parsers BY DEF MpData, Parsers
<1>2. CASE m.parts = <<>> /\ t = s
  <2>1. AppendToPart(m, d) = m BY <1>2 DEF AppendToPart
  <2>2. m = [m EXCEPT !.parts = m.parts] BY <1>1 DEF Parsers
  <2> QED BY <1>1, <1>2, <2>1, <2>2 DEF InText
<1>3. ASSUME NEW q \in Seq(Data), NEW tail \in Data, NEW ps \in Seq(Part), NEW p \in Part,
             TextAt(q, tail, ps, p, m.parts, s, t, taken)
      PROVE  \E parts \in Seq(Part) : /\ AppendToPart(m, d) = [m EXCEPT !.parts = parts]
                                      /\ InText(parts, s, t, taken \o d)
  <2> DEFINE new == cpart_appendData(p, d)
             parts == Append(ps, new)
             r == ReadBytes(NothingRead, taken)
  <2>1. AppendToPart(m, d) = [m EXCEPT !.parts = parts] BY <1>3, LastTakes DEF TextAt
  <2>2. new \in Part BY PartIn
  <2>3. LikePart(new, ReadBytes(NothingRead, taken \o d))
    <3>1. NothingRead \in ReadStates BY NewPartLike
    <3>2. r \in ReadStates BY <3>1, ReadBytesIn
    <3>3. ReadBytes(NothingRead, taken \o d) = ReadBytes(r, d) BY <3>1, ReadJoined
    <3>4. LikePart(p, r) BY <1>3 DEF TextAt
    <3> HIDE DEF r
    <3>5. LikePart(new, ReadBytes(r, d)) BY <3>2, <3>4, PartTakes
    <3> QED BY <3>3, <3>5
  <2> HIDE DEF new
  <2>4. parts \in Seq(Part) BY <2>2, AppendProperties
  <2>5. TextAt(q, tail, ps, new, parts, s, t, taken \o d) BY <1>3, <2>3 DEF TextAt
  <2>6. InText(parts, s, t, taken \o d) BY <2>2, <2>5 DEF InText
  <2> HIDE DEF parts
  <2> QED BY <2>1, <2>4, <2>6
<1> QED BY <1>2, <1>3 DEF InText

\* The text goes on.
LEMMA TextGoesOn ==
  ASSUME NEW parts, NEW s \in Data, NEW t \in Data, NEW taken, InText(parts, s, t, taken), NEW d \in Data
  PROVE  InText(parts, s \o d, t \o d, taken)
<1>1. CASE parts = <<>> /\ t = s BY <1>1 DEF InText
<1>2. ASSUME NEW q \in Seq(Data), NEW tail \in Data, NEW ps \in Seq(Part), NEW p \in Part,
             TextAt(q, tail, ps, p, parts, s, t, taken)
      PROVE  InText(parts, s \o d, t \o d, taken)
  <2> DEFINE more == tail \o d
             all == s \o d
             text == t \o d
  <2>1. IsCutUp(all, q, more) BY <1>2, CutUpMore DEF TextAt
  <2>2. HasText(more) /\ TextOf(more) = text
    <3>1. HasText(tail) /\ IndexOf({"lf"}, tail) # 0 /\ t = TextOf(tail) BY <1>2 DEF TextAt, HasText
    <3> QED BY <3>1, TextGrows
  <2>3. more \in Data BY JoinIn
  <2> HIDE DEF more, all, text
  <2>4. TextAt(q, more, ps, p, parts, all, text, taken) BY <1>2, <2>1, <2>2 DEF TextAt
  <2>5. InText(parts, all, text, taken) BY <2>3, <2>4 DEF InText
  <2> QED BY <2>5 DEF all, text
<1> QED BY <1>1, <1>2 DEF InText

\* Nothing has been seen of no parts.
LEMMA SeenNothing == PartsSeen(<<>>) = <<>> /\ RefOf(<<>>) = <<>> /\ ReferencePart(<<>>) = <<>>
<1>1. FlattenSeq(<<>>) = <<>>
  <2>1. <<>> \in Seq(Data) BY EmptySeq
  <2>2. PICK F \in [0 .. Len(<<>>) -> Data] : IsJoined(F, <<>>) BY <2>1, JoinedExists
  <2> QED BY <2>2 DEF IsJoined
<1>2. 1 .. Len(<<>>) = {} OBVIOUS
<1>3. PartsSeen(<<>>) = <<>> /\ RefOf(<<>>) = <<>>
  <2>1. [i \in 1 .. Len(<<>>) |-> PartSeen(<<>>[i])] = <<>> BY <1>2
  <2>2. [i \in 1 .. Len(<<>>) |-> ReferencePart(PartOf(<<>>[i], FALSE))] = <<>> BY <1>2
  <2> QED BY <1>1, <2>1, <2>2 DEF PartsSeen, RefOf
<1>4. ReferencePart(<<>>) = <<>>
  <2>1. ReadBytes(NothingRead, <<>>) = NothingRead BY NewPartLike, ReadOne
  <2>2. ~NothingRead.isContent BY DEF NothingRead
  <2> QED BY <2>1, <2>2 DEF ReferencePart, Seen
<1> QED BY <1>3, <1>4

\* The text ends with a delimiter.
LEMMA TextEnds ==
  ASSUME NEW parts \in Seq(Part), NEW s \in Data, NEW t \in Data, NEW a \in Data, NoDelim(a),
         InText(parts, s, t, a), NEW d \in Data, t \o d = a \o Delim
  PROVE  AtBoundary(parts, s \o d)
<1>1. IndexOf({"lf"}, <<>>) = 0
  <2>1. <<>> \in Data /\ Len(<<>>) = 0 BY NoneIn
  <2>2. IndexOf({"lf"}, <<>>) \in 0 .. 0 BY <2>1, IndexOfIs
  <2> QED BY <2>2
<1>2. <<>> \in Data /\ <<>> \in Seq(Data) BY NoneIn, EmptySeq
<1>3. CASE parts = <<>> /\ t = s
  <2>1. IsCutUp(s \o d, <<>>, <<>>) BY <1>3, CutUpFirst
  <2>2. PartsSeen(parts) = RefOf(<<>>) BY <1>3, SeenNothing
  <2> QED BY <1>1, <1>2, <2>1, <2>2 DEF AtBoundary
<1>4. ASSUME NEW q \in Seq(Data), NEW tail \in Data, NEW ps \in Seq(Part), NEW p \in Part,
             TextAt(q, tail, ps, p, parts, s, t, a)
      PROVE  AtBoundary(parts, s \o d)
  <2> DEFINE all == s \o d
  <2>1. /\ IsCutUp(s, q, tail) /\ HasText(tail) /\ t = TextOf(tail) /\ parts = Append(ps, p)
        /\ PartsSeen(ps) = RefOf(q) /\ LikePart(p, ReadBytes(NothingRead, a))
    BY <1>4 DEF TextAt
  <2>2. PICK b \in Data : b # <<>> /\ tail = b \o t /\ TextOf(b) = <<>> /\ HasText(b)
    <3>1. IndexOf({"lf"}, tail) # 0 BY <2>1 DEF HasText
    <3> QED BY <2>1, <3>1, TextBegins
  <2> DEFINE section == b \o a
  <2>3. section \in Data /\ HasText(section) /\ TextOf(section) = a
    <3>1. IndexOf({"lf"}, b) # 0 BY <2>2 DEF HasText
    <3>2. HasText(section) /\ TextOf(section) = <<>> \o a BY <2>2, <3>1, TextGrows
    <3>3. <<>> \o a = a BY NoneIn
    <3> QED BY <3>2, <3>3, JoinIn
  <2>4. tail \o d = section \o (Delim \o <<>>)
    <3>1. Delim \in Data /\ Delim \o <<>> = Delim BY DelimBytes, NoneIn
    <3>2. (b \o t) \o d = b \o (t \o d) BY Joins
    <3>3. (b \o a) \o Delim = b \o (a \o Delim) BY <3>1, Joins
    <3> QED BY <2>2, <3>1, <3>2, <3>3
  <2>5. IsCutUp(all, q, tail \o d) BY <2>1, CutUpMore
  <2>6. all \in Data BY JoinIn
  <2> HIDE DEF all, section
  <2>7. IsCutUp(all, Append(q, section), <<>>) BY <1>2, <2>3, <2>4, <2>5, <2>6, CutUpNext
  <2>8. PartsSeen(parts) = RefOf(Append(q, section))
    <3>1. PartsSeen(parts) = PartsSeen(ps) \o PartSeen(p) BY <2>1, PartsSeenMore
    <3>2. p.isContent \in BOOLEAN BY DEF Part
    <3>3. PartSeen(p) = ReferencePart(a) BY <2>1, <3>2, SeenLike
    <3>4. PartOf(section, FALSE) = a BY <2>3 DEF PartOf, HasText
    <3>5. RefOf(Append(q, section)) = RefOf(q) \o ReferencePart(PartOf(section, FALSE)) BY <2>3, RefMore
    <3> QED BY <2>1, <3>1, <3>3, <3>4, <3>5
  <2>9. Append(q, section) \in Seq(Data) BY <2>3, AppendProperties
  <2>10. AtBoundary(parts, all) BY <1>1, <1>2, <2>7, <2>8, <2>9 DEF AtBoundary
  <2> QED BY <2>10 DEF all
<1> QED BY <1>3, <1>4 DEF InText

\* The first byte stays the first one.
LEMMA HeadJoined ==
  ASSUME NEW a \in Data, a # <<>>, NEW d \in Data
  PROVE  /\ a \o d # <<>> /\ Head(a \o d) = Head(a) /\ Head(a) = a[1]
         /\ 1 \in 1 .. Len(a) /\ (a \o d)[1] = a[1]
<1> DEFINE s == a \o d
<1>1. /\ s \in Data /\ Len(a) \in Nat /\ Len(d) \in Nat /\ Len(s) = Len(a) + Len(d)
      /\ \A i \in 1 .. Len(a) : s[i] = a[i]
  BY JoinedAt
<1>2. Len(a) # 0 BY LenOf
<1> HIDE DEF s
<1>3. 1 \in 1 .. Len(a) /\ Len(s) # 0 BY <1>1, <1>2
<1>4. s # <<>> BY <1>1, <1>3, LenOf
<1>5. Head(s) = s[1] /\ Head(a) = a[1] /\ s[1] = a[1] BY <1>1, <1>3
<1> QED BY <1>3, <1>4, <1>5 DEF s

\* No line ends where there is no line feed.
LEMMA NoLine ==
  ASSUME NEW a \in Data
  PROVE  IndexOf({"lf"}, a) = 0 <=> Without(a, "lf")
<1> DEFINE e == IndexOf({"lf"}, a)
<1>1. /\ e \in 0 .. Len(a) /\ Len(a) \in Nat
      /\ e = 0 => \A i \in 1 .. Len(a) : a[i] \notin {"lf"}
      /\ e # 0 => a[e] \in {"lf"}
  BY IndexOfIs, LenOf
<1> HIDE DEF e
<1>2. e # 0 => e \in 1 .. Len(a) BY <1>1
<1>3. e = 0 <=> Without(a, "lf") BY <1>1, <1>2 DEF Without
<1> QED BY <1>3 DEF e

\* A hyphen is not behind other bytes in the line of a delimiter.
LEMMA HyphenFirst ==
  ASSUME NEW tail \in Data, tail # <<>>, Head(tail) # "hyphen", IndexOf({"lf"}, tail) = 0,
         NEW d \in Data, d # <<>>, Head(d) = "hyphen",
         ClosesLast(Before(tail \o d, IndexOf({"lf"}, tail \o d)))
  PROVE  FALSE
<1> DEFINE u == tail \o d
           e == IndexOf({"lf"}, u)
           n == Len(tail)
           line == Before(u, e)
<1>1. /\ u \in Data /\ n \in Nat /\ Len(d) \in Nat /\ Len(u) = n + Len(d)
      /\ \A i \in 1 .. n : u[i] = tail[i]
      /\ \A i \in 1 .. Len(d) : u[n + i] = d[i]
  BY JoinedAt
<1>2. 1 \in 1 .. n /\ Head(tail) = tail[1] /\ 1 \in 1 .. Len(d) /\ Head(d) = d[1] BY HeadJoined
<1>3. Without(tail, "lf") BY NoLine
<1> HIDE DEF u, n
<1>4. e \in 0 .. Len(u) /\ (e # 0 => u[e] = "lf")
  <2>1. e \in 0 .. Len(u) /\ (e # 0 => u[e] \in {"lf"}) BY <1>1, IndexOfIs
  <2> QED BY <2>1
<1> HIDE DEF e
<1>5. u[n + 1] = "hyphen" /\ u[1] = tail[1] BY <1>1, <1>2
<1>6. e = 0 \/ e > n + 1
  <2> SUFFICES ASSUME e # 0, e <= n + 1 PROVE FALSE BY <1>1, <1>4
  <2>1. CASE e = n + 1 BY <1>4, <1>5, <2>1
  <2>2. CASE e # n + 1
    <3>1. e \in 1 .. n BY <1>1, <1>4, <2>2
    <3>2. tail[e] = "lf" BY <1>1, <1>4, <3>1
    <3> QED BY <1>3, <3>1, <3>2 DEF Without, n
  <2> QED BY <2>1, <2>2
<1>7. line \in Data /\ Len(line) \in Nat /\ n + 1 <= Len(line) /\ \A i \in 1 .. n + 1 : line[i] = u[i]
  <2>1. CASE e = 0
    <3>1. line = u BY <2>1 DEF Before
    <3> HIDE DEF line
    <3> QED BY <1>1, <1>2, <3>1
  <2>2. CASE e # 0
    <3> DEFINE k == e - 1
    <3>1. k \in 0 .. Len(u) /\ n + 1 <= k BY <1>1, <1>4, <1>6, <2>2
    <3>2. line = SubSeq(u, 1, k) BY <2>2 DEF Before
    <3> HIDE DEF k, line
    <3>3. u \in Seq(Byte) BY <1>1 DEF Data
    <3>4. line \in Seq(Byte) /\ Len(line) = k /\ \A i \in 1 .. k : line[i] = u[i] BY <3>1, <3>2, <3>3, FirstIs
    <3>5. \A i \in 1 .. n + 1 : i \in 1 .. k BY <1>1, <3>1
    <3> QED BY <1>1, <3>1, <3>4, <3>5 DEF Data
  <2> QED BY <2>1, <2>2
<1>8. ClosesLast(line) BY DEF line, u, e
<1> HIDE DEF line
<1>9. 1 \in 1 .. n + 1 /\ n + 1 \in 1 .. n + 1 /\ n + 1 \in 1 .. Len(line) /\ 1 \in 1 .. Len(line) BY <1>1, <1>7
<1>10. line[n + 1] = "hyphen" /\ line[1] = tail[1] BY <1>5, <1>7, <1>9
<1>11. "hyphen" \in ToSet(line)
  <2>1. DOMAIN line = 1 .. Len(line) BY <1>7 DEF Data
  <2> QED BY <1>9, <1>10, <2>1 DEF ToSet
<1>12. Head(line) = "hyphen" BY <1>8, <1>11 DEF ClosesLast
<1>13. Head(line) = line[1] BY <1>7, <1>9 DEF Data
<1> QED BY <1>2, <1>10, <1>12, <1>13

\* A hyphen behind a delimiter ends the form.
LEMMA BoundaryEnds ==
  ASSUME NEW parts, NEW s \in Data, AtBoundary(parts, s), NEW d \in Data, d # <<>>, Head(d) = "hyphen",
         NEW more \in Data, LinesClose(s \o (d \o more))
  PROVE  AtEnd(parts, s \o d)
<1>1. PICK q \in Seq(Data), tail \in Data :
        /\ IsCutUp(s, q, tail) /\ IndexOf({"lf"}, tail) = 0 /\ (tail # <<>> => Head(tail) # "hyphen")
        /\ PartsSeen(parts) = RefOf(q)
  BY DEF AtBoundary
<1>2. tail = <<>>
  <2> SUFFICES ASSUME tail # <<>> PROVE FALSE OBVIOUS
  <2> DEFINE w == d \o more
  <2>1. w \in Data /\ w # <<>> /\ Head(w) = "hyphen" BY JoinIn, HeadJoined
  <2>2. LinesClose(s \o w) OBVIOUS
  <2> HIDE DEF w
  <2>3. PICK a \in Data : s = a \o (Delim \o tail) BY <1>1, CutUpBehind
  <2>4. s \o w = a \o (Delim \o (tail \o w))
    <3>1. DelimJoined(a, tail, w) BY <2>1, DelimJoins
    <3> QED BY <2>3, <3>1 DEF DelimJoined
  <2> DEFINE u == tail \o w
  <2>5. u \in Data /\ LinesClose(a \o (Delim \o u)) BY <2>1, <2>2, <2>4, JoinIn
  <2> HIDE DEF u
  <2>6. ClosesLast(Before(u, IndexOf({"lf"}, u))) BY <2>5, LineCloses
  <2>7. ClosesLast(Before(tail \o w, IndexOf({"lf"}, tail \o w))) BY <2>6 DEF u
  <2> QED BY <1>1, <2>1, <2>7, HyphenFirst
<1>3. IsCutUp(s \o d, q, d)
  <2>1. IsCutUp(s \o d, q, tail \o d) BY <1>1, CutUpMore
  <2>2. tail \o d = d BY <1>2, NoneIn
  <2> QED BY <2>1, <2>2
<1> QED BY <1>1, <1>3 DEF AtEnd

\* The line of a delimiter goes on, with another part that nobody sees.
LEMMA BoundaryMore ==
  ASSUME NEW parts \in Seq(Part), NEW s \in Data, AtBoundary(parts, s), NEW d \in Data, d # <<>>,
         Head(d) # "hyphen", IndexOf({"lf"}, d) = 0
  PROVE  AtBoundary(Append(parts, cpart_new), s \o d)
<1>1. PICK q \in Seq(Data), tail \in Data :
        /\ IsCutUp(s, q, tail) /\ IndexOf({"lf"}, tail) = 0 /\ (tail # <<>> => Head(tail) # "hyphen")
        /\ PartsSeen(parts) = RefOf(q)
  BY DEF AtBoundary
<1> DEFINE u == tail \o d
<1>2. u \in Data /\ IsCutUp(s \o d, q, u) BY <1>1, JoinIn, CutUpMore
<1>3. IndexOf({"lf"}, u) = 0
  <2>1. Without(tail, "lf") /\ Without(d, "lf") BY <1>1, NoLine
  <2>2. Without(u, "lf") BY <2>1, WithoutJoined
  <2> HIDE DEF u
  <2> QED BY <1>2, <2>2, NoLine
<1>4. Head(u) # "hyphen"
  <2>1. CASE tail = <<>>
    <3>1. u = d BY <2>1, NoneIn
    <3> HIDE DEF u
    <3> QED BY <3>1
  <2>2. CASE tail # <<>> BY <1>1, <2>2, HeadJoined
  <2> QED BY <2>1, <2>2
<1>5. PartsSeen(Append(parts, cpart_new)) = RefOf(q)
  <2>1. PartSeen(cpart_new) = <<>> BY DEF PartSeen, Seen, cpart_new
  <2>2. PartsSeen(Append(parts, cpart_new)) = PartsSeen(parts) \o PartSeen(cpart_new)
        /\ PartsSeen(parts) \o <<>> = PartsSeen(parts)
    BY NewPartIn, PartsSeenMore
  <2> QED BY <1>1, <2>1, <2>2
<1> HIDE DEF u
<1> QED BY <1>2, <1>3, <1>4, <1>5 DEF AtBoundary

\* Behind the line of a delimiter a text begins.
LEMMA BoundaryOver ==
  ASSUME NEW parts \in Seq(Part), NEW s \in Data, AtBoundary(parts, s), NEW d \in Data, d # <<>>,
         Head(d) # "hyphen", IndexOf({"lf"}, d) # 0, TextOf(d) = <<>>
  PROVE  InText(Append(parts, cpart_new), s \o d, <<>>, <<>>)
<1>1. PICK q \in Seq(Data), tail \in Data :
        /\ IsCutUp(s, q, tail) /\ IndexOf({"lf"}, tail) = 0 /\ (tail # <<>> => Head(tail) # "hyphen")
        /\ PartsSeen(parts) = RefOf(q)
  BY DEF AtBoundary
<1> DEFINE u == tail \o d
<1>2. u \in Data /\ IsCutUp(s \o d, q, u) BY <1>1, JoinIn, CutUpMore
<1>3. Head(u) # "hyphen" /\ u # <<>>
  <2>1. CASE tail = <<>>
    <3>1. u = d BY <2>1, NoneIn
    <3> HIDE DEF u
    <3> QED BY <3>1
  <2>2. CASE tail # <<>> BY <1>1, <2>2, HeadJoined
  <2> QED BY <2>1, <2>2
<1>4. IndexOf({"lf"}, u) # 0 /\ TextOf(u) = <<>>
  <2>1. PICK line \in Data : /\ Without(line, "lf") /\ d = line \o (Lf \o <<>>)
    BY TextIs
  <2>2. Without(tail, "lf") BY <1>1, NoLine
  <2> DEFINE a == tail \o line
  <2>3. a \in Data /\ Without(a, "lf") /\ Len(a) \in Nat BY <2>1, <2>2, JoinIn, WithoutJoined, LenOf
  <2>4. Lf \in Data /\ Lf \o <<>> = Lf /\ <<>> \in Data /\ "lf" \in Byte
    <3>1. Lf \in Data /\ "lf" \in Byte BY OneIn DEF Lf, Byte
    <3> QED BY <3>1, NoneIn
  <2>5. u = a \o (<<"lf">> \o <<>>)
    <3>1. d = line \o Lf BY <2>1, <2>4
    <3>2. (tail \o line) \o Lf = tail \o (line \o Lf) BY <2>4, Joins
    <3> QED BY <2>4, <3>1, <3>2 DEF Lf
  <2> HIDE DEF a
  <2>6. /\ IndexOf({"lf"}, a \o (<<"lf">> \o <<>>)) = Len(a) + 1
        /\ From(a \o (<<"lf">> \o <<>>), Len(a) + 2) = <<>>
    BY <2>3, <2>4, FoundAt
  <2> HIDE DEF u
  <2>7. IndexOf({"lf"}, u) = Len(a) + 1 /\ From(u, Len(a) + 2) = <<>> BY <2>5, <2>6
  <2>8. Len(a) + 1 # 0 /\ Len(a) + 1 + 1 = Len(a) + 2 BY <2>3
  <2> QED BY <2>7, <2>8 DEF TextOf
<1>5. LikePart(cpart_new, ReadBytes(NothingRead, <<>>))
  <2>1. ReadBytes(NothingRead, <<>>) = NothingRead BY NewPartLike, ReadOne
  <2> QED BY <2>1, NewPartLike
<1> DEFINE new == Append(parts, cpart_new)
           all == s \o d
<1>6. new = Append(parts, cpart_new) /\ IsCutUp(all, q, u) BY <1>2
<1> HIDE DEF u, new, all
<1>7. HasText(u) BY <1>3, <1>4 DEF HasText
<1>8. TextAt(q, u, parts, cpart_new, new, all, <<>>, <<>>) BY <1>1, <1>4, <1>5, <1>6, <1>7 DEF TextAt
<1>9. InText(new, all, <<>>, <<>>) BY <1>2, <1>8, NewPartIn DEF InText
<1> QED BY <1>9 DEF new, all

\* The end of a form stays the end.
LEMMA EndMore ==
  ASSUME NEW parts, NEW s \in Data, AtEnd(parts, s), NEW d \in Data
  PROVE  AtEnd(parts, s \o d)
<1>1. PICK q \in Seq(Data), tail \in Data :
        IsCutUp(s, q, tail) /\ tail # <<>> /\ Head(tail) = "hyphen" /\ PartsSeen(parts) = RefOf(q)
  BY DEF AtEnd
<1> DEFINE u == tail \o d
<1>2. u \in Data /\ IsCutUp(s \o d, q, u) BY <1>1, JoinIn, CutUpMore
<1>3. u # <<>> /\ Head(u) = "hyphen" BY <1>1, HeadJoined
<1> HIDE DEF u
<1> QED BY <1>1, <1>2, <1>3 DEF AtEnd

----------------------------------------------------------------------------
(* The parser takes a piece.  FormAt says where it is behind all it has      *)
(* taken.                                                                    *)

\* the text is t, of which what is pending may belong to a delimiter
Reading(parts, k, s, rest) ==
  \E t \in Data : Pends(t, k, rest) /\ InText(parts, s, t, Taken(t, k))

\* the parser has taken s, and all before rest
FormAt(m, s, rest) ==
  \/ m.epilogue /\ rest = <<>> /\ AtEnd(m.parts, s)
  \/ ~m.epilogue /\ m.parsePos = "PP_GOT_BOUNDARY" /\ AtBoundary(m.parts, s)
  \/ ~m.epilogue /\ m.parsePos = "PP_BODY" /\ Reading(m.parts, m.delimMatchPart, s, rest)

\* in the loop: all of it is what has been taken and the rest
ScanGood(x, all) == \E s \in Data : all = s \o x.rest /\ FormAt(x.m, s, x.rest)

\* All is taken when nothing is pending.
LEMMA TakenAll ==
  ASSUME NEW t \in Data
  PROVE  Taken(t, 0) = t
<1>1. Len(t) \in Nat BY LenOf
<1>2. Taken(t \o (<<>> \o <<>>), Len(<<>>)) = t \o <<>> BY NoneIn, TakenBehind
<1>3. <<>> \o <<>> = <<>> /\ t \o <<>> = t /\ Len(<<>>) = 0 BY NoneIn
<1> QED BY <1>2, <1>3

\* At the beginning the line feed of a delimiter is pending.
LEMMA FormBegins == FormAt(mpdata_new, Crlf, <<>>)
<1> DEFINE s == Crlf
<1>1. s \in Data /\ Len(s) = 2 /\ s[1] = "cr" /\ s[2] = "lf" BY DEF Crlf, Data, Byte
<1> HIDE DEF s
<1>2. MatchAt(s, 1)
  <2>1. 1 \in 1 .. Len(s) BY <1>1
  <2> QED BY <1>1, <2>1, MatchAtIs
<1>3. Pends(s, 2, <<>>)
  <2>1. Len(s) - 2 = 0 /\ Len(s) - 2 + 1 = 1 BY <1>1
  <2>2. \A i \in 1 .. Len(s) - 2 : FALSE
    <3>1. \A i \in 1 .. 0 : FALSE OBVIOUS
    <3> QED BY <2>1, <3>1
  <2> QED BY <1>1, <1>2, <2>1, <2>2 DEF Pends
<1>4. InText(<<>>, s, s, Taken(s, 2)) BY DEF InText
<1>5. Reading(<<>>, 2, s, <<>>) BY <1>1, <1>3, <1>4 DEF Reading
<1> QED BY <1>5 DEF FormAt, mpdata_new, s

\* What began a delimiter is text when the delimiter does not go on.
LEMMA ReadingOver ==
  ASSUME NEW m \in MpData, NEW k \in 1 .. 2, NEW s \in Data, Reading(m.parts, k, s, <<>>),
         NEW d \in Data, ~Matches(d, k)
  PROVE  \E parts \in Seq(Part) :
           /\ AppendToPart(m, SubSeq(Delim, 1, k)) = [m EXCEPT !.parts = parts]
           /\ Reading(parts, 0, s, d)
<1>1. PICK t \in Data : Pends(t, k, <<>>) /\ InText(m.parts, s, t, Taken(t, k)) BY DEF Reading
<1> DEFINE a == Taken(t, k)
           c == SubSeq(Delim, 1, k)
<1>2. Pends(t, 0, d) /\ a \in Data /\ c \in Data /\ a \o c = Taken(t, 0) BY <1>1, PendsOver
<1>3. InText(m.parts, s, t, a) BY <1>1
<1> HIDE DEF a, c
<1>4. PICK parts \in Seq(Part) : AppendToPart(m, c) = [m EXCEPT !.parts = parts] /\ InText(parts, s, t, a \o c)
  BY <1>2, <1>3, TextTakes
<1>5. Reading(parts, 0, s, d) BY <1>2, <1>4 DEF Reading
<1> QED BY <1>4, <1>5 DEF c

\* More of a delimiter is pending.
LEMMA ReadingMore ==
  ASSUME NEW parts, NEW k \in 1 .. 2, NEW s \in Data, Reading(parts, k, s, <<>>),
         NEW d \in Data, Matches(d, k), k + Len(d) < 3
  PROVE  Reading(parts, k + Len(d), s \o d, <<>>)
<1>1. PICK t \in Data : Pends(t, k, <<>>) /\ InText(parts, s, t, Taken(t, k)) BY DEF Reading
<1>2. Pends(t \o d, k + Len(d), <<>>) /\ Taken(t \o d, k + Len(d)) = Taken(t, k) BY <1>1, PendsMore
<1> DEFINE u == t \o d
           a == Taken(t, k)
<1>3. InText(parts, s \o d, u, a) BY <1>1, TextGoesOn
<1>4. u \in Data BY JoinIn
<1> QED BY <1>2, <1>3, <1>4 DEF Reading

\* behind the rest of a delimiter, of which k bytes came before the data
DelimEnds(parts, k, s, d) ==
  \E c \in Data, b \in Data :
    b = SubSeq(d, (3 - k) + 1, Len(d)) /\ d = c \o b /\ AtBoundary(parts, s \o c)

\* The delimiter is complete.
LEMMA ReadingEnds ==
  ASSUME NEW parts \in Seq(Part), NEW k \in 1 .. 2, NEW s \in Data, Reading(parts, k, s, <<>>),
         NEW d \in Data, Matches(d, k), k + Len(d) >= 3
  PROVE  DelimEnds(parts, k, s, d)
<1>1. PICK t \in Data : Pends(t, k, <<>>) /\ InText(parts, s, t, Taken(t, k)) BY DEF Reading
<1> DEFINE a == Taken(t, k)
           rest == SubSeq(d, (3 - k) + 1, Len(d))
<1>2. /\ a \in Data /\ NoDelim(a) /\ rest \in Data
      /\ \E c \in Data : d = c \o rest /\ t \o c = a \o Delim
  BY <1>1, PendsEnds
<1>3. InText(parts, s, t, a) BY <1>1
<1> HIDE DEF a
<1>4. PICK c \in Data : d = c \o rest /\ t \o c = a \o Delim BY <1>2
<1> HIDE DEF rest
<1>5. AtBoundary(parts, s \o c) BY <1>2, <1>3, <1>4, TextEnds
<1>6. rest \in Data /\ d = c \o rest /\ AtBoundary(parts, s \o c) BY <1>2, <1>4, <1>5
<1>7. rest = SubSeq(d, (3 - k) + 1, Len(d)) BY DEF rest
<1> QED BY <1>6, <1>7 DEF DelimEnds

\* Content without a delimiter is taken, but for what may begin one.
LEMMA ReadingContent ==
  ASSUME NEW m \in MpData, NEW s \in Data, NEW d \in Data, d # <<>>, Reading(m.parts, 0, s, d)
  PROVE  LET end == PartEnd(d)
             left == Len(d) + 1 - end
             rest == From(d, end + 3)
         IN \E parts \in Seq(Part) :
              /\ AppendToPart(m, SubSeq(d, 1, end - 1)) = [m EXCEPT !.parts = parts]
              /\ left < 3 => rest = <<>> /\ Reading(parts, left, s \o d, <<>>)
              /\ ~(left < 3) => \E c \in Data : d = c \o rest /\ AtBoundary(parts, s \o c)
<1>1. PICK t \in Data : Pends(t, 0, d) /\ InText(m.parts, s, t, Taken(t, 0)) BY DEF Reading
<1> DEFINE end == PartEnd(d)
           c == SubSeq(d, 1, end - 1)
           left == Len(d) + 1 - end
           rest == From(d, end + 3)
<1>2. /\ c \in Data /\ rest \in Data
      /\ left < 3 => /\ rest = <<>> /\ Pends(t \o d, left, <<>>) /\ Taken(t \o d, left) = t \o c
      /\ ~(left < 3) => NoDelim(t \o c) /\ d = c \o (Delim \o rest)
  BY <1>1, ContentPends
<1>3. InText(m.parts, s, t, t) BY <1>1, TakenAll
<1> SUFFICES \E parts \in Seq(Part) :
              /\ AppendToPart(m, c) = [m EXCEPT !.parts = parts]
              /\ left < 3 => rest = <<>> /\ Reading(parts, left, s \o d, <<>>)
              /\ ~(left < 3) => \E e \in Data : d = e \o rest /\ AtBoundary(parts, s \o e)
  OBVIOUS
<1> HIDE DEF end, c, left, rest
<1>4. PICK parts \in Seq(Part) : AppendToPart(m, c) = [m EXCEPT !.parts = parts] /\ InText(parts, s, t, t \o c)
  BY <1>2, <1>3, TextTakes
<1>5. ASSUME left < 3 PROVE Reading(parts, left, s \o d, <<>>)
  <2> DEFINE u == t \o d
             a == t \o c
  <2>1. InText(parts, s, t, a) BY <1>4
  <2>2. u \in Data /\ Pends(u, left, <<>>) /\ Taken(u, left) = a BY <1>2, <1>5, JoinIn
  <2> HIDE DEF a
  <2>3. InText(parts, s \o d, u, a) BY <2>1, TextGoesOn
  <2> QED BY <2>2, <2>3 DEF Reading
<1>6. ASSUME ~(left < 3) PROVE \E e \in Data : d = e \o rest /\ AtBoundary(parts, s \o e)
  <2> DEFINE e == c \o Delim
             a == t \o c
  <2>1. e \in Data /\ a \in Data /\ Delim \in Data BY <1>2, DelimBytes, JoinIn
  <2>2. d = e \o rest
    <3>1. (c \o Delim) \o rest = c \o (Delim \o rest)
      <4>1. c \in Data /\ rest \in Data /\ Delim \in Data BY <1>2, <2>1
      <4>2. JoinsAs(c, Delim, rest) BY <4>1, Joined
      <4> QED BY <4>2 DEF JoinsAs
    <3> QED BY <1>2, <1>6, <3>1
  <2>3. t \o e = a \o Delim
    <3>1. (t \o c) \o Delim = t \o (c \o Delim)
      <4>1. JoinsAs(t, c, Delim) BY <1>2, <2>1, Joined
      <4> QED BY <4>1 DEF JoinsAs
    <3> QED BY <3>1
  <2>4. NoDelim(a) /\ InText(parts, s, t, a) BY <1>2, <1>4, <1>6
  <2> HIDE DEF e, a
  <2>5. AtBoundary(parts, s \o e) BY <2>1, <2>3, <2>4, TextEnds
  <2> QED BY <2>1, <2>2, <2>5
<1> QED BY <1>2, <1>4, <1>5, <1>6

\* Before the loop.
LEMMA ResumeGood ==
  ASSUME NEW m \in MpData, ~m.epilogue, NEW s \in Data, FormAt(m, s, <<>>), NEW d \in Data
  PROVE  ScanGood([m |-> Resume(m, d), rest |-> Rest(m, d)], s \o d)
<1> DEFINE k == m.delimMatchPart
           n == Len(d)
           r == Resume(m, d)
           rest == Rest(m, d)
<1>1. /\ m \in Parsers /\ k \in 0 .. 2 /\ n \in Nat /\ Len(Delim) = 3 /\ m.parts \in Seq(Part)
      /\ m.parsePos \in {"PP_BODY", "PP_GOT_BOUNDARY"} /\ (k # 0 => m.parsePos = "PP_BODY")
      /\ d \o <<>> = d /\ s \o d \in Data /\ (s \o d) \o <<>> = s \o d
  BY DelimIs, LenOf, NoneIn, JoinIn DEF MpData, Parsers
<1>2. SUFFICES \E a \in Data : s \o d = a \o rest /\ FormAt(r, a, rest)
  BY DEF ScanGood
<1>3. CASE k = 0
  <2>1. r = m /\ rest = d BY <1>3 DEF Resume, Rest
  <2>2. CASE m.parsePos = "PP_GOT_BOUNDARY" BY <2>1, <2>2 DEF FormAt
  <2>3. CASE m.parsePos = "PP_BODY"
    <3>1. Reading(m.parts, 0, s, <<>>) BY <1>3, <2>3 DEF FormAt
    <3>2. Reading(m.parts, 0, s, d) BY <3>1, PendsNothing DEF Reading
    <3>3. FormAt(m, s, d) BY <1>3, <2>3, <3>2 DEF FormAt
    <3> QED BY <2>1, <3>3
  <2> QED BY <1>1, <2>2, <2>3
<1>4. ASSUME k # 0 PROVE k \in 1 .. 2 /\ m.parsePos = "PP_BODY" /\ Reading(m.parts, k, s, <<>>)
  BY <1>1, <1>4 DEF FormAt
<1>5. CASE k # 0 /\ ~Matches(d, k)
  <2> DEFINE c == SubSeq(Delim, 1, k)
  <2>1. PICK parts \in Seq(Part) : AppendToPart(m, c) = [m EXCEPT !.parts = parts] /\ Reading(parts, 0, s, d)
    <3> HIDE DEF k
    <3> QED BY <1>4, <1>5, ReadingOver
  <2>2. r = [AppendToPart(m, c) EXCEPT !.delimMatchPart = 0] BY <1>5 DEF Resume, NotDelimiter
  <2>3. rest = d BY <1>5 DEF Rest
  <2> HIDE DEF c, k, r
  <2>4. r.parts = parts /\ r.delimMatchPart = 0 /\ r.parsePos = "PP_BODY" /\ ~r.epilogue
    BY <1>1, <1>4, <1>5, <2>1, <2>2 DEF Parsers
  <2>5. FormAt(r, s, d) BY <2>1, <2>4 DEF FormAt
  <2> QED BY <2>3, <2>5
<1>6. CASE k # 0 /\ Matches(d, k) /\ k + n < 3
  <2>1. r = [m EXCEPT !.delimMatchPart = k + n] BY <1>1, <1>6 DEF Resume
  <2>2. rest = SubSeq(d, (3 - k) + 1, n) BY <1>1, <1>6 DEF Rest
  <2>3. rest = <<>>
    <3>1. (3 - k) + 1 \in Int /\ n \in Int /\ n < (3 - k) + 1 BY <1>1, <1>6
    <3> QED BY <2>2, <3>1, SubSeqEmpty
  <2>4. Reading(m.parts, k + n, s \o d, <<>>)
    <3> HIDE DEF k
    <3> QED BY <1>4, <1>6, ReadingMore
  <2> DEFINE kn == k + n
  <2>5. r = [m EXCEPT !.delimMatchPart = kn] /\ Reading(m.parts, kn, s \o d, <<>>) BY <2>1, <2>4
  <2> HIDE DEF kn, r, rest
  <2>6. r.parts = m.parts /\ r.delimMatchPart = kn /\ r.parsePos = "PP_BODY" /\ ~r.epilogue
    BY <1>1, <1>4, <1>6, <2>5 DEF Parsers
  <2>7. FormAt(r, s \o d, <<>>) BY <2>5, <2>6 DEF FormAt
  <2> QED BY <1>1, <2>3, <2>7
<1>7. CASE k # 0 /\ Matches(d, k) /\ ~(k + n < 3)
  <2>1. r = [m EXCEPT !.delimMatchPart = 0, !.parsePos = "PP_GOT_BOUNDARY"]
    BY <1>1, <1>7 DEF Resume
  <2>2. rest = SubSeq(d, (3 - k) + 1, n)
    <3>1. k > 0 /\ Matches(d, k) /\ Len(Delim) - k + 1 = (3 - k) + 1 BY <1>1, <1>7
    <3>2. rest = SubSeq(d, Len(Delim) - k + 1, n) BY <3>1 DEF Rest
    <3> HIDE DEF rest, n
    <3> QED BY <3>1, <3>2
  <2>3. PICK c \in Data, b \in Data :
          b = SubSeq(d, (3 - k) + 1, Len(d)) /\ d = c \o b /\ AtBoundary(m.parts, s \o c)
    <3>1. k + Len(d) >= 3 BY <1>1, <1>7
    <3> HIDE DEF k
    <3>2. k \in 1 .. 2 /\ Reading(m.parts, k, s, <<>>) /\ m.parts \in Seq(Part) BY <1>1, <1>4, <1>7
    <3>3. Matches(d, k) BY <1>7
    <3> HIDE DEF n, r, rest
    <3>4. DelimEnds(m.parts, k, s, d) BY <3>1, <3>2, <3>3, ReadingEnds
    <3> QED BY <3>4 DEF DelimEnds
  <2>4. rest = b BY <2>2, <2>3
  <2> HIDE DEF r, rest, k, n
  <2>5. r.parts = m.parts /\ r.parsePos = "PP_GOT_BOUNDARY" /\ ~r.epilogue BY <1>1, <2>1 DEF Parsers
  <2>6. FormAt(r, s \o c, b) BY <2>3, <2>5 DEF FormAt
  <2>7. (s \o c) \o b = s \o (c \o b) /\ s \o c \in Data
    <3>1. JoinsAs(s, c, b) BY Joined
    <3>2. s \o c \in Data BY JoinIn
    <3> QED BY <3>1, <3>2 DEF JoinsAs
  <2> QED BY <2>3, <2>4, <2>6, <2>7
<1> QED BY <1>3, <1>5, <1>6, <1>7

\* A round of the loop in the text.
LEMMA NextInText ==
  ASSUME NEW x \in ScanStates, NEW s \in Data, FormAt(x.m, s, x.rest), x.rest # <<>>,
         x.m.parsePos = "PP_BODY"
  PROVE  ScanGood(ScanNext(x), s \o x.rest)
<1> DEFINE m == x.m
           d == x.rest
           end == PartEnd(d)
           left == Len(d) + 1 - end
           rest == From(d, end + 3)
           c == SubSeq(d, 1, end - 1)
           y == ScanNext(x)
<1>1. m \in MpData /\ m \in Parsers /\ d \in Data /\ m.delimMatchPart = 0 BY DEF ScanStates, MpData
<1>2. ~m.epilogue /\ Reading(m.parts, 0, s, d) BY <1>1 DEF FormAt
<1>3. PICK parts \in Seq(Part) :
        /\ AppendToPart(m, c) = [m EXCEPT !.parts = parts]
        /\ left < 3 => rest = <<>> /\ Reading(parts, left, s \o d, <<>>)
        /\ ~(left < 3) => \E e \in Data : d = e \o rest /\ AtBoundary(parts, s \o e)
  <2> HIDE DEF m, d
  <2> QED BY <1>1, <1>2, ReadingContent DEF m, d
<1> DEFINE added == [m EXCEPT !.parts = parts]
<1>4. y = [m |-> IF left < 3 THEN [added EXCEPT !.delimMatchPart = left]
                 ELSE [added EXCEPT !.parsePos = "PP_GOT_BOUNDARY"],
           rest |-> rest]
  BY <1>3, DelimIs DEF ScanNext, Content
<1>5. y.m = (IF left < 3 THEN [added EXCEPT !.delimMatchPart = left]
             ELSE [added EXCEPT !.parsePos = "PP_GOT_BOUNDARY"]) /\ y.rest = rest
  BY <1>4
<1>6. m.parsePos = "PP_BODY" OBVIOUS
<1>7. s \o d \in Data /\ (s \o d) \o <<>> = s \o d BY <1>1, JoinIn, NoneIn
<1> SUFFICES ScanGood(y, s \o d) OBVIOUS
<1> HIDE DEF m, d, left, rest, c, end, y
<1>8. CASE left < 3
  <2>1. y.m.parts = parts /\ y.m.delimMatchPart = left /\ y.m.parsePos = "PP_BODY" /\ ~y.m.epilogue
    BY <1>1, <1>2, <1>5, <1>6, <1>8 DEF Parsers
  <2>2. FormAt(y.m, s \o d, <<>>) BY <1>3, <1>8, <2>1 DEF FormAt
  <2> QED BY <1>3, <1>5, <1>7, <1>8, <2>2 DEF ScanGood
<1>9. CASE ~(left < 3)
  <2>1. PICK e \in Data : d = e \o rest /\ AtBoundary(parts, s \o e) BY <1>3, <1>9
  <2>2. y.m.parts = parts /\ y.m.parsePos = "PP_GOT_BOUNDARY" /\ ~y.m.epilogue
    BY <1>1, <1>2, <1>5, <1>9 DEF Parsers
  <2>3. FormAt(y.m, s \o e, rest) BY <2>1, <2>2 DEF FormAt
  <2>4. rest \in Data
    <3>1. y \in ScanStates BY ScanNextIn DEF y
    <3> QED BY <1>5, <3>1 DEF ScanStates
  <2>5. (s \o e) \o rest = s \o (e \o rest) /\ s \o e \in Data BY <2>4, Joins, JoinIn
  <2> QED BY <1>5, <2>1, <2>3, <2>5 DEF ScanGood
<1> QED BY <1>8, <1>9

\* A round of the loop behind a delimiter.
LEMMA NextAtBoundary ==
  ASSUME NEW x \in ScanStates, NEW s \in Data, FormAt(x.m, s, x.rest), x.rest # <<>>,
         x.m.parsePos # "PP_BODY", LinesClose(s \o x.rest)
  PROVE  ScanGood(ScanNext(x), s \o x.rest)
<1> DEFINE m == x.m
           d == x.rest
           eol == IndexOf({"lf"}, d)
           new == NewPart(m)
           parts == Append(m.parts, cpart_new)
           y == ScanNext(x)
<1>1. m \in MpData /\ m \in Parsers /\ d \in Data /\ m.delimMatchPart = 0 /\ m.parts \in Seq(Part)
  BY DEF ScanStates, MpData, Parsers
<1>2. ~m.epilogue /\ AtBoundary(m.parts, s) BY <1>1 DEF FormAt
<1>3. y = AfterBoundary(m, d) BY DEF ScanNext
<1>4. s \o d \in Data /\ (s \o d) \o <<>> = s \o d /\ d \o <<>> = d /\ <<>> \in Data BY <1>1, JoinIn, NoneIn
<1>5. d # <<>> /\ LinesClose(s \o d) OBVIOUS
<1>6. new = [m EXCEPT !.parts = parts] BY DEF NewPart
<1> SUFFICES ScanGood(y, s \o d) OBVIOUS
<1>7. m.parsePos = "PP_GOT_BOUNDARY" BY <1>1 DEF Parsers
<1> HIDE DEF m, d, y, parts
<1>8. CASE Head(d) = "hyphen"
  <2>1. y = [m |-> [m EXCEPT !.epilogue = TRUE], rest |-> <<>>] BY <1>3, <1>8 DEF AfterBoundary
  <2>2. y.rest = <<>> /\ y.m = [m EXCEPT !.epilogue = TRUE] BY <2>1
  <2>3. y.m.parts = m.parts /\ y.m.epilogue BY <1>1, <2>2 DEF Parsers
  <2>4. AtEnd(m.parts, s \o d)
    <3>1. LinesClose(s \o (d \o <<>>)) BY <1>4, <1>5
    <3> QED BY <1>1, <1>2, <1>4, <1>5, <1>8, <3>1, BoundaryEnds
  <2>5. FormAt(y.m, s \o d, <<>>) BY <2>3, <2>4 DEF FormAt
  <2> QED BY <1>4, <2>2, <2>5 DEF ScanGood
<1>9. CASE Head(d) # "hyphen" /\ eol = 0
  <2>1. y = [m |-> new, rest |-> <<>>] BY <1>3, <1>9 DEF AfterBoundary
  <2>2. y.rest = <<>> /\ y.m = [m EXCEPT !.parts = parts] BY <1>6, <2>1
  <2>3. y.m.parts = parts /\ ~y.m.epilogue /\ y.m.parsePos = "PP_GOT_BOUNDARY"
    BY <1>1, <1>2, <1>7, <2>2 DEF Parsers
  <2>4. AtBoundary(parts, s \o d) BY <1>1, <1>2, <1>5, <1>9, BoundaryMore DEF parts
  <2>5. FormAt(y.m, s \o d, <<>>) BY <2>3, <2>4 DEF FormAt
  <2> QED BY <1>4, <2>2, <2>5 DEF ScanGood
<1>10. CASE Head(d) # "hyphen" /\ eol # 0
  <2>1. y = [m |-> [new EXCEPT !.parsePos = "PP_BODY"], rest |-> From(d, eol + 1)]
    BY <1>3, <1>10 DEF AfterBoundary
  <2>2. y.rest = TextOf(d) /\ y.m = [new EXCEPT !.parsePos = "PP_BODY"] BY <2>1 DEF TextOf
  <2> HIDE DEF new
  <2>3. y.m.parts = parts /\ ~y.m.epilogue /\ y.m.parsePos = "PP_BODY" /\ y.m.delimMatchPart = 0
    BY <1>1, <1>2, <1>6, <2>2 DEF Parsers
  <2>4. PICK b \in Data : /\ Len(b) = eol /\ IndexOf({"lf"}, b) = Len(b) /\ d = b \o TextOf(d)
                          /\ b # <<>> /\ TextOf(b) = <<>> /\ Head(b) = Head(d)
    BY <1>1, <1>10, TextBegins
  <2>5. TextOf(d) \in Data BY <1>1, <1>10, TextIs
  <2>6. IndexOf({"lf"}, b) # 0 BY <1>10, <2>4
  <2>7. InText(parts, s \o b, <<>>, <<>>)
    BY <1>1, <1>2, <1>10, <2>4, <2>6, BoundaryOver DEF parts
  <2> DEFINE rest == TextOf(d)
  <2>8. rest \in Data /\ d = b \o rest BY <2>4, <2>5
  <2> HIDE DEF rest
  <2>9. Reading(parts, 0, s \o b, rest)
    <3>1. Len(<<>>) = 0 /\ <<>> \in Data BY NoneIn
    <3>2. \A i \in 1 .. Len(<<>>) - 0 : FALSE
      <4>1. \A i \in 1 .. 0 : FALSE OBVIOUS
      <4> QED BY <3>1, <4>1
    <3>3. Pends(<<>>, 0, rest) BY <3>1, <3>2 DEF Pends
    <3>4. Taken(<<>>, 0) = <<>> BY <3>1, TakenAll
    <3> QED BY <2>7, <3>1, <3>3, <3>4 DEF Reading
  <2>10. FormAt(y.m, s \o b, rest) BY <2>3, <2>9 DEF FormAt
  <2>11. (s \o b) \o rest = s \o (b \o rest) /\ s \o b \in Data
    <3>1. JoinsAs(s, b, rest) BY <2>8, Joined
    <3>2. s \o b \in Data BY <2>8, JoinIn
    <3> QED BY <3>1, <3>2 DEF JoinsAs
  <2>12. y.rest = rest BY <2>2 DEF rest
  <2> QED BY <2>8, <2>10, <2>11, <2>12 DEF ScanGood
<1> QED BY <1>8, <1>9, <1>10

\* A round of the loop.
LEMMA NextGood ==
  ASSUME NEW x \in ScanStates, NEW all, ScanGood(x, all), LinesClose(all)
  PROVE  ScanGood(ScanNext(x), all)
<1>1. PICK s \in Data : all = s \o x.rest /\ FormAt(x.m, s, x.rest) BY DEF ScanGood
<1>2. CASE x.rest = <<>> BY <1>2 DEF ScanNext
<1>3. CASE x.rest # <<>> /\ x.m.parsePos = "PP_BODY" BY <1>1, <1>3, NextInText
<1>4. CASE x.rest # <<>> /\ x.m.parsePos # "PP_BODY" BY <1>1, <1>4, NextAtBoundary
<1> QED BY <1>2, <1>3, <1>4

\* A round of the loop leaves nothing, or fewer line ends.
LEMMA ScanLess ==
  ASSUME NEW x \in ScanStates, x.rest # <<>>
  PROVE  ScanNext(x).rest = <<>> \/ LineEnds(ScanNext(x).rest) < LineEnds(x.rest)
<1> DEFINE d == x.rest
           y == ScanNext(x)
           n == Len(d)
<1>1. d \in Data /\ n \in Nat BY LenOf DEF ScanStates
<1>2. CASE x.m.parsePos = "PP_BODY"
  <2> DEFINE e == PartEnd(d)
             i == e + 3
  <2>1. y.rest = From(d, i) BY <1>2, DelimIs DEF ScanNext
  <2>2. e \in 1 .. n + 1 /\ (e <= n => MatchAt(d, e)) BY <1>1, PartEndIs
  <2> HIDE DEF e, y, d, n
  <2>3. i \in Nat /\ i > 0 /\ i = e + 3 BY <1>1, <2>2
  <2> HIDE DEF i
  <2>4. CASE e + 1 <= n
    <3>1. e \in 1 .. n /\ e + 1 \in 1 .. n /\ e + 1 < i BY <1>1, <2>2, <2>3, <2>4
    <3>2. d[e + 1] = "lf" BY <1>1, <2>2, <2>4, <3>1, MatchAtIs DEF n
    <3> DEFINE j == e + 1
    <3>3. j \in 1 .. Len(d) /\ j < i /\ d[j] = "lf" BY <3>1, <3>2 DEF n
    <3> HIDE DEF j
    <3>4. LineEnds(From(d, i)) < LineEnds(d) BY <1>1, <2>3, <3>3, LineEndsBehind
    <3> QED BY <2>1, <3>4 DEF y, d
  <2>5. CASE ~(e + 1 <= n)
    <3>1. i \in Int /\ n \in Int /\ n < i BY <1>1, <2>2, <2>3, <2>5
    <3>2. From(d, i) = <<>> BY <3>1, SubSeqEmpty DEF From, n
    <3> QED BY <2>1, <3>2 DEF y
  <2> QED BY <2>4, <2>5
<1>3. CASE x.m.parsePos # "PP_BODY"
  <2> DEFINE eol == IndexOf({"lf"}, d)
             i == eol + 1
  <2>1. y = AfterBoundary(x.m, d) BY <1>3 DEF ScanNext
  <2>2. CASE Head(d) = "hyphen" \/ eol = 0 BY <2>1, <2>2 DEF AfterBoundary
  <2>3. CASE ~(Head(d) = "hyphen" \/ eol = 0)
    <3>1. y.rest = From(d, i) BY <2>1, <2>3 DEF AfterBoundary
    <3>2. eol \in 1 .. n /\ d[eol] = "lf" /\ eol \in Nat BY <1>1, <2>3, IndexOfIs DEF Data
    <3> HIDE DEF eol, d, y, n
    <3>3. i \in Nat /\ i > 0 /\ eol < i BY <3>2
    <3> HIDE DEF i
    <3>4. LineEnds(From(d, i)) < LineEnds(d) BY <1>1, <3>2, <3>3, LineEndsBehind DEF n
    <3> QED BY <3>1, <3>4 DEF y, d
  <2> QED BY <2>2, <2>3
<1> QED BY <1>2, <1>3

\* g is what is held in each round of the loop over a piece
IsScanning(g, n, m, d) ==
  /\ n = 2 * LineEnds(Rest(m, d)) + 2
  /\ g[0] = [m |-> Resume(m, d), rest |-> Rest(m, d)]
  /\ g[n].m = Scan(Resume(m, d), Rest(m, d))
  /\ \A k \in 1 .. n : g[k] = ScanNext(g[k - 1])

\* The loop over a piece has such rounds.
LEMMA ScanningExists ==
  ASSUME NEW m \in MpData, NEW d \in Data
  PROVE  \E n \in Nat : \E g \in [0 .. n -> ScanStates] : IsScanning(g, n, m, d)
<1> DEFINE m0 == Resume(m, d)
           d0 == Rest(m, d)
           n == 2 * LineEnds(d0) + 2
           x == [m |-> m0, rest |-> d0]
           step == [s \in ScanStates |-> ScanNext(s)]
           Loop(h) == [k \in 0 .. n |-> IF k = 0 THEN x ELSE ScanNext(h[k - 1])]
           h == CHOOSE h : h = Loop(h)
<1>1. Scan(m0, d0) = h[n].m BY DEF Scan, Repeated
<1>2. x \in ScanStates BY ResumeIn
<1>3. d0 \in Data BY <1>2 DEF ScanStates
<1>4. n \in Nat
  <2> HIDE DEF d0
  <2>1. LineEnds(d0) \in Nat BY <1>3, LineEndsIn
  <2> QED BY <2>1
<1>5. step \in [ScanStates -> ScanStates] /\ \A s \in ScanStates : step[s] = ScanNext(s) BY ScanNextIn
<1> HIDE DEF x, step, n
<1>6. PICK g \in [0 .. n -> ScanStates] : IsLoop(g, n, x, step) BY <1>2, <1>4, <1>5, LoopExists
<1>7. g[0] = x /\ \A k \in 1 .. n : g[k] = ScanNext(g[k - 1]) BY <1>4, <1>5, <1>6 DEF IsLoop
<1>8. g = Loop(g) BY <1>4, <1>7
<1>9. h = Loop(h)
  <2> HIDE DEF Loop
  <2> QED BY <1>8
<1>10. g[n] = h[n]
  <2> HIDE DEF h
  <2> DEFINE S == {k \in 0 .. n : g[k] = h[k]}
  <2>1. 0 \in S BY <1>4, <1>7, <1>9
  <2>2. \A k \in 1 .. n : k - 1 \in S => k \in S BY <1>4, <1>7, <1>9
  <2>3. n \in S
    <3> HIDE DEF S
    <3> QED BY <1>4, <2>1, <2>2, UpTo
  <2> QED BY <2>3
<1>11. IsScanning(g, n, m, d) BY <1>1, <1>7, <1>10 DEF IsScanning, n, x
<1> QED BY <1>4, <1>11

\* What a piece of a form makes of its parser.
LEMMA MpDataIn ==
  ASSUME NEW m \in MpData, NEW d \in Data
  PROVE  mpdata_appendData(m, d) \in MpData
<1>1. PICK n \in Nat : \E g \in [0 .. n -> ScanStates] : IsScanning(g, n, m, d) BY ScanningExists
<1>2. PICK g \in [0 .. n -> ScanStates] : IsScanning(g, n, m, d) BY <1>1
<1>3. g[n] \in ScanStates /\ g[n].m = Scan(Resume(m, d), Rest(m, d)) BY <1>2 DEF IsScanning
<1> QED BY <1>3 DEF mpdata_appendData, ScanStates

\* The rounds of the loop over a piece suffice: all of it is read.
LEMMA ScanEnds ==
  ASSUME NEW m \in MpData, NEW d \in Data, NEW n \in Nat, NEW g \in [0 .. n -> ScanStates],
         IsScanning(g, n, m, d)
  PROVE  g[n].rest = <<>>
<1> DEFINE d0 == Rest(m, d)
<1>1. /\ n = 2 * LineEnds(d0) + 2 /\ g[0].rest = d0
      /\ \A k \in 1 .. n : g[k] = ScanNext(g[k - 1])
  BY DEF IsScanning
<1>2. \A k \in 0 .. n : g[k] \in ScanStates /\ g[k].rest \in Data /\ LineEnds(g[k].rest) \in Nat
  BY LineEndsIn DEF ScanStates
<1>3. 0 \in 0 .. n /\ n \in 0 .. n OBVIOUS
<1>4. LineEnds(d0) \in Nat BY <1>1, <1>2, <1>3
<1> HIDE DEF d0
<1> DEFINE Ends(k) == g[k].rest = <<>> \/ LineEnds(g[k].rest) + k <= LineEnds(d0)
           T == {k \in 0 .. n : Ends(k)}
<1>5. 0 \in T BY <1>1, <1>3, <1>4
<1>6. ASSUME NEW k \in 1 .. n, k - 1 \in T PROVE k \in T
  <2> DEFINE x == g[k - 1]
  <2>1. k - 1 \in 0 .. n /\ k \in 0 .. n OBVIOUS
  <2>2. x \in ScanStates /\ g[k] = ScanNext(x) /\ Ends(k - 1) BY <1>1, <1>2, <1>6, <2>1
  <2>3. CASE x.rest = <<>>
    <3>1. g[k] = x BY <2>2, <2>3 DEF ScanNext
    <3> QED BY <2>1, <2>3, <3>1
  <2>4. CASE x.rest # <<>>
    <3>1. LineEnds(x.rest) + (k - 1) <= LineEnds(d0) BY <2>2, <2>4
    <3>2. LineEnds(x.rest) \in Nat /\ LineEnds(g[k].rest) \in Nat BY <1>2, <2>1
    <3>3. ScanNext(x).rest = <<>> \/ LineEnds(ScanNext(x).rest) < LineEnds(x.rest)
      <4> HIDE DEF x
      <4> QED BY <2>2, <2>4, ScanLess
    <3>4. g[k].rest = <<>> \/ LineEnds(g[k].rest) < LineEnds(x.rest) BY <2>2, <3>3
    <3>5. Ends(k)
      <4> HIDE DEF x
      <4> QED BY <1>4, <3>1, <3>2, <3>4
    <3> QED BY <2>1, <3>5
  <2> QED BY <2>3, <2>4
<1>7. n \in T
  <2> HIDE DEF T
  <2>1. \A k \in 0 .. n : k \in T BY <1>5, <1>6, UpTo
  <2> QED BY <1>3, <2>1
<1>8. Ends(n) BY <1>7
<1>9. LineEnds(g[n].rest) \in Nat BY <1>2, <1>3
<1>10. ~(LineEnds(g[n].rest) + n <= LineEnds(d0)) BY <1>1, <1>4, <1>9
<1> QED BY <1>8, <1>10

\* What the parser makes of a piece of a form.
LEMMA FormTakes ==
  ASSUME NEW m \in MpData, NEW s \in Data, FormAt(m, s, <<>>), NEW d \in Data, LinesClose(s \o d)
  PROVE  FormAt(mpdata_appendData(m, d), s \o d, <<>>)
<1> DEFINE all == s \o d
<1>1. CASE m.epilogue
  <2>1. mpdata_appendData(m, d) = m BY <1>1 DEF mpdata_appendData
  <2>2. AtEnd(m.parts, s \o d) BY <1>1, EndMore DEF FormAt
  <2> QED BY <1>1, <2>1, <2>2 DEF FormAt
<1>2. CASE ~m.epilogue
  <2>1. PICK n \in Nat : \E g \in [0 .. n -> ScanStates] : IsScanning(g, n, m, d) BY ScanningExists
  <2>2. PICK g \in [0 .. n -> ScanStates] : IsScanning(g, n, m, d) BY <2>1
  <2>3. \A k \in 1 .. n : g[k] = ScanNext(g[k - 1]) BY <2>2 DEF IsScanning
  <2> DEFINE T == {k \in 0 .. n : ScanGood(g[k], all)}
  <2>4. 0 \in T
    <3>1. ScanGood([m |-> Resume(m, d), rest |-> Rest(m, d)], all) BY <1>2, ResumeGood
    <3>2. g[0] = [m |-> Resume(m, d), rest |-> Rest(m, d)] BY <2>2 DEF IsScanning
    <3> HIDE DEF all
    <3> QED BY <3>1, <3>2
  <2>5. LinesClose(all) OBVIOUS
  <2> HIDE DEF all
  <2>6. ASSUME NEW k \in 1 .. n, k - 1 \in T PROVE k \in T
    <3>1. k - 1 \in 0 .. n /\ k \in 0 .. n OBVIOUS
    <3>2. g[k - 1] \in ScanStates /\ ScanGood(g[k - 1], all) BY <2>2, <2>6, <3>1
    <3>3. ScanGood(ScanNext(g[k - 1]), all) BY <2>5, <3>2, NextGood
    <3> QED BY <2>3, <3>1, <3>3
  <2>7. n \in T
    <3> HIDE DEF T
    <3>1. \A k \in 0 .. n : k \in T BY <2>4, <2>6, UpTo
    <3> QED BY <3>1
  <2>8. ScanGood(g[n], all) /\ g[n].rest = <<>> BY <2>2, <2>7, ScanEnds
  <2>9. PICK a \in Data : all = a \o g[n].rest /\ FormAt(g[n].m, a, g[n].rest) BY <2>8 DEF ScanGood
  <2>10. all = a BY <2>8, <2>9, NoneIn
  <2>11. mpdata_appendData(m, d) = g[n].m BY <1>2, <2>2 DEF mpdata_appendData, IsScanning
  <2> QED BY <2>8, <2>9, <2>10, <2>11 DEF all
<1> QED BY <1>1, <1>2

----------------------------------------------------------------------------
(* What it has found.                                                        *)

\* A line goes on until it ends.
LEMMA LineIsLonger ==
  ASSUME NEW a \in Data, NEW d \in Data, Without(a, "lf")
  PROVE  LET line == Before(a \o d, IndexOf({"lf"}, a \o d))
         IN /\ line \in Data /\ Len(a) <= Len(line) /\ \A i \in 1 .. Len(a) : line[i] = a[i]
<1> DEFINE u == a \o d
           e == IndexOf({"lf"}, u)
           n == Len(a)
           line == Before(u, e)
<1>1. /\ u \in Data /\ n \in Nat /\ Len(d) \in Nat /\ Len(u) = n + Len(d)
      /\ \A i \in 1 .. n : u[i] = a[i]
  BY JoinedAt
<1> HIDE DEF u
<1>2. e \in 0 .. Len(u) /\ (e # 0 => u[e] = "lf") BY <1>1, IndexOfIs DEF Data
<1> HIDE DEF e
<1>3. e = 0 \/ e > n
  <2> SUFFICES ASSUME e # 0, ~(e > n) PROVE FALSE OBVIOUS
  <2>1. e \in 1 .. n BY <1>1, <1>2
  <2>2. a[e] = "lf" BY <1>1, <1>2, <2>1
  <2> QED BY <2>1, <2>2 DEF Without, n
<1>4. line \in Data /\ Len(line) \in Nat /\ n <= Len(line) /\ \A i \in 1 .. n : line[i] = u[i]
  <2>1. CASE e = 0
    <3>1. line = u BY <2>1 DEF Before
    <3> HIDE DEF line, n
    <3> QED BY <1>1, <3>1
  <2>2. CASE e # 0
    <3> DEFINE k == e - 1
    <3>1. k \in 0 .. Len(u) /\ n <= k BY <1>1, <1>2, <1>3, <2>2
    <3>2. line = SubSeq(u, 1, k) BY <2>2 DEF Before
    <3> HIDE DEF k, line, n
    <3>3. u \in Seq(Byte) BY <1>1 DEF Data
    <3>4. line \in Seq(Byte) /\ Len(line) = k /\ \A i \in 1 .. k : line[i] = u[i] BY <3>1, <3>2, <3>3, FirstIs
    <3>5. \A i \in 1 .. n : i \in 1 .. k BY <1>1, <3>1
    <3> QED BY <1>1, <3>1, <3>4, <3>5 DEF Data
  <2> QED BY <2>1, <2>2
<1> QED BY <1>1, <1>4 DEF u, e

\* A hyphen that is not behind other bytes in a line is not in what there is of it.
LEMMA ClosesBefore ==
  ASSUME NEW u \in Data, NEW d \in Data, ClosesLast(Before(u \o d, IndexOf({"lf"}, u \o d)))
  PROVE  ClosesLast(Before(u, IndexOf({"lf"}, u)))
<1>1. CASE IndexOf({"lf"}, u) # 0
  <2>1. /\ IndexOf({"lf"}, u \o d) = IndexOf({"lf"}, u)
        /\ Before(u \o d, IndexOf({"lf"}, u)) = Before(u, IndexOf({"lf"}, u))
    BY <1>1, TextGrows
  <2> QED BY <2>1
<1>2. CASE IndexOf({"lf"}, u) = 0
  <2> DEFINE line == Before(u \o d, IndexOf({"lf"}, u \o d))
             n == Len(u)
  <2>1. Before(u, IndexOf({"lf"}, u)) = u BY <1>2 DEF Before
  <2>2. Without(u, "lf") BY <1>2, NoLine
  <2>3. line \in Data /\ n <= Len(line) /\ \A i \in 1 .. n : line[i] = u[i] BY <2>2, LineIsLonger
  <2>4. ClosesLast(line) OBVIOUS
  <2>5. n \in Nat /\ Len(line) \in Nat /\ DOMAIN u = 1 .. n /\ DOMAIN line = 1 .. Len(line)
    <3> HIDE DEF line
    <3> QED BY <2>3, LenProperties DEF Data
  <2> HIDE DEF line, n
  <2>6. ASSUME "hyphen" \in ToSet(u) PROVE Head(u) = "hyphen"
    <3>1. PICK i \in 1 .. n : u[i] = "hyphen" BY <2>5, <2>6 DEF ToSet
    <3>2. i \in 1 .. Len(line) /\ line[i] = "hyphen" /\ 1 \in 1 .. n /\ 1 \in 1 .. Len(line)
      BY <2>3, <2>5, <3>1
    <3>3. "hyphen" \in ToSet(line) BY <2>5, <3>2 DEF ToSet
    <3>4. Head(line) = "hyphen" BY <2>4, <3>3 DEF ClosesLast
    <3>5. Head(line) = line[1] /\ Head(u) = u[1] BY <2>3, <2>5, <3>2 DEF Data
    <3> QED BY <2>3, <3>2, <3>4, <3>5
  <2> QED BY <2>1, <2>6 DEF ClosesLast
<1> QED BY <1>1, <1>2

\* What is said of the lines of delimiters holds for the beginning of a body.
LEMMA LinesCloseBefore ==
  ASSUME NEW s \in Data, NEW d \in Data, LinesClose(s \o d)
  PROVE  LinesClose(s)
<1> DEFINE all == s \o d
<1>1. /\ all \in Data /\ Len(s) \in Nat /\ Len(d) \in Nat /\ Len(all) = Len(s) + Len(d)
      /\ \A i \in 1 .. Len(s) : all[i] = s[i]
  BY JoinedAt
<1>2. LinesClose(all) OBVIOUS
<1>3. Len(Delim) = 3 BY DelimBytes
<1>4. ASSUME NEW i \in 1 .. Len(s) - Len(Delim) + 1, SubSeq(s, i, i + Len(Delim) - 1) = Delim
      PROVE  ClosesLast(Before(From(s, i + Len(Delim)), IndexOf({"lf"}, From(s, i + Len(Delim)))))
  <2> DEFINE j == i + 2
             b == SubSeq(s, 1, j)
             u == From(s, j + 1)
  <2>1. i \in 1 .. Len(s) - 2 /\ i \in 1 .. Len(s) /\ i + 1 \in 1 .. Len(s) /\ i + 2 \in 1 .. Len(s)
    BY <1>1, <1>3, <1>4
  <2>2. DelimAt(s, i) BY <1>4, <2>1, DelimSub
  <2> HIDE DEF all
  <2>3. DelimAt(all, i) BY <1>1, <2>1, <2>2 DEF DelimAt
  <2>4. i \in 1 .. Len(all) - 2 BY <1>1, <2>1
  <2>5. SubSeq(all, i, i + Len(Delim) - 1) = Delim BY <1>1, <2>3, <2>4, DelimSub
  <2>6. i \in 1 .. Len(all) - Len(Delim) + 1 BY <1>1, <1>3, <2>4
  <2>7. ClosesLast(Before(From(all, i + Len(Delim)), IndexOf({"lf"}, From(all, i + Len(Delim)))))
    BY <1>2, <2>5, <2>6 DEF LinesClose
  <2>8. i + Len(Delim) = j + 1 /\ j \in 0 .. Len(s) /\ j \in Nat BY <1>1, <1>3, <2>1
  <2> HIDE DEF j
  <2>9. b \in Data /\ Len(b) = j /\ u \in Data /\ b \o u = s
    <3>1. s \in Seq(Byte) BY DEF Data
    <3>2. b \in Seq(Byte) /\ Len(b) = j BY <2>8, <3>1, FirstIs
    <3>3. u \in Data BY <2>8, BehindIn
    <3>4. b \o u = s BY <2>8, <3>1, CutAt
    <3> QED BY <3>2, <3>3, <3>4 DEF Data
  <2> HIDE DEF b, u
  <2>10. From(all, j + 1) = u \o d
    <3>1. (b \o u) \o d = b \o (u \o d)
      <4>1. JoinsAs(b, u, d) BY <2>9, Joined
      <4> QED BY <4>1 DEF JoinsAs
    <3>2. u \o d \in Data BY <2>9, JoinIn
    <3> DEFINE w == u \o d
    <3>3. w \in Seq(Byte) /\ b \in Seq(Byte) BY <2>9, <3>2 DEF Data
    <3>4. all = b \o w BY <2>9, <3>1 DEF all
    <3> HIDE DEF w
    <3>5. From(b \o w, Len(b) + 1) = w BY <3>3, JoinedCut
    <3> QED BY <2>9, <3>4, <3>5 DEF w
  <2>11. ClosesLast(Before(u \o d, IndexOf({"lf"}, u \o d))) BY <2>7, <2>8, <2>10
  <2>12. ClosesLast(Before(u, IndexOf({"lf"}, u))) BY <2>9, <2>11, ClosesBefore
  <2> QED BY <2>8, <2>12 DEF u
<1> QED BY <1>4 DEF LinesClose

\* A form that begins another one is well formed if that is.
LEMMA FormBefore ==
  ASSUME NEW b \in Data, NEW d \in Data, IsForm(b \o d)
  PROVE  IsForm(b) /\ LinesClose((Crlf \o b) \o d)
<1>1. Crlf \in Data BY DEF Crlf, Data, Byte
<1>2. Crlf \o b \in Data BY <1>1, JoinIn
<1>3. Crlf \o (b \o d) = (Crlf \o b) \o d BY <1>1, Joins
<1>4. LinesClose(Crlf \o (b \o d)) BY DEF IsForm, LinesClose
<1>5. LinesClose((Crlf \o b) \o d) BY <1>3, <1>4
<1>6. LinesClose(Crlf \o b) BY <1>2, <1>5, LinesCloseBefore
<1>7. IsForm(b) BY <1>6 DEF IsForm, LinesClose
<1> QED BY <1>5, <1>7

\* What the parser has found is what is in the body.
LEMMA FormSeen ==
  ASSUME NEW m \in MpData, NEW b \in Data, FormAt(m, Crlf \o b, <<>>)
  PROVE  PartsSeen(m.parts) = Reference(b)
<1> DEFINE s == Crlf \o b
<1>1. /\ s \in Data
      /\ NoDelim(s) => Reference(b) = <<>>
      /\ \A q \in Seq(Data), tail \in Data :
           IsCutUp(s, q, tail) /\ IsLastSection(tail)
             => Reference(b) = RefOf(q) \o ReferencePart(PartOf(tail, TRUE))
  BY ReferenceIs
<1>2. FormAt(m, s, <<>>) OBVIOUS
<1>3. m.parts \in Seq(Part) BY DEF MpData, Parsers
<1> HIDE DEF s
<1>4. ASSUME NEW q \in Seq(Data), NEW tail \in Data, IsCutUp(s, q, tail), PartsSeen(m.parts) = RefOf(q),
             IndexOf({"lf"}, tail) = 0 \/ Head(tail) = "hyphen"
      PROVE  PartsSeen(m.parts) = Reference(b)
  <2>1. IsLastSection(tail) BY <1>4 DEF IsLastSection, HasText
  <2>2. PartOf(tail, TRUE) = <<>> BY <1>4 DEF PartOf
  <2>3. Reference(b) = RefOf(q) \o <<>> BY <1>1, <1>4, <2>1, <2>2, SeenNothing
  <2>4. PartsSeen(m.parts) \o <<>> = PartsSeen(m.parts) BY <1>3, NewPartIn, PartsSeenMore
  <2> QED BY <1>4, <2>3, <2>4
<1>5. CASE AtEnd(m.parts, s) BY <1>4, <1>5 DEF AtEnd
<1>6. CASE AtBoundary(m.parts, s) BY <1>4, <1>6 DEF AtBoundary
<1>7. CASE Reading(m.parts, m.delimMatchPart, s, <<>>)
  <2> DEFINE k == m.delimMatchPart
  <2>1. PICK t \in Data : Pends(t, k, <<>>) /\ InText(m.parts, s, t, Taken(t, k)) BY <1>7 DEF Reading
  <2>2. <<>> \in Data BY NoneIn
  <2>3. NoDelim(t) BY <2>1, <2>2, PendsNoDelim
  <2>4. CASE m.parts = <<>> /\ t = s BY <1>1, <2>3, <2>4, SeenNothing
  <2>5. ASSUME NEW q \in Seq(Data), NEW tail \in Data, NEW ps \in Seq(Part), NEW p \in Part,
               TextAt(q, tail, ps, p, m.parts, s, t, Taken(t, k))
        PROVE  PartsSeen(m.parts) = Reference(b)
    <3> HIDE DEF k
    <3>1. /\ IsCutUp(s, q, tail) /\ HasText(tail) /\ t = TextOf(tail) /\ m.parts = Append(ps, p)
          /\ PartsSeen(ps) = RefOf(q) /\ LikePart(p, ReadBytes(NothingRead, Taken(t, k)))
      BY <2>5 DEF TextAt
    <3>2. IsLastSection(tail) BY <2>3, <3>1 DEF IsLastSection
    <3>3. PartOf(tail, TRUE) = Taken(t, k)
      <4>1. Pending(t) = k BY <2>1, PendingIs
      <4> QED BY <3>1, <4>1 DEF PartOf, HasText, Taken
    <3>4. PartsSeen(m.parts) = PartsSeen(ps) \o PartSeen(p) BY <3>1, PartsSeenMore
    <3>5. p.isContent \in BOOLEAN BY DEF Part
    <3>6. PartSeen(p) = ReferencePart(Taken(t, k)) BY <3>1, <3>5, SeenLike
    <3>7. Reference(b) = RefOf(q) \o ReferencePart(PartOf(tail, TRUE)) BY <1>1, <3>1, <3>2
    <3> QED BY <3>1, <3>3, <3>4, <3>6, <3>7
  <2> QED BY <2>1, <2>4, <2>5 DEF InText
<1> QED BY <1>2, <1>5, <1>6, <1>7 DEF FormAt
=============================================================================
