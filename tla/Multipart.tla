----------------------------- MODULE Multipart -----------------------------
(* The multipart/form-data parser (multipartdata.c, contentpart.c), which is  *)
(* given the body of a POST in pieces cut anywhere: mpdata_appendData finds    *)
(* the boundaries in one piece and keeps what it needs of a boundary that a    *)
(* cut divides.  The byte "b" also stands for the whole of "--" and the        *)
(* boundary string, in which there is no "cr".                               *)
EXTENDS HeaderLines

Delim == <<"cr", "lf", "b">>   \* mpdata->boundaryDelimiter

\* memcmp of the data with what is missing of the delimiter, as far as both go
Matches(d, matched) ==
  \A i \in 1 .. Len(d) : matched + i <= Len(Delim) => d[i] = Delim[matched + i]

\* where the delimiter begins in the data, or its part that the data ends with;
\* after the end of the data when there is neither
PartEnd(d) ==
  LET begins == {i \in 1 .. Len(d) : d[i] = "cr" /\ Matches(From(d, i), 0)}
  IN IF begins = {} THEN Len(d) + 1 ELSE CHOOSE i \in begins : \A j \in begins : i <= j

----------------------------------------------------------------------------
(* A part.                                                                 *)

\* isContent: the header is complete, and its file or its body takes the rest
cpart_new == [hdr |-> datahdr_new, isContent |-> FALSE, name |-> <<>>, fileName |-> <<>>,
              content |-> <<>>]

\* the parameters of a Content-Disposition
ParamsOf(val) ==
  LET semi == IndexOf({"semi"}, val)
  IN IF semi = 0 THEN <<>> ELSE Params(From(val, semi + 1))

Disposition(hdr) == ParamsOf(getHeaderVal(hdr, "Content-Disposition"))

\* the last value of a parameter
LastOf(params, Test(_)) ==
  LET at == SelectLastInSeq(params, Test) IN IF at = 0 THEN <<>> ELSE params[at].value

FieldName(params) == LastOf(params, LAMBDA p : p.name = <<"name">>)

\* an empty file name is none
FileName(params) == LastOf(params, LAMBDA p : p.name = <<"filename">> /\ p.value # <<>>)

StartContent(read, params) ==
  [hdr |-> read.hdr, isContent |-> TRUE, content |-> read.rest,
   name |-> FieldName(params), fileName |-> FileName(params)]

HeaderRead(part, read) ==
  IF read.finished THEN StartContent(read, Disposition(read.hdr))
  ELSE [part EXCEPT !.hdr = read.hdr]

\* the content goes to the file, or to the body of a part without one
cpart_appendData(part, d) ==
  IF part.isContent THEN [part EXCEPT !.content = @ \o d]
  ELSE HeaderRead(part, appendLines(part.hdr, d))

----------------------------------------------------------------------------
(* mpdata_appendData.                                                      *)

\* the first boundary may come without CRLF
mpdata_new == [parsePos |-> "PP_BODY", delimMatchPart |-> 2, parts |-> <<>>, epilogue |-> FALSE]

\* the last part takes data; there is none in the preamble
AppendToPart(m, d) ==
  IF m.parts = <<>> THEN m
  ELSE [m EXCEPT !.parts = ReplaceAt(m.parts, Len(m.parts), cpart_appendData(Last(m.parts), d))]

\* wrong: what matched before the cut is forgotten when the delimiter does not go on
NotDelimiterDropped(m) == [m EXCEPT !.delimMatchPart = 0]

NotDelimiter(m) == [AppendToPart(m, SubSeq(Delim, 1, m.delimMatchPart))
                      EXCEPT !.delimMatchPart = 0]

\* the data after what belongs to a delimiter that an earlier piece began
Rest(m, d) ==
  LET rmdr == Len(Delim) - m.delimMatchPart
  IN IF m.delimMatchPart > 0 /\ Matches(d, m.delimMatchPart)
     THEN SubSeq(d, rmdr + 1, Len(d)) ELSE d

\* wrong: the count is not reset at the end of the delimiter
ResumeCounting(m, d) ==
  IF m.delimMatchPart = 0 THEN m
  ELSE IF ~Matches(d, m.delimMatchPart) THEN NotDelimiter(m)
  ELSE IF m.delimMatchPart + Len(d) < Len(Delim)
  THEN [m EXCEPT !.delimMatchPart = @ + Len(d)]
  ELSE [m EXCEPT !.parsePos = "PP_GOT_BOUNDARY"]

Resume(m, d) ==
  IF m.delimMatchPart = 0 THEN m
  ELSE IF ~Matches(d, m.delimMatchPart) THEN NotDelimiter(m)
  ELSE IF m.delimMatchPart + Len(d) < Len(Delim)
  THEN [m EXCEPT !.delimMatchPart = @ + Len(d)]
  ELSE [m EXCEPT !.delimMatchPart = 0, !.parsePos = "PP_GOT_BOUNDARY"]

NewPart(m) == [m EXCEPT !.parts = Append(@, cpart_new)]

\* the data up to a delimiter is content
Content(m, d) ==
  LET end == PartEnd(d)
      added == AppendToPart(m, SubSeq(d, 1, end - 1))
  IN IF Len(d) + 1 - end < Len(Delim)
     THEN [added EXCEPT !.delimMatchPart = Len(d) + 1 - end]
     ELSE [added EXCEPT !.parsePos = "PP_GOT_BOUNDARY"]

\* what follows a delimiter is left out up to the end of the line
AfterBoundary(m, d) ==
  LET eol == IndexOf({"lf"}, d)
  IN IF Head(d) = "hyphen" THEN [m |-> [m EXCEPT !.epilogue = TRUE], rest |-> <<>>]
     ELSE IF eol = 0 THEN [m |-> NewPart(m), rest |-> <<>>]
     ELSE [m |-> [NewPart(m) EXCEPT !.parsePos = "PP_BODY"], rest |-> From(d, eol + 1)]

ScanNext(s) ==
  IF s.rest = <<>> THEN s
  ELSE IF s.m.parsePos = "PP_BODY"
  THEN [m |-> Content(s.m, s.rest), rest |-> From(s.rest, PartEnd(s.rest) + Len(Delim))]
  ELSE AfterBoundary(s.m, s.rest)

Scan(m, d) == Repeated(ScanNext, 2 * LineEnds(d) + 2, [m |-> m, rest |-> d]).m

mpdata_appendData(m, d) == IF m.epilogue THEN m ELSE Scan(Resume(m, d), Rest(m, d))

----------------------------------------------------------------------------
(* A parser that has the whole body at once.                               *)

\* The place after the first delimiter that begins at from or later, or 0.
AfterDelim(s, from) ==
  LET found == {i \in from .. Len(s) + 1 - Len(Delim) :
                  SubSeq(s, i, i + Len(Delim) - 1) = Delim}
  IN IF found = {} THEN 0 ELSE (CHOOSE i \in found : \A j \in found : i <= j) + Len(Delim)

\* What is between delimiters; the rest of the line of a delimiter is no content.
NextSection(cut) ==
  LET s == cut.rest
      eol == IndexOf({"lf"}, s)
      next == AfterDelim(s, eol + 1)
  IN IF s = <<>> \/ Head(s) = "hyphen" \/ eol = 0 \/ next = 0 THEN cut
     ELSE [sections |-> Append(cut.sections, SubSeq(s, 1, next - 1 - Len(Delim))),
           rest |-> From(s, next)]

Sections(s) ==
  LET cut == Repeated(NextSection, LineEnds(s), [sections |-> <<>>, rest |-> s])
  IN Append(cut.sections, cut.rest)

AllSections(text) ==
  LET s == Crlf \o text
      first == AfterDelim(s, 1)
  IN IF first = 0 THEN <<>> ELSE Sections(From(s, first))

\* what is behind the line of a delimiter
TextOf(section) == From(section, IndexOf({"lf"}, section) + 1)

\* how much at the end may be the beginning of a delimiter
Pending(text) ==
  Max({n \in 0 .. Len(Delim) - 1 :
         n <= Len(text) /\ From(text, Len(text) + 1 - n) = SubSeq(Delim, 1, n)})

\* The text of a section, without the beginning of a delimiter at the end of the last
\* one; there is none behind the hyphen of the last delimiter.
PartOf(section, last) ==
  LET text == TextOf(section)
  IN IF IndexOf({"lf"}, section) = 0 \/ Head(section) = "hyphen" THEN <<>>
     ELSE IF last THEN SubSeq(text, 1, Len(text) - Pending(text)) ELSE text

\* The header of a part and its content, byte by byte.
ReadByte(read, x) ==
  LET line == StripCr(read.cur)
  IN IF read.isContent THEN [read EXCEPT !.content = Append(@, x)]
     ELSE IF x # "lf" THEN [read EXCEPT !.cur = Append(@, x)]
     ELSE [read EXCEPT !.cur = <<>>, !.isContent = line = <<>>,
                       !.lines = IF "colon" \in ToSet(line) THEN Append(@, line) ELSE @]

ReadBytes(read, text) == FoldLeft(ReadByte, read, text)

NothingRead == [lines |-> <<>>, cur |-> <<>>, isContent |-> FALSE, content |-> <<>>]

\* What there is to see of a part: none is seen before its header is complete.
Seen(part, lines, name, fileName) ==
  IF part.isContent
  THEN <<[lines |-> lines, name |-> name, fileName |-> fileName, content |-> part.content]>>
  ELSE <<>>

ReferencePart(text) ==
  LET read == ReadBytes(NothingRead, text)
  IN Seen(read, read.lines, FieldName(Disposition(read)), FileName(Disposition(read)))

Reference(body) ==
  LET sections == AllSections(body)
  IN FlattenSeq([i \in 1 .. Len(sections) |->
                   ReferencePart(PartOf(sections[i], i = Len(sections)))])

\* What there is to see of the parts that the parser has found.
PartSeen(part) == Seen(part, part.hdr.lines, part.name, part.fileName)

PartsSeen(parts) == FlattenSeq([i \in 1 .. Len(parts) |-> PartSeen(parts[i])])

FieldsIn(found) ==
  [i \in DOMAIN found |-> [name |-> found[i].name, fileName |-> found[i].fileName,
                           content |-> found[i].content]]

\* What clients write: in the line of a delimiter there is a hyphen only if it is the
\* first byte, as behind the last part.
ClosesLast(line) == "hyphen" \in ToSet(line) => Head(line) = "hyphen"

IsForm(body) ==
  LET s == Crlf \o body
      line(i) == Before(From(s, i), IndexOf({"lf"}, From(s, i)))
  IN \A i \in 1 .. Len(s) - Len(Delim) + 1 :
       SubSeq(s, i, i + Len(Delim) - 1) = Delim => ClosesLast(line(i + Len(Delim)))
=============================================================================
