---------------------------- MODULE HeaderLines ----------------------------
(* The header of a request (requestheader.c) and of a part of a form         *)
(* (dataheader.c), read in pieces, and what is taken from their lines         *)
(* (datachunk.c).  A byte is a string; one byte also stands for a whole word  *)
(* or name that has no byte in it that the parsers look for.                  *)
EXTENDS Naturals, FiniteSets, SequencesExt

\* a loop: what n steps make of x; a step that finds nothing left to do leaves it
Repeated(Step(_), n, x) ==
  LET after[k \in 0 .. n] == IF k = 0 THEN x ELSE Step(after[k - 1])
  IN after[n]

\* memchr: the place of the first of these bytes, or 0
IndexOf(bytes, d) == SelectInSeq(d, LAMBDA x : x \in bytes)

\* no loop over lines has more steps than one for each line, and one for the data behind
LineEnds(d) == Cardinality({i \in DOMAIN d : d[i] = "lf"})

From(d, i) == SubSeq(d, i, Len(d))

\* all before a place, or all for place 0
Before(d, i) == IF i = 0 THEN d ELSE SubSeq(d, 1, i - 1)

----------------------------------------------------------------------------
(* Chunks of a line.                                                       *)

Blank == {"sp", "tab"}

skipLeadingWS(d) == From(d, IF \A i \in DOMAIN d : d[i] \in Blank THEN Len(d) + 1
                            ELSE SelectInSeq(d, LAMBDA x : x \notin Blank))

trimTrailingWS(d) == Reverse(skipLeadingWS(Reverse(d)))

dch_shiftAfterChr(d, c) == IF IndexOf({c}, d) = 0 THEN d ELSE From(d, IndexOf({c}, d) + 1)

\* the chunk before the delimiter and the one behind it
dch_extractTillChr(d, c) ==
  LET at == IndexOf({c}, d)
  IN [found |-> at # 0, sub |-> Before(d, at), rest |-> IF at = 0 THEN <<>> ELSE From(d, at + 1)]

\* a value, in quotes or up to a semicolon, and what is behind it
ParamValue(d) ==
  LET quoted == dch_extractTillChr(Tail(d), "quote")
      plain == dch_extractTillChr(d, "semi")
  IN IF d # <<>> /\ Head(d) = "quote"
     THEN [value |-> quoted.sub, rest |-> dch_shiftAfterChr(quoted.rest, "semi")]
     ELSE [value |-> trimTrailingWS(plain.sub), rest |-> plain.rest]

Param(name, value) ==
  [found |-> name.found, name |-> trimTrailingWS(skipLeadingWS(name.sub)),
   value |-> value.value, rest |-> value.rest]

dch_extractParam(line) ==
  LET name == dch_extractTillChr(line, "eq")
  IN Param(name, ParamValue(skipLeadingWS(name.rest)))

\* all parameters of a line, in their order
NextParam(read) ==
  LET param == dch_extractParam(read.rest)
  IN IF param.found THEN [params |-> Append(read.params, param), rest |-> param.rest] ELSE read

Params(line) == Repeated(NextParam, Len(line), [params |-> <<>>, rest |-> line]).params

----------------------------------------------------------------------------
(* The first line of a request.                                            *)

DigitList == <<"0", "1", "2", "3", "4", "5", "6", "7", "8", "9", "A", "B", "C", "D", "E", "F">>

\* the place of a digit in the list, which is one more than its value
DigitOf(x) == IndexOf({x}, DigitList)

LeadingDigits(d, base) == Before(d, SelectInSeq(d, LAMBDA x : DigitOf(x) \notin 1 .. base))

\* strtoul
Number(d, base) == FoldLeft(LAMBDA n, x : n * base + DigitOf(x) - 1, 0, LeadingDigits(d, base))

\* the bytes with a number that matters here
ByteOf(n) == CASE n = 32 -> "sp" [] n = 37 -> "pct" [] n = 63 -> "qm" [] OTHER -> "byte"

\* the path, decoded, up to a blank or a question mark
NextOfPath(read) ==
  LET d == read.rest
      isEscape == Head(d) = "pct"
      digits == SubSeq(d, 2, IF Len(d) < 3 THEN Len(d) ELSE 3)
      byte == IF isEscape THEN ByteOf(Number(digits, 16)) ELSE Head(d)
  IN IF d = <<>> \/ Head(d) \in {"sp", "qm"} THEN read
     ELSE [path |-> Append(read.path, byte), rest |-> From(d, IF isEscape THEN 4 ELSE 2)]

Path(d) == Repeated(NextOfPath, Len(d), [path |-> <<>>, rest |-> d])

\* a query begins with a question mark
Query(d) == IF d # <<>> /\ Head(d) = "qm" THEN Before(d, IndexOf({"sp"}, d)) ELSE <<>>

Version(d) ==
  IF Len(d) >= 2 /\ d[1] = "sp" /\ d[2] = "HTTP/" THEN From(d, 3) ELSE <<>>

FirstLine(method, path, query) ==
  [method |-> method, path |-> path.path, query |-> From(query, 2),
   version |-> Version(From(path.rest, Len(query) + 1))]

decodeRequestStartLine(line) ==
  LET cut == IndexOf({"sp"}, line)
      path == Path(From(line, cut + 1))
  IN IF cut = 0
     THEN [method |-> line, path |-> <<"slash">>, query |-> <<>>, version |-> <<>>]
     ELSE FirstLine(Before(line, cut), path, Query(path.rest))

----------------------------------------------------------------------------
(* Lines.                                                                  *)

StartLine == [method : Seq(STRING), path : Seq(STRING), query : Seq(STRING), version : Seq(STRING)]

NoRequest == [method |-> <<>>, path |-> <<>>, query |-> <<>>, version |-> <<>>]

\* datahdr_new: started: no first line is expected (any more); request: the first line;
\* lines: those that are complete; cur: the incomplete one
datahdr_new == [started |-> TRUE, request |-> NoRequest, lines |-> <<>>, cur |-> <<>>]

reqhdr_new == [datahdr_new EXCEPT !.started = FALSE]

Crlf == <<"cr", "lf">>

StripCr(line) == IF line # <<>> /\ Last(line) = "cr" THEN Front(line) ELSE line

\* wrong: the carriage return is looked for in the new piece only
EndOfPiece(cur, piece) == cur \o StripCr(piece)

LineEnded(cur, piece) == StripCr(cur \o piece)

\* a line that is not empty is complete; one without colon is ignored
StoreLine(hdr, line) ==
  IF ~hdr.started
  THEN [hdr EXCEPT !.started = TRUE, !.request = decodeRequestStartLine(line), !.cur = <<>>]
  ELSE [hdr EXCEPT !.cur = <<>>,
                   !.lines = IF IndexOf({"colon"}, line) = 0 THEN @ ELSE Append(@, line)]

\* datahdr_appendData, reqhdr_appendData: rest is what is behind the empty line
NextLine(read) ==
  LET hdr == read.hdr
      eol == IndexOf({"lf"}, read.rest)
      line == LineEnded(hdr.cur, Before(read.rest, eol))
  IN IF read.finished \/ read.rest = <<>> THEN read
     ELSE IF eol = 0
     THEN [read EXCEPT !.hdr.cur = @ \o read.rest, !.rest = <<>>]
     ELSE [hdr |-> IF line = <<>> THEN [hdr EXCEPT !.cur = <<>>] ELSE StoreLine(hdr, line),
           finished |-> line = <<>> /\ hdr.started,
           rest |-> From(read.rest, eol + 1)]

appendLines(hdr, d) ==
  Repeated(NextLine, LineEnds(d) + 1, [hdr |-> hdr, finished |-> FALSE, rest |-> d])

\* what is before the colon of a line
NameOf(line) == Before(line, IndexOf({"colon"}, line))

\* reqhdr_getHeaderVal, datahdr_getHeaderVal: the value of the first line with the name;
\* none is as good as an empty one
getHeaderVal(hdr, name) ==
  LET at == SelectInSeq(hdr.lines, LAMBDA line : NameOf(line) = <<name>>)
  IN IF at = 0 THEN <<>> ELSE skipLeadingWS(dch_shiftAfterChr(hdr.lines[at], "colon"))

\* a coding begins behind a comma and blanks
isChunkedTransferEncoding(hdr) ==
  LET val == getHeaderVal(hdr, "Transfer-Encoding")
  IN \E i \in DOMAIN val, comma \in 0 .. Len(val) :
       /\ val[i] = "chunked" /\ comma < i
       /\ comma = 0 \/ val[comma] = "comma"
       /\ \A k \in comma + 1 .. i - 1 : val[k] \in Blank
=============================================================================
