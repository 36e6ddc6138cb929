--------------------------- MODULE MCRequestReader --------------------------
(* Small instances of RequestReader: forms with any body of a few tokens, and *)
(* a few requests that are framed in every way.                             *)
EXTENDS RequestReader

CONSTANT MaxTokens   \* bound: tokens in a body

Plain(method) == [method |-> <<method>>, path |-> <<"slash">>, query |-> <<>>, version |-> <<>>]

Sends(method, sizes, body, fields) ==
  [line |-> <<method>>, request |-> Plain(method), eol |-> <<"lf">>,
   headers |-> IF sizes = <<>> THEN <<>> ELSE <<<<"Transfer-Encoding", "colon", "chunked">>>>,
   trailer |-> <<>>, sizes |-> sizes, body |-> body, fields |-> fields]

----------------------------------------------------------------------------
(* Any body.                                                               *)

Tokens == {<<"cr">>, <<"lf">>, <<"hyphen">>,
           Delim \o <<"cr", "lf">>, Delim \o <<"hyphen">>}

\* a body from its first byte, within the header of a part, and within its content
Begins == {<<>>, <<"b", "lf", "x", "lf", "n", "colon">>, <<"b", "lf", "n", "colon", "lf", "cr", "lf">>}

Bodies ==
  LET tokens(begin) == IF Last(<<"x">> \o begin) = "lf" THEN MaxTokens ELSE MaxTokens - 1
      bodies == UNION {{begin \o FlattenSeq(t) : t \in BoundedSeq(Tokens, tokens(begin))} :
                         begin \in Begins}
  IN {s \in bodies : IsForm(s)}

----------------------------------------------------------------------------
(* Requests in every framing.                                              *)

Field(name, fileName, content) == [name |-> name, fileName |-> fileName, content |-> content]

Fields == <<Field(<<"v">>, <<>>, <<"cr", "lf", "cr">>),
            Field(<<"w">>, <<"v", "semi", "eq">>, <<"lf">>)>>

Disposition1 == <<"Content-Disposition", "colon", "form-data", "semi", "name", "eq", "v", "sp">>
Disposition2 == <<"Content-Disposition", "colon", "sp", "form-data", "semi", "sp", "filename", "sp",
                  "eq", "sp", "quote", "v", "semi", "eq", "quote", "sp", "semi", "name", "eq",
                  "quote", "w", "quote">>

FormBody ==
  <<"b">> \o Crlf \o Disposition1 \o Crlf \o Crlf \o Fields[1].content \o Delim \o Crlf
    \o <<"x">> \o Crlf \o Disposition2 \o Crlf \o Crlf \o Fields[2].content
    \o Delim \o <<"hyphen", "hyphen">> \o Crlf

Path1 == [method |-> <<"FILE">>, path |-> <<"slash", "sp", "v", "pct", "qm">>,
          query |-> <<"pct", "2", "qm">>, version |-> <<"1.0">>]
Line1 == <<"FILE", "sp", "slash", "pct", "2", "0", "v", "pct", "2", "5", "pct", "3", "F", "qm",
           "pct", "2", "qm", "sp", "HTTP/", "1.0">>

\* a length that does not count, and a coding behind another one
Chunked(sizes) ==
  [line |-> <<"CGI", "sp", "slash", "sp">>, request |-> Plain("CGI"), eol |-> <<"lf">>,
   headers |-> <<<<"Content-Length", "colon", "2">>, <<"x">>,
                 <<"Transfer-Encoding", "colon", "sp", "x", "comma", "sp", "chunked">>>>,
   trailer |-> <<<<"n", "colon", "sp", "v">>, <<"x">>>>,
   sizes |-> sizes, body |-> <<"cr", "lf", "0", "cr", "lf">>, fields |-> <<>>]

Get == [line |-> Line1, request |-> Path1, eol |-> Crlf, headers |-> <<<<"n", "colon">>>>, trailer |-> <<>>,
        sizes |-> <<>>, body |-> <<>>, fields |-> <<>>]

MCSent ==
  {<<Sends("FORM", <<>>, body, <<>>)>> : body \in Bodies}
  \union {<<Sends("FORM", <<k, Len(FormBody) - k>>, FormBody, Fields)>> :
            k \in {n \in 1 .. Len(FormBody) - 1 : n % 3 = 1}}
  \union {<<Chunked(sizes), Sends("CGI", <<>>, <<"v", "lf">>, <<>>)>> :
            sizes \in {<<5>>, <<1, 4>>, <<2, 1, 2>>}}
  \union {<<Get, Sends("CGI", <<>>, <<"v", "lf">>, <<>>)>>}
=============================================================================
