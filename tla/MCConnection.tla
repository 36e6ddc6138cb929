--------------------------- MODULE MCConnection ---------------------------
(* Small instances of Connection.                                        *)
EXTENDS Connection

Req(kind, n, chunked, close) ==
  [kind |-> kind, onlyHead |-> FALSE, body |-> n, chunked |-> chunked, close |-> close]

HeadReq(kind) ==
  [kind |-> kind, onlyHead |-> TRUE, body |-> 0, chunked |-> FALSE, close |-> FALSE]

\* pipelined pairs: every kind first, with and without a body of either coding
MCScripts ==
  {<<Req("CGI", 2, FALSE, FALSE), Req("FILE", 0, FALSE, FALSE)>>,
   <<Req("FOLDER", 2, TRUE, FALSE), Req("CGI", 0, FALSE, TRUE)>>,
   <<Req("CGI", 2, TRUE, FALSE), Req("FOLDER", 1, FALSE, FALSE)>>,
   <<Req("FILE", 1, FALSE, FALSE), Req("FILE", 0, FALSE, FALSE)>>,
   <<HeadReq("FOLDER"), HeadReq("CGI")>>}

\* no piece of a body can come after the response
MCLiveScripts ==
  {<<Req("CGI", 2, FALSE, FALSE), Req("FILE", 0, FALSE, FALSE)>>,
   <<Req("FOLDER", 1, TRUE, FALSE), Req("CGI", 2, TRUE, FALSE), Req("FILE", 0, FALSE, TRUE)>>}

MCFileWithBody == {<<Req("FILE", 1, FALSE, FALSE)>>}

MCCgiWithBody == {<<Req("CGI", 2, FALSE, FALSE)>>}
===========================================================================
