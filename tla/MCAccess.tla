------------------------------ MODULE MCAccess -----------------------------
(* Small instances of Access: a file system, configurations and requests.   *)
EXTENDS Access

Dir(readable) == [type |-> "dir", readable |-> readable]
File(readable) == [type |-> "file", readable |-> readable]

MCTree ==
  LET tree(p) == CASE p \in {<<>>, <<"srv">>, <<"srv", "sub">>, <<"srv", "sub", "index.html">>,
                             <<"doc">>} -> Dir(TRUE)
                   [] p = <<"srv", "locked">> -> Dir(FALSE)
                   [] p = <<"srv", "secret">> -> File(FALSE)
                   [] OTHER -> File(TRUE)
  IN [p \in {<<>>, <<"srv">>, <<"srv", "t.cgi">>, <<"srv", "secret">>, <<"srv", "locked">>,
             <<"srv", "sub">>, <<"srv", "sub", "index.html">>,
             <<"doc">>, <<"doc", "index.htm">>, <<"doc", "index.html">>, <<"doc", "x.cgi">>,
             <<"one.cgi">>, <<"welcome.html">>} |-> tree(p)]

MCWelcome == <<"", "welcome.html">>

Opt(name, value) == [name |-> name, value |-> value]
Share(url, sys) == Opt("/", [url |-> url, sys |-> sys])
User(user, secret) == Opt("credentials", [user |-> user, secret |-> secret])

Html == Opt("index", <<{"index.html"}, {"index.html", "index.htm"}>>)
Cgi == Opt("cgi", <<<<{"t.cgi", "x.cgi", "one.cgi"}>>>>)

\* configurations of shares, index files and CGI programs
Sites ==
  {<<Share(<<"", "">>, <<"", "srv">>), Share(<<"", "doc">>, <<"", "doc", "">>), Html, Cgi>>,
   <<Share(<<"", "a", "b">>, <<"", "doc">>), Cgi, Opt("cgi", <<>>),
     Opt("cgi", <<<<{""}, {"a"}, {"c"}>>>>), Share(<<"", "a", "c">>, <<"", "one.cgi">>),
     Share(<<"", "f">>, <<"", "one.cgi">>), Share(<<"", "f">>, <<"", "doc">>)>>,
   <<Share(<<"", "ax">>, <<"", "doc">>), Share(<<"", "a", "doc">>, <<"", "doc">>),
     Share(<<"", "a">>, <<"", "srv">>), Cgi, Opt("index", <<{"index.htm"}>>), Html>>,
   <<Share(<<"", "a", "", "d", "">>, <<"", "">>), Html, Opt("index", <<>>)>>,
   <<Html, Cgi>>}

Paths ==
  {<<"", "">>, <<"..">>, <<"", "a">>, <<"", "a", "">>, <<"", "a", "b">>, <<"", "a", "b", "">>,
   <<"", "a", "b", "..">>, <<"", "a", "doc">>, <<"", "a", "doc", "">>, <<"", "ax", "">>,
   <<"", "a", "t.cgi">>, <<"", "t.cgi", "x", "y">>, <<"", "a", "t.cgi", "">>,
   <<"", "a", "c", "x">>, <<"", "f">>, <<"", "f", "">>, <<"", "a", "sub", "">>,
   <<"", "locked", "">>, <<"", "secret">>, <<"", "doc", "">>, <<"", "doc", "x.cgi">>,
   <<"", "doc", "index.html", "x">>, <<"", "nothing">>, <<"", "a", "", "d", "srv">>}

SiteCases ==
  [conf : Sites, method : {"GET", "HEAD", "POST", "PUT"}, path : Paths,
   form : {"none", "do_change", "do_upload"}, mode : {"W_OK"}, lines : {0}]

\* configurations of rights, on a site with a file and a folder without an index file
RightCases ==
  [conf : {<<Opt("dirops", ops), User("ann", "s1"), Opt("guestops", guest), User("ann", "s2"),
             User("bob", "s3"), Share(<<"", "a">>, <<"", "srv">>)>> :
             ops \in {"none", "listing", "all"}, guest \in {"none", "file", "listing", "all"}},
   method : {"GET", "HEAD", "POST"}, path : {<<"", "a", "t.cgi">>, <<"", "a", "sub", "">>, <<"", "">>},
   form : {"none", "do_login", "do_change", "do_upload", "other"},
   mode : {"W_OK", "read_only", "gone"}, lines : {3}]

\* options that are there twice, and values that there are not
OptionCases ==
  [conf : {<<Opt("dirops", "none"), Opt("guestops", "file"), Opt("dirops", ops), Opt("guestops", guest)>> :
             ops \in {"listing", "all", "some"}, guest \in {"listing", "all", "some"}},
   method : {"GET"}, path : {<<"", "">>}, form : {"none"}, mode : {"W_OK"}, lines : {0}]

MCCases == SiteCases \union RightCases \union OptionCases

MCGiven == {[user |-> "ann", secret |-> "s1", fits |-> TRUE],
            [user |-> "ann", secret |-> "s2", fits |-> TRUE],
            [user |-> "bob", secret |-> "s3", fits |-> TRUE],
            [user |-> "bob", secret |-> "s3", fits |-> FALSE]}
=============================================================================
