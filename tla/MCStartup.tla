----------------------------- MODULE MCStartup -----------------------------
(* Instances of Startup for TLC: files with and without faults. *)
EXTENDS Startup

mcListen ==
    "80" :> [host |-> "0.0.0.0", port |-> 80]
    @@ "me:80" :> [host |-> "127.0.0.1", port |-> 80]
    @@ "me:81" :> [host |-> "127.0.0.1", port |-> 81]
    @@ "70000" :> [host |-> "0.0.0.0", port |-> 70000]
mcNumber == "404" :> 404 @@ "303" :> 303 @@ "200" :> 200

\* Every directive; a line for each
A == <<"http", "{", "nl", "server", "{", "nl", "listen", "80", ";", "nl",
       "server_name", "a", "b", ";", "nl", "client_max_body_size", "1K", ";", "nl",
       "location", "/", "{", "nl", "methods", "GET", ";", "nl", "autoindex", "on", ";", "nl",
       "redirect", "/x", "303", ";", "nl", "}", "nl", "nl", "root", "www", ";", "nl",
       "error_page", "404", "/e", ";", "nl", "}", "nl", "}">>
aLocation == [path |-> "/", settings |-> "methods" :> <<"GET">> @@ "autoindex" :> TRUE
                                @@ "returnPath" :> "/x" @@ "returnCode" :> 303]
aServer == [endpoint |-> mcListen["80"],
            settings |-> "server_name" :> <<"a", "b">> @@ "client_max_body_size" :> <<"1K">>
                         @@ "root" :> <<"www">> @@ "error_page" :> (404 :> "/e"),
            locations |-> <<aLocation>>]

\* Two http blocks and three servers, with braces and directives on one line
B == <<"http", "{", "server", "{", "listen", "me:81", ";", "listen", "me:80", ";",
       "location", "/up", "{", "return", "404", "/x", ";", "upload_dir", "d", ";", "}",
       "location", "/", "{", "index", "i", ";", "nl", "index", "j", ";", "}", "}", "nl",
       "server", "{", "listen", "80", ";", "}", "}", "nl",
       "http", "{", "nl", "server", "{", "listen", "me:81", ";", "index", "k", ";", "}", "}", "nl">>
bServers ==
    <<[endpoint |-> mcListen["me:80"], settings |-> <<>>,
       locations |-> <<[path |-> "/up", settings |-> "returnCode" :> 404 @@ "returnPath" :> "/x"
                                                       @@ "upload_dir" :> <<"d">>],
                       [path |-> "/", settings |-> "index" :> <<"i", "j">>]>>],
      [endpoint |-> mcListen["80"], settings |-> <<>>, locations |-> <<>>],
      [endpoint |-> mcListen["me:81"], settings |-> "index" :> <<"k">>, locations |-> <<>>]>>

\* Files to refuse
Server(directive) == <<"http", "{", "server", "{">> \o directive \o <<"}", "}">>
Bad == {Server(<<>>), Server(<<"listen", "70000", ";">>), Server(<<"listen", "80", "80", ";">>),
        Server(<<"listen", "80", ";", "client_max_body_size", "0", ";">>),
        Server(<<"listen", "80", ";", "server_name", "a:b", ";">>),
        Server(<<"listen", "80", ";", "error_page", "/e", ";">>),
        Server(<<"listen", "80", ";", "location", "/", "{", "methods", "PUT", ";", "}">>),
        Server(<<"listen", "80", ";", "location", "/", "{", "redirect", "/", "200", ";", "}">>),
        Server(<<"listen", "80", ";", "location", "/", "{", "redirect", "x", ";", "}">>),
        Server(<<"listen", "80", ";", "}", "server", "{", "server_name", "a", ";", "listen", "80", ";">>),
        Server(<<"listen", "80", ";", "server_name", "a", ";", "}", "}", "http", "{", "server", "{",
                 "server_name", "b", ";", "listen", "80", ";">>),
        <<"http">>, <<"server", "{", "}">>, <<"http", "{", "listen", "80", ";", "}">>}

Marks == {";", "{", "}", "nl"}
Closing(t, k) == \A j \in k..Len(t) : t[j] \in {"}", "nl"}

\* What is to become of t without the mark at k, and with that mark twice
Lost(t, k) ==
    CASE t[k] = "nl" \/ Closing(t, k) -> "read"
      [] t[k] = "{" \/ (t[k] = ";" /\ (t[k + 1] = "nl" \/ Closing(t, k + 1))) -> "refuse"
      [] OTHER -> "either"
Twice(t, k) == IF t[k] = "nl" THEN "read" ELSE "refuse"

F(t, claim, written) == [text |-> t, claim |-> claim, written |-> written]
Faults(t, written) ==
    LET marks == {k \in DOMAIN t : t[k] \in Marks}
    IN {F(t, "read", written)}
       \cup {F(RemoveAt(t, k), Lost(t, k), written) : k \in marks}
       \cup {F(InsertAt(t, k, t[k]), Twice(t, k), written) : k \in marks}

mcFiles == Faults(A, <<aServer>>) \cup Faults(B, bServers)
           \cup {F(t, "refuse", <<>>) : t \in Bad} \cup {F(<<>>, "read", <<>>)}
mcHosts == <<"0.0.0.0", "127.0.0.1">>
=============================================================================
