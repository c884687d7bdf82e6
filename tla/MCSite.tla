------------------------------- MODULE MCSite -------------------------------
(* Instances of Site for TLC: server blocks, files and requests. *)
EXTENDS Site

Dir == [kind |-> "dir", body |-> <<>>, mode |-> {"r", "w"}]
ReadOnlyDir == [Dir EXCEPT !.mode = {"r"}]
File(piece) == [kind |-> "file", body |-> <<piece>>, mode |-> {"r", "w"}]
Locked(piece) == [File(piece) EXCEPT !.mode = {}]
Fifo == [kind |-> "other", body |-> <<>>, mode |-> {"r", "w"}]

\* A path with names of one piece each
P(names) == [k \in DOMAIN names |-> <<names[k]>>]

Loc(path, root) ==
    [path |-> path, root |-> root, indexFiles |-> <<>>, methods |-> Method,
     autoindex |-> FALSE, redirect |-> FALSE, cgiExtension |-> <<>>, uploadDir |-> <<>>]

NoPages == [c \in Code |-> <<>>]
www == <<"www">>

\* Paths that are prefixes of each other, in both orders, and every directive
Full ==
    [root |-> www, indexFiles |-> << <<"a">> >>,
     errorPages |-> [NoPages EXCEPT ![404] = <<"/", "lost">>],
     locations |-> <<
        [Loc(<<"/", "img">>, www) EXCEPT !.methods = {"GET"}, !.autoindex = TRUE,
                                         !.indexFiles = << <<"b">>, <<"c">> >>],
        Loc(<<"/">>, <<>>),
        [Loc(<<"/", "img", "s">>, www) EXCEPT !.autoindex = TRUE],
        [Loc(<<"/", "go">>, www) EXCEPT !.redirect = TRUE],
        [Loc(<<"/", "up">>, www) EXCEPT !.uploadDir = <<"store", "/">>, !.cgiExtension = <<".py">>]
     >>]

\* No location that every uri matches
Partial ==
    [root |-> www, indexFiles |-> <<>>, errorPages |-> NoPages,
     locations |-> << [Loc(<<"/", "scripts">>, <<>>) EXCEPT !.cgiExtension = <<".py">>],
                      Loc(<<"/", "p">>, <<>>) >>]

Bare == [Partial EXCEPT !.locations = <<>>]

\* A root as the shipped conf.d/webserv.conf writes it
Dotted ==
    [root |-> <<".", "/", "www">>, indexFiles |-> <<>>, errorPages |-> NoPages,
     locations |-> << Loc(<<"/">>, <<>>) >>]

MCConfigs == {Full, Partial, Bare, Dotted}

Tree ==
    P(<<>>) :> Dir @@ P(<<"www">>) :> Dir @@ P(<<"store">>) :> Dir @@ P(<<"top">>) :> File("top")
    @@ P(<<"www", "a">>) :> File("home") @@ P(<<"www", "lost">>) :> File("sorry")
    @@ P(<<"www", "img">>) :> Dir @@ P(<<"www", "img", "x">>) :> File("x")

\* A root within the root, as a missing target of a DELETE is looked for there
Nested ==
    P(<<"www", "www">>) :> Dir @@ P(<<"www", "www", "x">>) :> File("deep") @@ Tree

\* Uploads, an index file and a locked file; a directory that may not be changed,
\* and one whose name begins like the root's
Rich ==
    P(<<"www", "img", "c">>) :> File("c") @@ P(<<"www", "pipe">>) :> Fifo
    @@ P(<<"www", "key">>) :> Locked("key") @@ P(<<"www", "uploads">>) :> Dir
    @@ P(<<"www", "uploads", "f">>) :> File("old") @@ P(<<"www", "ro">>) :> ReadOnlyDir
    @@ P(<<"www", "ro", "x">>) :> File("x") @@ << <<"www">>, <<"img", "s">> >> :> Dir
    @@ << <<"www">>, <<"img", "s">>, <<"x">> >> :> File("s") @@ << <<"www", "2">> >> :> Dir
    @@ << <<"www", "2">>, <<"x">> >> :> File("2") @@ Tree

MCDisks == {Tree, Nested, Rich}

MCChanges ==
    [path : {P(<<"www", "img", "x">>), P(<<"www", "img", "c">>), P(<<"www", "a">>), P(<<"www", "x">>),
             P(<<"www", "uploads", "f">>), P(<<"www", "uploads">>)},
     entry : {Gone}]
    \cup {[path |-> P(<<"www", "img", "b">>), entry |-> File("b")],
          [path |-> P(<<"www", "x">>), entry |-> File("new")],
          [path |-> P(<<"www", "img", "x">>), entry |-> Locked("x")],
          [path |-> P(<<"www", "uploads">>), entry |-> Dir]}

Plain(method, uri) ==
    [method |-> method, uri |-> uri, multipart |-> FALSE, boundary |-> FALSE, parts |-> <<>>]

Uris ==
    {<<"/">>, <<"/", "x">>, <<"/", "img">>, <<"/", "img", "/", "x">>, <<"/", "img", "s">>,
     <<"/", "img", "s", "/", "x">>, <<"/", "go">>, <<"/", "pipe">>, <<"/", "key">>, <<"/", "ro", "/", "x">>,
     <<"/", "up", "/", "p", ".py">>, <<"/", "p", ".py">>, <<"/", "x", ".py">>, <<"/", "..", "/", "www", "2", "/", "x">>, <<"/", "img", "/", ".", "/", "x">>,
     <<"/", "uploads", "/", "f">>, <<"x">>}

Part(filename, data) == [filename |-> filename, data |-> data]
Upload(uri, parts) ==
    [method |-> "POST", uri |-> uri, multipart |-> TRUE, boundary |-> TRUE, parts |-> parts]

MCRequests ==
    {Plain(m, u) : m \in {"GET", "DELETE"}, u \in Uris}
    \cup {Plain("PUT", <<"/", "x">>), Plain("POST", <<"/", "x">>)}
    \cup {Upload(<<"/">>, <<Part(<<"f">>, "1"), Part(<<"sub", "/", "g">>, "2"), Part(<<".", "/", "f">>, "3"),
                            Part(<<"x">>, "4"), Part(<<"x", "/", "x">>, "5")>>),
          Upload(<<"/", "up">>, <<Part(<<"contacts.csv">>, "1"), Part(<<"..", "/", "s">>, "2")>>),
          Upload(<<"/", "img">>, <<>>),
          [Upload(<<"/">>, <<Part(<<"f">>, "1")>>) EXCEPT !.boundary = FALSE]}

MCWidth == [token \in {"/", ".", "a", "b", "c", "s", "p", "x", "f", "g", "2"} |-> 1]
           @@ [token \in {"..", "go", "up", "ro"} |-> 2]
           @@ [token \in {"www", "img", ".py", "key", "sub"} |-> 3] @@ [token \in {"pipe", "lost"} |-> 4]
           @@ ("store" :> 5) @@ [token \in {"scripts", "uploads"} |-> 7] @@ ("contacts.csv" :> 12)

\* What the theorem about TargetInsideRoot assumes of the blocks
ASSUME MCLocationsStay == LocationsStay
=============================================================================
