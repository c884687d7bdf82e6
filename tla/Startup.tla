------------------------------- MODULE Startup -------------------------------
(***************************************************************************)
(* From the configuration file to the listening sockets: main(),           *)
(* ConfigParser and setupListeningSockets().  A file is a sequence of      *)
(* tokens: words, ";", "{", "}" and the end "nl" of a line.  A step of the *)
(* parser is one turn of a loop: a token and what is read on behalf of it. *)
(***************************************************************************)
EXTENDS Integers, SequencesExt

CONSTANTS
    Files,     \* the files there may be, with what they say
    Listen,    \* the host and port that a word after "listen" gives
    Hosts,     \* the hosts, in the order of their texts
    Hostnames, \* words that a server_name may be
    Sizes,     \* words that a client_max_body_size may be
    Number,    \* the numbers that words give
    Locators,  \* words that are an absolute URL or start with a slash
    Fds        \* the descriptors of the process

MaxPort == 65535
\* Without a listen directive the host is empty
Host == STRING \cup {""}
Endpoint == [host : Host, port : Int]

\* A file is to be read as it is written, or to be refused, or either may be
Claims == {"read", "refuse", "either"}

ASSUME StartupAssumption ==
    /\ \A f \in Files : f.text \in Seq(STRING) /\ f.claim \in Claims
    /\ Listen \in [DOMAIN Listen -> Endpoint]
    /\ Number \in [DOMAIN Number -> Int]
    /\ Hosts \in Seq(STRING)

Wildcard == "0.0.0.0"

\* Every host that listen gives is in the order, once, and the wildcard is the
\* first: no text of an address comes before it (configParser.cpp:549-560)
ASSUME HostsAssumption ==
    /\ \A word \in DOMAIN Listen : Listen[word].host \in Range(Hosts)
    /\ \A j, k \in DOMAIN Hosts : Hosts[j] = Hosts[k] => j = k
    /\ Hosts # <<>> /\ Hosts[1] = Wildcard

VARIABLES
    file,      \* the configuration file
    pc,        \* what comes next
    block,     \* the block that is being parsed: the innermost call
    pos,       \* where the parser is in the text
    servers,   \* httpConfig.servers
    server,    \* the server block that is being parsed
    location,  \* the location block that is being parsed
    pending,   \* serversByEndpoint: endpoints without a socket yet
    endpoint,  \* the one whose socket is being made
    sock,      \* its socket
    open,      \* the descriptors that are open
    fds,       \* _fds
    listening, \* _listenSockets: the servers of each socket, as a set of indices
    unable     \* history: endpoints one of whose calls failed by itself

parser == <<block, pos, servers, server, location>>
sockets == <<pending, endpoint, sock, open, fds, listening, unable>>
vars == <<file, pc, parser, sockets>>

NoEndpoint == [host |-> "", port |-> 0]
ServerBlock(address, settings, locations) ==
    [endpoint |-> address, settings |-> settings, locations |-> locations]
NewServer == ServerBlock(NoEndpoint, <<>>, <<>>)
NewLocation == [path |-> "", settings |-> <<>>]

TypeOK ==
    /\ file \in Files
    /\ pc \in {"read", "check", "parse", "validate", "types", "sockets", "bind", "listen",
               "running", "refused", "failed"}
    /\ block \in {"root", "http", "server", "location"}
    /\ \A e \in {server.endpoint} \cup {servers[n].endpoint : n \in DOMAIN servers} :
           e \in Endpoint /\ e.port \in 0..MaxPort
    /\ pending \subseteq {servers[n].endpoint : n \in DOMAIN servers}
    /\ open \subseteq Fds
    /\ listening \in [DOMAIN listening -> SUBSET DOMAIN servers]

Init ==
    /\ file \in Files
    /\ pc = "read"
    /\ block = "root" /\ pos = 1
    /\ servers = <<>> /\ server = NewServer /\ location = NewLocation
    /\ pending = {} /\ endpoint = NoEndpoint
    /\ sock = 0
    /\ open = {} /\ fds = <<>> /\ listening = <<>>
    /\ unable = {}

Refuse == pc' = "refused" /\ UNCHANGED <<parser, sockets>>

-----------------------------------------------------------------------------
(* Tokens                                                                  *)

text == file.text

\* operator>>: the next token after the ends of lines, "" at the end of the file
At(p) == Min({k \in p..Len(text) : text[k] # "nl"} \cup {Max({p, Len(text) + 1})})
Token(p) == IF At(p) <= Len(text) THEN text[At(p)] ELSE ""
After(p) == At(p) + 1

\* getline() up to the ";" after the name of a directive
ValueEnd == Min({k \in After(pos)..Len(text) : text[k] = ";"} \cup {Max({After(pos), Len(text) + 1})})
Value == SubSeq(text, After(pos), ValueEnd - 1)
Words == SelectSeq(Value, LAMBDA word : word # "nl")

ReadFile ==
    /\ pc = "read"
    /\ pc' \in {"check", "failed"}
    /\ UNCHANGED <<file, parser, sockets>>

\* Variant: the text as it is
AsItIs(t) == t

\* eraseClosingBraces(): the braces at the end become one on a line of its own
Erased(t) ==
    SubSeq(t, 1, Max({0} \cup {k \in DOMAIN t : t[k] \notin {"nl", "}"}})) \o <<"nl", "}">>

\* findMissingSemicolon()
MissingSemicolon(t) ==
    \E k \in 2..Len(t) : t[k] = "nl" /\ t[k - 1] \notin {"nl", ";", "{", "}"}

CheckSemicolons ==
    /\ pc = "check"
    /\ IF MissingSemicolon(Erased(text)) THEN Refuse
       ELSE pc' = "parse" /\ UNCHANGED <<parser, sockets>>
    /\ UNCHANGED file

-----------------------------------------------------------------------------
(* Directives                                                              *)

Lists == {"server_name", "index", "methods"}
ServerNames == {"listen", "server_name", "root", "index", "client_max_body_size", "error_page"}
LocationNames == {"methods", "autoindex", "index", "root", "upload_dir", "return", "redirect",
                  "default_file", "cgi_extension", "cgi_path"}

\* What stringstream >> int makes of the word at n: 0 of none, or of no number
Int32(n) == IF n <= Len(Words) /\ Words[n] \in DOMAIN Number THEN Number[Words[n]] ELSE 0

RedirectCode == IF Int32(2) = 0 THEN 302 ELSE Int32(2)

\* Whether the value is good for the directive
Accepts(name) ==
    CASE name = "server_name"          -> ToSet(Words) \subseteq Hostnames
      [] name = "client_max_body_size" -> Len(Value) = 1 /\ Value[1] \in Sizes
      [] name = "error_page"           -> Words # <<>> /\ Words[1] \in DOMAIN Number
      [] name = "methods"              -> ToSet(Words) \subseteq {"GET", "POST", "DELETE"}
      [] name = "redirect"             -> /\ RedirectCode \in 300..399
                                          /\ Words # <<>> /\ Words[1] \in Locators
      [] OTHER                         -> TRUE

Path(n) == IF n <= Len(Words) THEN Words[n] ELSE ""

\* The members that a directive sets
Sets(settings, name) ==
    LET old == IF name \in DOMAIN settings THEN settings[name] ELSE <<>>
    IN
    CASE name \in Lists      -> name :> (old \o Words)
      [] name = "error_page" -> name :> (Int32(1) :> Path(2) @@ old)
      [] name = "autoindex"  -> name :> (Value = <<"on">>)
      [] name = "redirect"   -> "returnPath" :> Path(1) @@ "returnCode" :> RedirectCode
      [] name = "return"     ->
             "returnCode" :> Int32(1)
             @@ (IF Len(Words) > 1 /\ Words[1] \in DOMAIN Number
                 THEN "returnPath" :> Path(2) ELSE <<>>)
      [] OTHER               -> name :> Value

Directive(names) == pc = "parse" /\ Token(pos) \in names
Passed == pos' = ValueEnd + 1

\* Variant: any number will do
AnyListen == Len(Value) = 1 /\ Value[1] \in DOMAIN Listen

\* isValidPortNumber(), isValidIPAddress()
ValidListen == Len(Value) = 1 /\ Value[1] \in DOMAIN Listen /\ Listen[Value[1]].port \in 1..MaxPort

SetListen ==
    /\ block = "server" /\ Directive({"listen"})
    /\ \/ ~ValidListen /\ Refuse
       \/ /\ ValidListen
          /\ server' = ServerBlock(Listen[Value[1]], server.settings, server.locations)
          /\ Passed
          /\ UNCHANGED <<pc, block, servers, location, sockets>>
    /\ UNCHANGED file

SetInServer ==
    /\ block = "server" /\ Directive(ServerNames \ {"listen"})
    /\ LET name == Token(pos)
       IN IF ~Accepts(name) THEN Refuse
          ELSE /\ server' = ServerBlock(server.endpoint, Sets(server.settings, name) @@ server.settings,
                                     server.locations)
               /\ Passed
               /\ UNCHANGED <<pc, block, servers, location, sockets>>
    /\ UNCHANGED file

SetInLocation ==
    /\ block = "location" /\ Directive(LocationNames)
    /\ LET name == Token(pos)
       IN IF ~Accepts(name) THEN Refuse
          ELSE /\ location' = [location EXCEPT !.settings = Sets(@, name) @@ @]
               /\ Passed
               /\ UNCHANGED <<pc, block, servers, server, sockets>>
    /\ UNCHANGED file

-----------------------------------------------------------------------------
(* Blocks                                                                  *)

Enter(inner, p) ==
    IF Token(p) = "{" THEN block' = inner /\ pos' = After(p) /\ UNCHANGED <<pc, servers, sockets>>
    ELSE Refuse

EnterHttp ==
    /\ block = "root" /\ Directive({"http"})
    /\ Enter("http", After(pos))
    /\ UNCHANGED <<file, server, location>>

EnterServer ==
    /\ block = "http" /\ Directive({"server"})
    /\ Enter("server", After(pos))
    /\ server' = IF pc' = "parse" THEN NewServer ELSE server
    /\ UNCHANGED <<file, location>>

EnterLocation ==
    /\ block = "server" /\ Directive({"location"})
    /\ Enter("location", After(After(pos)))
    /\ location' = IF pc' = "parse" THEN [NewLocation EXCEPT !.path = Token(After(pos))]
                   ELSE location
    /\ UNCHANGED <<file, server>>

\* A block ends with its brace, or with the file
Ends == Directive({"}", ""})

LeaveLocation ==
    /\ block = "location" /\ Ends
    /\ server' = ServerBlock(server.endpoint, server.settings, Append(server.locations, location))
    /\ block' = "server" /\ pos' = After(pos)
    /\ UNCHANGED <<file, pc, servers, location, sockets>>

\* Variant: servers on one address need only differ in their names
SameButNames(one, other) ==
    /\ one.endpoint = other.endpoint
    /\ "server_name" \in DOMAIN one.settings \cap DOMAIN other.settings
           => one.settings["server_name"] = other.settings["server_name"]

SameEndpoint(one, other) ==
    one.endpoint.host = other.endpoint.host /\ one.endpoint.port = other.endpoint.port

LeaveServer ==
    /\ block = "server" /\ Ends
    /\ IF \E n \in DOMAIN servers : SameEndpoint(servers[n], server) THEN Refuse
       ELSE /\ servers' = Append(servers, server)
            /\ block' = "http" /\ pos' = After(pos)
            /\ UNCHANGED <<pc, server, location, sockets>>
    /\ UNCHANGED file

LeaveHttp ==
    /\ block = "http" /\ Ends
    /\ block' = "root" /\ pos' = After(pos)
    /\ UNCHANGED <<file, pc, servers, server, location, sockets>>

Known ==
    CASE block = "root"     -> {"http", ""}
      [] block = "http"     -> {"server", "}", ""}
      [] block = "server"   -> ServerNames \cup {"location", "}", ""}
      [] block = "location" -> LocationNames \cup {"}", ""}

Unexpected ==
    /\ pc = "parse" /\ Token(pos) \notin Known
    /\ Refuse
    /\ UNCHANGED file

EndOfFile ==
    /\ block = "root" /\ Directive({""})
    /\ pc' = "validate"
    /\ UNCHANGED <<file, parser, sockets>>

\* parse(): no two servers on one address, no server without one
Validate ==
    /\ pc = "validate"
    /\ IF \/ \E m, n \in DOMAIN servers : m # n /\ SameEndpoint(servers[m], servers[n])
          \/ \E n \in DOMAIN servers : servers[n].endpoint.port = 0
       THEN Refuse
       ELSE pc' = "types" /\ UNCHANGED <<parser, sockets>>
    /\ UNCHANGED file

-----------------------------------------------------------------------------
(* Sockets                                                                 *)

\* loadMimeTypes(), which throws if there is no such file; serversByEndpoint
LoadMimeTypes ==
    /\ pc = "types"
    /\ \/ pc' = "failed" /\ UNCHANGED pending
       \/ pc' = "sockets" /\ pending' = {servers[n].endpoint : n \in DOMAIN servers}
    /\ UNCHANGED <<file, parser, endpoint, sock, open, fds, listening, unable>>

\* The order of std::map
Rank(host) == CHOOSE k \in DOMAIN Hosts : Hosts[k] = host
Before(one, other) ==
    \/ Rank(one.host) < Rank(other.host)
    \/ one.host = other.host /\ one.port < other.port

MakeSocket ==
    /\ pc = "sockets"
    /\ \E e \in pending :
          /\ \A other \in pending \ {e} : Before(e, other)
          /\ endpoint' = e /\ pending' = pending \ {e}
          /\ \/ /\ sock' \in Fds \ open
                /\ open' = open \cup {sock'}
                /\ pc' = "bind" /\ UNCHANGED unable
             \/ unable' = unable \cup {e} /\ UNCHANGED <<pc, sock, open>>
    /\ UNCHANGED <<file, parser, fds, listening>>

Taken == {servers[n].endpoint : n \in UNION {listening[fd] : fd \in DOMAIN listening}}

\* bind() fails where a socket that listens has the address or the wildcard,
\* or if this is the wildcard
InUse ==
    \E e \in Taken :
        /\ e.port = endpoint.port
        /\ e.host = endpoint.host \/ Wildcard \in {e.host, endpoint.host}

\* The call fails, by itself if not because of InUse: the next endpoint
GiveUp ==
    /\ pc' = "sockets"
    /\ open' = open \ {sock}

\* Variants: the socket stays open; the call is made again; the rest is left
BindAndKeep ==
    /\ pc = "bind"
    /\ \/ InUse /\ pc' = "sockets" /\ UNCHANGED <<open, unable>>
       \/ ~InUse /\ pc' = "listen" /\ UNCHANGED <<open, unable>>
       \/ ~InUse /\ pc' = "sockets" /\ unable' = unable \cup {endpoint} /\ UNCHANGED open
    /\ UNCHANGED <<file, parser, pending, endpoint, sock, fds, listening>>

BindAgain ==
    /\ pc = "bind"
    /\ \/ InUse /\ UNCHANGED <<pc, open, unable>>
       \/ ~InUse /\ pc' = "listen" /\ UNCHANGED <<open, unable>>
       \/ ~InUse /\ unable' = unable \cup {endpoint} /\ UNCHANGED <<pc, open>>
    /\ UNCHANGED <<file, parser, pending, endpoint, sock, fds, listening>>

BindOrEnd ==
    /\ pc = "bind"
    /\ \/ InUse /\ GiveUp /\ pending' = {} /\ UNCHANGED unable
       \/ ~InUse /\ pc' = "listen" /\ UNCHANGED <<pending, open, unable>>
       \/ ~InUse /\ GiveUp /\ pending' = {} /\ unable' = unable \cup {endpoint}
    /\ UNCHANGED <<file, parser, endpoint, sock, fds, listening>>

Bind ==
    /\ pc = "bind"
    /\ \/ InUse /\ GiveUp /\ UNCHANGED unable
       \/ ~InUse /\ pc' = "listen" /\ UNCHANGED <<open, unable>>
       \/ ~InUse /\ GiveUp /\ unable' = unable \cup {endpoint}
    /\ UNCHANGED <<file, parser, pending, endpoint, sock, fds, listening>>

ServersAt(e) == {n \in DOMAIN servers : servers[n].endpoint = e}

ListenOn ==
    /\ pc = "listen"
    /\ \/ GiveUp /\ unable' = unable \cup {endpoint} /\ UNCHANGED <<fds, listening>>
       \/ /\ pc' = "sockets"
          /\ fds' = Append(fds, sock)
          /\ listening' = [fd \in DOMAIN listening \cup {sock} |->
                              IF fd = sock THEN ServersAt(endpoint) ELSE listening[fd]]
          /\ UNCHANGED <<open, unable>>
    /\ UNCHANGED <<file, parser, pending, endpoint, sock>>

Run ==
    /\ pc = "sockets" /\ pending = {}
    /\ pc' = "running"
    /\ UNCHANGED <<file, parser, sockets>>

Next ==
    \/ ReadFile \/ CheckSemicolons
    \/ SetListen \/ SetInServer \/ SetInLocation
    \/ EnterHttp \/ EnterServer \/ EnterLocation
    \/ LeaveLocation \/ LeaveServer \/ LeaveHttp \/ Unexpected \/ EndOfFile \/ Validate
    \/ LoadMimeTypes \/ MakeSocket \/ Bind \/ ListenOn \/ Run

Spec == Init /\ [][Next]_vars

\* The process runs until its code lets it stop
FairSpec == Spec /\ WF_vars(Next)

-----------------------------------------------------------------------------
(* Correctness                                                             *)

Accepted == pc \in {"types", "sockets", "bind", "listen", "running"}

\* A file is read as it is written, line ends or not: no block or directive is
\* lost, repeated or put into another block.  A file that lacks a brace that
\* opens, or a ";" at the end of a line, or has a token too much, is refused.
ReadAsWritten ==
    /\ pc = "refused" => file.claim # "read"
    /\ Accepted => /\ file.claim # "refuse"
                   /\ file.claim = "read" => servers = file.written

\* The servers of an accepted file have addresses of their own, with a port,
\* whichever blocks they are in (configParser.cpp:389-398, 430-455).
EndpointsDistinct ==
    Accepted =>
        /\ \A m, n \in DOMAIN servers : m # n => servers[m].endpoint # servers[n].endpoint
        /\ \A n \in DOMAIN servers : servers[n].endpoint.port \in 1..MaxPort

\* What run() starts from: each descriptor in _fds is a listening socket of one
\* server, no two of the same, and no failure has left another one open.
ReadyToRun ==
    pc = "running" =>
        /\ open = DOMAIN listening /\ open = ToSet(fds)
        /\ \A j, k \in DOMAIN fds : fds[j] = fds[k] => j = k
        /\ \A fd \in open : \E n \in DOMAIN servers : listening[fd] = {n}
        /\ \A fd, other \in open : listening[fd] = listening[other] => fd = other

\* A server that nothing listens for has an address that could not be had: one
\* of its calls failed by itself, or a socket for the same port on all hosts
\* came first.  The failure of one endpoint costs no other.
ListensWhereItCan ==
    pc = "running" =>
        \A n \in DOMAIN servers :
            LET e == servers[n].endpoint
            IN e \in Taken \cup unable \/ [host |-> Wildcard, port |-> e.port] \in Taken

\* Whatever the file, the server runs in the end or says why not: every loop of
\* the parser gets on, and sockets that fail are not tried for ever.
StartupEnds == <>(pc \in {"running", "refused", "failed"})
=============================================================================
