---------------------------- MODULE StartupProofs ----------------------------
(***************************************************************************)
(* Theorems about Startup: types, the addresses of the servers, and what   *)
(* the event loop starts from.                                             *)
(***************************************************************************)
EXTENDS Startup, SequenceTheorems, TLAPS

Endpoints == {servers[n].endpoint : n \in DOMAIN servers}

Parsing == pc \in {"read", "check", "parse", "validate", "types", "refused"}
Making == pc \in {"bind", "listen"}

IsSequence(s) == \E S : s \in Seq(S)

ServersType ==
    /\ IsSequence(servers)
    /\ \A n \in DOMAIN servers : servers[n].endpoint \in Endpoint
    /\ server.endpoint \in Endpoint

\* The check at the end of each block keeps the addresses distinct at any time
Distinct ==
    \A m, n \in DOMAIN servers : servers[m].endpoint = servers[n].endpoint => m = n

Ports ==
    /\ server.endpoint.port \in 0..MaxPort
    /\ \A n \in DOMAIN servers : servers[n].endpoint.port \in 0..MaxPort
    /\ Accepted => \A n \in DOMAIN servers : servers[n].endpoint.port # 0

\* No socket is made before the file is accepted
NoSocketYet == Parsing => pending = {} /\ open = {} /\ fds = <<>> /\ listening = <<>>

\* A descriptor that is open listens, or is the one being made; each belongs to
\* one server, whose turn is over
Descriptors ==
    /\ fds \in Seq(Fds) /\ open \subseteq Fds
    /\ \A j, k \in DOMAIN fds : fds[j] = fds[k] => j = k
    /\ \A fd : fd \in DOMAIN listening <=> \E k \in DOMAIN fds : fds[k] = fd
    /\ open = DOMAIN listening \cup (IF Making THEN {sock} ELSE {})
    /\ Making => sock \in Fds /\ sock \notin DOMAIN listening

Turns ==
    /\ pending \subseteq Endpoints
    /\ Making => endpoint \in Endpoints \ pending
    /\ \A fd \in DOMAIN listening : \E n \in DOMAIN servers :
           /\ listening[fd] = {n} /\ servers[n].endpoint \notin pending
           /\ Making => servers[n].endpoint # endpoint
    /\ \A fd, other \in DOMAIN listening : listening[fd] = listening[other] => fd = other
    /\ listening = [fd \in DOMAIN listening |-> listening[fd]]

Control ==
    /\ file \in Files
    /\ pc \in {"read", "check", "parse", "validate", "types", "sockets", "bind", "listen",
               "running", "refused", "failed"}
    /\ block \in {"root", "http", "server", "location"}
    /\ pc = "failed" => open = {} /\ pending = {} /\ fds = <<>> /\ listening = <<>>

IInv == Control /\ ServersType /\ Distinct /\ Ports /\ NoSocketYet /\ Descriptors /\ Turns

USE StartupAssumption DEF StartupAssumption

-----------------------------------------------------------------------------

LEMMA PortsAreNumbers == MaxPort \in Nat
  BY DEF MaxPort

LEMMA BlockAddress ==
    ASSUME NEW address, NEW settings, NEW locations
    PROVE  ServerBlock(address, settings, locations).endpoint = address
  BY DEF ServerBlock

LEMMA PairType ==
    ASSUME NEW host \in Host, NEW port \in Nat
    PROVE  [host |-> host, port |-> port] \in Endpoint /\ [host |-> host, port |-> port].port = port
  BY DEF Endpoint

LEMMA NewServerType ==
    NewServer.endpoint = NoEndpoint /\ NoEndpoint \in Endpoint /\ NoEndpoint.port = 0
<1>0. "" \in Host /\ 0 \in Nat
  <2>1. "" \in Host
    BY Zenon DEF Host
  <2> QED
    BY <2>1
<1>1. NewServer.endpoint = NoEndpoint
  <2>1. ServerBlock(NoEndpoint, <<>>, <<>>).endpoint = NoEndpoint
    BY BlockAddress, Zenon
  <2> QED
    BY <2>1, Zenon DEF NewServer
<1>2. NoEndpoint \in Endpoint /\ NoEndpoint.port = 0
  BY <1>0, PairType, Zenon DEF NoEndpoint
<1> QED
  BY <1>1, <1>2

LEMMA EmptyIsSequence == IsSequence(<<>>)
<1>1. <<>> \in Seq({})
  BY EmptySeq
<1> QED
  BY <1>1, Zenon DEF IsSequence

LEMMA AppendIsSequence ==
    ASSUME NEW s, IsSequence(s), NEW elt
    PROVE  /\ IsSequence(Append(s, elt))
           /\ DOMAIN Append(s, elt) = DOMAIN s \cup {Len(s) + 1} /\ Len(s) + 1 \notin DOMAIN s
           /\ Append(s, elt)[Len(s) + 1] = elt
           /\ \A n \in DOMAIN s : Append(s, elt)[n] = s[n]
<1>1. PICK S : s \in Seq(S)
  BY DEF IsSequence
<1> DEFINE T == S \cup {elt}
<1>2. s \in Seq(T) /\ elt \in T
  BY <1>1
<1> HIDE DEF T
<1>3. Append(s, elt) \in Seq(T)
  BY <1>2, AppendProperties
<1>4. IsSequence(Append(s, elt))
  BY <1>3, Zenon DEF IsSequence
<1> QED
  BY <1>2, <1>4, AppendProperties

LEMMA InitInv == Init => IInv
<1> SUFFICES ASSUME Init PROVE IInv
  OBVIOUS
<1>1. IsSequence(servers) /\ servers = <<>>
  BY EmptyIsSequence DEF Init
<1>2. server.endpoint = NoEndpoint
  BY NewServerType DEF Init
<1>3. NoEndpoint \in Endpoint /\ NoEndpoint.port = 0 /\ 0 \in 0..MaxPort
  BY PortsAreNumbers, NewServerType
<1>4. pending = {} /\ open = {} /\ fds = <<>> /\ listening = <<>>
  BY DEF Init
<1>5. DOMAIN servers = {} /\ DOMAIN fds = {} /\ DOMAIN listening = {} /\ fds \in Seq(Fds)
  BY <1>1, <1>4, EmptySeq
<1>6. pc = "read" /\ file \in Files /\ block = "root"
  BY DEF Init
<1>7. ServersType /\ Distinct /\ Ports
  BY <1>1, <1>2, <1>3, <1>5, <1>6 DEF ServersType, Distinct, Ports, Accepted
<1>8. Descriptors
  BY <1>4, <1>5, <1>6 DEF Descriptors, Making
<1>9. Turns
  BY <1>4, <1>5, <1>6 DEF Turns, Making
<1> QED
  BY <1>4, <1>6, <1>7, <1>8, <1>9 DEF IInv, Control, NoSocketYet

\* The parser's steps leave the sockets alone, and stay in it
LEMMA ParserStep ==
    ASSUME IInv, Parsing, pc' \in {"read", "check", "parse", "validate", "types", "refused", "failed"},
           file' = file, UNCHANGED sockets, block' \in {"root", "http", "server", "location"},
           ServersType', Distinct', Ports'
    PROVE  IInv'
<1>1. NoSocketYet' /\ Control'
  BY DEF IInv, Control, NoSocketYet, Parsing, sockets
<1>2. ~Making /\ ~Making'
  BY DEF Parsing, Making
<1>3. pending = {} /\ open = {} /\ fds = <<>> /\ listening = <<>>
  BY DEF IInv, NoSocketYet
<1>4. UNCHANGED <<pending, open, fds, listening>>
  BY DEF sockets
<1>5. Descriptors'
  BY <1>2, <1>4 DEF IInv, Descriptors
<1>6. DOMAIN listening = {}
  BY <1>3
<1>7. Turns'
  BY <1>2, <1>3, <1>4, <1>6 DEF Turns, IInv
<1> QED
  BY <1>1, <1>5, <1>7 DEF IInv

\* Refusing is a step of the parser whatever happens to its variables
LEMMA RefuseStep ==
    ASSUME IInv, Parsing, Refuse, file' = file
    PROVE  IInv'
<1>1. UNCHANGED <<servers, server, block, sockets>> /\ pc' = "refused"
  BY DEF Refuse, parser
<1>2. ServersType' /\ Distinct' /\ Ports'
  BY <1>1 DEF IInv, ServersType, Distinct, Ports, Accepted
<1> QED
  BY <1>1, <1>2, ParserStep DEF IInv, Control

\* Steps that change neither the servers nor the address of the current one
LEMMA SameServersStep ==
    ASSUME IInv, Parsing, pc' \in {"check", "parse", "validate", "failed"}, file' = file,
           UNCHANGED <<servers, sockets>>, block' \in {"root", "http", "server", "location"},
           server'.endpoint \in Endpoint, server'.endpoint.port \in 0..MaxPort
    PROVE  IInv'
<1>1. ServersType' /\ Distinct' /\ Ports'
  BY DEF IInv, ServersType, Distinct, Ports, Accepted
<1> QED
  BY <1>1, ParserStep

LEMMA ServerType == IInv => server.endpoint \in Endpoint /\ server.endpoint.port \in 0..MaxPort
  BY DEF IInv, ServersType, Ports

LEMMA DirectiveInv ==
    ASSUME IInv, SetListen \/ SetInServer \/ SetInLocation \/ Unexpected
    PROVE  IInv'
<1>0. Parsing /\ file' = file /\ pc = "parse" /\ block \in {"root", "http", "server", "location"}
  BY DEF Parsing, Directive, SetListen, SetInServer, SetInLocation, Unexpected, IInv, Control
<1>1. CASE Refuse
  BY <1>0, <1>1, RefuseStep
<1>2. CASE SetListen /\ ~Refuse
  <2>1. /\ ValidListen /\ server' = ServerBlock(Listen[Value[1]], server.settings, server.locations)
        /\ UNCHANGED <<pc, block, servers, location, sockets>>
    BY <1>2 DEF SetListen
  <2>2. Listen[Value[1]] \in Endpoint /\ Listen[Value[1]].port \in 1..MaxPort
    BY <2>1 DEF ValidListen
  <2>3. server'.endpoint = Listen[Value[1]]
    BY <2>1, BlockAddress
  <2> QED
    BY <1>0, <2>1, <2>2, <2>3, PortsAreNumbers, ServerType, SameServersStep
<1>3. CASE SetInServer /\ ~Refuse
  <2>1. /\ UNCHANGED <<pc, block, servers, sockets>>
        /\ server'.endpoint = server.endpoint
    BY <1>3, BlockAddress DEF SetInServer
  <2> QED
    BY <1>0, <2>1, ServerType, SameServersStep
<1>4. CASE SetInLocation /\ ~Refuse
  <2>1. UNCHANGED <<pc, block, servers, server, sockets>>
    BY <1>4 DEF SetInLocation
  <2> QED
    BY <1>0, <2>1, ServerType, SameServersStep
<1> QED
  BY <1>1, <1>2, <1>3, <1>4 DEF Unexpected

LEMMA EnterInv ==
    ASSUME IInv, EnterHttp \/ EnterServer \/ EnterLocation
    PROVE  IInv'
<1>0. Parsing /\ file' = file /\ pc = "parse" /\ block \in {"root", "http", "server", "location"}
  BY DEF Parsing, Directive, EnterHttp, EnterServer, EnterLocation, IInv, Control
<1>1. CASE Refuse
  BY <1>0, <1>1, RefuseStep
<1>2. CASE ~Refuse
  <2>1. /\ UNCHANGED <<pc, servers, sockets>>
        /\ block' \in {"http", "server", "location"}
    BY <1>2 DEF EnterHttp, EnterServer, EnterLocation, Enter
  <2>2. server' = server \/ server' = NewServer
    BY DEF EnterHttp, EnterServer, EnterLocation
  <2>3. NewServer.endpoint \in Endpoint /\ NewServer.endpoint.port = 0
    BY NewServerType
  <2> QED
    BY <1>0, <2>1, <2>2, <2>3, PortsAreNumbers, ServerType, SameServersStep
<1> QED
  BY <1>1, <1>2

LEMMA LeaveServerInv == ASSUME IInv, LeaveServer PROVE IInv'
<1>0. Parsing /\ file' = file /\ pc = "parse"
  BY DEF Parsing, Directive, Ends, LeaveServer
<1>1. CASE Refuse
  BY <1>0, <1>1, RefuseStep
<1>2. CASE ~Refuse
  <2>1. /\ ~\E n \in DOMAIN servers : SameEndpoint(servers[n], server)
        /\ servers' = Append(servers, server) /\ block' = "http"
        /\ UNCHANGED <<pc, server, location, sockets>>
    BY <1>2 DEF LeaveServer
  <2>3. server.endpoint \in Endpoint /\ server.endpoint.port \in 0..MaxPort
    BY ServerType
  <2> DEFINE k == Len(servers) + 1
  <2>5. /\ IsSequence(servers')
        /\ DOMAIN servers' = DOMAIN servers \cup {k} /\ k \notin DOMAIN servers
        /\ servers'[k] = server /\ \A n \in DOMAIN servers : servers'[n] = servers[n]
    BY <2>1, AppendIsSequence DEF IInv, ServersType
  <2>6. \A n \in DOMAIN servers : servers[n].endpoint # server.endpoint
    BY <2>1 DEF SameEndpoint
  <2>7. ServersType'
    BY <2>1, <2>3, <2>5 DEF IInv, ServersType
  <2>8. Distinct'
    BY <2>5, <2>6 DEF IInv, Distinct
  <2>9. Ports'
    BY <1>0, <2>1, <2>3, <2>5 DEF IInv, Ports, Accepted
  <2> QED
    BY <1>0, <2>1, <2>7, <2>8, <2>9, ParserStep
<1> QED
  BY <1>1, <1>2

LEMMA OtherParserInv ==
    ASSUME IInv, ReadFile \/ CheckSemicolons \/ LeaveLocation \/ LeaveHttp \/ EndOfFile
    PROVE  IInv'
<1>0. Parsing /\ file' = file /\ block \in {"root", "http", "server", "location"}
  BY DEF Parsing, Directive, Ends, ReadFile, CheckSemicolons, LeaveLocation, LeaveHttp,
         EndOfFile, IInv, Control
<1>1. CASE Refuse
  BY <1>0, <1>1, RefuseStep
<1>2. CASE LeaveLocation
  <2>1. /\ block' = "server" /\ UNCHANGED <<pc, servers, sockets>>
        /\ server'.endpoint = server.endpoint /\ pc = "parse"
    BY <1>2, BlockAddress DEF LeaveLocation, Ends, Directive
  <2> QED
    BY <1>0, <2>1, ServerType, SameServersStep
<1>3. CASE ~Refuse /\ ~LeaveLocation
  <2>1. /\ UNCHANGED <<servers, server, sockets>> /\ block' \in {block, "root"}
        /\ pc' \in {"check", "parse", "validate", "failed"}
    BY <1>3 DEF ReadFile, CheckSemicolons, LeaveHttp, EndOfFile, Ends, Directive, parser
  <2> QED
    BY <1>0, <2>1, ServerType, SameServersStep
<1> QED
  BY <1>1, <1>2, <1>3

LEMMA ValidateInv == ASSUME IInv, Validate PROVE IInv'
<1>0. Parsing /\ file' = file
  BY DEF Parsing, Validate
<1>1. CASE Refuse
  BY <1>0, <1>1, RefuseStep
<1>2. CASE ~Refuse
  <2>1. /\ \A n \in DOMAIN servers : servers[n].endpoint.port # 0
        /\ pc' = "types" /\ UNCHANGED <<parser, sockets>>
    BY <1>2 DEF Validate
  <2>2. ServersType' /\ Distinct' /\ Ports'
    BY <2>1 DEF IInv, ServersType, Distinct, Ports, parser
  <2> QED
    BY <1>0, <2>1, <2>2, ParserStep DEF IInv, Control, parser
<1> QED
  BY <1>1, <1>2

-----------------------------------------------------------------------------

\* The steps that make sockets leave the servers alone
LEMMA ServersStay ==
    ASSUME IInv, UNCHANGED <<file, parser>>, Accepted \/ pc' = "failed",
           pc' \in {"sockets", "bind", "listen", "running", "failed"}
    PROVE  /\ ServersType' /\ Distinct' /\ Ports' /\ NoSocketYet' /\ Endpoints' = Endpoints
           /\ servers' = servers /\ (pc' # "failed" => Control')
  BY DEF IInv, ServersType, Distinct, Ports, NoSocketYet, Control, Parsing, Accepted, parser,
         Endpoints

LEMMA LoadMimeTypesInv == ASSUME IInv, LoadMimeTypes PROVE IInv'
<1>1. /\ UNCHANGED <<file, parser, sock, open, fds, listening>>
      /\ pc = "types" /\ pc' \in {"failed", "sockets"}
      /\ \/ pc' = "failed" /\ pending' = pending
         \/ pc' = "sockets" /\ pending' = Endpoints
  BY DEF LoadMimeTypes, Endpoints
<1>2. /\ ServersType' /\ Distinct' /\ Ports' /\ NoSocketYet' /\ Endpoints' = Endpoints
      /\ servers' = servers /\ (pc' # "failed" => Control')
  BY <1>1, ServersStay DEF Accepted
<1>3. open = {} /\ fds = <<>> /\ listening = <<>> /\ pending = {}
  BY <1>1 DEF IInv, NoSocketYet, Parsing
<1>4. DOMAIN listening = {} /\ ~Making /\ ~Making'
  BY <1>1, <1>3 DEF Making
<1>5. Control'
  BY <1>1, <1>2, <1>3 DEF IInv, Control, parser
<1>6. Descriptors'
  BY <1>1, <1>4 DEF IInv, Descriptors
<1>7. Turns'
  BY <1>1, <1>2, <1>3, <1>4 DEF Turns, IInv
<1> QED
  BY <1>2, <1>5, <1>6, <1>7 DEF IInv

LEMMA MakeSocketInv == ASSUME IInv, MakeSocket PROVE IInv'
<1>1. PICK e \in pending :
          /\ endpoint' = e /\ pending' = pending \ {e}
          /\ \/ sock' \in Fds \ open /\ open' = open \cup {sock'} /\ pc' = "bind"
             \/ UNCHANGED <<pc, sock, open>>
  BY DEF MakeSocket
<1>2. UNCHANGED <<file, parser, fds, listening>> /\ pc = "sockets" /\ ~Making
  BY DEF MakeSocket, Making
<1>3. pc' \in {"sockets", "bind"}
  BY <1>1, <1>2
<1>4. /\ ServersType' /\ Distinct' /\ Ports' /\ NoSocketYet' /\ Endpoints' = Endpoints
      /\ servers' = servers /\ Control'
  BY <1>2, <1>3, ServersStay DEF Accepted
<1>5. open = DOMAIN listening
  BY <1>2 DEF IInv, Descriptors
<1>6. Descriptors'
  BY <1>1, <1>2, <1>5 DEF IInv, Descriptors, Making
<1>7. Turns'
  <2>1. pending' \subseteq Endpoints /\ e \in Endpoints \ pending'
    BY <1>1 DEF IInv, Turns
  <2>2. \A fd \in DOMAIN listening : \E n \in DOMAIN servers :
            /\ listening[fd] = {n} /\ servers[n].endpoint \notin pending'
            /\ servers[n].endpoint # e
    BY <1>1 DEF IInv, Turns
  <2> QED
    BY <1>1, <1>2, <1>4, <2>1, <2>2 DEF IInv, Turns
<1> QED
  BY <1>4, <1>6, <1>7 DEF IInv

\* A socket that is given up: only the descriptor goes
LEMMA GiveUpInv ==
    ASSUME IInv, Making, GiveUp, UNCHANGED <<file, parser, pending, endpoint, sock, fds, listening>>
    PROVE  IInv'
<1>1. pc' = "sockets" /\ open' = open \ {sock} /\ ~Making'
  BY DEF GiveUp, Making
<1>2. /\ ServersType' /\ Distinct' /\ Ports' /\ NoSocketYet' /\ Endpoints' = Endpoints
      /\ servers' = servers /\ Control'
  BY <1>1, ServersStay DEF Accepted, Making
<1>3. Descriptors'
  BY <1>1 DEF IInv, Descriptors
<1>4. Turns'
  BY <1>1, <1>2 DEF IInv, Turns
<1> QED
  BY <1>2, <1>3, <1>4 DEF IInv

LEMMA BindInv == ASSUME IInv, Bind PROVE IInv'
<1>1. UNCHANGED <<file, parser, pending, endpoint, sock, fds, listening>> /\ pc = "bind"
  BY DEF Bind
<1>2. CASE GiveUp
  BY <1>1, <1>2, GiveUpInv DEF Making
<1>3. CASE ~GiveUp
  <2>1. pc' = "listen" /\ open' = open /\ Making /\ Making'
    BY <1>1, <1>3 DEF Bind, Making
  <2>2. /\ ServersType' /\ Distinct' /\ Ports' /\ NoSocketYet' /\ Endpoints' = Endpoints
        /\ servers' = servers /\ Control'
    BY <1>1, <2>1, ServersStay DEF Accepted
  <2>3. Descriptors'
    BY <1>1, <2>1 DEF IInv, Descriptors
  <2>4. Turns'
    BY <1>1, <2>1, <2>2 DEF IInv, Turns
  <2> QED
    BY <2>2, <2>3, <2>4 DEF IInv
<1> QED
  BY <1>2, <1>3

LEMMA ListenOnInv == ASSUME IInv, ListenOn PROVE IInv'
<1>1. UNCHANGED <<file, parser, pending, endpoint, sock>> /\ pc = "listen" /\ Making
  BY DEF ListenOn, Making
<1>2. CASE GiveUp /\ UNCHANGED <<fds, listening>>
  BY <1>1, <1>2, GiveUpInv
<1>3. CASE ~(GiveUp /\ UNCHANGED <<fds, listening>>)
  <2>1. /\ pc' = "sockets" /\ fds' = Append(fds, sock) /\ open' = open /\ ~Making'
        /\ listening' = [fd \in DOMAIN listening \cup {sock} |->
                            IF fd = sock THEN ServersAt(endpoint) ELSE listening[fd]]
    BY <1>1, <1>3 DEF ListenOn, Making
  <2>2. /\ ServersType' /\ Distinct' /\ Ports' /\ NoSocketYet' /\ Endpoints' = Endpoints
        /\ servers' = servers /\ Control'
    BY <1>1, <2>1, ServersStay DEF Accepted
  <2>3. sock \in Fds /\ sock \notin DOMAIN listening /\ endpoint \in Endpoints \ pending
    BY <1>1 DEF IInv, Descriptors, Turns
  <2>4. /\ DOMAIN listening' = DOMAIN listening \cup {sock}
        /\ listening'[sock] = ServersAt(endpoint)
        /\ \A fd \in DOMAIN listening : listening'[fd] = listening[fd]
        /\ listening' = [fd \in DOMAIN listening' |-> listening'[fd]]
    BY <2>1, <2>3
  <2>5. PICK m \in DOMAIN servers : servers[m].endpoint = endpoint
    BY <2>3 DEF Endpoints
  <2>6. ServersAt(endpoint) = {m}
    BY <2>5 DEF ServersAt, IInv, Distinct
  <2>7. fds \in Seq(Fds)
    BY DEF IInv, Descriptors
  <2>8. /\ fds' \in Seq(Fds) /\ DOMAIN fds' = DOMAIN fds \cup {Len(fds) + 1}
        /\ Len(fds) + 1 \notin DOMAIN fds
        /\ fds'[Len(fds) + 1] = sock /\ \A k \in DOMAIN fds : fds'[k] = fds[k]
    BY <2>1, <2>3, <2>7, AppendProperties
  <2>9. Descriptors'
    <3>1. \A k \in DOMAIN fds : fds[k] # sock
      BY <2>3 DEF IInv, Descriptors
    <3>2. \A j, k \in DOMAIN fds' : fds'[j] = fds'[k] => j = k
      BY <2>8, <3>1 DEF IInv, Descriptors
    <3>3. \A fd : fd \in DOMAIN listening' <=> \E k \in DOMAIN fds' : fds'[k] = fd
      BY <2>4, <2>8 DEF IInv, Descriptors
    <3>4. open' = DOMAIN listening' /\ open' \subseteq Fds
      BY <1>1, <2>1, <2>4 DEF IInv, Descriptors
    <3> QED
      BY <2>1, <2>8, <3>2, <3>3, <3>4 DEF Descriptors
  <2>10. Turns'
    <3>1. \A fd \in DOMAIN listening : \E n \in DOMAIN servers :
              listening[fd] = {n} /\ servers[n].endpoint \notin pending /\ n # m
      BY <1>1, <2>5 DEF IInv, Turns
    <3>2. \A fd \in DOMAIN listening' : \E n \in DOMAIN servers :
              listening'[fd] = {n} /\ servers[n].endpoint \notin pending
      BY <2>3, <2>4, <2>5, <2>6, <3>1
    <3>3. \A fd, other \in DOMAIN listening' : listening'[fd] = listening'[other] => fd = other
      <4>1. \A fd, other \in DOMAIN listening : listening[fd] = listening[other] => fd = other
        BY DEF IInv, Turns
      <4>2. \A fd \in DOMAIN listening : listening'[fd] # listening'[sock]
        <5>1. m \in listening'[sock]
          BY <2>4, <2>6
        <5>2. \A fd \in DOMAIN listening : m \notin listening'[fd]
          BY <2>4, <3>1
        <5> QED
          BY <5>1, <5>2
      <4> QED
        BY <2>4, <4>1, <4>2
    <3> QED
      BY <1>1, <2>1, <2>2, <2>4, <3>2, <3>3 DEF IInv, Turns
  <2> QED
    BY <2>2, <2>9, <2>10 DEF IInv
<1> QED
  BY <1>2, <1>3

LEMMA RunInv == ASSUME IInv, Run PROVE IInv'
<1>1. /\ UNCHANGED <<file, parser, sockets>> /\ pc = "sockets" /\ pc' = "running"
      /\ ~Making /\ ~Making'
  BY DEF Run, Making
<1>2. /\ ServersType' /\ Distinct' /\ Ports' /\ NoSocketYet' /\ Endpoints' = Endpoints
      /\ servers' = servers /\ Control'
  BY <1>1, ServersStay DEF Accepted
<1> QED
  BY <1>1, <1>2 DEF IInv, Descriptors, Turns, sockets

LEMMA NextInv == IInv /\ [Next]_vars => IInv'
<1> SUFFICES ASSUME IInv, [Next]_vars PROVE IInv'
  OBVIOUS
<1>1. CASE Next
  BY <1>1, DirectiveInv, EnterInv, LeaveServerInv, OtherParserInv, ValidateInv,
     LoadMimeTypesInv, MakeSocketInv, BindInv, ListenOnInv, RunInv DEF Next
<1>2. CASE UNCHANGED vars
  BY <1>2 DEF vars, parser, sockets, IInv, Control, ServersType, Distinct, Ports, NoSocketYet,
              Descriptors, Turns, Parsing, Making, Accepted, Endpoints
<1> QED
  BY <1>1, <1>2

LEMMA Invariant == Spec => []IInv
  BY InitInv, NextInv, PTL DEF Spec

-----------------------------------------------------------------------------

\* Types, whatever the file: a port is one that htons() does not cut, what is
\* left to do is addresses of servers, and sockets belong to servers.
THEOREM TypeCorrect == Spec => []TypeOK
<1>1. IInv => TypeOK
  <2> SUFFICES ASSUME IInv PROVE TypeOK
    OBVIOUS
  <2>1. listening \in [DOMAIN listening -> SUBSET DOMAIN servers]
    BY DEF IInv, Turns
  <2> QED
    BY <2>1 DEF IInv, TypeOK, Control, ServersType, Ports, Descriptors, Turns, Endpoints
<1> QED
  BY <1>1, Invariant, PTL

\* Accepted servers have addresses of their own and ports, however many blocks
\* the file has and whatever is wrong with it: parseHttpBlock()'s check is enough
\* for the first, the loops at the end of parse() are needed for the second.
THEOREM AddressesDistinct == Spec => []EndpointsDistinct
<1>1. IInv => EndpointsDistinct
  BY DEF IInv, EndpointsDistinct, Distinct, Ports
<1> QED
  BY <1>1, Invariant, PTL

\* However many endpoints there are and whichever calls fail, run() starts from
\* tables that agree, with one server for each socket and no descriptor besides.
THEOREM TablesReady == Spec => []ReadyToRun
<1>1. IInv => ReadyToRun
  <2> SUFFICES ASSUME IInv, pc = "running" PROVE ReadyToRun
    BY DEF ReadyToRun
  <2>1. open = DOMAIN listening
    BY DEF IInv, Descriptors, Making
  <2>2. open = ToSet(fds)
    BY <2>1 DEF IInv, Descriptors, ToSet
  <2> QED
    BY <2>1, <2>2 DEF IInv, Descriptors, Turns, ReadyToRun
<1> QED
  BY <1>1, Invariant, PTL

-----------------------------------------------------------------------------
(* Who is listened for                                                     *)

HostKnown(e) == e.port = 0 \/ e.host \in Range(Hosts)

HostsKnown == HostKnown(server.endpoint) /\ \A e \in Endpoints : HostKnown(e)

\* The endpoint whose socket is being made
Current == IF Making THEN {endpoint} ELSE {}

\* As long as a wildcard is to come, or has its turn, no other host has a socket
WildcardFirst ==
    \A e \in pending \cup Current :
        e.host = Wildcard => \A t \in Taken \cup Current : t.host = Wildcard

\* Each endpoint has a socket, waits for it, or has a reason to have none
Settled(e) ==
    \/ e \in pending \cup Current \cup Taken \cup unable
    \/ [host |-> Wildcard, port |-> e.port] \in Taken

Attended ==
    /\ pc \in {"sockets", "bind", "listen", "running"} => \A e \in Endpoints : Settled(e)
    /\ pc = "running" => pending = {}

AInv == HostsKnown /\ WildcardFirst /\ Attended

\* The wildcard comes first among the hosts that are in the order
LEMMA WildcardRank ==
    /\ Rank(Wildcard) = 1
    /\ \A host \in Range(Hosts) : Rank(host) \in Nat \ {0}
<1>1. \A host \in Range(Hosts) : Rank(host) \in DOMAIN Hosts /\ Hosts[Rank(host)] = host
  BY DEF Rank, Range
<1>2. DOMAIN Hosts \subseteq Nat \ {0} /\ 1 \in DOMAIN Hosts
  BY HostsAssumption DEF HostsAssumption
<1>3. Wildcard \in Range(Hosts) /\ Hosts[1] = Wildcard
  BY <1>2, HostsAssumption DEF HostsAssumption, Range
<1> QED
  BY <1>1, <1>2, <1>3, HostsAssumption DEF HostsAssumption

\* So what comes before a wildcard is one
LEMMA NothingBeforeWildcard ==
    ASSUME NEW one, NEW other, one.host \in Range(Hosts), other.host = Wildcard,
           Before(one, other)
    PROVE  one.host = Wildcard
<1>1. Rank(one.host) \in Nat \ {0} /\ Rank(other.host) = 1
  BY WildcardRank
<1> QED
  BY <1>1 DEF Before

LEMMA AInitInv == Init => AInv
<1> SUFFICES ASSUME Init PROVE AInv
  OBVIOUS
<1>1. HostKnown(server.endpoint)
  BY NewServerType DEF Init, HostKnown
<1>2. DOMAIN servers = {} /\ pending = {} /\ pc = "read"
  BY EmptySeq DEF Init
<1> QED
  BY <1>1, <1>2 DEF AInv, HostsKnown, WildcardFirst, Attended, Endpoints, Current, Making

\* The parser leaves the sockets alone: only the hosts are in question
LEMMA AParserStep ==
    ASSUME AInv, IInv, Parsing, pc' \in {"read", "check", "parse", "validate", "types", "refused", "failed"},
           UNCHANGED sockets, HostsKnown'
    PROVE  AInv'
<1>1. ~Making' /\ pending' = {}
  BY DEF IInv, NoSocketYet, Making, sockets
<1> QED
  BY <1>1 DEF AInv, WildcardFirst, Attended, Current

LEMMA ARefuseStep ==
    ASSUME AInv, IInv, Parsing, Refuse
    PROVE  AInv'
<1>1. UNCHANGED <<servers, server, sockets>> /\ pc' = "refused"
  BY DEF Refuse, parser
<1>2. HostsKnown'
  BY <1>1 DEF AInv, HostsKnown, HostKnown, Endpoints
<1> QED
  BY <1>1, <1>2, AParserStep

LEMMA ASameServersStep ==
    ASSUME AInv, IInv, Parsing, pc' \in {"check", "parse", "validate", "types", "failed"},
           UNCHANGED <<servers, sockets>>, HostKnown(server'.endpoint)
    PROVE  AInv'
<1>1. HostsKnown'
  BY DEF AInv, HostsKnown, HostKnown, Endpoints
<1> QED
  BY <1>1, AParserStep

LEMMA AParserInv ==
    ASSUME AInv, IInv,
           \/ ReadFile \/ CheckSemicolons \/ SetListen \/ SetInServer \/ SetInLocation
           \/ EnterHttp \/ EnterServer \/ EnterLocation
           \/ LeaveLocation \/ LeaveServer \/ LeaveHttp \/ Unexpected \/ EndOfFile \/ Validate
    PROVE  AInv'
<1>0. Parsing
  BY DEF Parsing, ReadFile, CheckSemicolons, SetListen, SetInServer, SetInLocation, EnterHttp,
         EnterServer, EnterLocation, LeaveLocation, LeaveServer, LeaveHttp, Unexpected, EndOfFile,
         Validate, Directive, Ends
<1>1. CASE Refuse
  BY <1>0, <1>1, ARefuseStep
<1>2. HostKnown(server.endpoint) /\ \A e \in Endpoints : HostKnown(e)
  BY DEF AInv, HostsKnown
<1>3. CASE SetListen /\ ~Refuse
  <2>1. /\ ValidListen /\ server' = ServerBlock(Listen[Value[1]], server.settings, server.locations)
        /\ UNCHANGED <<pc, servers, sockets>> /\ pc = "parse"
    BY <1>3 DEF SetListen, Directive
  <2>2. HostKnown(Listen[Value[1]])
    BY <2>1, HostsAssumption DEF ValidListen, HostKnown, HostsAssumption
  <2>3. server'.endpoint = Listen[Value[1]]
    BY <2>1, BlockAddress
  <2> QED
    BY <1>0, <2>1, <2>2, <2>3, ASameServersStep
<1>4. CASE (SetInServer \/ LeaveLocation) /\ ~Refuse
  <2>1. UNCHANGED <<pc, servers, sockets>> /\ pc = "parse"
    BY <1>4 DEF SetInServer, LeaveLocation, Ends, Directive
  <2>2. server'.endpoint = server.endpoint
    <3>1. CASE SetInServer
      BY <1>4, <3>1, BlockAddress DEF SetInServer
    <3>2. CASE LeaveLocation
      BY <3>2, BlockAddress DEF LeaveLocation
    <3> QED
      BY <1>4, <3>1, <3>2
  <2> QED
    BY <1>0, <1>2, <2>1, <2>2, ASameServersStep
<1>5. CASE (EnterHttp \/ EnterServer \/ EnterLocation) /\ ~Refuse
  <2>1. UNCHANGED <<pc, servers, sockets>> /\ pc = "parse"
    BY <1>5 DEF EnterHttp, EnterServer, EnterLocation, Enter, Directive
  <2>2. server' = server \/ server' = NewServer
    BY <1>5 DEF EnterHttp, EnterServer, EnterLocation
  <2>3. HostKnown(NewServer.endpoint)
    BY NewServerType DEF HostKnown
  <2> QED
    BY <1>0, <1>2, <2>1, <2>2, <2>3, ASameServersStep
<1>6. CASE LeaveServer /\ ~Refuse
  <2>1. servers' = Append(servers, server) /\ UNCHANGED <<pc, server, sockets>> /\ pc = "parse"
    BY <1>6 DEF LeaveServer, Ends, Directive
  <2>2. \A e \in Endpoints' : e \in Endpoints \/ e = server.endpoint
    <3>1. /\ DOMAIN servers' = DOMAIN servers \cup {Len(servers) + 1}
          /\ servers'[Len(servers) + 1] = server
          /\ \A n \in DOMAIN servers : servers'[n] = servers[n]
      BY <2>1, AppendIsSequence DEF IInv, ServersType
    <3> QED
      BY <3>1 DEF Endpoints
  <2>3. HostsKnown'
    BY <1>2, <2>1, <2>2 DEF HostsKnown, HostKnown
  <2> QED
    BY <1>0, <2>1, <2>3, AParserStep
<1>7. CASE (ReadFile \/ CheckSemicolons \/ SetInLocation \/ LeaveHttp \/ EndOfFile \/ Validate) /\ ~Refuse
  <2>1. /\ UNCHANGED <<servers, server, sockets>>
        /\ pc' \in {"check", "parse", "validate", "types", "failed"}
    BY <1>7 DEF ReadFile, CheckSemicolons, SetInLocation, LeaveHttp, EndOfFile, Validate, Ends,
                Directive, parser
  <2> QED
    BY <1>0, <1>2, <2>1, ASameServersStep
<1> QED
  BY <1>1, <1>3, <1>4, <1>5, <1>6, <1>7 DEF Unexpected

\* The steps that make sockets leave the servers, and so their hosts, alone
LEMMA HostsStay == ASSUME HostsKnown, UNCHANGED <<servers, server>> PROVE HostsKnown'
  BY DEF HostsKnown, HostKnown, Endpoints

LEMMA ALoadMimeTypesInv == ASSUME AInv, IInv, LoadMimeTypes PROVE AInv'
<1>1. /\ UNCHANGED <<servers, server, listening>> /\ pc = "types" /\ ~Making'
      /\ \/ pc' = "failed" /\ pending' = pending
         \/ pc' = "sockets" /\ pending' = Endpoints
  BY DEF LoadMimeTypes, parser, Endpoints, Making
<1>2. pending = {} /\ DOMAIN listening = {}
  BY <1>1 DEF IInv, NoSocketYet, Parsing
<1>3. Taken' = {} /\ Endpoints' = Endpoints
  BY <1>1, <1>2 DEF Taken, Endpoints
<1> QED
  BY <1>1, <1>2, <1>3, HostsStay DEF AInv, WildcardFirst, Attended, Settled, Current

\* Addresses of accepted servers have known hosts
LEMMA PendingKnown == ASSUME AInv, IInv, Accepted PROVE \A e \in Endpoints : e.host \in Range(Hosts)
  BY DEF AInv, HostsKnown, HostKnown, IInv, Ports, Endpoints

LEMMA AMakeSocketInv == ASSUME AInv, IInv, MakeSocket PROVE AInv'
<1>1. PICK e \in pending :
          /\ \A other \in pending \ {e} : Before(e, other)
          /\ endpoint' = e /\ pending' = pending \ {e}
          /\ \/ pc' = "bind" /\ unable' = unable
             \/ unable' = unable \cup {e} /\ pc' = pc
  BY DEF MakeSocket
<1>2. UNCHANGED <<servers, server, listening>> /\ pc = "sockets"
  BY DEF MakeSocket, parser
<1>3. Taken' = Taken /\ Endpoints' = Endpoints /\ Current = {} /\ Current' \subseteq {e}
      /\ (pc' = "bind" => Current' = {e})
  BY <1>1, <1>2 DEF Taken, Endpoints, Current, Making
<1>4. e.host \in Range(Hosts)
  BY <1>2, PendingKnown DEF Accepted, IInv, Turns
<1>5. \A other \in pending : other.host = Wildcard => e.host = Wildcard
  BY <1>1, <1>4, NothingBeforeWildcard
<1>6. WildcardFirst'
  BY <1>1, <1>3, <1>5 DEF AInv, WildcardFirst
<1>7. Attended'
  BY <1>1, <1>2, <1>3 DEF AInv, Attended, Settled
<1> QED
  BY <1>2, <1>6, <1>7, HostsStay DEF AInv

\* Giving up is excused by a failure of its own, or by the wildcard
LEMMA AGiveUpInv ==
    ASSUME AInv, IInv, Making, GiveUp, UNCHANGED <<servers, server, pending, endpoint, listening>>,
           unable \subseteq unable',
           endpoint \in unable' \/ [host |-> Wildcard, port |-> endpoint.port] \in Taken
    PROVE  AInv'
<1>1. pc' = "sockets" /\ Current' = {} /\ Current = {endpoint}
  BY DEF GiveUp, Current, Making
<1>2. Taken' = Taken /\ Endpoints' = Endpoints
  BY DEF Taken, Endpoints
<1>3. WildcardFirst'
  BY <1>1, <1>2 DEF AInv, WildcardFirst
<1>4. Attended'
  BY <1>1, <1>2 DEF AInv, Attended, Settled, Making
<1> QED
  BY <1>3, <1>4, HostsStay DEF AInv

\* An endpoint whose address is in use has lost it to the wildcard: it is not
\* one that listens itself, and it is not a wildcard that came too late
LEMMA InUseByWildcard ==
    ASSUME AInv, IInv, Making, InUse
    PROVE  [host |-> Wildcard, port |-> endpoint.port] \in Taken
<1>1. PICK t \in Taken : t.port = endpoint.port /\ (t.host = endpoint.host \/ Wildcard \in {t.host, endpoint.host})
  BY DEF InUse
<1>2. Taken \subseteq Endpoint /\ endpoint \in Endpoint
  BY DEF Taken, IInv, ServersType, Turns, Endpoints
<1>3. t # endpoint
  BY DEF Taken, IInv, Turns
<1>4. /\ t = [host |-> t.host, port |-> t.port]
      /\ endpoint = [host |-> endpoint.host, port |-> endpoint.port]
  BY <1>1, <1>2 DEF Endpoint
<1>5. t.host # endpoint.host
  BY <1>1, <1>3, <1>4
<1>6. endpoint.host # Wildcard
  BY <1>1, <1>5 DEF AInv, WildcardFirst, Current
<1> QED
  BY <1>1, <1>4, <1>5, <1>6

LEMMA ABindInv == ASSUME AInv, IInv, Bind PROVE AInv'
<1>1. UNCHANGED <<servers, server, pending, endpoint, listening>> /\ Making
  BY DEF Bind, parser, Making
<1>2. CASE InUse /\ GiveUp /\ UNCHANGED unable
  BY <1>1, <1>2, AGiveUpInv, InUseByWildcard
<1>3. CASE GiveUp /\ unable' = unable \cup {endpoint}
  BY <1>1, <1>3, AGiveUpInv
<1>4. CASE pc' = "listen" /\ UNCHANGED unable
  <2>1. Taken' = Taken /\ Endpoints' = Endpoints /\ Current' = Current
    BY <1>1, <1>4 DEF Taken, Endpoints, Current, Making
  <2>2. WildcardFirst'
    BY <1>1, <2>1 DEF AInv, WildcardFirst
  <2>3. Attended'
    BY <1>1, <1>4, <2>1 DEF AInv, Attended, Settled, Making
  <2> QED
    BY <1>1, <2>2, <2>3, HostsStay DEF AInv
<1> QED
  BY <1>2, <1>3, <1>4 DEF Bind

LEMMA AListenOnInv == ASSUME AInv, IInv, ListenOn PROVE AInv'
<1>1. UNCHANGED <<servers, server, pending, endpoint>> /\ Making /\ Current = {endpoint}
  BY DEF ListenOn, parser, Making, Current
<1>2. CASE GiveUp /\ unable' = unable \cup {endpoint} /\ UNCHANGED listening
  BY <1>1, <1>2, AGiveUpInv
<1>3. CASE ~(GiveUp /\ unable' = unable \cup {endpoint} /\ UNCHANGED listening)
  <2>1. /\ pc' = "sockets" /\ unable' = unable
        /\ listening' = [fd \in DOMAIN listening \cup {sock} |->
                            IF fd = sock THEN ServersAt(endpoint) ELSE listening[fd]]
    BY <1>3 DEF ListenOn
  <2>2. sock \notin DOMAIN listening /\ endpoint \in Endpoints
    BY <1>1 DEF IInv, Descriptors, Turns
  <2>3. /\ DOMAIN listening' = DOMAIN listening \cup {sock}
        /\ listening'[sock] = ServersAt(endpoint)
        /\ \A fd \in DOMAIN listening : listening'[fd] = listening[fd]
    BY <2>1, <2>2
  <2>4. Taken' = Taken \cup {endpoint}
    <3>1. \A n : n \in UNION {listening'[fd] : fd \in DOMAIN listening'}
                   <=> n \in UNION {listening[fd] : fd \in DOMAIN listening} \/ n \in ServersAt(endpoint)
      BY <2>3
    <3>2. \E n \in DOMAIN servers : n \in ServersAt(endpoint)
      BY <2>2 DEF ServersAt, Endpoints
    <3>3. \A n \in ServersAt(endpoint) : servers[n].endpoint = endpoint
      BY DEF ServersAt
    <3> QED
      BY <1>1, <3>1, <3>2, <3>3 DEF Taken
  <2>5. Endpoints' = Endpoints /\ Current' = {}
    BY <1>1, <2>1 DEF Endpoints, Current, Making
  <2>6. WildcardFirst'
    BY <1>1, <2>4, <2>5 DEF AInv, WildcardFirst
  <2>7. Attended'
    BY <1>1, <2>1, <2>4, <2>5 DEF AInv, Attended, Settled, Making
  <2> QED
    BY <1>1, <2>6, <2>7, HostsStay DEF AInv
<1> QED
  BY <1>2, <1>3

LEMMA ARunInv == ASSUME AInv, IInv, Run \/ UNCHANGED vars PROVE AInv'
<1>1. UNCHANGED <<servers, server, pending, endpoint, listening, unable>>
      /\ \/ pc' = pc
         \/ pc = "sockets" /\ pc' = "running" /\ pending = {}
  BY DEF Run, vars, parser, sockets
<1>3. Current' = Current
  BY <1>1 DEF Current, Making
<1>2. Taken' = Taken /\ Endpoints' = Endpoints
  BY <1>1 DEF Taken, Endpoints
<1> QED
  BY <1>1, <1>2, <1>3, HostsStay DEF AInv, WildcardFirst, Attended, Settled

LEMMA ANextInv == AInv /\ IInv /\ [Next]_vars => AInv'
  BY AParserInv, ALoadMimeTypesInv, AMakeSocketInv, ABindInv, AListenOnInv, ARunInv DEF Next

\* Whatever the endpoints are, in whichever order and number, and whichever
\* calls fail: an address without a socket had a call that failed by itself, or
\* its port was taken for all hosts.  It rests on the order of the map: were the
\* wildcard to come later, another host could keep it out without a failure.
THEOREM NobodyLeftOut == Spec => []ListensWhereItCan
<1>1. AInv /\ IInv => ListensWhereItCan
  <2> SUFFICES ASSUME AInv, IInv, pc = "running", NEW n \in DOMAIN servers
               PROVE  LET e == servers[n].endpoint
                      IN e \in Taken \cup unable \/ [host |-> Wildcard, port |-> e.port] \in Taken
    BY DEF ListensWhereItCan
  <2>1. servers[n].endpoint \in Endpoints /\ Current = {}
    BY DEF Endpoints, Current, Making
  <2> QED
    BY <2>1 DEF AInv, Attended, Settled
<1>2. Init /\ [][Next]_vars => []AInv
  BY AInitInv, ANextInv, Invariant, PTL DEF Spec
<1> QED
  BY <1>1, <1>2, Invariant, PTL DEF Spec
=============================================================================
