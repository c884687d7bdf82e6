----------------------------- MODULE EventLoop -----------------------------
(***************************************************************************)
(* The poll() loop of the web server (srcs/server.cpp, Server::run), with  *)
(* the tables it keeps per descriptor, the kernel sockets and peers at the *)
(* other end of them, and the CGI children it forks.                       *)
(*                                                                         *)
(* One iteration of the loop is  poll -> cgi -> scan -> sweep.  Inside the *)
(* scan one action is one handler call on one slot of _fds; peers,         *)
(* children and the clock move between any two of them.                    *)
(*                                                                         *)
(* Data is abstracted to what the properties tell apart: a request is a    *)
(* number of segments (one recv() each), a response a number of units (a   *)
(* unit is what fits one slot of the send buffer) and the connection whose *)
(* request it answers.                                                     *)
(***************************************************************************)
EXTENDS Integers, FiniteSets, SequencesExt

CONSTANTS
    Listeners,    \* listening descriptors, the keys of _listenSockets
    ClientFds,    \* descriptor numbers accept() can hand out
    Conns,        \* TCP connections that peers may open
    Pids,         \* process ids fork() can hand out
    None,         \* an absent map entry
    MaxSegs,      \* segments of the longest request
    MaxUnits,     \* units of the longest response
    SndBuf,       \* units a socket's send buffer holds
    IdleLimit,    \* CLIENT_IDLE_TIMEOUT_SEC, in ticks
    TotalLimit,   \* CLIENT_TOTAL_TIMEOUT_SEC, in ticks
    CgiLimit,     \* CGIProcess::timeoutMs, in ticks
    Behaviours    \* what peers, requests and CGI programs may do, see Freedoms

(***************************************************************************)
(* The freedoms of the environment.                                        *)
(*   "cgi"       a request may name a CGI script                           *)
(*   "upload"    a request may be a multipart upload                       *)
(*   "mute"      a CGI program may end without output                      *)
(*   "split"     a request may arrive in several segments                  *)
(*   "early"     a first segment may parse as a request of its own (no     *)
(*               Content-Length in it), see validateAndParseRequest        *)
(*   "pipeline"  a peer may send bytes after its request                   *)
(*   "fin"       a peer may shut down its sending side                     *)
(*   "reset"     a peer may reset the connection                           *)
(*   "slow"      time may pass while a peer leaves its response unread     *)
(*   "idle"      time may pass before a peer's request is sent and read    *)
(***************************************************************************)
Freedoms == {"cgi", "upload", "mute", "split", "early", "pipeline",
             "fin", "reset", "slow", "idle"}

Fds == Listeners \cup ClientFds

ASSUME DescriptorAssumption ==
    /\ IsFiniteSet(Listeners) /\ Listeners # {}
    /\ Listeners \cap ClientFds = {}
    /\ None \notin Fds \cup Conns \cup Pids

ASSUME BoundAssumption ==
    /\ MaxSegs \in Nat \ {0} /\ MaxUnits \in Nat \ {0} /\ SndBuf \in Nat \ {0}
    /\ IdleLimit \in Nat /\ TotalLimit \in Nat /\ CgiLimit \in Nat

ASSUME BehaviourAssumption == Behaviours \subseteq Freedoms

VARIABLES
    \* the kernel and the peers
    state,     \* of each connection: "new", "backlog", "open", "closed"
    via,       \* the listener it was opened on
    peer,      \* "up", "fin" (no more data) or "rst" (reset)
    need,      \* segments of its request
    sent,      \* segments its peer has sent
    inbox,     \* segments the server has not read
    room,      \* free units of the socket's send buffer
    wire,      \* what has been sent to the peer: units, with their request
    sock,      \* the connection behind each client descriptor
    \* the CGI children
    child,     \* of each pid: "unborn", "running", "exited"
    age,       \* ticks since the fork
    asker,     \* the connection whose request started it
    pipes,     \* the children whose pipes the server holds open
    \* the members of Server
    fds, clientSockets, clients, clientToListenSocket, clientToVirtualServer,
    sendBuffers, closeAfterSend, cgiProcesses, pidToClientFd,
    \* the control point of run()
    phase,     \* "poll", "cgi", "scan", "sweep", "cleanup", "stopped"
    at,        \* the next test of the scan: <<slot, test>>
    due        \* history: ready descriptors the scan has not visited yet

netVars   == <<state, via, peer, need, sent, inbox, room, wire, sock>>
childVars == <<child, age, asker, pipes>>
tableVars == <<clientSockets, clients, clientToListenSocket,
               clientToVirtualServer, sendBuffers, closeAfterSend>>
cgiVars   == <<cgiProcesses, pidToClientFd>>
ctlVars   == <<phase, at, due>>
vars == <<netVars, childVars, fds, tableVars, cgiVars, ctlVars>>

-----------------------------------------------------------------------------
(* Types *)

Events    == {"IN", "OUT"}
Readiness == {"IN", "OUT", "HUP"}      \* POLLIN, POLLOUT, POLLHUP | POLLERR
PollFd    == [fd : Fds, events : SUBSET Events, revents : SUBSET Readiness]

\* ClientState: segments in readBuffer, ticks since lastActivity, createdAt
ClientState == [buf : 0..MaxSegs, idle : 0..IdleLimit + 1,
                total : 0..TotalLimit + 1]

\* A queued response: whose request it answers, its units, those sent
Response == [owner : Conns, size : 0..MaxUnits, sent : 0..MaxUnits]

ASSUME NoneAssumption == None \notin ClientState \cup Response

\* A unit on the wire: whose request it answers, its number, is it the last
Unit == [owner : Conns, unit : 1..MaxUnits, last : BOOLEAN]

TypeOK ==
    /\ state \in [Conns -> {"new", "backlog", "open", "closed"}]
    /\ via \in [Conns -> Listeners \cup {None}]
    /\ peer \in [Conns -> {"up", "fin", "rst"}]
    /\ need \in [Conns -> 1..MaxSegs]
    /\ sent \in [Conns -> 0..MaxSegs + 1]
    /\ inbox \in [Conns -> 0..MaxSegs + 1]
    /\ room \in [Conns -> 0..SndBuf]
    /\ wire \in [Conns -> Seq(Unit)]
    /\ sock \in [Fds -> Conns \cup {None}]
    /\ child \in [Pids -> {"unborn", "running", "exited"}]
    /\ age \in [Pids -> 0..CgiLimit + 1]
    /\ asker \in [Pids -> Conns \cup {None}]
    /\ pipes \in SUBSET Pids
    /\ fds \in Seq(PollFd)
    /\ clientSockets \in SUBSET ClientFds
    /\ clients \in [Fds -> ClientState \cup {None}]
    /\ clientToListenSocket \in [Fds -> Listeners \cup {None}]
    /\ clientToVirtualServer \in [Fds -> Listeners \cup {None}]
    /\ sendBuffers \in [Fds -> Response \cup {None}]
    /\ closeAfterSend \in [Fds -> BOOLEAN]
    /\ cgiProcesses \in [Fds -> Pids \cup {None}]
    /\ pidToClientFd \in [Pids -> Fds \cup {None}]
    /\ phase \in {"poll", "cgi", "scan", "sweep", "cleanup", "stopped"}
    /\ at \in (Nat \X (0..3))
    /\ due \in SUBSET Fds

-----------------------------------------------------------------------------
(* Initial state: the listeners are bound, nothing else exists *)

Watch(fd, revents) == [fd |-> fd, events |-> {"IN"}, revents |-> revents]

Init ==
    /\ state = [c \in Conns |-> "new"]
    /\ via = [c \in Conns |-> None]
    /\ peer = [c \in Conns |-> "up"]
    /\ need = [c \in Conns |-> 1]
    /\ sent = [c \in Conns |-> 0]
    /\ inbox = [c \in Conns |-> 0]
    /\ room = [c \in Conns |-> SndBuf]
    /\ wire = [c \in Conns |-> <<>>]
    /\ sock = [fd \in Fds |-> None]
    /\ child = [p \in Pids |-> "unborn"]
    /\ age = [p \in Pids |-> 0]
    /\ asker = [p \in Pids |-> None]
    /\ pipes = {}
    /\ \E order \in SetToSeqs(Listeners) :
          fds = [i \in DOMAIN order |-> Watch(order[i], {})]
    /\ clientSockets = {}
    /\ clients = [fd \in Fds |-> None]
    /\ clientToListenSocket = [fd \in Fds |-> None]
    /\ clientToVirtualServer = [fd \in Fds |-> None]
    /\ sendBuffers = [fd \in Fds |-> None]
    /\ closeAfterSend = [fd \in Fds |-> FALSE]
    /\ cgiProcesses = [fd \in Fds |-> None]
    /\ pidToClientFd = [p \in Pids |-> None]
    /\ phase = "poll"
    /\ at = <<0, 0>>
    /\ due = {}

-----------------------------------------------------------------------------
(* Helpers of the handlers *)

Least(m, n) == IF m < n THEN m ELSE n

\* Variant: POLLOUT is forgotten
ArmNothing(fs, targets) == fs

\* events |= POLLOUT on the entries of these descriptors, if _fds has any
Arm(fs, targets) ==
    [i \in DOMAIN fs |-> IF fs[i].fd \in targets
                         THEN [fs[i] EXCEPT !.events = @ \cup {"OUT"}]
                         ELSE fs[i]]

Disarm(fs, i) == [fs EXCEPT ![i].events = @ \ {"OUT"}]

Reply(c, units) == [owner |-> c, size |-> units, sent |-> 0]

\* queueResponse() for each descriptor of the function "answers": the answer
\* replaces whatever was pending there, and POLLOUT is armed
QueueResponse(answers) ==
    LET targets == DOMAIN answers IN
    /\ sendBuffers' = [fd \in Fds |-> IF fd \in targets THEN answers[fd]
                                      ELSE sendBuffers[fd]]
    /\ closeAfterSend' = [fd \in Fds |-> fd \in targets \/ closeAfterSend[fd]]
    /\ fds' = Arm(fds, targets)

\* Variant: _clients keeps its entry
CloseClientKeepsState(i) ==
    IF i \notin DOMAIN fds
    THEN UNCHANGED <<state, sock, fds, tableVars>>
    ELSE LET fd == fds[i].fd IN
         /\ state' = [c \in Conns |-> IF sock[fd] = c THEN "closed" ELSE state[c]]
         /\ sock' = [sock EXCEPT ![fd] = None]
         /\ clientSockets' = clientSockets \ {fd}
         /\ clientToVirtualServer' = [clientToVirtualServer EXCEPT ![fd] = None]
         /\ clientToListenSocket' = [clientToListenSocket EXCEPT ![fd] = None]
         /\ sendBuffers' = [sendBuffers EXCEPT ![fd] = None]
         /\ closeAfterSend' = [closeAfterSend EXCEPT ![fd] = FALSE]
         /\ fds' = RemoveAt(fds, i)
         /\ UNCHANGED clients

\* Variant: _clientSockets keeps the descriptor
CloseClientKeepsSocket(i) ==
    IF i \notin DOMAIN fds
    THEN UNCHANGED <<state, sock, fds, tableVars>>
    ELSE LET fd == fds[i].fd IN
         /\ state' = [c \in Conns |-> IF sock[fd] = c THEN "closed" ELSE state[c]]
         /\ sock' = [sock EXCEPT ![fd] = None]
         /\ clientToVirtualServer' = [clientToVirtualServer EXCEPT ![fd] = None]
         /\ clientToListenSocket' = [clientToListenSocket EXCEPT ![fd] = None]
         /\ clients' = [clients EXCEPT ![fd] = None]
         /\ sendBuffers' = [sendBuffers EXCEPT ![fd] = None]
         /\ closeAfterSend' = [closeAfterSend EXCEPT ![fd] = FALSE]
         /\ fds' = RemoveAt(fds, i)
         /\ UNCHANGED clientSockets

\* closeClient(): closes the descriptor and forgets it in every table but
\* _cgiProcesses; an index past the end is ignored
CloseClient(i) ==
    IF i \notin DOMAIN fds
    THEN UNCHANGED <<state, sock, fds, tableVars>>
    ELSE LET fd == fds[i].fd IN
         /\ state' = [c \in Conns |-> IF sock[fd] = c THEN "closed" ELSE state[c]]
         /\ sock' = [sock EXCEPT ![fd] = None]
         /\ clientSockets' = clientSockets \ {fd}
         /\ clientToVirtualServer' = [clientToVirtualServer EXCEPT ![fd] = None]
         /\ clientToListenSocket' = [clientToListenSocket EXCEPT ![fd] = None]
         /\ clients' = [clients EXCEPT ![fd] = None]
         /\ sendBuffers' = [sendBuffers EXCEPT ![fd] = None]
         /\ closeAfterSend' = [closeAfterSend EXCEPT ![fd] = FALSE]
         /\ fds' = RemoveAt(fds, i)

-----------------------------------------------------------------------------
(* The control point inside the scan: slots downwards, three tests a slot *)

Tests == <<"IN", "OUT", "HUP">>

\* Variant: the loop ends with k > 0
AheadButFirst(fs, j, t) ==
    {p \in (2..j) \X (1..3) : /\ p[1] \in DOMAIN fs
                              /\ Tests[p[2]] \in fs[p[1]].revents
                              /\ p[1] < j \/ p[2] > t}

\* The tests after test t of slot j that find their bit set.  A slot past the
\* end (its entry was just erased) shows the entry that was there, whose
\* descriptor is closed: the handlers return without effect.
Ahead(fs, j, t) ==
    {p \in (1..j) \X (1..3) : /\ p[1] \in DOMAIN fs
                              /\ Tests[p[2]] \in fs[p[1]].revents
                              /\ p[1] < j \/ p[2] > t}

Sooner(p, q) == p[1] > q[1] \/ (p[1] = q[1] /\ p[2] <= q[2])

\* Go on with the scan after test t of slot j
Resume(j, t) ==
    LET todo == Ahead(fds', j, t) IN
    \/ /\ todo = {}
       /\ phase' = "sweep" /\ at' = <<0, 0>>
    \/ \E p \in todo :
          /\ \A q \in todo : Sooner(p, q)
          /\ phase' = "scan" /\ at' = p

\* The scan has reached this test of the slot whose descriptor is Here
Visiting(test) == phase = "scan" /\ Tests[at[2]] = test

Here == fds[at[1]].fd

\* The handler returns: the descriptor is visited, the scan goes on
Return == due' = due \ {Here} /\ Resume(at[1], at[2])

-----------------------------------------------------------------------------
(* poll() and pollCGIProcesses() *)

\* What poll() reports for an entry
Reported(e) ==
    LET c == sock[e.fd] IN
    IF e.fd \in Listeners
    THEN {x \in {"IN"} : \E d \in Conns : state[d] = "backlog" /\ via[d] = e.fd}
    ELSE IF c = None THEN {}
    ELSE {x \in Readiness :
            \/ x = "IN"  /\ (inbox[c] > 0 \/ peer[c] # "up")
            \/ x = "OUT" /\ "OUT" \in e.events /\ (room[c] > 0 \/ peer[c] = "rst")
            \/ x = "HUP" /\ peer[c] = "rst"}

\* Time may not pass, for the peers of this instance: one has a response to
\* read ("slow" allows it), one has a request to send or to be read ("idle")
Unread(c) ==
    \/ room[c] < SndBuf
    \/ \E fd \in ClientFds : sock[fd] = c /\ sendBuffers[fd] # None

Unasked(c) == sent[c] < need[c] \/ inbox[c] > 0

Hurried == \E c \in Conns : /\ state[c] = "open"
                            /\ \/ Unread(c) /\ "slow" \notin Behaviours
                               \/ Unasked(c) /\ "idle" \notin Behaviours

\* Ages after so many more ticks; they stop counting once over their limit
Aged(fd, ticks) ==
    [clients[fd] EXCEPT !.idle = Least(@ + ticks, IdleLimit + 1),
                        !.total = Least(@ + ticks, TotalLimit + 1)]

\* poll(), returning at once or after its 1000 ms, a tick of the clock
Poll(ticks) ==
    /\ phase = "poll"
    /\ ticks > 0 => ~Hurried
    /\ fds' = [i \in DOMAIN fds |-> [fds[i] EXCEPT !.revents = Reported(fds[i])]]
    /\ due' = {fds[i].fd : i \in {j \in DOMAIN fds : Reported(fds[j]) # {}}}
    /\ clients' = [fd \in Fds |-> IF clients[fd] = None THEN None
                                  ELSE Aged(fd, ticks)]
    /\ age' = [p \in Pids |-> IF child[p] = "running"
                              THEN Least(age[p] + ticks, CgiLimit + 1) ELSE age[p]]
    /\ phase' = "cgi"
    /\ UNCHANGED <<netVars, child, asker, pipes, clientSockets,
                   clientToListenSocket, clientToVirtualServer, sendBuffers,
                   closeAfterSend, cgiVars, at>>

\* Variant: only a child that ended by itself is over
NeverExpired(fd) == FALSE

Expired(fd) == cgiProcesses[fd] # None /\ age[cgiProcesses[fd]] > CgiLimit
Ended(fd)   == cgiProcesses[fd] # None /\ child[cgiProcesses[fd]] = "exited"

\* The units finalizeCGI() makes of a child: a 408 if it was killed, else its
\* output or a 500; an empty response when the child printed nothing
Outcomes(fd) == IF Expired(fd) THEN {1}
                ELSE {n \in 0..MaxUnits : n > 0 \/ "mute" \in Behaviours}

\* Variant: a child whose client has left stays in _cgiProcesses
UntrackServed(over) ==
    /\ cgiProcesses' = [fd \in Fds |-> IF fd \in over /\ sock[fd] # None THEN None
                                       ELSE cgiProcesses[fd]]
    /\ pidToClientFd' = [p \in Pids |->
          IF \E fd \in over : cgiProcesses[fd] = p THEN None ELSE pidToClientFd[p]]

\* Variant: the _pidToClientFd entry of a killed child stays
UntrackEnded(over) ==
    /\ cgiProcesses' = [fd \in Fds |-> IF fd \in over THEN None
                                       ELSE cgiProcesses[fd]]
    /\ pidToClientFd' = [p \in Pids |->
          IF \E fd \in over : cgiProcesses[fd] = p /\ ~Expired(fd) THEN None
          ELSE pidToClientFd[p]]

\* The children recorded for these descriptors leave both maps
Untrack(over) ==
    /\ cgiProcesses' = [fd \in Fds |-> IF fd \in over THEN None
                                       ELSE cgiProcesses[fd]]
    /\ pidToClientFd' = [p \in Pids |->
          IF \E fd \in over : cgiProcesses[fd] = p THEN None ELSE pidToClientFd[p]]

\* pollCGIProcesses() with a finalizeCGI() for each child that is over.  The
\* response goes to the descriptor the child was started for.
PollCgi ==
    LET over == {fd \in Fds : Expired(fd) \/ Ended(fd)}
        gone == {cgiProcesses[fd] : fd \in over}
    IN
    /\ phase = "cgi"
    /\ child' = [p \in Pids |-> IF p \in gone THEN "exited" ELSE child[p]]
    /\ pipes' = pipes \ gone
    /\ \E units \in [over -> 0..MaxUnits] :
          /\ \A fd \in over : units[fd] \in Outcomes(fd)
          /\ QueueResponse([fd \in over |-> Reply(asker[cgiProcesses[fd]], units[fd])])
    /\ Untrack(over)
    /\ Resume(Len(fds), 0)
    /\ UNCHANGED <<netVars, age, asker, clientSockets, clients,
                   clientToListenSocket, clientToVirtualServer, due>>

-----------------------------------------------------------------------------
(* POLLIN on a listener: handleNewConnection() *)

FreeFds == {fd \in ClientFds : sock[fd] = None}

\* Any free number: pipes and files of the process occupy the others
Accept ==
    /\ Visiting("IN")
    /\ Here \in Listeners
    /\ \E c \in Conns, fd \in FreeFds :
          /\ state[c] = "backlog" /\ via[c] = Here
          /\ state' = [state EXCEPT ![c] = "open"]
          /\ sock' = [sock EXCEPT ![fd] = c]
          /\ fds' = Append(fds, Watch(fd, {}))
          /\ clientSockets' = clientSockets \cup {fd}
          /\ clients' = [clients EXCEPT ![fd] = [buf |-> 0, idle |-> 0, total |-> 0]]
          /\ clientToVirtualServer' = [clientToVirtualServer EXCEPT ![fd] = None]
          /\ clientToListenSocket' = [clientToListenSocket EXCEPT ![fd] = Here]
    /\ UNCHANGED <<via, peer, need, sent, inbox, room, wire, childVars,
                   sendBuffers, closeAfterSend, cgiVars>>
    /\ Return

\* accept() fails (no descriptor left): an error message, nothing else
AcceptFails ==
    /\ Visiting("IN")
    /\ Here \in Listeners
    /\ FreeFds = {}
    /\ UNCHANGED <<netVars, childVars, fds, tableVars, cgiVars>>
    /\ Return

-----------------------------------------------------------------------------
(* POLLIN on a client: handleClientData() *)

Caller == sock[Here]

\* recv() fails: the connection was reset and nothing is left to read
RecvError ==
    /\ Visiting("IN")
    /\ Here \in ClientFds
    /\ inbox[Caller] = 0 /\ peer[Caller] = "rst"
    /\ CloseClient(at[1])
    /\ UNCHANGED <<via, peer, need, sent, inbox, room, wire, childVars, cgiVars>>
    /\ Return

\* recv() returns 0: nothing is done, the descriptor stays in the table
RecvEof ==
    /\ Visiting("IN")
    /\ Here \in ClientFds
    /\ inbox[Caller] = 0 /\ peer[Caller] = "fin"
    /\ UNCHANGED <<netVars, childVars, fds, tableVars, cgiVars>>
    /\ Return

\* Segments in readBuffer once one more is appended; the buffer of an answered
\* request is kept, so every later segment completes it again
Received == Least(clients[Here].buf + 1, need[Caller])

DataReady == Visiting("IN") /\ Here \in ClientFds /\ inbox[Caller] > 0

\* Variant: the body is not waited for
CompleteAtOnce == DataReady

\* The request is parsed and acted upon
Complete == DataReady /\ (Received >= need[Caller] \/ "early" \in Behaviours)

\* recv() returns data: append, refresh lastActivity, select the server.
\* "left" is what readBuffer holds when the handler returns.
RecvData(left) ==
    /\ inbox' = [inbox EXCEPT ![Caller] = @ - 1]
    /\ clients' = [clients EXCEPT ![Here].buf = left, ![Here].idle = 0]
    /\ clientToVirtualServer' =
          [clientToVirtualServer EXCEPT ![Here] =
              IF @ = None THEN clientToListenSocket[Here] ELSE @]
    /\ UNCHANGED <<state, via, peer, need, sent, sock, age, clientSockets,
                   clientToListenSocket>>

\* The body is not complete yet: wait for more data
AwaitBody ==
    /\ DataReady
    /\ Received < need[Caller]
    /\ RecvData(Received)
    /\ UNCHANGED <<room, wire, child, asker, pipes, fds, sendBuffers,
                   closeAfterSend, cgiVars>>
    /\ Return

\* A static page, DELETE, a redirection or any error status.  The paths that
\* reject the body or the request line clear readBuffer.
Respond ==
    /\ Complete
    /\ \E left \in {Received, 0} : RecvData(left)
    /\ \E n \in 1..MaxUnits : QueueResponse([fd \in {Here} |-> Reply(Caller, n)])
    /\ UNCHANGED <<room, wire, child, asker, pipes, cgiVars>>
    /\ Return

\* Variant: the part already sent is not erased from the buffer
UnitsFromStart(response, n) ==
    [i \in 1..n |-> [owner |-> response.owner, unit |-> i,
                     last |-> response.sent + i = response.size]]

Units(response, n) ==
    [i \in 1..n |-> [owner |-> response.owner, unit |-> response.sent + i,
                     last |-> response.sent + i = response.size]]

\* Multipart POST: handleMultipartUpload() queues a 201, or nothing if it finds
\* no boundary; then the 303 goes out with a send() of its own, whose result is
\* not looked at
Upload ==
    /\ "upload" \in Behaviours
    /\ Complete
    /\ RecvData(Received)
    /\ \/ QueueResponse([fd \in {Here} |-> Reply(Caller, 1)])
       \/ UNCHANGED <<fds, sendBuffers, closeAfterSend>>
    /\ LET n == IF peer[Caller] = "rst" THEN 0 ELSE Least(1, room[Caller]) IN
          /\ wire' = [wire EXCEPT ![Caller] = @ \o Units(Reply(Caller, 1), n)]
          /\ room' = [room EXCEPT ![Caller] = @ - n]
    /\ UNCHANGED <<child, asker, pipes, cgiVars>>
    /\ Return

\* A CGI request: HandleCGI::execute() forks and the child is recorded under
\* the descriptor, over the one recorded there before
StartCgi ==
    /\ "cgi" \in Behaviours
    /\ Complete
    /\ RecvData(Received)
    /\ \E p \in Pids :
          /\ child[p] = "unborn"
          /\ child' = [child EXCEPT ![p] = "running"]
          /\ asker' = [asker EXCEPT ![p] = Caller]
          /\ pipes' = pipes \cup {p}
          /\ cgiProcesses' = [cgiProcesses EXCEPT ![Here] = p]
          /\ pidToClientFd' = [pidToClientFd EXCEPT ![p] = Here]
    /\ UNCHANGED <<room, wire, fds, sendBuffers, closeAfterSend>>
    /\ Return

-----------------------------------------------------------------------------
(* POLLOUT: handlePollOut(), and POLLHUP | POLLERR *)

\* Nothing is pending: stop asking for POLLOUT
NothingToSend ==
    /\ fds' = Disarm(fds, at[1])
    /\ UNCHANGED <<netVars, childVars, tableVars, cgiVars>>
    /\ Return

\* Variant: send() is taken to accept everything
SendableAll == sendBuffers[Here].size - sendBuffers[Here].sent

\* Variant: a send() that takes only a part counts as a failure
SendableWhole ==
    LET left == sendBuffers[Here].size - sendBuffers[Here].sent IN
    IF peer[Caller] = "rst" \/ room[Caller] < left THEN 0 ELSE left

\* What send() takes: 0 stands for its failure too
Sendable ==
    LET response == sendBuffers[Here] IN
    IF peer[Caller] = "rst" THEN 0
    ELSE Least(response.size - response.sent, room[Caller])

\* send() returns 0 or -1, whatever the reason: close
SendFails ==
    /\ Sendable = 0
    /\ CloseClient(at[1])
    /\ UNCHANGED <<via, peer, need, sent, inbox, room, wire, childVars, cgiVars>>
    /\ Return

Transmit ==
    /\ wire' = [wire EXCEPT ![Caller] = @ \o Units(sendBuffers[Here], Sendable)]
    /\ room' = [room EXCEPT ![Caller] = @ - Sendable]
    /\ UNCHANGED <<via, peer, need, sent, inbox, childVars, cgiVars>>

\* The last unit is out: forget the response, stop asking for POLLOUT and, if
\* _closeAfterSend says so, close
SendLast ==
    /\ Sendable > 0
    /\ Sendable >= sendBuffers[Here].size - sendBuffers[Here].sent
    /\ Transmit
    /\ IF closeAfterSend[Here]
       THEN CloseClient(at[1])
       ELSE /\ sendBuffers' = [sendBuffers EXCEPT ![Here] = None]
            /\ fds' = Disarm(fds, at[1])
            /\ UNCHANGED <<state, sock, clientSockets, clients, closeAfterSend,
                           clientToListenSocket, clientToVirtualServer>>
    /\ Return

\* Part of it is out: keep the rest, refresh lastActivity
SendPart ==
    /\ Sendable > 0
    /\ Sendable < sendBuffers[Here].size - sendBuffers[Here].sent
    /\ Transmit
    /\ sendBuffers' = [sendBuffers EXCEPT ![Here].sent = @ + Sendable]
    /\ clients' = [clients EXCEPT ![Here] =
                      IF @ = None THEN None ELSE [@ EXCEPT !.idle = 0]]
    /\ UNCHANGED <<state, sock, fds, clientSockets, closeAfterSend,
                   clientToListenSocket, clientToVirtualServer>>
    /\ Return

HangUp ==
    /\ Visiting("HUP")
    /\ CloseClient(at[1])
    /\ UNCHANGED <<via, peer, need, sent, inbox, room, wire, childVars, cgiVars>>
    /\ Return

-----------------------------------------------------------------------------
(* The timeout sweep, the end of run() and cleanup() *)

Late(fd) ==
    /\ clients[fd] # None
    /\ clients[fd].idle > IdleLimit \/ clients[fd].total > TotalLimit

\* A 408 replaces what is pending on every descriptor that is late
Sweep ==
    LET late == {fd \in ClientFds : Late(fd)} IN
    /\ phase = "sweep"
    /\ QueueResponse([fd \in late |-> Reply(sock[fd], 1)])
    /\ phase' = "poll"
    /\ UNCHANGED <<netVars, childVars, cgiVars, clientSockets, clients,
                   clientToListenSocket, clientToVirtualServer, at, due>>

\* SIGINT sets g_stop; run() sees it before it polls again and returns
Sigint ==
    /\ phase = "poll"
    /\ phase' = "cleanup"
    /\ UNCHANGED <<netVars, childVars, fds, tableVars, cgiVars, at, due>>

\* cleanup(): closeClient(0) until no client is left ...
CleanupClient ==
    /\ phase = "cleanup"
    /\ clientSockets # {}
    /\ CloseClient(1)
    /\ UNCHANGED <<via, peer, need, sent, inbox, room, wire, childVars,
                   cgiVars, ctlVars>>

\* ... then the listeners that are left; the children are not told
CleanupListeners ==
    /\ phase = "cleanup"
    /\ clientSockets = {}
    /\ fds' = <<>>
    /\ phase' = "stopped"
    /\ UNCHANGED <<netVars, childVars, tableVars, cgiVars, at, due>>

-----------------------------------------------------------------------------
(* The environment: peers and children *)

\* A client connects; the kernel queues the connection on the listener
Connect(c) ==
    /\ state[c] = "new"
    /\ phase # "stopped"
    /\ state' = [state EXCEPT ![c] = "backlog"]
    /\ \E l \in Listeners : via' = [via EXCEPT ![c] = l]
    /\ \E n \in 1..MaxSegs :
          /\ n = 1 \/ "split" \in Behaviours
          /\ need' = [need EXCEPT ![c] = n]
    /\ UNCHANGED <<peer, sent, inbox, room, wire, sock, childVars, fds,
                   tableVars, cgiVars, ctlVars>>

\* It sends one more segment of its request, or bytes after it
PeerSend(c) ==
    /\ state[c] \in {"backlog", "open"}
    /\ peer[c] = "up"
    /\ \/ sent[c] < need[c]
       \/ "pipeline" \in Behaviours /\ sent[c] = need[c]
    /\ sent' = [sent EXCEPT ![c] = @ + 1]
    /\ inbox' = [inbox EXCEPT ![c] = @ + 1]
    /\ UNCHANGED <<state, via, peer, need, room, wire, sock, childVars, fds,
                   tableVars, cgiVars, ctlVars>>

\* It shuts down its sending side, or resets the connection
PeerGone(c, how) ==
    /\ how \in Behaviours
    /\ state[c] \in {"backlog", "open"}
    /\ \/ how = "fin" /\ peer[c] = "up" /\ peer' = [peer EXCEPT ![c] = "fin"]
       \/ how = "reset" /\ peer[c] # "rst" /\ peer' = [peer EXCEPT ![c] = "rst"]
    /\ UNCHANGED <<state, via, need, sent, inbox, room, wire, sock, childVars,
                   fds, tableVars, cgiVars, ctlVars>>

\* It reads a unit: the send buffer has room again
PeerRead(c) ==
    /\ state[c] = "open"
    /\ peer[c] # "rst"
    /\ room[c] < SndBuf
    /\ room' = [room EXCEPT ![c] = @ + 1]
    /\ UNCHANGED <<state, via, peer, need, sent, inbox, wire, sock, childVars,
                   fds, tableVars, cgiVars, ctlVars>>

ChildExits(p) ==
    /\ child[p] = "running"
    /\ child' = [child EXCEPT ![p] = "exited"]
    /\ UNCHANGED <<netVars, age, asker, pipes, fds, tableVars, cgiVars, ctlVars>>

-----------------------------------------------------------------------------
(* The system *)

Iterate == (\E ticks \in {0, 1} : Poll(ticks)) \/ PollCgi \/ Sweep
NewClient == Accept \/ AcceptFails
ClientData == RecvError \/ RecvEof \/ AwaitBody \/ Respond \/ Upload \/ StartCgi
HandlePollOut ==
    /\ Visiting("OUT")
    /\ IF sendBuffers[Here] = None THEN NothingToSend
       ELSE SendFails \/ SendLast \/ SendPart
Cleanup == CleanupClient \/ CleanupListeners

\* The one thread of the server
Server == Iterate \/ NewClient \/ ClientData \/ HandlePollOut \/ HangUp \/ Cleanup

Peers == \E c \in Conns : \/ Connect(c) \/ PeerSend(c) \/ PeerRead(c)
                          \/ \E how \in {"fin", "reset"} : PeerGone(c, how)

\* After cleanup the process is gone
Stopped == phase = "stopped" /\ UNCHANGED vars

Next == Server \/ Sigint \/ Peers \/ (\E p \in Pids : ChildExits(p)) \/ Stopped

Spec == Init /\ [][Next]_vars

\* The thread runs and time passes; no peer and no child has to do anything
ServerFairness == WF_vars(Server) /\ SF_vars(Poll(1))

\* Moreover peers read what they are sent, and send what they have to
ReadersFairness == \A c \in Conns : WF_vars(PeerRead(c))
SendersFairness == \A c \in Conns : WF_vars(PeerSend(c))

ServedSpec   == Spec /\ ServerFairness
AttendedSpec == ServedSpec /\ ReadersFairness
DiligentSpec == AttendedSpec /\ SendersFairness

-----------------------------------------------------------------------------
(* What holds whatever peers and programs do *)

Slots == DOMAIN fds

DistinctSlots == \A i, j \in Slots : fds[i].fd = fds[j].fd => i = j

ServedIsWatched ==
    \A fd \in ClientFds : fd \in clientSockets <=> \E i \in Slots : fds[i].fd = fd

ServedIsKnown ==
    \A fd \in Fds : /\ fd \in clientSockets <=> clients[fd] # None
                    /\ fd \in clientSockets <=> sock[fd] # None
                    /\ fd \in clientSockets <=> clientToListenSocket[fd] # None

OpenIsServed ==
    /\ \A fd \in clientSockets : /\ state[sock[fd]] = "open"
                                 /\ clientToListenSocket[fd] = via[sock[fd]]
    /\ \A fd, gd \in clientSockets : sock[fd] = sock[gd] => fd = gd
    /\ \A c \in Conns : state[c] = "open" => \E fd \in clientSockets : sock[fd] = c

\* The tables of Server speak of the same descriptors: no descriptor is polled
\* twice, the polled clients are those of _clientSockets, of _clients and of
\* _clientToListenSocket, and each has an open connection of its own that came
\* in by the listener recorded for it (handleNewConnection, closeClient).
TablesAgree == DistinctSlots /\ ServedIsWatched /\ ServedIsKnown /\ OpenIsServed

\* A response never sits in _sendBuffers with nobody asking for POLLOUT: one
\* that belongs to the connection now on the descriptor is armed, what is armed
\* has a response, and every response closes its connection (queueResponse,
\* handlePollOut, closeClient).
PendingIsArmed ==
    /\ \A fd \in Fds : closeAfterSend[fd] <=> sendBuffers[fd] # None
    /\ \A i \in Slots :
          LET fd == fds[i].fd IN
          /\ "OUT" \in fds[i].events => sendBuffers[fd] # None
          /\ (sendBuffers[fd] # None /\ sock[fd] = sendBuffers[fd].owner)
                => "OUT" \in fds[i].events

\* Handlers erase and append entries of _fds while run() walks over it; still
\* every descriptor poll() reported has been visited when the scan ends.
ScanMissesNobody == phase = "sweep" => due = {}

\* What _cgiProcesses records is a child whose pipes are still open and whose
\* _pidToClientFd entry leads back to it, so that no child is recorded twice
\* and finalizeCGI() never closes the pipes of one a second time.
TrackedCgiIsOpen ==
    \A fd \in Fds : cgiProcesses[fd] # None =>
        /\ cgiProcesses[fd] \in pipes
        /\ pidToClientFd[cgiProcesses[fd]] = fd

-----------------------------------------------------------------------------
(* What comes about while the thread runs and time passes *)

\* A peer that reads what it is sent is never kept waiting for ever: every
\* connection the server has accepted is closed in the end, by its response, a
\* timeout or the end of the server (run, handlePollOut, the sweep).
EveryClientIsClosed ==
    \A c \in Conns : state[c] = "open" ~> state[c] = "closed"

\* A connection in the listen queue is taken up, though accept() may find no
\* free descriptor for a while, unless the server stops.
EveryCallerIsAccepted ==
    \A c \in Conns : state[c] = "backlog" ~> (state[c] # "backlog" \/ phase = "stopped")

\* A CGI child that is tracked is finalised, by its end or by its deadline,
\* even if its program hangs, unless the server stops first.
EveryCgiIsFinalised ==
    \A fd \in ClientFds :
        cgiProcesses[fd] # None ~> (cgiProcesses[fd] = None \/ phase = "stopped")

\* Once g_stop is seen cleanup() comes to its end although it closes index 0
\* again and again, listeners first.
CleanupEnds == phase = "cleanup" ~> phase = "stopped"

-----------------------------------------------------------------------------
(* What holds for peers that send one request, read and stay *)

\* A connection is sent no unit of the response to another one's request.
OwnResponse == \A c \in Conns : \A i \in DOMAIN wire[c] : wire[c][i].owner = c

Answered(units) == units # <<>> /\ units[Len(units)].last

\* The server closes a connection only when its response is out, its peer has
\* reset it, or the server stops (handlePollOut, closeClient).
ClosedForCause ==
    [][\A c \in Conns : (state[c] = "open" /\ state'[c] = "closed")
          => Answered(wire'[c]) \/ peer[c] = "rst" \/ phase = "cleanup"]_vars

\* Every child whose pipes are open is in _cgiProcesses, under the descriptor
\* _pidToClientFd has for it: none is left behind (handleClientData,
\* finalizeCGI).
EveryCgiTracked ==
    /\ pipes = {cgiProcesses[fd] : fd \in Fds} \ {None}
    /\ \A p \in Pids, fd \in Fds : cgiProcesses[fd] = p <=> pidToClientFd[p] = fd

\* No child outlives its deadline by a whole iteration of the loop.
CgiDeadline ==
    phase \in {"scan", "sweep"} =>
        \A p \in Pids : child[p] = "running" => age[p] <= CgiLimit

\* The loop implements the exchange it owes each peer.
Exchange == INSTANCE HttpExchange WITH
    status <- [c \in Conns |-> IF state[c] = "backlog" THEN "new" ELSE state[c]],
    stream <- wire,
    stopping <- phase \in {"cleanup", "stopped"}

ImplementsExchange == Exchange!FairSpec
=============================================================================
