-------------------------- MODULE ExchangeProofs --------------------------
(***************************************************************************)
(* What the event loop owes peers that send one request, read and stay,    *)
(* proved for any number of them: no child is lost or outlives its         *)
(* deadline, nobody is closed without cause, everybody is sent an answer   *)
(* of his own, and every step is one of HttpExchange or changes nothing    *)
(* that HttpExchange sees.                                                 *)
(*                                                                         *)
(* A connection goes through three stages: its request is asked for, its   *)
(* child is waited for, its response is sent.  The invariant says of each  *)
(* stage what the tables hold, and how far the clock can have come.        *)
(***************************************************************************)
EXTENDS EventLoopProofs

-----------------------------------------------------------------------------
(* Whom the promises are made to *)

\* A request whose segments each come within the idle timeout is complete
\* within the total one.
Timely == (IdleLimit + 1) * MaxSegs <= TotalLimit

\* No response is too long for an empty send buffer.
Small == MaxUnits <= SndBuf

\* The total timeout does not strike a connection that is being answered.
Punctual == "idle" \notin Behaviours \/ Timely

\* Peers send one request, may then shut down their sending side, and read what
\* they are sent.  Either there are no CGI programs, or requests come at once
\* and the timeout of a program ends before those of its client do.
Attentive ==
    /\ Behaviours \subseteq {"cgi", "split", "idle", "fin"}
    /\ "cgi" \in Behaviours => /\ "idle" \notin Behaviours
                               /\ CgiLimit <= IdleLimit /\ CgiLimit < TotalLimit
    /\ Punctual \/ Small

-----------------------------------------------------------------------------
(* The invariant *)

Running == phase \notin {"cleanup", "stopped"}

\* Nobody resets, sends beyond his request, or has anything to lose before he
\* is accepted.
Undisturbed ==
    /\ \A c \in Conns : /\ peer[c] # "rst"
                        /\ sent[c] <= need[c]
                        /\ wire[c] = <<>> => room[c] = SndBuf
                        /\ state[c] \in {"new", "backlog"} =>
                              inbox[c] = sent[c] /\ wire[c] = <<>>
    /\ \A i \in DOMAIN fds : "HUP" \notin fds[i].revents

\* What poll() reported writable and the scan has still before it has room.
Writable ==
    \A i \in DOMAIN fds :
        /\ "OUT" \in fds[i].revents
        /\ \/ phase = "cgi"
           \/ phase = "scan" /\ (i < at[1] \/ (i = at[1] /\ at[2] <= 2))
        => room[sock[fds[i].fd]] > 0

\* The request is not complete.  A response that is pending all the same is
\* a 408.  Where peers take their time the idle timeout bounds the total one.
Asking(fd) ==
    LET c == sock[fd] st == clients[fd] IN
    /\ cgiProcesses[fd] = None
    /\ st.buf + inbox[c] = sent[c] /\ st.buf < need[c]
    /\ wire[c] = <<>>
    /\ sendBuffers[fd] # None => sendBuffers[fd] = Reply(c, 1)
    /\ "idle" \notin Behaviours => st.idle = 0 /\ st.total = 0 /\ sendBuffers[fd] = None
    /\ Timely => st.total <= (IdleLimit + 1) * st.buf + st.idle
    /\ phase = "poll" /\ st.idle > IdleLimit => sendBuffers[fd] # None

\* The child of the request is not finalised.  The client has waited no longer
\* than the child has run.
Waiting(fd) ==
    LET c == sock[fd] st == clients[fd] p == cgiProcesses[fd]
        limit == IF phase = "cgi" THEN CgiLimit + 1 ELSE CgiLimit
    IN
    /\ "cgi" \in Behaviours
    /\ p # None /\ asker[p] = c
    /\ sent[c] = need[c] /\ inbox[c] = 0
    /\ wire[c] = <<>> /\ sendBuffers[fd] = None
    /\ st.idle <= limit /\ st.total <= limit
    /\ child[p] = "running" => st.idle <= age[p] /\ st.total <= age[p]

\* The response is pending, and what has been sent is the first part of it.
Answering(fd) ==
    LET c == sock[fd] st == clients[fd] r == sendBuffers[fd] IN
    /\ cgiProcesses[fd] = None
    /\ sent[c] = need[c] /\ inbox[c] = 0
    /\ r # None /\ r.owner = c
    /\ r.sent < r.size /\ Len(wire[c]) = r.sent
    /\ Punctual => st.total <= TotalLimit
    /\ r.sent > 0 => Punctual /\ st.idle <= IdleLimit

\* Every client is in one of the stages; a free descriptor has nothing left of
\* the client before.
Stage(fd) == Asking(fd) \/ Waiting(fd) \/ Answering(fd)
Vacant(fd) == cgiProcesses[fd] = None /\ sendBuffers[fd] = None

Staged(fd) == /\ fd \in clientSockets => Stage(fd)
              /\ fd \notin clientSockets => Vacant(fd)

InStage == \A fd \in Fds : Staged(fd)

\* Both maps lead to each other, and from every open pipe.
LeadsBack ==
    /\ \A p \in pipes : \E fd \in Fds : cgiProcesses[fd] = p
    /\ \A p \in Pids, fd \in Fds : pidToClientFd[p] = fd => cgiProcesses[fd] = p

\* A child that runs has its pipes open, and pollCGIProcesses() has seen to it
\* that its time is not over.
Ages ==
    \A p \in Pids :
        /\ child[p] = "unborn" => age[p] = 0
        /\ child[p] = "running" => /\ p \in pipes
                                   /\ phase # "cgi" => age[p] <= CgiLimit

XInv == /\ LeadsBack /\ Ages /\ OwnResponse
        /\ Running => Undisturbed /\ Writable /\ InStage

EInv == IInv /\ TrackedCgiIsOpen /\ OpenIsBorn /\ PendingIsArmed /\ XInv

-----------------------------------------------------------------------------
(* Frames *)

\* What the tables say of a client.
LEMMA ClientTyped ==
    ASSUME IInv, NEW fd \in clientSockets
    PROVE  /\ fd \in Fds /\ fd \in ClientFds
           /\ sock[fd] \in Conns /\ state[sock[fd]] = "open"
           /\ clients[fd] \in ClientState
           /\ \A gd \in clientSockets : sock[gd] = sock[fd] => gd = fd
           /\ cgiProcesses[fd] # None => /\ cgiProcesses[fd] \in Pids
                                         /\ child[cgiProcesses[fd]] # "unborn"
           /\ sendBuffers[fd] # None => sendBuffers[fd] \in Response
  <1> USE DEF IInv
  <1>1. fd \in Fds /\ fd \in ClientFds
    BY DEF TypeOK, Fds
  <1>2. /\ sock \in [Fds -> Conns \cup {None}] /\ clients \in [Fds -> ClientState \cup {None}]
        /\ cgiProcesses \in [Fds -> Pids \cup {None}]
        /\ sendBuffers \in [Fds -> Response \cup {None}]
    BY DEF TypeOK
  <1>3. sock[fd] # None /\ clients[fd] # None
    BY <1>1 DEF TablesAgree, ServedIsKnown
  <1>4. state[sock[fd]] = "open" /\ \A gd \in clientSockets : sock[gd] = sock[fd] => gd = fd
    BY DEF TablesAgree, OpenIsServed
  <1>5. cgiProcesses[fd] # None => child[cgiProcesses[fd]] # "unborn"
    BY <1>1 DEF OwedToAccepted
  <1> QED  BY <1>1, <1>2, <1>3, <1>4, <1>5

\* A step that leaves a client, its connection and its child alone.
LEMMA StageFrame ==
    ASSUME IInv, NEW fd \in clientSockets, Stage(fd),
           clients'[fd] = clients[fd], sock'[fd] = sock[fd],
           cgiProcesses'[fd] = cgiProcesses[fd], sendBuffers'[fd] = sendBuffers[fd],
           inbox'[sock[fd]] = inbox[sock[fd]], wire'[sock[fd]] = wire[sock[fd]],
           UNCHANGED <<sent, need>>,
           \A p \in Pids : child[p] # "unborn" =>
              child'[p] = child[p] /\ age'[p] = age[p] /\ asker'[p] = asker[p],
           phase' = phase \/ {phase, phase'} \subseteq {"scan", "sweep"}
    PROVE  Stage(fd)'
  <1>1. cgiProcesses[fd] # None => /\ cgiProcesses[fd] \in Pids
                                  /\ child[cgiProcesses[fd]] # "unborn"
    BY ClientTyped
  <1>2. Asking(fd) => Asking(fd)'
    BY DEF Asking, Reply
  <1>3. Waiting(fd) => Waiting(fd)'
    BY <1>1 DEF Waiting
  <1>4. Answering(fd) => Answering(fd)'
    BY DEF Answering
  <1> QED  BY <1>2, <1>3, <1>4 DEF Stage

\* A handler changes nothing for other descriptors than its own.
LEMMA OthersStay ==
    ASSUME IInv, InStage, NEW g \in Fds, NEW c \in Conns,
           \A fd \in clientSockets \ {g} : sock[fd] # c,
           clientSockets' \ {g} = clientSockets \ {g},
           \A fd \in Fds \ {g} :
              /\ clients'[fd] = clients[fd] /\ sock'[fd] = sock[fd]
              /\ cgiProcesses'[fd] = cgiProcesses[fd]
              /\ sendBuffers'[fd] = sendBuffers[fd],
           \A d \in Conns \ {c} : inbox'[d] = inbox[d] /\ wire'[d] = wire[d],
           UNCHANGED <<sent, need>>,
           \A p \in Pids : child[p] # "unborn" =>
              child'[p] = child[p] /\ age'[p] = age[p] /\ asker'[p] = asker[p],
           {phase, phase'} \subseteq {"scan", "sweep"},
           Staged(g)'
    PROVE  InStage'
  <1> SUFFICES ASSUME NEW fd \in Fds, fd # g PROVE Staged(fd)'
    BY DEF InStage
  <1>1. fd \in clientSockets' <=> fd \in clientSockets
    OBVIOUS
  <1>2. Staged(fd)
    BY DEF InStage
  <1>3. CASE fd \in clientSockets
    <2>1. sock[fd] \in Conns /\ sock[fd] # c
      BY <1>3, ClientTyped
    <2>2. Stage(fd)
      BY <1>2, <1>3 DEF Staged
    <2>3. Stage(fd)'
      BY <1>3, <2>1, <2>2, StageFrame
    <2> QED  BY <1>1, <1>3, <2>3 DEF Staged
  <1>4. CASE fd \notin clientSockets
    BY <1>1, <1>2, <1>4 DEF Staged, Vacant
  <1> QED  BY <1>3, <1>4

\* The scan goes forward.
LEMMA ResumeAdvances ==
    ASSUME NEW j \in Nat, NEW t \in 0..3, Resume(j, t)
    PROVE  \/ phase' = "sweep"
           \/ /\ phase' = "scan" /\ at'[1] \in 1..j /\ at'[2] \in 1..3
              /\ at'[1] < j \/ at'[2] > t
  BY DEF Resume, Ahead

\* A handler that leaves the entries in front of its own where they are, with
\* room for what they were reported for.
LEMMA ReturnKeepsWritable ==
    ASSUME IInv, Writable, phase = "scan", Return,
           DOMAIN fds' \subseteq Nat,
           \A i \in DOMAIN fds' :
              (i < at[1] \/ (i = at[1] /\ at[2] = 1)) /\ "OUT" \in fds'[i].revents =>
              /\ i \in DOMAIN fds
              /\ fds'[i].fd = fds[i].fd /\ fds'[i].revents = fds[i].revents
              /\ room[sock[fds[i].fd]] > 0 => room'[sock'[fds[i].fd]] > 0
    PROVE  Writable'
  <1>1. at[1] \in Nat /\ at[2] \in 1..3 /\ at[2] \in 0..3
    <2>1. at \in Nat \X (0..3) /\ at[2] \in 1..3
      BY HereTyped
    <2> QED  BY <2>1
  <1>2. \/ phase' = "sweep"
        \/ /\ phase' = "scan" /\ at'[1] \in 1..at[1] /\ at'[2] \in 1..3
           /\ at'[1] < at[1] \/ at'[2] > at[2]
    BY <1>1, ResumeAdvances DEF Return
  <1> SUFFICES ASSUME NEW i \in DOMAIN fds', "OUT" \in fds'[i].revents,
                      phase' = "scan", i < at'[1] \/ (i = at'[1] /\ at'[2] <= 2)
               PROVE  room'[sock'[fds'[i].fd]] > 0
    BY <1>2 DEF Writable
  <1>3. i \in Nat /\ (i < at[1] \/ (i = at[1] /\ at[2] = 1))
    BY <1>1, <1>2
  <1>4. /\ i \in DOMAIN fds
        /\ fds'[i].fd = fds[i].fd /\ fds'[i].revents = fds[i].revents
        /\ room[sock[fds[i].fd]] > 0 => room'[sock'[fds[i].fd]] > 0
    BY <1>3
  <1>5. room[sock[fds[i].fd]] > 0
    BY <1>3, <1>4 DEF Writable
  <1> QED  BY <1>4, <1>5

\* A handler that changes no report, no socket and no room.
LEMMA SameReportsKeepWritable ==
    ASSUME IInv, Writable, phase = "scan", Return, UNCHANGED <<sock, room>>,
           fds' \in Seq(PollFd), DOMAIN fds' = DOMAIN fds,
           \A i \in DOMAIN fds : fds'[i].fd = fds[i].fd /\ fds'[i].revents = fds[i].revents
    PROVE  Writable'
  <1>1. DOMAIN fds' \subseteq Nat
    BY SlotsTyped
  <1> QED  BY <1>1, ReturnKeepsWritable

\* A step that leaves maps, pipes, ages and wires alone.
LEMMA ChildrenStay ==
    ASSUME XInv, UNCHANGED <<pipes, cgiVars, child, age, wire>>,
           phase' # "cgi" => phase # "cgi"
    PROVE  LeadsBack' /\ Ages' /\ OwnResponse'
  BY DEF XInv, LeadsBack, Ages, OwnResponse, cgiVars

\* A step that leaves the connections alone.
LEMMA UndisturbedFrame ==
    ASSUME Undisturbed, UNCHANGED <<peer, sent, need, wire, room, state, inbox>>,
           \A i \in DOMAIN fds' : \E k \in DOMAIN fds : fds'[i].revents = fds[k].revents
    PROVE  Undisturbed'
  BY DEF Undisturbed

-----------------------------------------------------------------------------
(* Peers and children *)

\* Peers send what is missing of their request, read, and shut down.
LEMMA PeersKeepExchange ==
    ASSUME Attentive, EInv, Peers PROVE XInv'
  <1>0. TypeOK /\ RequestsBounded /\ IInv /\ XInv
    BY DEF EInv, IInv
  <1>1. UNCHANGED <<wire, sock, childVars, fds, tableVars, cgiVars, ctlVars>>
    BY DEF Peers, Connect, PeerSend, PeerRead, PeerGone
  <1>2. LeadsBack' /\ Ages' /\ OwnResponse'
    BY <1>0, <1>1, ChildrenStay DEF childVars, ctlVars
  <1> SUFFICES ASSUME Running PROVE Undisturbed' /\ Writable' /\ InStage'
    BY <1>1, <1>2 DEF XInv, Running, ctlVars
  <1>3. Undisturbed /\ Writable /\ InStage
    BY <1>0 DEF XInv
  <1>4. PICK c \in Conns : Connect(c) \/ PeerSend(c) \/ PeerRead(c)
                           \/ \E how \in {"fin", "reset"} : PeerGone(c, how)
    BY DEF Peers
  <1>5. ASSUME \A d \in Conns : state[d] = "open" => /\ sent'[d] = sent[d]
                                                     /\ inbox'[d] = inbox[d]
                                                     /\ need'[d] = need[d]
        PROVE  InStage'
    <2> SUFFICES ASSUME NEW fd \in clientSockets, Stage(fd) PROVE Stage(fd)'
      BY <1>1, <1>3 DEF InStage, Staged, Vacant, tableVars, cgiVars
    <2>1. sock[fd] \in Conns /\ state[sock[fd]] = "open"
      BY <1>0, ClientTyped
    <2>2. Asking(fd) => Asking(fd)'
      BY <1>1, <1>5, <2>1 DEF Asking, tableVars, cgiVars, ctlVars, Reply
    <2>3. Waiting(fd) => Waiting(fd)'
      BY <1>1, <1>5, <2>1 DEF Waiting, tableVars, cgiVars, ctlVars, childVars
    <2>4. Answering(fd) => Answering(fd)'
      BY <1>1, <1>5, <2>1 DEF Answering, tableVars, cgiVars, ctlVars
    <2> QED  BY <2>2, <2>3, <2>4 DEF Stage
  <1>6. CASE Connect(c)
    <2>1. /\ state[c] = "new" /\ state' = [state EXCEPT ![c] = "backlog"]
          /\ \E n \in 1..MaxSegs : need' = [need EXCEPT ![c] = n]
          /\ UNCHANGED <<peer, sent, inbox, room>>
      BY <1>6 DEF Connect
    <2>2. sent[c] = 0 /\ \A d \in Conns : sent[d] <= need'[d]
      BY <1>0, <1>3, <2>1 DEF TypeOK, RequestsBounded, Undisturbed
    <2>3. Undisturbed'
      BY <1>0, <1>1, <1>3, <2>1, <2>2 DEF Undisturbed, TypeOK
    <2>4. Writable'
      BY <1>1, <1>3, <2>1 DEF Writable, ctlVars
    <2> QED  BY <1>0, <1>5, <2>1, <2>3, <2>4 DEF TypeOK
  <1>7. CASE PeerSend(c)
    <2>1. /\ sent[c] < need[c]
          /\ sent' = [sent EXCEPT ![c] = @ + 1] /\ inbox' = [inbox EXCEPT ![c] = @ + 1]
          /\ UNCHANGED <<state, peer, need, room>>
      BY <1>7 DEF PeerSend, Attentive
    <2>2. sent[c] \in Nat /\ inbox[c] \in Nat /\ need[c] \in Nat
      BY <1>0, BoundAssumption DEF TypeOK
    <2>3. \A d \in Conns : /\ sent'[d] = IF d = c THEN sent[c] + 1 ELSE sent[d]
                           /\ inbox'[d] = IF d = c THEN inbox[c] + 1 ELSE inbox[d]
      BY <1>0, <2>1 DEF TypeOK
    <2>4. Undisturbed'
      BY <1>1, <1>3, <2>1, <2>2, <2>3 DEF Undisturbed
    <2>5. Writable'
      BY <1>1, <1>3, <2>1 DEF Writable, ctlVars
    <2>6. ASSUME NEW fd \in clientSockets, Stage(fd) PROVE Stage(fd)'
      <3>1. sock[fd] \in Conns /\ clients[fd] \in ClientState
        BY <1>0, ClientTyped
      <3>2. Asking(fd) => Asking(fd)'
        <4> DEFINE b == clients[fd].buf
        <4>1. b \in Nat
          BY <3>1, BoundAssumption DEF ClientState
        <4>2. inbox[sock[fd]] \in Nat /\ sent[sock[fd]] \in Nat
          BY <1>0, <3>1, BoundAssumption DEF TypeOK
        <4>3. b + inbox[sock[fd]] = sent[sock[fd]] => b + inbox'[sock[fd]] = sent'[sock[fd]]
          BY <2>3, <3>1, <4>1, <4>2
        <4> QED  BY <1>1, <2>1, <4>3 DEF Asking, Reply, tableVars, cgiVars, ctlVars
      <3>3. Waiting(fd) \/ Answering(fd) => sock[fd] # c
        BY <2>1, <2>2 DEF Waiting, Answering
      <3>4. Waiting(fd) => Waiting(fd)'
        BY <1>1, <2>1, <2>3, <3>1, <3>3 DEF Waiting, tableVars, cgiVars, ctlVars, childVars
      <3>5. Answering(fd) => Answering(fd)'
        BY <1>1, <2>1, <2>3, <3>1, <3>3 DEF Answering, tableVars, cgiVars, ctlVars
      <3> QED  BY <2>6, <3>2, <3>4, <3>5 DEF Stage
    <2>7. InStage'
      BY <1>1, <1>3, <2>6 DEF InStage, Staged, Vacant, tableVars, cgiVars
    <2> QED  BY <2>4, <2>5, <2>7
  <1>8. CASE PeerRead(c)
    <2>1. /\ room[c] < SndBuf /\ room' = [room EXCEPT ![c] = @ + 1]
          /\ UNCHANGED <<state, peer, sent, need, inbox>>
      BY <1>8 DEF PeerRead
    <2>2. \A d \in Conns : room[d] \in Nat /\ room'[d] = IF d = c THEN room[c] + 1 ELSE room[d]
      BY <1>0, <2>1, BoundAssumption DEF TypeOK
    <2>3. Undisturbed'
      BY <1>1, <1>3, <2>1, <2>2, BoundAssumption DEF Undisturbed
    <2>4. Writable'
      <3>1. \A d : room[d] > 0 => room'[d] > 0
        <4>1. \A d : d \notin Conns => room'[d] = room[d]
          BY <1>0, <2>1 DEF TypeOK
        <4> QED  BY <2>2, <4>1
      <3> QED  BY <1>1, <1>3, <3>1 DEF Writable, ctlVars
    <2> QED  BY <1>5, <2>1, <2>3, <2>4
  <1>9. CASE \E how \in {"fin", "reset"} : PeerGone(c, how)
    <2>1. /\ peer' = [peer EXCEPT ![c] = "fin"]
          /\ UNCHANGED <<state, sent, need, inbox, room>>
      BY <1>9 DEF PeerGone, Attentive
    <2>2. \A d \in Conns : peer'[d] # "rst"
      BY <1>0, <1>3, <2>1 DEF TypeOK, Undisturbed
    <2>3. Undisturbed'
      BY <1>1, <1>3, <2>1, <2>2 DEF Undisturbed
    <2>4. Writable'
      BY <1>1, <1>3, <2>1 DEF Writable, ctlVars
    <2> QED  BY <1>5, <2>1, <2>3, <2>4
  <1> QED  BY <1>4, <1>6, <1>7, <1>8, <1>9

\* A child ends by itself.
LEMMA ChildExitsKeepsExchange ==
    ASSUME EInv, NEW p \in Pids, ChildExits(p) PROVE XInv'
  <1>0. TypeOK /\ IInv /\ XInv
    BY DEF EInv, IInv
  <1>1. /\ child' = [child EXCEPT ![p] = "exited"]
        /\ UNCHANGED <<netVars, age, asker, pipes, fds, tableVars, cgiVars, ctlVars>>
    BY DEF ChildExits
  <1>2. \A q \in Pids : child'[q] = child[q] \/ child'[q] = "exited"
    BY <1>0, <1>1 DEF TypeOK
  <1>3. LeadsBack' /\ OwnResponse'
    BY <1>0, <1>1 DEF XInv, LeadsBack, OwnResponse, cgiVars, netVars
  <1>4. Ages'
    BY <1>0, <1>1, <1>2 DEF XInv, Ages, ctlVars
  <1>5. Undisturbed /\ Writable => Undisturbed' /\ Writable'
    BY <1>1 DEF Undisturbed, Writable, netVars, ctlVars
  <1>6. ASSUME NEW fd \in clientSockets, Stage(fd) PROVE Stage(fd)'
    <2>1. Asking(fd) => Asking(fd)'
      BY <1>1 DEF Asking, Reply, netVars, tableVars, cgiVars, ctlVars
    <2>2. Waiting(fd) => Waiting(fd)'
      <3>1. cgiProcesses[fd] # None => cgiProcesses[fd] \in Pids
        BY <1>0, ClientTyped
      <3> QED  BY <1>1, <1>2, <3>1 DEF Waiting, netVars, tableVars, cgiVars, ctlVars
    <2>3. Answering(fd) => Answering(fd)'
      BY <1>1 DEF Answering, netVars, tableVars, cgiVars, ctlVars
    <2> QED  BY <1>6, <2>1, <2>2, <2>3 DEF Stage
  <1>7. InStage => InStage'
    BY <1>1, <1>6 DEF InStage, Staged, Vacant, tableVars, cgiVars
  <1> QED  BY <1>0, <1>1, <1>3, <1>4, <1>5, <1>7 DEF XInv, Running, ctlVars

-----------------------------------------------------------------------------
(* The loop *)

\* Time passes only while nobody has a response to read and, unless peers take
\* their time, nobody has a request to send.
LEMMA TicksWait ==
    ASSUME Attentive, IInv, ~Hurried, NEW fd \in clientSockets
    PROVE  /\ sendBuffers[fd] = None
           /\ "idle" \notin Behaviours => /\ sent[sock[fd]] >= need[sock[fd]]
                                          /\ inbox[sock[fd]] = 0
  <1>1. fd \in ClientFds /\ sock[fd] \in Conns /\ state[sock[fd]] = "open"
    BY ClientTyped
  <1>2. sent[sock[fd]] \in Nat /\ need[sock[fd]] \in Nat /\ inbox[sock[fd]] \in Nat
    BY <1>1, BoundAssumption DEF IInv, TypeOK
  <1>3. ~Unread(sock[fd]) /\ (Unasked(sock[fd]) => "idle" \in Behaviours)
    BY <1>1 DEF Hurried, Attentive
  <1> QED  BY <1>1, <1>2, <1>3 DEF Unread, Unasked

\* What a poll() makes of a client's ages.
LEMMA AgesOfClient ==
    ASSUME IInv, NEW ticks \in {0, 1}, Poll(ticks), NEW fd \in clientSockets
    PROVE  /\ clients[fd].buf \in Nat /\ clients[fd].idle \in 0..IdleLimit + 1
           /\ clients[fd].total \in 0..TotalLimit + 1
           /\ clients'[fd].buf = clients[fd].buf
           /\ clients'[fd].idle = Least(clients[fd].idle + ticks, IdleLimit + 1)
           /\ clients'[fd].total = Least(clients[fd].total + ticks, TotalLimit + 1)
  <1>1. fd \in Fds /\ clients[fd] \in ClientState
    BY ClientTyped
  <1>2. clients[fd] # None
    BY <1>1, NoneAssumption
  <1>3. clients'[fd] = Aged(fd, ticks)
    BY <1>1, <1>2 DEF Poll
  <1> QED  BY <1>1, <1>3, BoundAssumption DEF Aged, ClientState

\* poll() and its wait.
LEMMA PollKeepsExchange ==
    ASSUME Attentive, EInv, NEW ticks \in {0, 1}, Poll(ticks) PROVE XInv'
  <1>0. TypeOK /\ IInv /\ XInv
    BY DEF EInv, IInv
  <1>1. /\ phase = "poll" /\ phase' = "cgi"
        /\ ticks > 0 => ~Hurried
        /\ fds' = [i \in DOMAIN fds |-> [fds[i] EXCEPT !.revents = Reported(fds[i])]]
        /\ age' = [p \in Pids |-> IF child[p] = "running"
                                  THEN Least(age[p] + ticks, CgiLimit + 1) ELSE age[p]]
        /\ UNCHANGED <<netVars, child, asker, pipes, clientSockets, sendBuffers, cgiVars>>
    BY DEF Poll
  <1>2. Undisturbed /\ Writable /\ InStage
    BY <1>0, <1>1 DEF XInv, Running
  <1>3. LeadsBack' /\ OwnResponse'
    BY <1>0, <1>1 DEF XInv, LeadsBack, OwnResponse, cgiVars, netVars
  <1>4. Ages'
    BY <1>0, <1>1 DEF XInv, Ages
  <1>5. DOMAIN fds' = DOMAIN fds
        /\ \A i \in DOMAIN fds : /\ fds'[i].fd = fds[i].fd
                                 /\ fds'[i].revents = Reported(fds[i])
                                 /\ fds[i].fd \in Fds
    <2>1. \A i \in DOMAIN fds : fds[i] \in PollFd /\ fds[i].fd \in Fds
      BY <1>0, SlotsTyped DEF TypeOK
    <2> QED  BY <1>1, <2>1 DEF PollFd
  <1>6. \A i \in DOMAIN fds : /\ "HUP" \notin Reported(fds[i])
                              /\ "OUT" \in Reported(fds[i]) => room[sock[fds[i].fd]] > 0
    <2>1. sock \in [Fds -> Conns \cup {None}]
      BY <1>0 DEF TypeOK
    <2> QED  BY <1>2, <1>5, <2>1 DEF Reported, Undisturbed
  <1>7. Undisturbed'
    BY <1>1, <1>2, <1>5, <1>6 DEF Undisturbed, netVars
  <1>8. Writable'
    BY <1>1, <1>5, <1>6 DEF Writable, netVars
  <1>9. ASSUME NEW fd \in clientSockets, Stage(fd) PROVE Stage(fd)'
    <2> DEFINE st == clients[fd]
               p == cgiProcesses[fd]
    <2>1. /\ st.buf \in Nat /\ st.idle \in 0..IdleLimit + 1 /\ st.total \in 0..TotalLimit + 1
          /\ clients'[fd].buf = st.buf
          /\ clients'[fd].idle = Least(st.idle + ticks, IdleLimit + 1)
          /\ clients'[fd].total = Least(st.total + ticks, TotalLimit + 1)
      BY <1>0, AgesOfClient
    <2>2. /\ ticks = 0 => /\ clients'[fd].idle = st.idle /\ clients'[fd].total = st.total
          /\ clients'[fd].idle <= st.idle + ticks /\ clients'[fd].total <= st.total + ticks
          /\ st.idle <= IdleLimit => clients'[fd].idle = st.idle + ticks
          /\ clients'[fd].idle \in Nat /\ clients'[fd].total \in Nat
      BY <2>1, BoundAssumption DEF Least
    <2>3. /\ sock[fd] \in Conns /\ sock'[fd] = sock[fd] /\ cgiProcesses'[fd] = p
          /\ sendBuffers'[fd] = sendBuffers[fd]
          /\ p # None => p \in Pids
          /\ UNCHANGED <<inbox, sent, need, wire, asker, child>>
      BY <1>0, <1>1, ClientTyped DEF netVars, cgiVars
    <2>4. ticks = 1 => /\ sendBuffers[fd] = None
                       /\ "idle" \notin Behaviours => /\ sent[sock[fd]] >= need[sock[fd]]
                                                      /\ inbox[sock[fd]] = 0
      BY <1>0, <1>1, TicksWait
    <2>5. CASE Asking(fd)
      <3>1. /\ cgiProcesses[fd] = None /\ wire[sock[fd]] = <<>>
            /\ st.buf + inbox[sock[fd]] = sent[sock[fd]] /\ st.buf < need[sock[fd]]
            /\ sendBuffers[fd] # None => sendBuffers[fd] = Reply(sock[fd], 1)
            /\ "idle" \notin Behaviours => /\ st.idle = 0 /\ st.total = 0
                                           /\ sendBuffers[fd] = None
            /\ Timely => st.total <= (IdleLimit + 1) * st.buf + st.idle
            /\ st.idle > IdleLimit => sendBuffers[fd] # None
        BY <1>1, <2>5 DEF Asking
      <3>2. sent[sock[fd]] \in Nat /\ need[sock[fd]] \in Nat /\ inbox[sock[fd]] \in Nat
        BY <1>0, <2>3, BoundAssumption DEF TypeOK
      <3>3. "idle" \notin Behaviours => ticks = 0
        BY <2>1, <2>4, <3>1, <3>2
      <3>4. "idle" \notin Behaviours => clients'[fd].idle = 0 /\ clients'[fd].total = 0
        BY <2>2, <3>1, <3>3
      <3>5. Timely => clients'[fd].total <= (IdleLimit + 1) * st.buf + clients'[fd].idle
        <4> DEFINE k == (IdleLimit + 1) * st.buf
        <4>1. k \in Nat
          BY <2>1, BoundAssumption
        <4>2. Timely => st.total <= k + st.idle
          BY <3>1
        <4>3. ticks = 1 => st.idle <= IdleLimit
          BY <2>1, <2>4, <3>1, BoundAssumption
        <4> HIDE DEF k
        <4>4. Timely => clients'[fd].total <= k + clients'[fd].idle
          BY <2>1, <2>2, <4>1, <4>2, <4>3, BoundAssumption
        <4> QED  BY <4>4 DEF k
      <3>6. Asking(fd)'
        BY <1>1, <2>1, <2>3, <3>1, <3>4, <3>5 DEF Asking, Reply
      <3> QED  BY <3>6 DEF Stage
    <2>6. CASE Waiting(fd)
      <3>1. /\ "cgi" \in Behaviours /\ p # None /\ asker[p] = sock[fd]
            /\ sent[sock[fd]] = need[sock[fd]] /\ inbox[sock[fd]] = 0
            /\ wire[sock[fd]] = <<>> /\ sendBuffers[fd] = None
            /\ st.idle <= CgiLimit /\ st.total <= CgiLimit
            /\ child[p] = "running" => st.idle <= age[p] /\ st.total <= age[p]
        BY <1>1, <2>6 DEF Waiting
      <3>2. clients'[fd].idle <= CgiLimit + 1 /\ clients'[fd].total <= CgiLimit + 1
        <4>1. st.idle \in Nat /\ st.total \in Nat
          BY <2>1, BoundAssumption
        <4>2. clients'[fd].idle <= st.idle + ticks /\ clients'[fd].total <= st.total + ticks
          BY <2>2
        <4>3. clients'[fd].idle \in Nat /\ clients'[fd].total \in Nat
          BY <2>2
        <4>4. /\ st.idle <= CgiLimit /\ st.total <= CgiLimit
              /\ CgiLimit \in Nat /\ ticks \in Nat /\ ticks <= 1
          BY <3>1, BoundAssumption
        <4>5. \A x, y, n, t \in Nat : x <= y + t /\ y <= n /\ t <= 1 => x <= n + 1
          OBVIOUS
        <4> HIDE DEF st
        <4> QED  BY <4>1, <4>2, <4>3, <4>4, <4>5
      <3>3. age[p] \in Nat
        BY <1>0, <2>3, <3>1, BoundAssumption DEF TypeOK
      <3>4. child[p] = "running" => age'[p] = Least(age[p] + ticks, CgiLimit + 1)
        BY <1>1, <2>3, <3>1
      <3>5. child[p] = "running" => clients'[fd].idle <= age'[p] /\ clients'[fd].total <= age'[p]
        <4>1. \A x, m, n \in Nat : x <= m /\ x <= n => x <= Least(m, n)
          BY DEF Least
        <4>2. CgiLimit + 1 \in Nat /\ age[p] + ticks \in Nat
          BY <3>3, BoundAssumption
        <4>3. child[p] = "running" => /\ clients'[fd].idle <= age[p] + ticks
                                      /\ clients'[fd].total <= age[p] + ticks
          BY <2>1, <2>2, <3>1, <3>3
        <4> QED  BY <2>2, <3>2, <3>4, <4>1, <4>2, <4>3
      <3>6. Waiting(fd)'
        BY <1>1, <2>3, <3>1, <3>2, <3>5 DEF Waiting
      <3> QED  BY <3>6 DEF Stage
    <2>7. CASE Answering(fd)
      <3>1. ticks = 0
        BY <2>4, <2>7 DEF Answering
      <3>2. Answering(fd)'
        BY <2>2, <2>3, <2>7, <3>1 DEF Answering
      <3> QED  BY <3>2 DEF Stage
    <2> QED  BY <1>9, <2>5, <2>6, <2>7 DEF Stage
  <1>10. InStage'
    BY <1>1, <1>2, <1>9 DEF InStage, Staged, Vacant, cgiVars
  <1> QED  BY <1>3, <1>4, <1>7, <1>8, <1>10 DEF XInv

\* queueResponse() leaves reports alone.
LEMMA QueueKeepsReports ==
    ASSUME TypeOK, NEW answers, QueueResponse(answers)
    PROVE  /\ fds' \in Seq(PollFd) /\ DOMAIN fds' = DOMAIN fds
           /\ \A i \in DOMAIN fds : /\ fds'[i].fd = fds[i].fd
                                    /\ fds'[i].revents = fds[i].revents
           /\ \A fd \in Fds : sendBuffers'[fd] = IF fd \in DOMAIN answers
                                                 THEN answers[fd] ELSE sendBuffers[fd]
  <1>1. fds \in Seq(PollFd) /\ fds' = Arm(fds, DOMAIN answers)
    BY DEF TypeOK, QueueResponse
  <1>2. /\ fds' \in Seq(PollFd) /\ DOMAIN fds' = DOMAIN fds
        /\ \A i \in DOMAIN fds : /\ fds'[i].fd = fds[i].fd
                                 /\ fds'[i].revents = fds[i].revents
    BY <1>1, ArmKeeps
  <1> QED  BY <1>2 DEF QueueResponse

\* pollCGIProcesses(): a client whose child is over goes on to its response, and
\* a child that is not over is within its time.
LEMMA PollCgiKeepsExchange ==
    ASSUME Attentive, EInv, PollCgi PROVE XInv'
  <1> DEFINE over == {fd \in Fds : Expired(fd) \/ Ended(fd)}
             gone == {cgiProcesses[fd] : fd \in over}
  <1>0. TypeOK /\ IInv /\ XInv /\ TrackedCgiIsOpen
    BY DEF EInv, IInv
  <1>1. /\ phase = "cgi"
        /\ child' = [p \in Pids |-> IF p \in gone THEN "exited" ELSE child[p]]
        /\ pipes' = pipes \ gone
        /\ Untrack(over)
        /\ Resume(Len(fds), 0)
        /\ UNCHANGED <<netVars, age, asker, clientSockets, clients>>
    BY DEF PollCgi
  <1>2. PICK units \in [over -> 0..MaxUnits] :
           /\ \A fd \in over : units[fd] \in Outcomes(fd)
           /\ QueueResponse([fd \in over |-> Reply(asker[cgiProcesses[fd]], units[fd])])
    BY DEF PollCgi
  <1>3. \A fd \in over : units[fd] \in 1..MaxUnits
    <2>1. "mute" \notin Behaviours
      BY DEF Attentive
    <2> HIDE DEF over
    <2>2. \A fd \in over : units[fd] \in Outcomes(fd)
      BY <1>2
    <2>3. \A fd : Outcomes(fd) \subseteq 1..MaxUnits
      BY <2>1, BoundAssumption DEF Outcomes
    <2> QED  BY <2>2, <2>3
  <1>4. \A fd \in over : fd \in Fds /\ cgiProcesses[fd] # None
    BY DEF Expired, Ended
  <1>5. /\ \A fd \in Fds : cgiProcesses'[fd] = IF fd \in over THEN None ELSE cgiProcesses[fd]
        /\ \A fd \in Fds : sendBuffers'[fd] = IF fd \in over
                                              THEN Reply(asker[cgiProcesses[fd]], units[fd])
                                              ELSE sendBuffers[fd]
    <2> HIDE DEF over
    <2> QED  BY <1>1, <1>2, QueueKeepsReports, <1>0 DEF Untrack
  <1>6. /\ fds' \in Seq(PollFd) /\ DOMAIN fds' = DOMAIN fds
        /\ \A i \in DOMAIN fds : fds'[i].fd = fds[i].fd /\ fds'[i].revents = fds[i].revents
    BY <1>0, <1>2, QueueKeepsReports
  <1>7. phase' \in {"scan", "sweep"}
    BY <1>1 DEF Resume
  <1>8. Undisturbed /\ Writable /\ InStage
    BY <1>0, <1>1 DEF XInv, Running
  <1>9. \A fd \in Fds, gd \in over :
           cgiProcesses[fd] # None /\ cgiProcesses[fd] = cgiProcesses[gd] => fd = gd
    BY <1>0, <1>4 DEF TrackedCgiIsOpen
  <1>10. \A fd \in Fds : fd \notin over /\ cgiProcesses[fd] # None =>
            /\ cgiProcesses[fd] \in Pids /\ cgiProcesses[fd] \notin gone
            /\ child[cgiProcesses[fd]] = "running"
            /\ age[cgiProcesses[fd]] <= CgiLimit
    <2> SUFFICES ASSUME NEW fd \in Fds, fd \notin over, cgiProcesses[fd] # None
                 PROVE  /\ cgiProcesses[fd] \in Pids /\ cgiProcesses[fd] \notin gone
                        /\ child[cgiProcesses[fd]] = "running"
                        /\ age[cgiProcesses[fd]] <= CgiLimit
      OBVIOUS
    <2>1. ~Expired(fd) /\ ~Ended(fd)
      OBVIOUS
    <2>2. cgiProcesses[fd] \in Pids /\ age[cgiProcesses[fd]] \in 0..CgiLimit + 1
      BY <1>0 DEF TypeOK
    <2>3. child[cgiProcesses[fd]] \in {"unborn", "running", "exited"}
      BY <1>0, <2>2 DEF TypeOK
    <2>4. child[cgiProcesses[fd]] # "unborn"
      BY <1>0 DEF IInv, OwedToAccepted
    <2>5. cgiProcesses[fd] \notin gone
      BY <1>9
    <2> QED  BY <2>1, <2>2, <2>3, <2>4, <2>5, BoundAssumption DEF Expired, Ended
  <1> HIDE DEF over
  <1>11. LeadsBack'
    <2>1. ASSUME NEW p \in pipes' PROVE \E fd \in Fds : cgiProcesses'[fd] = p
      <3>1. p \in pipes /\ p \notin gone
        BY <1>1
      <3>2. PICK fd \in Fds : cgiProcesses[fd] = p
        BY <1>0, <3>1 DEF XInv, LeadsBack
      <3> QED  BY <1>5, <3>1, <3>2
    <2>2. ASSUME NEW p \in Pids, NEW fd \in Fds, pidToClientFd'[p] = fd
          PROVE  cgiProcesses'[fd] = p
      <3>1. pidToClientFd[p] = fd /\ ~\E gd \in over : cgiProcesses[gd] = p
        <4>1. fd # None
          BY DescriptorAssumption
        <4> QED  BY <1>1, <2>2, <4>1 DEF Untrack
      <3>2. cgiProcesses[fd] = p
        BY <1>0, <3>1 DEF XInv, LeadsBack
      <3> QED  BY <1>5, <3>1, <3>2
    <2> QED  BY <2>1, <2>2 DEF LeadsBack
  <1>12. Ages'
    <2> SUFFICES ASSUME NEW p \in Pids
                 PROVE  /\ child'[p] = "unborn" => age'[p] = 0
                        /\ child'[p] = "running" => p \in pipes' /\ age'[p] <= CgiLimit
      BY DEF Ages
    <2>1. child'[p] = IF p \in gone THEN "exited" ELSE child[p]
      BY <1>1
    <2>2. age'[p] = age[p]
      BY <1>1
    <2>3. ASSUME child'[p] = "running" PROVE p \in pipes' /\ age'[p] <= CgiLimit
      <3>1. p \notin gone /\ p \in pipes
        BY <1>0, <2>1, <2>3 DEF XInv, Ages
      <3>2. PICK fd \in Fds : cgiProcesses[fd] = p
        BY <1>0, <3>1 DEF XInv, LeadsBack
      <3>3. fd \notin over /\ cgiProcesses[fd] # None
        BY <3>1, <3>2, DescriptorAssumption
      <3> QED  BY <1>1, <1>10, <2>2, <3>1, <3>2, <3>3
    <2> QED  BY <1>0, <2>1, <2>2, <2>3 DEF XInv, Ages
  <1>13. OwnResponse'
    BY <1>0, <1>1 DEF XInv, OwnResponse, netVars
  <1>14. Undisturbed'
    BY <1>1, <1>6, <1>8 DEF Undisturbed, netVars
  <1>15. Writable'
    BY <1>1, <1>6, <1>8 DEF Writable, netVars
  <1>16. ASSUME NEW fd \in clientSockets, Stage(fd) PROVE Stage(fd)'
    <2>1. /\ fd \in Fds /\ sock[fd] \in Conns
          /\ UNCHANGED <<inbox, sent, need, wire, asker, sock, clients, age>>
      BY <1>0, <1>1, ClientTyped DEF netVars
    <2>2. CASE fd \in over
      <3> DEFINE p == cgiProcesses[fd]
      <3>1. Waiting(fd)
        BY <1>4, <1>16, <2>2 DEF Stage, Asking, Answering
      <3>2. /\ "cgi" \in Behaviours /\ asker[p] = sock[fd]
            /\ sent[sock[fd]] = need[sock[fd]] /\ inbox[sock[fd]] = 0
            /\ wire[sock[fd]] = <<>> /\ clients[fd].total <= CgiLimit + 1
        BY <1>1, <3>1 DEF Waiting
      <3>3. clients[fd] \in ClientState
        BY <1>0, ClientTyped
      <3>4. clients[fd].total <= TotalLimit
        BY <3>2, <3>3, BoundAssumption DEF Attentive, ClientState
      <3>5. /\ sendBuffers'[fd] = Reply(sock[fd], units[fd]) /\ cgiProcesses'[fd] = None
            /\ units[fd] \in 1..MaxUnits
        BY <1>3, <1>5, <2>1, <2>2, <3>2
      <3>6. Reply(sock[fd], units[fd]) # None
        BY <2>1, <3>5, RepliesExist, BoundAssumption
      <3>7. Answering(fd)'
        BY <2>1, <3>2, <3>4, <3>5, <3>6, BoundAssumption DEF Answering, Reply
      <3> QED  BY <3>7 DEF Stage
    <2>3. CASE fd \notin over
      <3>1. cgiProcesses'[fd] = cgiProcesses[fd] /\ sendBuffers'[fd] = sendBuffers[fd]
        BY <1>5, <2>1, <2>3
      <3>2. Asking(fd) => Asking(fd)'
        BY <1>7, <2>1, <3>1 DEF Asking, Reply
      <3>3. Waiting(fd) => Waiting(fd)'
        <4> SUFFICES ASSUME Waiting(fd) PROVE Waiting(fd)'
          OBVIOUS
        <4> DEFINE p == cgiProcesses[fd]
        <4>1. /\ "cgi" \in Behaviours /\ p # None /\ asker[p] = sock[fd]
              /\ sent[sock[fd]] = need[sock[fd]] /\ inbox[sock[fd]] = 0
              /\ wire[sock[fd]] = <<>> /\ sendBuffers[fd] = None
              /\ child[p] = "running" => clients[fd].idle <= age[p] /\ clients[fd].total <= age[p]
          BY DEF Waiting
        <4>2. /\ p \in Pids /\ p \notin gone /\ child[p] = "running" /\ age[p] <= CgiLimit
          BY <1>10, <2>1, <2>3, <4>1
        <4>3. child'[p] = "running"
          BY <1>1, <4>2
        <4>4. age[p] \in Nat /\ clients[fd] \in ClientState
          BY <1>0, <4>2, ClientTyped, BoundAssumption DEF TypeOK
        <4>5. clients[fd].idle <= CgiLimit /\ clients[fd].total <= CgiLimit
          BY <4>1, <4>2, <4>4, BoundAssumption DEF ClientState
        <4>6. phase' # "cgi"
          BY <1>7
        <4>7. /\ asker'[p] = sock'[fd] /\ sent'[sock[fd]] = need'[sock[fd]]
              /\ inbox'[sock[fd]] = 0 /\ wire'[sock[fd]] = <<>>
              /\ sendBuffers'[fd] = None /\ age'[p] = age[p]
              /\ sock'[fd] = sock[fd] /\ clients'[fd] = clients[fd]
              /\ cgiProcesses'[fd] = p
          BY <2>1, <3>1, <4>1
        <4> HIDE DEF p
        <4> QED  BY <4>1, <4>2, <4>3, <4>5, <4>6, <4>7 DEF Waiting
      <3>4. Answering(fd) => Answering(fd)'
        BY <2>1, <3>1 DEF Answering
      <3> QED  BY <1>16, <3>2, <3>3, <3>4 DEF Stage
    <2> QED  BY <2>2, <2>3
  <1>17. InStage'
    BY <1>1, <1>4, <1>5, <1>8, <1>16 DEF InStage, Staged, Vacant
  <1> QED  BY <1>11, <1>12, <1>13, <1>14, <1>15, <1>17 DEF XInv

\* The timeout sweep answers late clients with a 408: their request is not
\* complete, or nothing of its response is sent.
LEMMA SweepKeepsExchange ==
    ASSUME Attentive, EInv, Sweep PROVE XInv'
  <1> DEFINE late == {fd \in ClientFds : Late(fd)}
  <1>0. TypeOK /\ IInv /\ XInv
    BY DEF EInv, IInv
  <1>1. /\ phase = "sweep" /\ phase' = "poll"
        /\ QueueResponse([fd \in late |-> Reply(sock[fd], 1)])
        /\ UNCHANGED <<netVars, childVars, cgiVars, clientSockets, clients>>
    BY DEF Sweep
  <1>2. /\ DOMAIN fds' = DOMAIN fds
        /\ \A i \in DOMAIN fds : fds'[i].revents = fds[i].revents
        /\ \A fd \in Fds : sendBuffers'[fd] = IF fd \in late THEN Reply(sock[fd], 1)
                                              ELSE sendBuffers[fd]
    <2> HIDE DEF late
    <2> QED  BY <1>0, <1>1, QueueKeepsReports
  <1>3. Undisturbed /\ InStage
    BY <1>0, <1>1 DEF XInv, Running
  <1>4. LeadsBack' /\ Ages' /\ OwnResponse'
    BY <1>0, <1>1, ChildrenStay DEF childVars, netVars
  <1>5. Undisturbed'
    BY <1>1, <1>2, <1>3 DEF Undisturbed, netVars
  <1>6. Writable'
    BY <1>1 DEF Writable
  <1>7. ASSUME NEW fd \in clientSockets, Stage(fd) PROVE Stage(fd)'
    <2>1. /\ fd \in Fds /\ fd \in ClientFds /\ sock[fd] \in Conns /\ clients[fd] \in ClientState
          /\ UNCHANGED <<inbox, sent, need, wire, asker, sock, clients, age, child, cgiProcesses>>
      BY <1>0, <1>1, ClientTyped DEF netVars, childVars, cgiVars
    <2>2. clients[fd] # None
      BY <2>1, NoneAssumption
    <2>3. /\ clients[fd].idle \in Nat /\ clients[fd].total \in Nat
          /\ fd \in late <=> \/ clients[fd].idle > IdleLimit
                             \/ clients[fd].total > TotalLimit
      BY <2>1, <2>2, BoundAssumption DEF ClientState, Late
    <2>4. /\ fd \in late => sendBuffers'[fd] = Reply(sock[fd], 1)
          /\ fd \notin late => sendBuffers'[fd] = sendBuffers[fd]
      BY <1>2, <2>1
    <2> HIDE DEF late
    <2>5. Reply(sock[fd], 1) # None
      BY <2>1, RepliesExist, BoundAssumption
    <2>6. Asking(fd) => Asking(fd)'
      <3>1. Asking(fd) /\ "idle" \notin Behaviours => fd \notin late
        BY <2>3, BoundAssumption DEF Asking
      <3> QED  BY <1>1, <2>1, <2>3, <2>4, <2>5, <3>1 DEF Asking, Reply
    <2>7. Waiting(fd) => Waiting(fd)'
      <3>1. Waiting(fd) => fd \notin late
        BY <1>1, <2>3, BoundAssumption DEF Waiting, Attentive
      <3> QED  BY <1>1, <2>1, <2>4, <3>1 DEF Waiting
    <2>8. Answering(fd) => Answering(fd)'
      <3> SUFFICES ASSUME Answering(fd) PROVE Answering(fd)'
        OBVIOUS
      <3>1. CASE fd \notin late
        BY <2>1, <2>4, <3>1 DEF Answering
      <3>2. CASE fd \in late
        <4> DEFINE r == sendBuffers[fd]
        <4>1. r \in Response
          BY <1>0, <2>1, ClientTyped DEF Answering
        <4>2. ~(r.sent > 0)
          BY <2>3, <3>2, BoundAssumption DEF Answering
        <4>3. r.sent = 0
          BY <4>1, <4>2, BoundAssumption DEF Response
        <4>4. Len(wire[sock[fd]]) = 0
          BY <4>3 DEF Answering
        <4> QED  BY <2>1, <2>4, <2>5, <3>2, <4>4 DEF Answering, Reply
      <3> QED  BY <3>1, <3>2
    <2> QED  BY <1>7, <2>6, <2>7, <2>8 DEF Stage
  <1>8. ASSUME NEW fd \in Fds, fd \notin clientSockets, Vacant(fd) PROVE Vacant(fd)'
    <2>1. clients[fd] = None
      BY <1>0, <1>8 DEF IInv, TablesAgree, ServedIsKnown
    <2>2. fd \notin late
      BY <2>1 DEF Late
    <2> QED  BY <1>1, <1>2, <1>8, <2>2 DEF Vacant, cgiVars
  <1>9. InStage'
    BY <1>1, <1>3, <1>7, <1>8 DEF InStage, Staged
  <1> QED  BY <1>4, <1>5, <1>6, <1>9 DEF XInv

-----------------------------------------------------------------------------
(* The handlers of the scan *)

\* In the scan nothing is being cleaned up.
LEMMA ScanRuns ==
    ASSUME EInv, phase = "scan"
    PROVE  TypeOK /\ IInv /\ XInv /\ Undisturbed /\ Writable /\ InStage
  BY DEF EInv, IInv, XInv, Running

\* A handler on a client that stays.
LEMMA HandlerKeeps ==
    ASSUME EInv, phase = "scan", NEW g \in ClientFds, g = Here, Return,
           UNCHANGED <<state, peer, need, sent, sock, clientSockets>>,
           fds' \in Seq(PollFd), DOMAIN fds' = DOMAIN fds,
           \A i \in DOMAIN fds : fds'[i].fd = fds[i].fd /\ fds'[i].revents = fds[i].revents,
           \A fd \in Fds \ {g} : /\ clients'[fd] = clients[fd]
                                 /\ cgiProcesses'[fd] = cgiProcesses[fd]
                                 /\ sendBuffers'[fd] = sendBuffers[fd],
           \A d \in Conns \ {Caller} : /\ inbox'[d] = inbox[d] /\ wire'[d] = wire[d]
                                       /\ room'[d] = room[d],
           wire'[Caller] = <<>> => room'[Caller] = SndBuf,
           at[2] = 1 => room' = room,
           \A p \in Pids : child[p] # "unborn" =>
              child'[p] = child[p] /\ age'[p] = age[p] /\ asker'[p] = asker[p],
           LeadsBack', Ages', OwnResponse', Stage(g)'
    PROVE  XInv'
  <1>0. TypeOK /\ IInv /\ XInv /\ Undisturbed /\ Writable /\ InStage
    BY ScanRuns
  <1>1. /\ at[1] \in DOMAIN fds /\ g \in Fds /\ g \in clientSockets
        /\ Caller \in Conns /\ state[Caller] = "open"
    BY <1>0, HereTyped
  <1>2. phase' \in {"scan", "sweep"}
    BY DEF Return, Resume
  <1>3. \A fd \in clientSockets \ {g} : sock[fd] # Caller
    BY <1>0, <1>1, ClientTyped DEF Caller
  <1>4. InStage'
    <2>1. Staged(g)'
      BY <1>1 DEF Staged
    <2> QED  BY <1>0, <1>1, <1>2, <1>3, <2>1, OthersStay
  <1>5. Undisturbed'
    BY <1>0, <1>1 DEF Undisturbed
  <1>6. Writable'
    <2>1. DOMAIN fds' \subseteq Nat
      BY SlotsTyped
    <2>2. ASSUME NEW i \in DOMAIN fds', "OUT" \in fds'[i].revents,
                 i < at[1] \/ (i = at[1] /\ at[2] = 1), room[sock[fds[i].fd]] > 0
          PROVE  room'[sock'[fds[i].fd]] > 0
      <3>1. CASE at[2] = 1
        BY <2>2, <3>1
      <3>2. CASE i < at[1]
        <4>1. i \in DOMAIN fds /\ fds[i].fd \in Fds /\ "OUT" \in fds[i].revents
              /\ fds[i].fd # g /\ at[1] \in Nat
          BY <1>0, <1>1, <2>2, <3>2, SlotsTyped
             DEF IInv, TypeOK, TablesAgree, DistinctSlots, Slots, Here
        <4>2. fds[i].fd \in ClientFds
          BY <1>0, <4>1 DEF Fds, IInv, ListenersOnlyRead
        <4>3. fds[i].fd \in clientSockets
          BY <1>0, <4>1, <4>2 DEF IInv, TablesAgree, ServedIsWatched, Slots
        <4>4. sock[fds[i].fd] \in Conns /\ sock[fds[i].fd] # Caller
          BY <1>0, <1>3, <4>1, <4>3, ClientTyped
        <4> QED  BY <2>2, <4>4
      <3> QED  BY <2>2, <3>1, <3>2
    <2> QED  BY <1>0, <2>1, <2>2, ReturnKeepsWritable
  <1> QED  BY <1>4, <1>5, <1>6 DEF XInv

\* A handler that changes nothing but the control point.
LEMMA IdleKeepsExchange ==
    ASSUME EInv, phase = "scan", Return,
           UNCHANGED <<netVars, childVars, fds, tableVars, cgiVars>>
    PROVE  XInv'
  <1>0. TypeOK /\ IInv /\ XInv /\ Undisturbed /\ Writable /\ InStage
    BY ScanRuns
  <1>1. phase' \in {"scan", "sweep"}
    BY DEF Return, Resume
  <1>2. LeadsBack' /\ Ages' /\ OwnResponse'
    BY <1>0, ChildrenStay DEF childVars, netVars
  <1>3. Undisturbed'
    BY <1>0 DEF Undisturbed, netVars
  <1>4. Writable'
    BY <1>0, SameReportsKeepWritable DEF TypeOK, netVars
  <1>5. ASSUME NEW fd \in clientSockets, Stage(fd) PROVE Stage(fd)'
    BY <1>0, <1>1, <1>5, StageFrame DEF netVars, childVars, tableVars, cgiVars
  <1>6. InStage'
    BY <1>0, <1>5 DEF InStage, Staged, Vacant, tableVars, cgiVars
  <1> QED  BY <1>2, <1>3, <1>4, <1>6 DEF XInv

\* handleNewConnection(): a new client has nothing on its descriptor and
\* nothing received.
LEMMA AcceptKeepsExchange == ASSUME EInv, Accept PROVE XInv'
  <1>1. phase = "scan" /\ Return /\ Here \in Listeners /\ Tests[at[2]] = "IN"
    BY DEF Accept, Visiting
  <1>0. TypeOK /\ IInv /\ XInv /\ Undisturbed /\ Writable /\ InStage
    BY <1>1, ScanRuns
  <1>2. PICK c \in Conns, fd \in FreeFds :
          /\ state[c] = "backlog"
          /\ state' = [state EXCEPT ![c] = "open"]
          /\ sock' = [sock EXCEPT ![fd] = c]
          /\ fds' = Append(fds, Watch(fd, {}))
          /\ clientSockets' = clientSockets \cup {fd}
          /\ clients' = [clients EXCEPT ![fd] = [buf |-> 0, idle |-> 0, total |-> 0]]
    BY DEF Accept
  <1>3. UNCHANGED <<peer, need, sent, inbox, room, wire, childVars, sendBuffers, cgiVars>>
    BY DEF Accept
  <1>4. fd \in ClientFds /\ fd \in Fds /\ fd \notin clientSockets
    BY <1>0 DEF FreeFds, Fds, IInv, TablesAgree, ServedIsKnown
  <1>5. /\ fds \in Seq(PollFd) /\ Len(fds) \in Nat /\ DOMAIN fds = 1..Len(fds)
        /\ \A j \in DOMAIN fds : fds[j].fd # fd /\ fds[j].fd \in Fds
    <2>1. \A j \in DOMAIN fds : fds[j].fd # fd
      BY <1>0, <1>4 DEF IInv, TablesAgree, ServedIsWatched, Slots
    <2> QED  BY <1>0, <2>1, SlotsTyped DEF TypeOK
  <1>6. /\ DOMAIN fds' = 1..Len(fds) + 1
        /\ \A j \in DOMAIN fds : fds'[j] = fds[j]
        /\ fds'[Len(fds) + 1].revents = {}
    <2> DEFINE w == Watch(fd, {})
    <2>1. w.revents = {}
      BY DEF Watch
    <2> HIDE DEF w
    <2>2. fds' = Append(fds, w)
      BY <1>2 DEF w
    <2> QED  BY <1>5, <2>1, <2>2
  <1>7. phase' \in {"scan", "sweep"}
    BY <1>1 DEF Return, Resume
  <1>8. LeadsBack' /\ Ages' /\ OwnResponse'
    BY <1>0, <1>1, <1>3, ChildrenStay DEF childVars
  <1>9. DOMAIN sock = Fds /\ DOMAIN clients = Fds /\ DOMAIN state = Conns
    BY <1>0 DEF TypeOK
  <1>10. Undisturbed'
    <2>1. \A i \in DOMAIN fds' : "HUP" \notin fds'[i].revents
      <3>1. \A i \in DOMAIN fds' : i \in DOMAIN fds \/ i = Len(fds) + 1
        BY <1>5, <1>6
      <3> QED  BY <1>0, <1>6, <3>1 DEF Undisturbed
    <2> QED  BY <1>0, <1>2, <1>3, <1>9, <2>1 DEF Undisturbed
  <1>11. Writable'
    <2>1. DOMAIN fds' \subseteq Nat /\ at[1] \in DOMAIN fds
      BY <1>0, <1>1, <1>5, <1>6, HereTyped
    <2>2. ASSUME NEW i \in DOMAIN fds', i < at[1] \/ (i = at[1] /\ at[2] = 1)
          PROVE  /\ i \in DOMAIN fds
                 /\ fds'[i].fd = fds[i].fd /\ fds'[i].revents = fds[i].revents
                 /\ room[sock[fds[i].fd]] > 0 => room'[sock'[fds[i].fd]] > 0
      <3>1. i \in DOMAIN fds
        BY <1>5, <1>6, <2>1, <2>2
      <3>2. sock'[fds[i].fd] = sock[fds[i].fd]
        BY <1>2, <1>5, <1>9, <3>1
      <3> QED  BY <1>3, <1>6, <3>1, <3>2
    <2> QED  BY <1>0, <1>1, <2>1, <2>2, ReturnKeepsWritable
  <1>12. Staged(fd)'
    <2>1. cgiProcesses[fd] = None /\ sendBuffers[fd] = None
      BY <1>0, <1>4 DEF InStage, Staged, Vacant
    <2>2. inbox[c] = sent[c] /\ wire[c] = <<>> /\ need[c] \in 1..MaxSegs /\ sent[c] \in Nat
      BY <1>0, <1>2, BoundAssumption DEF Undisturbed, TypeOK
    <2>3. /\ clients'[fd].buf = 0 /\ clients'[fd].idle = 0 /\ clients'[fd].total = 0
          /\ sock'[fd] = c
      BY <1>2, <1>4, <1>9
    <2>4. 0 <= (IdleLimit + 1) * 0 + 0
      BY BoundAssumption
    <2>5. Asking(fd)'
      BY <1>3, <1>7, <2>1, <2>2, <2>3, <2>4, BoundAssumption DEF Asking, cgiVars
    <2> QED  BY <1>2, <2>5 DEF Staged, Stage
  <1>13. InStage'
    <2>1. \A gd \in clientSockets \ {fd} : sock[gd] # c
      BY <1>0, <1>2, ClientTyped
    <2>2. clientSockets' \ {fd} = clientSockets \ {fd}
      BY <1>2
    <2>3. \A gd \in Fds \ {fd} : clients'[gd] = clients[gd] /\ sock'[gd] = sock[gd]
      BY <1>2, <1>9
    <2> QED  BY <1>0, <1>1, <1>3, <1>4, <1>7, <1>12, <2>1, <2>2, <2>3, OthersStay
             DEF childVars, cgiVars
  <1> QED  BY <1>8, <1>10, <1>11, <1>13 DEF XInv

\* A request that has segments left to receive is asked for, and nothing else
\* belongs to its client.
LEMMA AskingHere ==
    ASSUME EInv, DataReady
    PROVE  /\ phase = "scan" /\ at[2] = 1 /\ Here \in Fds /\ Here \in clientSockets
           /\ Caller \in Conns /\ sock[Here] = Caller /\ clients[Here] \in ClientState
           /\ Asking(Here)
  <1>1. phase = "scan" /\ Here \in ClientFds /\ Tests[at[2]] = "IN" /\ inbox[Caller] > 0
    BY DEF DataReady, Visiting
  <1>0. TypeOK /\ IInv /\ XInv /\ Undisturbed /\ Writable /\ InStage
    BY <1>1, ScanRuns
  <1>2. /\ Here \in Fds /\ Here \in clientSockets /\ Caller \in Conns /\ at[2] \in 1..3
        /\ clients[Here] \in ClientState
    BY <1>0, <1>1, HereTyped
  <1>3. at[2] = 1
    BY <1>1, <1>2 DEF Tests
  <1>4. Stage(Here)
    BY <1>0, <1>2 DEF InStage, Staged
  <1>5. ~Waiting(Here) /\ ~Answering(Here)
    BY <1>1 DEF Waiting, Answering, Caller
  <1> QED  BY <1>1, <1>2, <1>3, <1>4, <1>5 DEF Stage, Caller

\* A request that is complete: the segment that was missing has come.
LEMMA CompleteHere ==
    ASSUME Attentive, EInv, Complete
    PROVE  /\ inbox[Caller] = 1 /\ sent[Caller] = need[Caller]
           /\ Punctual => clients[Here].total <= TotalLimit
  <1> DEFINE st == clients[Here]
             k == (IdleLimit + 1) * st.buf
  <1>1. DataReady /\ Received >= need[Caller]
    BY DEF Complete, Attentive
  <1>2. /\ phase = "scan" /\ Caller \in Conns /\ sock[Here] = Caller /\ st \in ClientState
        /\ Asking(Here)
    BY <1>1, AskingHere
  <1>0. TypeOK /\ Undisturbed
    BY <1>2, ScanRuns
  <1>3. /\ st.buf \in Nat /\ st.idle \in 0..IdleLimit + 1 /\ st.total \in Nat
        /\ sent[Caller] \in Nat /\ need[Caller] \in 1..MaxSegs /\ inbox[Caller] \in Nat
    <2>1. st.buf \in Nat /\ st.idle \in 0..IdleLimit + 1 /\ st.total \in Nat
      BY <1>2, BoundAssumption DEF ClientState
    <2>2. sent[Caller] \in Nat /\ need[Caller] \in 1..MaxSegs /\ inbox[Caller] \in Nat
      BY <1>0, <1>2, BoundAssumption DEF TypeOK
    <2> QED  BY <2>1, <2>2
  <1>4. /\ st.buf + inbox[Caller] = sent[Caller] /\ st.buf < need[Caller]
        /\ sent[Caller] <= need[Caller]
        /\ "idle" \notin Behaviours => st.total = 0
        /\ Timely => st.total <= k + st.idle
    BY <1>0, <1>2 DEF Asking, Undisturbed
  <1>5. inbox[Caller] > 0 /\ st.buf + 1 >= need[Caller]
    BY <1>1, <1>3, BoundAssumption DEF DataReady, Received, Least
  <1>6. st.buf + 1 = need[Caller] /\ inbox[Caller] = 1 /\ sent[Caller] = need[Caller]
    BY <1>3, <1>4, <1>5, BoundAssumption
  <1>7. Timely => st.total <= TotalLimit
    <2>1. k + IdleLimit + 1 = (IdleLimit + 1) * (st.buf + 1)
      <3>1. \A a, b \in Nat : (a + 1) * (b + 1) = (a + 1) * b + a + 1
        OBVIOUS
      <3> QED  BY <1>3, <3>1, BoundAssumption
    <2>2. st.buf + 1 <= MaxSegs /\ st.buf + 1 \in Nat
      BY <1>3, <1>6, BoundAssumption
    <2>3. ASSUME NEW a \in Nat, NEW m \in Nat, NEW n \in Nat, m <= n
          PROVE  a * m <= a * n
      <3>1. PICK d \in Nat : n = m + d
        BY <2>3
      <3>2. a * n = a * m + a * d
        BY <3>1
      <3>3. a * m \in Nat /\ a * d \in Nat
        OBVIOUS
      <3> QED  BY <3>2, <3>3
    <2>4. (IdleLimit + 1) * (st.buf + 1) <= (IdleLimit + 1) * MaxSegs
      BY <2>2, <2>3, BoundAssumption
    <2>5. k \in Nat /\ (IdleLimit + 1) * MaxSegs \in Nat
      BY <1>3, BoundAssumption
    <2> HIDE DEF k
    <2> QED  BY <1>3, <1>4, <2>1, <2>4, <2>5, BoundAssumption DEF Timely
  <1>8. Punctual => st.total <= TotalLimit
    BY <1>4, <1>7, BoundAssumption DEF Punctual
  <1> QED  BY <1>6, <1>8

\* What recv() changes.
LEMMA RecvChanges ==
    ASSUME TypeOK, NEW g \in Fds, g = Here, Caller \in Conns, clients[g] \in ClientState,
           NEW left, RecvData(left)
    PROVE  /\ UNCHANGED <<state, peer, need, sent, sock, age, clientSockets>>
           /\ inbox'[Caller] = inbox[Caller] - 1
           /\ \A d \in Conns \ {Caller} : inbox'[d] = inbox[d]
           /\ clients'[g].buf = left /\ clients'[g].idle = 0
           /\ clients'[g].total = clients[g].total
           /\ \A fd \in Fds \ {g} : clients'[fd] = clients[fd]
  <1>1. DOMAIN inbox = Conns /\ DOMAIN clients = Fds
    BY DEF TypeOK
  <1> QED  BY <1>1 DEF RecvData, ClientState

\* handleClientData(), the request not complete.
LEMMA AwaitBodyKeepsExchange ==
    ASSUME Attentive, EInv, AwaitBody PROVE XInv'
  <1>1. DataReady /\ Received < need[Caller] /\ RecvData(Received) /\ Return
        /\ UNCHANGED <<room, wire, child, asker, pipes, fds, sendBuffers, cgiVars>>
    BY DEF AwaitBody
  <1>2. /\ phase = "scan" /\ at[2] = 1 /\ Here \in Fds /\ Here \in clientSockets
        /\ Caller \in Conns /\ sock[Here] = Caller /\ clients[Here] \in ClientState
        /\ Asking(Here)
    BY <1>1, AskingHere
  <1>0. TypeOK /\ IInv /\ XInv /\ Undisturbed
    BY <1>2, ScanRuns
  <1>3. PICK g \in ClientFds : g = Here
    BY <1>0, <1>2 DEF TypeOK
  <1> DEFINE st == clients[g]
             k == (IdleLimit + 1) * st.buf
  <1>4. /\ UNCHANGED <<state, peer, need, sent, sock, age, clientSockets>>
        /\ inbox'[Caller] = inbox[Caller] - 1
        /\ \A d \in Conns \ {Caller} : inbox'[d] = inbox[d]
        /\ clients'[g].buf = Received /\ clients'[g].idle = 0
        /\ clients'[g].total = st.total
        /\ \A fd \in Fds \ {g} : clients'[fd] = clients[fd]
    BY <1>0, <1>1, <1>2, <1>3, RecvChanges
  <1>5. /\ st.buf \in Nat /\ st.idle \in 0..IdleLimit + 1 /\ st.total \in Nat
        /\ sent[Caller] \in Nat /\ need[Caller] \in Nat /\ inbox[Caller] \in Nat
    <2>1. st.buf \in Nat /\ st.idle \in 0..IdleLimit + 1 /\ st.total \in Nat
      BY <1>2, <1>3, BoundAssumption DEF ClientState
    <2>2. sent[Caller] \in Nat /\ need[Caller] \in Nat /\ inbox[Caller] \in Nat
      BY <1>0, <1>2, BoundAssumption DEF TypeOK
    <2> QED  BY <2>1, <2>2
  <1>6. /\ cgiProcesses[g] = None /\ wire[Caller] = <<>>
        /\ st.buf + inbox[Caller] = sent[Caller]
        /\ sendBuffers[g] # None => sendBuffers[g] = Reply(Caller, 1)
        /\ "idle" \notin Behaviours => st.total = 0 /\ sendBuffers[g] = None
        /\ Timely => st.total <= k + st.idle
    BY <1>2, <1>3 DEF Asking
  <1>7. Received = st.buf + 1
    BY <1>1, <1>3, <1>5 DEF Received, Least
  <1>8. phase' \in {"scan", "sweep"}
    BY <1>1 DEF Return, Resume
  <1>9. Timely => st.total <= (IdleLimit + 1) * (st.buf + 1) + 0
    <2>1. (IdleLimit + 1) * (st.buf + 1) = k + IdleLimit + 1 /\ k \in Nat
      <3>1. \A a, b \in Nat : (a + 1) * (b + 1) = (a + 1) * b + a + 1 /\ (a + 1) * b \in Nat
        OBVIOUS
      <3> QED  BY <1>5, <3>1, BoundAssumption
    <2>2. Timely => st.total <= k + st.idle
      BY <1>6
    <2>3. st.total \in Nat /\ st.idle \in Nat /\ st.idle <= IdleLimit + 1
      BY <1>5, BoundAssumption
    <2>4. \A x, y, m, n \in Nat : x <= m + y /\ y <= n + 1 => x <= m + n + 1 + 0
      OBVIOUS
    <2>5. IdleLimit \in Nat
      BY BoundAssumption
    <2> HIDE DEF k, st
    <2>6. Timely => st.total <= k + IdleLimit + 1 + 0
      BY <2>1, <2>2, <2>3, <2>4, <2>5
    <2> QED  BY <2>1, <2>6
  <1>10. Asking(g)'
    <2>1. /\ sock'[g] = Caller /\ cgiProcesses'[g] = None /\ sendBuffers'[g] = sendBuffers[g]
          /\ wire'[Caller] = <<>> /\ UNCHANGED <<need, sent>>
      BY <1>1, <1>2, <1>3, <1>4, <1>6 DEF cgiVars
    <2>2. clients'[g].buf + inbox'[Caller] = sent[Caller]
      BY <1>4, <1>5, <1>6, <1>7
    <2>3. clients'[g].buf < need[Caller]
      BY <1>1, <1>4
    <2>4. Timely => clients'[g].total <= (IdleLimit + 1) * clients'[g].buf + clients'[g].idle
      BY <1>4, <1>7, <1>9
    <2>5. "idle" \notin Behaviours =>
             clients'[g].idle = 0 /\ clients'[g].total = 0 /\ sendBuffers'[g] = None
      BY <1>4, <1>6, <2>1
    <2>6. sendBuffers'[g] # None => sendBuffers'[g] = Reply(Caller, 1)
      BY <1>6, <2>1
    <2> QED  BY <1>8, <2>1, <2>2, <2>3, <2>4, <2>5, <2>6 DEF Asking, Reply
  <1>11. LeadsBack' /\ Ages' /\ OwnResponse'
    BY <1>0, <1>1, <1>2, <1>4, ChildrenStay
  <1>12. wire[Caller] = <<>> => room[Caller] = SndBuf
    BY <1>0, <1>2 DEF Undisturbed
  <1>13. /\ fds' \in Seq(PollFd) /\ DOMAIN fds' = DOMAIN fds
         /\ \A i \in DOMAIN fds : fds'[i].fd = fds[i].fd /\ fds'[i].revents = fds[i].revents
    BY <1>0, <1>1 DEF TypeOK
  <1>14. Stage(g)'
    BY <1>10 DEF Stage
  <1> QED  BY <1>1, <1>2, <1>3, <1>4, <1>11, <1>12, <1>13, <1>14, HandlerKeeps DEF cgiVars

\* handleClientData(), a request that is answered at once.
LEMMA RespondKeepsExchange ==
    ASSUME Attentive, EInv, Respond PROVE XInv'
  <1>1. Complete /\ DataReady /\ Return
        /\ UNCHANGED <<room, wire, child, asker, pipes, cgiVars>>
    BY DEF Respond, Complete
  <1>2. /\ phase = "scan" /\ at[2] = 1 /\ Here \in Fds /\ Here \in clientSockets
        /\ Caller \in Conns /\ sock[Here] = Caller /\ clients[Here] \in ClientState
        /\ Asking(Here)
    BY <1>1, AskingHere
  <1>0. TypeOK /\ IInv /\ XInv /\ Undisturbed
    BY <1>2, ScanRuns
  <1>3. PICK g \in ClientFds : g = Here
    BY <1>0, <1>2 DEF TypeOK
  <1>4. PICK left : RecvData(left)
    BY DEF Respond
  <1>5. /\ UNCHANGED <<state, peer, need, sent, sock, age, clientSockets>>
        /\ inbox'[Caller] = inbox[Caller] - 1
        /\ \A d \in Conns \ {Caller} : inbox'[d] = inbox[d]
        /\ clients'[g].total = clients[g].total
        /\ \A fd \in Fds \ {g} : clients'[fd] = clients[fd]
    BY <1>0, <1>2, <1>3, <1>4, RecvChanges
  <1>6. PICK n \in 1..MaxUnits : QueueResponse([fd \in {g} |-> Reply(Caller, n)])
    BY <1>3 DEF Respond
  <1>7. /\ fds' \in Seq(PollFd) /\ DOMAIN fds' = DOMAIN fds
        /\ \A i \in DOMAIN fds : fds'[i].fd = fds[i].fd /\ fds'[i].revents = fds[i].revents
        /\ sendBuffers'[g] = Reply(Caller, n)
        /\ \A fd \in Fds \ {g} : sendBuffers'[fd] = sendBuffers[fd]
    <2> DEFINE answers == [fd \in {g} |-> Reply(Caller, n)]
    <2>1. DOMAIN answers = {g} /\ answers[g] = Reply(Caller, n)
      OBVIOUS
    <2> HIDE DEF answers
    <2>2. QueueResponse(answers)
      BY <1>6 DEF answers
    <2> QED  BY <1>0, <1>2, <1>3, <2>1, <2>2, QueueKeepsReports
  <1>8. /\ inbox[Caller] = 1 /\ sent[Caller] = need[Caller]
        /\ Punctual => clients[g].total <= TotalLimit
    BY <1>1, <1>3, CompleteHere
  <1>9. cgiProcesses[g] = None /\ wire[Caller] = <<>>
    BY <1>2, <1>3 DEF Asking
  <1>10. Reply(Caller, n) # None
    BY <1>2, RepliesExist, BoundAssumption
  <1>11. Answering(g)'
    <2>1. /\ sock'[g] = Caller /\ cgiProcesses'[g] = None
          /\ inbox'[Caller] = 0 /\ UNCHANGED <<need, sent>>
          /\ wire'[Caller] = <<>>
          /\ Punctual => clients'[g].total <= TotalLimit
      BY <1>1, <1>2, <1>3, <1>5, <1>8, <1>9 DEF cgiVars
    <2>2. /\ Reply(Caller, n).owner = Caller /\ Reply(Caller, n).sent = 0
          /\ Reply(Caller, n).size = n /\ 0 < n
      BY BoundAssumption DEF Reply
    <2> QED  BY <1>7, <1>8, <1>10, <2>1, <2>2 DEF Answering
  <1>12. LeadsBack' /\ Ages' /\ OwnResponse'
    BY <1>0, <1>1, <1>2, <1>5, ChildrenStay
  <1>13. wire[Caller] = <<>> => room[Caller] = SndBuf
    BY <1>0, <1>2 DEF Undisturbed
  <1>14. Stage(g)'
    BY <1>11 DEF Stage
  <1> QED  BY <1>1, <1>2, <1>3, <1>5, <1>7, <1>12, <1>13, <1>14, HandlerKeeps DEF cgiVars

\* handleClientData(), a request that starts a child: the maps and the pipes get
\* it together.
LEMMA StartCgiKeepsExchange ==
    ASSUME Attentive, EInv, StartCgi PROVE XInv'
  <1>1. /\ "cgi" \in Behaviours /\ Complete /\ DataReady /\ RecvData(Received) /\ Return
        /\ UNCHANGED <<room, wire, fds, sendBuffers>>
    BY DEF StartCgi, Complete
  <1>2. /\ phase = "scan" /\ at[2] = 1 /\ Here \in Fds /\ Here \in clientSockets
        /\ Caller \in Conns /\ sock[Here] = Caller /\ clients[Here] \in ClientState
        /\ Asking(Here)
    BY <1>1, AskingHere
  <1>0. TypeOK /\ IInv /\ XInv /\ Undisturbed /\ TrackedCgiIsOpen
    BY <1>2, ScanRuns DEF EInv
  <1>3. PICK g \in ClientFds : g = Here
    BY <1>0, <1>2 DEF TypeOK
  <1>4. PICK p \in Pids :
          /\ child[p] = "unborn"
          /\ child' = [child EXCEPT ![p] = "running"]
          /\ asker' = [asker EXCEPT ![p] = Caller]
          /\ pipes' = pipes \cup {p}
          /\ cgiProcesses' = [cgiProcesses EXCEPT ![g] = p]
          /\ pidToClientFd' = [pidToClientFd EXCEPT ![p] = g]
    BY <1>3 DEF StartCgi
  <1>5. /\ UNCHANGED <<state, peer, need, sent, sock, age, clientSockets>>
        /\ inbox'[Caller] = inbox[Caller] - 1
        /\ \A d \in Conns \ {Caller} : inbox'[d] = inbox[d]
        /\ clients'[g].idle = 0 /\ clients'[g].total = clients[g].total
        /\ \A fd \in Fds \ {g} : clients'[fd] = clients[fd]
    BY <1>0, <1>1, <1>2, <1>3, RecvChanges
  <1>6. /\ cgiProcesses[g] = None /\ wire[Caller] = <<>>
        /\ "idle" \notin Behaviours
        /\ clients[g].total = 0 /\ sendBuffers[g] = None
    BY <1>1, <1>2, <1>3 DEF Asking, Attentive
  <1>7. g \in Fds /\ p # None /\ None \notin Fds
    BY <1>2, <1>3, DescriptorAssumption
  <1>8. /\ \A fd \in Fds : cgiProcesses'[fd] = IF fd = g THEN p ELSE cgiProcesses[fd]
        /\ \A q \in Pids : /\ pidToClientFd'[q] = IF q = p THEN g ELSE pidToClientFd[q]
                           /\ child'[q] = IF q = p THEN "running" ELSE child[q]
                           /\ asker'[q] = IF q = p THEN Caller ELSE asker[q]
                           /\ age'[q] = age[q]
    BY <1>0, <1>4, <1>5 DEF TypeOK
  <1>9. LeadsBack'
    <2>1. ASSUME NEW q \in pipes' PROVE \E fd \in Fds : cgiProcesses'[fd] = q
      <3>1. CASE q = p
        BY <1>7, <1>8, <3>1
      <3>2. CASE q \in pipes
        <4>1. PICK fd \in Fds : cgiProcesses[fd] = q
          BY <1>0, <3>2 DEF XInv, LeadsBack
        <4>2. q \in Pids /\ None \notin Pids
          BY <1>0, <3>2, DescriptorAssumption DEF TypeOK
        <4>3. fd # g
          BY <1>6, <4>1, <4>2
        <4> QED  BY <1>8, <4>1, <4>3
      <3> QED  BY <1>4, <3>1, <3>2
    <2>2. ASSUME NEW q \in Pids, NEW fd \in Fds, pidToClientFd'[q] = fd
          PROVE  cgiProcesses'[fd] = q
      <3>1. CASE q = p
        BY <1>7, <1>8, <2>2, <3>1
      <3>2. CASE q # p
        <4>1. cgiProcesses[fd] = q
          BY <1>0, <1>8, <2>2, <3>2 DEF XInv, LeadsBack
        <4>2. fd # g
          <5>1. None \notin Pids
            BY DescriptorAssumption
          <5> QED  BY <1>6, <4>1, <5>1
        <4> QED  BY <1>8, <4>1, <4>2
      <3> QED  BY <3>1, <3>2
    <2> QED  BY <2>1, <2>2 DEF LeadsBack
  <1>10. phase' \in {"scan", "sweep"} /\ phase # "cgi"
    BY <1>1, <1>2 DEF Return, Resume
  <1>11. Ages'
    <2> SUFFICES ASSUME NEW q \in Pids
                 PROVE  /\ child'[q] = "unborn" => age'[q] = 0
                        /\ child'[q] = "running" => q \in pipes' /\ age'[q] <= CgiLimit
      BY DEF Ages
    <2>1. CASE q = p
      <3>1. age[p] = 0
        BY <1>0, <1>4 DEF XInv, Ages
      <3> QED  BY <1>4, <1>8, <2>1, <3>1, BoundAssumption
    <2>2. CASE q # p
      BY <1>0, <1>4, <1>8, <1>10, <2>2 DEF XInv, Ages
    <2> QED  BY <2>1, <2>2
  <1>12. OwnResponse'
    BY <1>0, <1>1 DEF XInv, OwnResponse
  <1>13. inbox[Caller] = 1 /\ sent[Caller] = need[Caller]
    BY <1>1, CompleteHere
  <1>14. Waiting(g)'
    <2>1. /\ sock'[g] = Caller /\ cgiProcesses'[g] = p /\ asker'[p] = Caller
          /\ child'[p] = "running" /\ age'[p] \in Nat
          /\ clients'[g].idle = 0 /\ clients'[g].total = 0
          /\ inbox'[Caller] = 0 /\ sent'[Caller] = need'[Caller]
          /\ wire'[Caller] = <<>> /\ sendBuffers'[g] = None
      <3>1. age[p] \in Nat
        BY <1>0, BoundAssumption DEF TypeOK
      <3>2. sock'[g] = Caller
        BY <1>2, <1>3, <1>5
      <3> QED  BY <1>1, <1>5, <1>6, <1>7, <1>8, <1>13, <3>1, <3>2
    <2> QED  BY <1>1, <1>7, <1>10, <2>1, BoundAssumption DEF Waiting
  <1>15. wire[Caller] = <<>> => room[Caller] = SndBuf
    BY <1>0, <1>2 DEF Undisturbed
  <1>16. /\ fds' \in Seq(PollFd) /\ DOMAIN fds' = DOMAIN fds
         /\ \A i \in DOMAIN fds : fds'[i].fd = fds[i].fd /\ fds'[i].revents = fds[i].revents
    BY <1>0, <1>1 DEF TypeOK
  <1>17. Stage(g)'
    BY <1>14 DEF Stage
  <1>18. \A fd \in Fds \ {g} : /\ clients'[fd] = clients[fd]
                               /\ cgiProcesses'[fd] = cgiProcesses[fd]
                               /\ sendBuffers'[fd] = sendBuffers[fd]
    BY <1>1, <1>5, <1>8
  <1>19. \A q \in Pids : child[q] # "unborn" =>
            child'[q] = child[q] /\ age'[q] = age[q] /\ asker'[q] = asker[q]
    BY <1>4, <1>8
  <1>20. \A d \in Conns \ {Caller} : /\ inbox'[d] = inbox[d] /\ wire'[d] = wire[d]
                                     /\ room'[d] = room[d]
    BY <1>1, <1>5
  <1> QED  BY <1>1, <1>2, <1>3, <1>5, <1>9, <1>11, <1>12, <1>15, <1>16, <1>17,
              <1>18, <1>19, <1>20, HandlerKeeps

\* handlePollOut() with nothing pending.
LEMMA NothingToSendKeepsExchange ==
    ASSUME EInv, Visiting("OUT"), NothingToSend PROVE XInv'
  <1>1. phase = "scan" /\ Tests[at[2]] = "OUT" /\ Return
    BY DEF Visiting, NothingToSend
  <1>0. TypeOK /\ IInv /\ XInv /\ Undisturbed /\ InStage
    BY <1>1, ScanRuns
  <1>2. /\ fds' = Disarm(fds, at[1])
        /\ UNCHANGED <<netVars, childVars, tableVars, cgiVars>>
    BY DEF NothingToSend
  <1>3. at[1] \in DOMAIN fds /\ Here \in ClientFds /\ Caller \in Conns
    BY <1>0, <1>1, HereTyped DEF Fds
  <1>4. PICK g \in ClientFds : g = Here
    BY <1>3
  <1>5. g \in clientSockets
    BY <1>0, <1>1, <1>3, <1>4, HereTyped
  <1>6. phase' \in {"scan", "sweep"}
    BY <1>1 DEF Return, Resume
  <1>7. LeadsBack' /\ Ages' /\ OwnResponse'
    BY <1>0, <1>1, <1>2, ChildrenStay DEF childVars, netVars
  <1>8. Stage(g)'
    <2>1. Stage(g)
      BY <1>0, <1>5 DEF InStage, Staged, TypeOK, Fds
    <2> QED  BY <1>0, <1>1, <1>2, <1>5, <1>6, <2>1, StageFrame
             DEF netVars, childVars, tableVars, cgiVars
  <1>9. /\ fds' \in Seq(PollFd) /\ DOMAIN fds' = DOMAIN fds
        /\ \A i \in DOMAIN fds : fds'[i].fd = fds[i].fd /\ fds'[i].revents = fds[i].revents
    BY <1>0, <1>2, <1>3, DisarmKeeps DEF TypeOK
  <1>10. wire'[Caller] = <<>> => room'[Caller] = SndBuf
    BY <1>0, <1>2, <1>3 DEF Undisturbed, netVars
  <1> QED  BY <1>1, <1>2, <1>4, <1>7, <1>8, <1>9, <1>10, HandlerKeeps
           DEF netVars, childVars, tableVars, cgiVars

\* A response that is pending where poll() found room goes on where it stopped.
LEMMA PendingHere ==
    ASSUME EInv, Visiting("OUT"), sendBuffers[Here] # None
    PROVE  /\ phase = "scan" /\ at[2] = 2 /\ at[1] \in DOMAIN fds
           /\ Here \in Fds /\ Here \in ClientFds /\ Here \in clientSockets
           /\ Caller \in Conns /\ sock[Here] = Caller
           /\ Asking(Here) \/ Answering(Here)
           /\ sendBuffers[Here] \in Response /\ sendBuffers[Here].owner = Caller
           /\ sendBuffers[Here].sent < sendBuffers[Here].size
           /\ Len(wire[Caller]) = sendBuffers[Here].sent
           /\ cgiProcesses[Here] = None /\ closeAfterSend[Here]
           /\ Sendable = Least(sendBuffers[Here].size - sendBuffers[Here].sent, room[Caller])
           /\ Sendable \in Nat /\ Sendable > 0
  <1> DEFINE r == sendBuffers[Here]
  <1>1. phase = "scan" /\ Tests[at[2]] = "OUT"
    BY DEF Visiting
  <1>0. TypeOK /\ IInv /\ XInv /\ Undisturbed /\ Writable /\ InStage /\ PendingIsArmed
    BY <1>1, ScanRuns DEF EInv
  <1>2. /\ at[1] \in DOMAIN fds /\ at[2] \in 1..3 /\ "OUT" \in fds[at[1]].revents
        /\ Here \in Fds /\ Here \notin Listeners
    BY <1>0, <1>1, HereTyped
  <1>3. at[2] = 2
    BY <1>1, <1>2 DEF Tests
  <1>4. Here \in ClientFds
    BY <1>2 DEF Fds
  <1>5. /\ Here \in clientSockets /\ Caller \in Conns /\ sock[Here] = Caller
        /\ r \in Response
    BY <1>0, <1>1, <1>2, <1>4, HereTyped DEF Caller, TypeOK
  <1>6. Stage(Here)
    BY <1>0, <1>2, <1>5 DEF InStage, Staged
  <1>7. ~Waiting(Here)
    BY DEF Waiting
  <1>8. Asking(Here) \/ Answering(Here)
    BY <1>6, <1>7 DEF Stage
  <1>9. /\ r.owner = Caller /\ r.sent < r.size /\ Len(wire[Caller]) = r.sent
        /\ cgiProcesses[Here] = None
    <2>1. CASE Asking(Here)
      <3>1. r = Reply(Caller, 1) /\ wire[Caller] = <<>> /\ cgiProcesses[Here] = None
        BY <1>5, <2>1 DEF Asking
      <3> QED  BY <3>1 DEF Reply
    <2>2. CASE Answering(Here)
      BY <1>5, <2>2 DEF Answering
    <2> QED  BY <1>8, <2>1, <2>2
  <1>10. closeAfterSend[Here]
    BY <1>0, <1>2 DEF PendingIsArmed
  <1>11. room[Caller] > 0 /\ room[Caller] \in Nat
    <2>1. room[sock[fds[at[1]].fd]] > 0
      BY <1>0, <1>1, <1>2, <1>3 DEF Writable
    <2>2. room[Caller] \in Nat
      BY <1>0, <1>5, BoundAssumption DEF TypeOK
    <2> QED  BY <2>1, <2>2 DEF Caller, Here
  <1>12. peer[Caller] # "rst"
    BY <1>0, <1>5 DEF Undisturbed
  <1>13. Sendable = Least(r.size - r.sent, room[Caller])
    BY <1>12 DEF Sendable
  <1>14. r.size \in Nat /\ r.sent \in Nat
    BY <1>5, BoundAssumption DEF Response
  <1>15. Sendable \in Nat /\ Sendable > 0
    BY <1>9, <1>11, <1>13, <1>14 DEF Least
  <1> QED  BY <1>1, <1>2, <1>3, <1>4, <1>5, <1>8, <1>9, <1>10, <1>13, <1>15

\* What send() adds to a wire: so many units of the response, from where it
\* stopped.
LEMMA TransmitExtends ==
    ASSUME EInv, Visiting("OUT"), sendBuffers[Here] # None, Transmit
    PROVE  /\ wire'[Caller] = wire[Caller] \o Units(sendBuffers[Here], Sendable)
           /\ wire' = [wire EXCEPT ![Caller] = wire[Caller] \o Units(sendBuffers[Here], Sendable)]
           /\ Len(Units(sendBuffers[Here], Sendable)) = Sendable
           /\ Len(wire'[Caller]) = sendBuffers[Here].sent + Sendable
           /\ wire'[Caller] # <<>>
           /\ sendBuffers[Here].sent + Sendable <= sendBuffers[Here].size
           /\ \A d \in Conns \ {Caller} : wire'[d] = wire[d] /\ room'[d] = room[d]
           /\ OwnResponse'
           /\ UNCHANGED <<peer, need, sent, inbox, childVars, cgiVars>>
  <1> DEFINE r == sendBuffers[Here]
             n == Sendable
             u == Units(r, n)
  <1>1. /\ Here \in Fds /\ Here \in ClientFds /\ Caller \in Conns /\ r \in Response
        /\ r.owner = Caller /\ r.sent < r.size /\ Len(wire[Caller]) = r.sent
        /\ n \in Nat /\ n > 0
    BY PendingHere
  <1>2. TypeOK /\ OwnResponse /\ IInv
    BY DEF EInv, IInv, XInv
  <1>3. r.sent + n <= r.size /\ UNCHANGED <<peer, need, sent, inbox, childVars, cgiVars>>
    BY <1>1, <1>2, TransmitKeeps
  <1>4. u \in Seq(Unit) /\ wire[Caller] \in Seq(Unit) /\ DOMAIN wire = Conns /\ DOMAIN room = Conns
    BY <1>1, <1>2, <1>3, UnitsTyped DEF TypeOK
  <1>5. Len(u) = n
    <2> DEFINE f(i) == [owner |-> r.owner, unit |-> r.sent + i, last |-> r.sent + i = r.size]
    <2>1. u = [i \in 1..n |-> f(i)]
      BY DEF Units
    <2> HIDE DEF f, u, n
    <2>2. DOMAIN u = 1..n
      BY <2>1
    <2> QED  BY <1>1, <1>4, <2>2, LenProperties
  <1>6. wire' = [wire EXCEPT ![Caller] = wire[Caller] \o u]
    BY <1>1, <1>4 DEF Transmit
  <1>7. \A d \in Conns \ {Caller} : wire'[d] = wire[d] /\ room'[d] = room[d]
    BY <1>4 DEF Transmit
  <1>8. OwnResponse'
    <2>1. wire' = [wire EXCEPT ![Caller] = @ \o u]
      BY DEF Transmit
    <2> QED  BY <1>1, <1>2, <1>3, <2>1, SentStaysOwn
  <1> HIDE DEF n, u
  <1>9. wire'[Caller] = wire[Caller] \o u
    BY <1>1, <1>4, <1>6
  <1>10. Len(wire'[Caller]) = Len(wire[Caller]) + Len(u)
    BY <1>4, <1>9
  <1>11. r.sent \in Nat
    BY <1>1, BoundAssumption DEF Response
  <1>12. Len(wire'[Caller]) = r.sent + n /\ Len(wire'[Caller]) # 0
    BY <1>1, <1>5, <1>10, <1>11
  <1>13. wire'[Caller] # <<>>
    BY <1>12
  <1> QED  BY <1>3, <1>5, <1>6, <1>7, <1>8, <1>9, <1>12, <1>13 DEF n, u

\* handlePollOut(), a part of the response: it goes on only where no timeout
\* will replace it.
LEMMA SendPartKeepsExchange ==
    ASSUME Attentive, EInv, Visiting("OUT"), sendBuffers[Here] # None, SendPart
    PROVE  XInv'
  <1>1. /\ phase = "scan" /\ at[2] = 2 /\ Here \in Fds /\ Here \in clientSockets
        /\ Here \in ClientFds /\ Caller \in Conns /\ sock[Here] = Caller
        /\ Asking(Here) \/ Answering(Here)
        /\ sendBuffers[Here] \in Response /\ sendBuffers[Here].owner = Caller
        /\ Len(wire[Caller]) = sendBuffers[Here].sent
        /\ Sendable \in Nat /\ Sendable > 0
        /\ Sendable = Least(sendBuffers[Here].size - sendBuffers[Here].sent, room[Caller])
    BY PendingHere
  <1>0. TypeOK /\ IInv /\ XInv /\ Undisturbed
    BY <1>1, ScanRuns
  <1>2. PICK g \in ClientFds : g = Here
    BY <1>1
  <1> DEFINE r == sendBuffers[g]
             n == Sendable
  <1>3. /\ n < r.size - r.sent /\ Transmit /\ Return
        /\ sendBuffers' = [sendBuffers EXCEPT ![g].sent = @ + n]
        /\ clients' = [clients EXCEPT ![g] = IF @ = None THEN None ELSE [@ EXCEPT !.idle = 0]]
        /\ UNCHANGED <<state, sock, fds, clientSockets>>
    BY <1>2 DEF SendPart
  <1>4. /\ Len(wire'[Caller]) = r.sent + n /\ wire'[Caller] # <<>>
        /\ \A d \in Conns \ {Caller} : wire'[d] = wire[d] /\ room'[d] = room[d]
        /\ OwnResponse'
        /\ UNCHANGED <<peer, need, sent, inbox, childVars, cgiVars>>
    BY <1>2, <1>3, TransmitExtends
  <1>5. r.size \in 0..MaxUnits /\ r.size \in Nat /\ r.sent \in Nat /\ g \in Fds /\ r # None
    BY <1>1, <1>2, BoundAssumption DEF Response
  <1>6. Answering(g)
    <2>1. ASSUME Asking(g) PROVE FALSE
      <3>1. r = Reply(Caller, 1)
        BY <1>1, <1>2, <1>5, <2>1 DEF Asking
      <3>2. r.size = 1 /\ r.sent = 0
        BY <3>1 DEF Reply
      <3> QED  BY <1>1, <1>3, <3>2
    <2> QED  BY <1>1, <1>2, <2>1
  <1>7. Punctual
    <2> SUFFICES ASSUME ~Punctual PROVE FALSE
      OBVIOUS
    <2>1. Small /\ ~(r.sent > 0)
      BY <1>6 DEF Attentive, Answering
    <2>2. Len(wire[Caller]) = 0 /\ wire[Caller] \in Seq(Unit)
      BY <1>0, <1>1, <1>2, <1>5, <2>1 DEF TypeOK
    <2>3. wire[Caller] = <<>>
      BY <2>2
    <2>4. room[Caller] = SndBuf
      BY <1>0, <1>1, <2>3 DEF Undisturbed
    <2> HIDE DEF n
    <2>5. n = Least(r.size - r.sent, SndBuf) /\ n \in Nat /\ r.sent = 0
      BY <1>1, <1>2, <1>5, <2>1, <2>4 DEF n
    <2> QED  BY <1>3, <1>5, <2>1, <2>5, BoundAssumption DEF Small, Least
  <1>8. /\ sendBuffers'[g] = [r EXCEPT !.sent = @ + n]
        /\ \A fd \in Fds \ {g} : sendBuffers'[fd] = sendBuffers[fd] /\ clients'[fd] = clients[fd]
    BY <1>0, <1>3, <1>5 DEF TypeOK
  <1>9. clients'[g].idle = 0 /\ clients'[g].total = clients[g].total
    <2>1. clients[g] \in ClientState /\ clients[g] # None
      BY <1>0, <1>1, <1>2, ClientTyped, NoneAssumption
    <2>2. clients'[g] = [clients[g] EXCEPT !.idle = 0]
      BY <1>0, <1>3, <1>5, <2>1 DEF TypeOK
    <2> QED  BY <2>1, <2>2 DEF ClientState
  <1>10. Answering(g)'
    <2> DEFINE q == [r EXCEPT !.sent = @ + n]
    <2>1. q.owner = r.owner /\ q.sent = r.sent + n /\ q.size = r.size
      BY <1>1, <1>2 DEF Response
    <2>2. q # None
      BY <1>1, <1>2, <1>3, <1>5, RestExists
    <2> HIDE DEF q, n
    <2>3. sendBuffers'[g] = q
      BY <1>8 DEF q, n
    <2>4. r.sent + n < r.size
      BY <1>1, <1>3, <1>5 DEF n
    <2>5. /\ cgiProcesses'[g] = None /\ sock'[g] = Caller /\ r.owner = Caller
          /\ sent'[Caller] = need'[Caller] /\ inbox'[Caller] = 0
          /\ clients'[g].total <= TotalLimit
      BY <1>1, <1>2, <1>3, <1>4, <1>6, <1>7, <1>9 DEF Answering, cgiVars
    <2>6. Len(wire'[Caller]) = r.sent + n
      BY <1>4 DEF n
    <2> QED  BY <1>7, <1>9, <2>1, <2>2, <2>3, <2>4, <2>5, <2>6, BoundAssumption DEF Answering
  <1>11. LeadsBack' /\ Ages'
    <2>1. phase' \in {"scan", "sweep"} /\ phase # "cgi"
      BY <1>1, <1>3 DEF Return, Resume
    <2> QED  BY <1>0, <1>4, <2>1 DEF XInv, LeadsBack, Ages, childVars, cgiVars
  <1>12. Stage(g)'
    BY <1>10 DEF Stage
  <1>13. /\ fds' \in Seq(PollFd) /\ DOMAIN fds' = DOMAIN fds
         /\ \A i \in DOMAIN fds : fds'[i].fd = fds[i].fd /\ fds'[i].revents = fds[i].revents
    BY <1>0, <1>3 DEF TypeOK
  <1> QED  BY <1>1, <1>2, <1>3, <1>4, <1>8, <1>11, <1>12, <1>13, HandlerKeeps
           DEF childVars, cgiVars

\* handlePollOut(), the end of the response: its client is closed and leaves
\* nothing behind.
LEMMA SendLastKeepsExchange ==
    ASSUME EInv, Visiting("OUT"), sendBuffers[Here] # None, SendLast
    PROVE  XInv'
  <1>1. /\ phase = "scan" /\ at[2] = 2 /\ at[1] \in DOMAIN fds
        /\ Here \in Fds /\ Here \in clientSockets
        /\ Caller \in Conns /\ sock[Here] = Caller
        /\ cgiProcesses[Here] = None /\ closeAfterSend[Here]
    BY PendingHere
  <1>0. TypeOK /\ IInv /\ XInv /\ Undisturbed /\ Writable /\ InStage
    BY <1>1, ScanRuns
  <1>2. PICK g \in Fds : g = fds[at[1]].fd
    BY <1>1 DEF Here
  <1>3. Transmit /\ CloseClient(at[1]) /\ Return /\ g = Here
    BY <1>1, <1>2 DEF SendLast, Here
  <1>4. /\ wire'[Caller] # <<>>
        /\ \A d \in Conns \ {Caller} : wire'[d] = wire[d] /\ room'[d] = room[d]
        /\ OwnResponse'
        /\ UNCHANGED <<peer, need, sent, inbox, childVars, cgiVars>>
    BY <1>3, TransmitExtends
  <1>5. /\ state' = [c \in Conns |-> IF sock[g] = c THEN "closed" ELSE state[c]]
        /\ sock' = [sock EXCEPT ![g] = None]
        /\ clientSockets' = clientSockets \ {g}
        /\ clients' = [clients EXCEPT ![g] = None]
        /\ sendBuffers' = [sendBuffers EXCEPT ![g] = None]
        /\ fds' = RemoveAt(fds, at[1])
    BY <1>1, <1>2, <1>3 DEF CloseClient
  <1>6. /\ \A fd \in Fds \ {g} : /\ clients'[fd] = clients[fd] /\ sock'[fd] = sock[fd]
                                 /\ sendBuffers'[fd] = sendBuffers[fd]
        /\ sendBuffers'[g] = None
    BY <1>0, <1>5 DEF TypeOK
  <1>7. /\ fds \in Seq(PollFd) /\ Len(fds) \in Nat /\ at[1] \in 1..Len(fds)
        /\ DOMAIN fds = 1..Len(fds) /\ \A j \in DOMAIN fds : fds[j].fd \in Fds
    BY <1>0, <1>1, SlotsTyped DEF TypeOK
  <1>8. /\ fds' \in Seq(PollFd) /\ Len(fds') = Len(fds) - 1
        /\ \A j \in 1..Len(fds) - 1 :
              fds'[j] = IF j < at[1] THEN fds[j] ELSE fds[j + 1]
    BY <1>5, <1>7, RemoveAtShifts
  <1>9. DOMAIN fds' = 1..Len(fds) - 1
    BY <1>8, SlotsTyped
  <1>10. LeadsBack' /\ Ages'
    <2>1. phase' \in {"scan", "sweep"} /\ phase # "cgi"
      BY <1>1, <1>3 DEF Return, Resume
    <2> QED  BY <1>0, <1>4, <2>1 DEF XInv, LeadsBack, Ages, childVars, cgiVars
  <1>11. Undisturbed'
    <2>1. \A i \in DOMAIN fds' : "HUP" \notin fds'[i].revents
      <3>1. \A i \in DOMAIN fds' : \E j \in DOMAIN fds : fds'[i] = fds[j]
        BY <1>7, <1>8, <1>9
      <3> QED  BY <1>0, <3>1 DEF Undisturbed
    <2>2. \A c \in Conns : state'[c] \in {"new", "backlog"} => state[c] = state'[c] /\ c # Caller
      BY <1>1, <1>3, <1>5
    <2> QED  BY <1>0, <1>4, <2>1, <2>2 DEF Undisturbed
  <1>12. \A fd \in clientSockets \ {g} : sock[fd] # Caller
    BY <1>0, <1>1, <1>3, ClientTyped DEF Caller
  <1>13. Writable'
    <2>1. DOMAIN fds' \subseteq Nat
      BY <1>7, <1>9
    <2>2. ASSUME NEW i \in DOMAIN fds', "OUT" \in fds'[i].revents,
                 i < at[1] \/ (i = at[1] /\ at[2] = 1)
          PROVE  /\ i \in DOMAIN fds
                 /\ fds'[i].fd = fds[i].fd /\ fds'[i].revents = fds[i].revents
                 /\ room[sock[fds[i].fd]] > 0 => room'[sock'[fds[i].fd]] > 0
      <3>1. i < at[1] /\ i \in DOMAIN fds /\ i # at[1] /\ fds'[i] = fds[i]
        BY <1>1, <1>7, <1>8, <1>9, <2>1, <2>2
      <3>2. fds[i].fd # g /\ fds[i].fd \in Fds
        BY <1>0, <1>1, <1>2, <1>7, <3>1 DEF IInv, TablesAgree, DistinctSlots, Slots
      <3>3. fds[i].fd \in ClientFds
        BY <1>0, <2>2, <3>1, <3>2 DEF Fds, IInv, ListenersOnlyRead
      <3>4. fds[i].fd \in clientSockets
        BY <1>0, <3>1, <3>3 DEF IInv, TablesAgree, ServedIsWatched, Slots
      <3>5. sock[fds[i].fd] \in Conns /\ sock[fds[i].fd] # Caller
        BY <1>0, <1>12, <3>2, <3>4, ClientTyped
      <3> QED  BY <1>4, <1>6, <3>1, <3>2, <3>5
    <2> QED  BY <1>0, <1>1, <1>3, <2>1, <2>2, ReturnKeepsWritable
  <1>14. Staged(g)'
    BY <1>1, <1>3, <1>4, <1>5, <1>6 DEF Staged, Vacant, cgiVars
  <1>15. InStage'
    <2>1. phase' \in {"scan", "sweep"}
      BY <1>3 DEF Return, Resume
    <2>2. clientSockets' \ {g} = clientSockets \ {g}
      BY <1>5
    <2> QED  BY <1>0, <1>1, <1>4, <1>6, <1>12, <1>14, <2>1, <2>2, OthersStay
             DEF childVars, cgiVars
  <1> QED  BY <1>4, <1>10, <1>11, <1>13, <1>15 DEF XInv

\* The handlers that no peer of this kind causes to run.
LEMMA NeverHere ==
    ASSUME Attentive, EInv
    PROVE  ~RecvError /\ ~Upload /\ ~HangUp
  <1>1. ASSUME RecvError PROVE FALSE
    <2>1. phase = "scan" /\ Here \in ClientFds /\ peer[Caller] = "rst"
      BY <1>1 DEF RecvError, Visiting
    <2>2. Undisturbed /\ Caller \in Conns
      BY <2>1, ScanRuns, HereTyped
    <2> QED  BY <2>1, <2>2 DEF Undisturbed
  <1>2. ASSUME HangUp PROVE FALSE
    <2>1. phase = "scan" /\ Tests[at[2]] = "HUP"
      BY <1>2 DEF HangUp, Visiting
    <2>2. Undisturbed /\ at[1] \in DOMAIN fds /\ "HUP" \in fds[at[1]].revents
      BY <2>1, ScanRuns, HereTyped
    <2> QED  BY <2>2 DEF Undisturbed
  <1> QED  BY <1>1, <1>2 DEF Upload, Attentive

\* send() never fails.
LEMMA NeverFails ==
    ASSUME EInv, Visiting("OUT"), sendBuffers[Here] # None PROVE ~SendFails
  BY PendingHere DEF SendFails

\* Every handler of the scan.
LEMMA ScanKeepsExchange ==
    ASSUME Attentive, EInv, NewClient \/ ClientData \/ HangUp \/ HandlePollOut
    PROVE  XInv'
  <1>1. CASE Accept
    BY <1>1, AcceptKeepsExchange
  <1>2. CASE AcceptFails \/ RecvEof
    BY <1>2, IdleKeepsExchange DEF AcceptFails, RecvEof, Visiting
  <1>3. CASE AwaitBody
    BY <1>3, AwaitBodyKeepsExchange
  <1>4. CASE Respond
    BY <1>4, RespondKeepsExchange
  <1>5. CASE StartCgi
    BY <1>5, StartCgiKeepsExchange
  <1>6. CASE HandlePollOut
    BY <1>6, NothingToSendKeepsExchange, SendLastKeepsExchange, SendPartKeepsExchange,
       NeverFails DEF HandlePollOut
  <1> QED  BY <1>1, <1>2, <1>3, <1>4, <1>5, <1>6, NeverHere DEF NewClient, ClientData

-----------------------------------------------------------------------------
(* The invariant is kept *)

\* At the end nothing is promised any more.
LEMMA EndKeepsExchange == ASSUME EInv, Sigint \/ Cleanup PROVE XInv'
  <1>1. UNCHANGED <<pipes, cgiVars, child, age, wire>>
    BY DEF Sigint, Cleanup, CleanupClient, CleanupListeners, childVars, netVars
  <1>2. phase' \in {"cleanup", "stopped"}
    BY DEF Sigint, Cleanup, CleanupClient, CleanupListeners, ctlVars
  <1>3. phase # "cgi"
    BY DEF Sigint, Cleanup, CleanupClient, CleanupListeners
  <1>4. LeadsBack' /\ Ages' /\ OwnResponse'
    BY <1>1, <1>2, <1>3, ChildrenStay DEF EInv
  <1> QED  BY <1>2, <1>4 DEF XInv, Running

\* A step that changes nothing.
LEMMA StutterKeepsExchange == ASSUME XInv, UNCHANGED vars PROVE XInv'
  <1>1. LeadsBack' /\ Ages' /\ OwnResponse'
    BY ChildrenStay DEF vars, childVars, netVars, ctlVars
  <1>2. Undisturbed /\ Writable => Undisturbed' /\ Writable'
    BY DEF Undisturbed, Writable, vars, netVars, ctlVars
  <1>3. \A fd : Stage(fd) => Stage(fd)'
    BY DEF Stage, Asking, Waiting, Answering, Reply, vars, netVars, childVars, tableVars,
       cgiVars, ctlVars
  <1>4. InStage => InStage'
    BY <1>3 DEF InStage, Staged, Vacant, vars, tableVars, cgiVars
  <1> QED  BY <1>1, <1>2, <1>4 DEF XInv, Running, vars, ctlVars

LEMMA InitExchange == ASSUME Init PROVE EInv
  <1>1. IInv
    BY InitIInv
  <1>2. TrackedCgiIsOpen /\ OpenIsBorn
    BY DEF Init, TrackedCgiIsOpen, OpenIsBorn
  <1>3. PendingIsArmed
    BY InitArms
  <1>4. LeadsBack /\ Ages /\ OwnResponse
    <2>1. None \notin Fds
      BY DescriptorAssumption
    <2> QED  BY <2>1 DEF Init, LeadsBack, Ages, OwnResponse
  <1>5. \A i \in DOMAIN fds : fds[i].revents = {}
    BY DEF Init, Watch
  <1>6. Undisturbed /\ Writable
    BY <1>5 DEF Init, Undisturbed, Writable
  <1>7. InStage
    BY DEF Init, InStage, Staged, Vacant
  <1> QED  BY <1>1, <1>2, <1>3, <1>4, <1>6, <1>7 DEF EInv, XInv

\* Every step keeps the invariant.
LEMMA ExchangeKept ==
    ASSUME Attentive PROVE EInv /\ [Next]_vars => EInv'
  <1> SUFFICES ASSUME EInv, [Next]_vars PROVE EInv'
    OBVIOUS
  <1>1. IInv /\ TrackedCgiIsOpen /\ OpenIsBorn /\ PendingIsArmed /\ XInv
    BY DEF EInv
  <1>2. IInv' /\ TrackedCgiIsOpen' /\ OpenIsBorn' /\ PendingIsArmed'
    BY <1>1, NextKeeps, TrackedKept, PendingKept
  <1>3. XInv'
    <2>1. CASE Iterate
      BY <2>1, PollKeepsExchange, PollCgiKeepsExchange, SweepKeepsExchange DEF Iterate
    <2>2. CASE NewClient \/ ClientData \/ HangUp \/ HandlePollOut
      BY <2>2, ScanKeepsExchange
    <2>3. CASE Sigint \/ Cleanup
      BY <2>3, EndKeepsExchange
    <2>4. CASE Peers
      BY <2>4, PeersKeepExchange
    <2>5. CASE \E p \in Pids : ChildExits(p)
      BY <2>5, ChildExitsKeepsExchange
    <2>6. CASE Stopped \/ UNCHANGED vars
      BY <1>1, <2>6, StutterKeepsExchange DEF Stopped
    <2> QED  BY <2>1, <2>2, <2>3, <2>4, <2>5, <2>6 DEF Next, Server
  <1> QED  BY <1>2, <1>3 DEF EInv

-----------------------------------------------------------------------------
(* The steps of the exchange *)

\* What HttpExchange sees, by name.
Seen == [c \in Conns |-> IF state[c] = "backlog" THEN "new" ELSE state[c]]

\* A step that opens and closes nobody, sends nothing and does not stop.
LEMMA Unseen ==
    ASSUME UNCHANGED <<Seen, wire>>, Running' <=> Running
    PROVE  UNCHANGED Exchange!vars
  BY DEF Seen, Running, Exchange!vars

\* handleNewConnection() opens an exchange.
LEMMA AcceptOpens ==
    ASSUME EInv, Accept PROVE \E c \in Conns : Exchange!Open(c)
  <1>1. PICK c \in Conns : state[c] = "backlog" /\ state' = [state EXCEPT ![c] = "open"]
    BY DEF Accept
  <1>2. phase = "scan" /\ phase' \in {"scan", "sweep"} /\ wire' = wire
    BY DEF Accept, Visiting, Return, Resume
  <1>3. state \in [Conns -> {"new", "backlog", "open", "closed"}]
    BY DEF EInv, IInv, TypeOK
  <1>4. Seen' = [Seen EXCEPT ![c] = "open"] /\ Seen[c] = "new"
    BY <1>1, <1>3 DEF Seen
  <1>5. UNCHANGED (phase \in {"cleanup", "stopped"})
    BY <1>2
  <1>6. Exchange!Open(c)
    BY <1>2, <1>4, <1>5, Zenon DEF Exchange!Open, Seen
  <1> QED  BY <1>6

\* handlePollOut() continues one, to its end or not.
LEMMA SendAnswers ==
    ASSUME EInv, Visiting("OUT"), sendBuffers[Here] # None, SendPart \/ SendLast
    PROVE  \E c \in Conns : Exchange!Answer(c)
  <1> DEFINE r == sendBuffers[Here]
             n == Sendable
             done == r.sent + n = r.size
  <1>1. /\ phase = "scan" /\ at[1] \in DOMAIN fds /\ Here \in Fds /\ Here \in clientSockets
        /\ Caller \in Conns /\ sock[Here] = Caller
        /\ r \in Response /\ r.owner = Caller /\ r.sent < r.size
        /\ Len(wire[Caller]) = r.sent /\ closeAfterSend[Here]
        /\ n \in Nat /\ n > 0
    BY PendingHere
  <1>0. TypeOK /\ IInv
    BY DEF EInv, IInv
  <1>2. Transmit /\ Return
    BY DEF SendPart, SendLast
  <1>3. /\ wire' = [wire EXCEPT ![Caller] = wire[Caller] \o Units(r, n)]
        /\ r.sent + n <= r.size
    BY <1>2, TransmitExtends
  <1>4. r.sent \in Nat /\ r.size \in Nat /\ r.size <= MaxUnits /\ MaxUnits \in Nat
    BY <1>1, BoundAssumption DEF Response
  <1>5. phase' \in {"scan", "sweep"}
    BY <1>2 DEF Return, Resume
  <1>6. /\ state \in [Conns -> {"new", "backlog", "open", "closed"}]
        /\ state[Caller] = "open"
    BY <1>0, <1>1, ClientTyped DEF TypeOK
  <1>7. SendLast <=> done
    <2>1. SendLast => n >= r.size - r.sent
      BY DEF SendLast
    <2>2. SendPart => n < r.size - r.sent
      BY DEF SendPart
    <2> HIDE DEF n, r
    <2> QED  BY <1>1, <1>3, <1>4, <2>1, <2>2
  <1>8. Seen' = [Seen EXCEPT ![Caller] = IF done THEN "closed" ELSE "open"]
    <2>1. CASE SendLast
      <3>1. CloseClient(at[1])
        BY <1>1, <2>1 DEF SendLast
      <3>2. state' = [c \in Conns |-> IF Caller = c THEN "closed" ELSE state[c]]
        BY <1>1, <3>1 DEF CloseClient, Here
      <3> QED  BY <1>6, <1>7, <2>1, <3>2 DEF Seen
    <2>2. CASE SendPart
      <3>1. state' = state
        BY <2>2 DEF SendPart
      <3>2. ~done
        BY <1>1, <1>3, <1>4, <2>2 DEF SendPart
      <3> QED  BY <1>6, <3>1, <3>2 DEF Seen
    <2> QED  BY <2>1, <2>2
  <1>9. Units(r, n) = [i \in 1..n |-> [owner |-> Caller, unit |-> Len(wire[Caller]) + i,
                                       last |-> done /\ i = n]]
    <2> HIDE DEF n, r
    <2>1. \A i \in 1..n : r.sent + i = r.size <=> (r.sent + n = r.size /\ i = n)
      BY <1>1, <1>3, <1>4
    <2>2. \A i \in 1..n : (r.sent + i = r.size) = (r.sent + n = r.size /\ i = n)
      BY <2>1
    <2> QED  BY <1>1, <2>2 DEF Units
  <1>10. /\ n \in 1..MaxUnits - Len(wire[Caller]) /\ done \in BOOLEAN
         /\ Len(wire[Caller]) + n = MaxUnits => done
    <2> HIDE DEF n, r
    <2> QED  BY <1>1, <1>3, <1>4
  <1>11. PICK c \in Conns, m \in 1..MaxUnits - Len(wire[Caller]), d \in BOOLEAN :
            c = Caller /\ m = n /\ d = done
    BY <1>1, <1>10
  <1> HIDE DEF n, done, r
  <1>12. Exchange!Answer(c)
    <2>1. wire' = [wire EXCEPT ![c] = Exchange!Continue(c, m, d)]
      BY <1>3, <1>9, <1>11 DEF Exchange!Continue
    <2>2. Seen[c] = "open"
      BY <1>1, <1>6, <1>11 DEF Seen
    <2>3. UNCHANGED (phase \in {"cleanup", "stopped"})
      BY <1>1, <1>5
    <2>4. m \in 1..MaxUnits - Len(wire[c]) /\ (Len(wire[c]) + m = MaxUnits => d)
      BY <1>10, <1>11
    <2>5. Seen' = [Seen EXCEPT ![c] = IF d THEN "closed" ELSE "open"]
      BY <1>8, <1>11
    <2> QED  BY <2>1, <2>2, <2>3, <2>4, <2>5, Zenon DEF Exchange!Answer, Seen
  <1> QED  BY <1>12

\* SIGINT stops the exchanges.
LEMMA SigintStops == ASSUME Sigint PROVE Exchange!Stop
  <1>1. phase = "poll" /\ phase' = "cleanup" /\ UNCHANGED <<state, wire>>
    BY DEF Sigint, netVars
  <1>2. ~(phase \in {"cleanup", "stopped"}) /\ (phase \in {"cleanup", "stopped"})' = TRUE
    BY <1>1
  <1> QED  BY <1>1, <1>2 DEF Exchange!Stop

\* cleanup() cuts one short, or closes a listener.
LEMMA CleanupCuts ==
    ASSUME EInv, CleanupClient
    PROVE  (\E c \in Conns : Exchange!CutShort(c)) \/ UNCHANGED Exchange!vars
  <1>1. phase = "cleanup" /\ phase' = phase /\ wire' = wire /\ CloseClient(1)
    BY DEF CleanupClient, ctlVars
  <1>2. TypeOK /\ IInv
    BY DEF EInv, IInv
  <1>3. state \in [Conns -> {"new", "backlog", "open", "closed"}]
        /\ sock \in [Fds -> Conns \cup {None}]
    BY <1>2 DEF TypeOK
  <1>4. ASSUME state' = state PROVE UNCHANGED Exchange!vars
    BY <1>1, <1>4, Unseen DEF Seen, Running
  <1>5. CASE 1 \notin DOMAIN fds
    BY <1>1, <1>4, <1>5 DEF CloseClient
  <1>6. CASE 1 \in DOMAIN fds
    <2> DEFINE fd == fds[1].fd
    <2>1. /\ state' = [c \in Conns |-> IF sock[fd] = c THEN "closed" ELSE state[c]]
          /\ fd \in Fds
      BY <1>1, <1>2, <1>6, SlotsTyped DEF CloseClient, TypeOK
    <2> HIDE DEF fd
    <2>2. CASE sock[fd] = None
      <3>1. state' = state
        BY <1>3, <2>1, <2>2, DescriptorAssumption
      <3> QED  BY <1>4, <3>1
    <2>3. CASE sock[fd] # None
      <3>1. PICK c \in Conns : sock[fd] = c
        BY <1>3, <2>1, <2>3
      <3>2. state[c] = "open"
        BY <1>2, <2>1, <2>3, <3>1 DEF IInv, TablesAgree, ServedIsKnown, OpenIsServed
      <3>3. Seen[c] = "open" /\ Seen' = [Seen EXCEPT ![c] = "closed"]
        BY <1>3, <2>1, <3>1, <3>2 DEF Seen
      <3>4. phase \in {"cleanup", "stopped"} /\ UNCHANGED (phase \in {"cleanup", "stopped"})
        BY <1>1
      <3>5. Exchange!CutShort(c)
        BY <1>1, <3>3, <3>4, Zenon DEF Exchange!CutShort, Seen
      <3> QED  BY <3>5
    <2> QED  BY <2>2, <2>3
  <1> QED  BY <1>5, <1>6

\* A peer that connects is still new to the exchange.
LEMMA ConnectUnseen ==
    ASSUME TypeOK, NEW c \in Conns, Connect(c) PROVE Seen' = Seen
  <1>1. state[c] = "new" /\ state' = [state EXCEPT ![c] = "backlog"]
    BY DEF Connect
  <1> QED  BY <1>1 DEF Seen, TypeOK

\* Every step of the loop is a step of the exchange or is not seen by it.
LEMMA StepImplements ==
    ASSUME Attentive, EInv, [Next]_vars PROVE [Exchange!Next]_Exchange!vars
  <1>0. TypeOK
    BY DEF EInv, IInv
  <1>1. ASSUME UNCHANGED <<state, wire>>, Running' <=> Running
        PROVE  UNCHANGED Exchange!vars
    BY <1>1, Unseen DEF Seen
  <1>2. CASE Iterate
    <2>1. Running' <=> Running
      BY <1>2 DEF Iterate, Poll, PollCgi, Resume, Sweep, Running
    <2>2. UNCHANGED <<state, wire>>
      BY <1>2 DEF Iterate, Poll, PollCgi, Sweep, netVars
    <2> QED  BY <1>1, <2>1, <2>2
  <1>3. ASSUME phase = "scan", Return PROVE Running' <=> Running
    BY <1>3 DEF Return, Resume, Running
  <1>4. CASE Accept
    BY <1>4, AcceptOpens DEF Exchange!Next
  <1>5. CASE AcceptFails \/ RecvEof \/ AwaitBody \/ Respond \/ StartCgi
    <2>1. phase = "scan" /\ Return /\ UNCHANGED <<state, wire>>
      BY <1>5 DEF AcceptFails, RecvEof, AwaitBody, Respond, StartCgi, Complete, DataReady,
         Visiting, RecvData, netVars
    <2> QED  BY <1>1, <1>3, <2>1
  <1>6. CASE HandlePollOut
    <2>1. CASE NothingToSend
      <3>1. phase = "scan" /\ Return /\ UNCHANGED <<state, wire>>
        BY <1>6, <2>1 DEF HandlePollOut, Visiting, NothingToSend, netVars
      <3> QED  BY <1>1, <1>3, <3>1
    <2>2. CASE sendBuffers[Here] # None /\ (SendLast \/ SendPart)
      BY <1>6, <2>2, SendAnswers DEF HandlePollOut, Exchange!Next
    <2> QED  BY <1>6, <2>1, <2>2, NeverFails DEF HandlePollOut
  <1>7. CASE Sigint
    BY <1>7, SigintStops DEF Exchange!Next
  <1>8. CASE CleanupClient
    BY <1>8, CleanupCuts DEF Exchange!Next
  <1>9. CASE CleanupListeners
    <2>1. UNCHANGED <<state, wire>> /\ (Running' <=> Running)
      BY <1>9 DEF CleanupListeners, netVars, Running
    <2> QED  BY <1>1, <2>1
  <1>10. CASE Peers
    <2>1. wire' = wire /\ (Running' <=> Running)
      BY <1>10 DEF Peers, Connect, PeerSend, PeerRead, PeerGone, ctlVars, Running
    <2>2. Seen' = Seen
      <3>1. CASE \E c \in Conns : Connect(c)
        BY <1>0, <3>1, ConnectUnseen
      <3>2. CASE state' = state
        BY <3>2 DEF Seen
      <3> QED  BY <1>10, <3>1, <3>2 DEF Peers, PeerSend, PeerRead, PeerGone
    <2> QED  BY <2>1, <2>2, Unseen
  <1>11. CASE (\E p \in Pids : ChildExits(p)) \/ Stopped \/ UNCHANGED vars
    <2>1. UNCHANGED <<state, wire>> /\ (Running' <=> Running)
      BY <1>11 DEF ChildExits, Stopped, vars, netVars, ctlVars, Running
    <2> QED  BY <1>1, <2>1
  <1> QED  BY <1>2, <1>4, <1>5, <1>6, <1>7, <1>8, <1>9, <1>10, <1>11, NeverHere
           DEF Next, Server, NewClient, ClientData, Cleanup

LEMMA InitImplements == Init => Exchange!Init
  BY DEF Init, Exchange!Init

-----------------------------------------------------------------------------
(* What follows for the properties of EventLoop *)

\* The units an answer ends with, when it closes its connection.
LEMMA EndedIsFinished ==
    ASSUME TypeOK, TypeOK', NEW c \in Conns, Exchange!Answer(c), Seen'[c] = "closed"
    PROVE  Answered(wire'[c])
  <1>0. DOMAIN Seen = Conns /\ wire \in [Conns -> Seq(Unit)] /\ wire' \in [Conns -> Seq(Unit)]
    BY DEF Seen, TypeOK
  <1>1. PICK n \in 1..MaxUnits - Len(wire[c]), done \in BOOLEAN :
           /\ wire' = [wire EXCEPT ![c] = Exchange!Continue(c, n, done)]
           /\ Seen' = [Seen EXCEPT ![c] = IF done THEN "closed" ELSE "open"]
    BY Zenon DEF Exchange!Answer, Seen
  <1>2. done
    BY <1>0, <1>1
  <1> DEFINE rest == [i \in 1..n |-> [owner |-> c, unit |-> Len(wire[c]) + i,
                                      last |-> done /\ i = n]]
  <1>3. n \in Nat /\ n >= 1 /\ Len(wire[c]) \in Nat /\ wire[c] \in Seq(Unit)
    BY <1>0, <1>1, BoundAssumption
  <1>4. rest \in [1..n -> Unit]
    BY <1>1, <1>3, BoundAssumption DEF Unit
  <1>5. rest \in Seq(Unit) /\ Len(rest) = n
    BY <1>3, <1>4, FunctionIsSeq
  <1>6. rest[n].last
    <2> DEFINE final == [owner |-> c, unit |-> Len(wire[c]) + n, last |-> done /\ n = n]
    <2>1. rest[n] = final
      BY <1>3
    <2>2. final.last = (done /\ n = n)
      BY Zenon
    <2> HIDE DEF final, rest
    <2> QED  BY <1>2, <2>1, <2>2, Zenon
  <1>7. wire'[c] = wire[c] \o rest
    BY <1>0, <1>1 DEF Exchange!Continue
  <1> HIDE DEF rest
  <1>8. Len(wire'[c]) = Len(wire[c]) + n /\ wire'[c][Len(wire[c]) + n] = rest[n]
    <2>1. \A u, v \in Seq(Unit) :
             /\ Len(u \o v) = Len(u) + Len(v)
             /\ Len(v) >= 1 => (u \o v)[Len(u) + Len(v)] = v[Len(v)]
      OBVIOUS
    <2> QED  BY <1>3, <1>5, <1>7, <2>1
  <1>9. wire'[c] # <<>>
    BY <1>3, <1>8
  <1> QED  BY <1>6, <1>8, <1>9 DEF Answered

\* A step that closes a connection has a cause.
LEMMA ClosingHasCause ==
    ASSUME Attentive, EInv, [Next]_vars, NEW c \in Conns,
           state[c] = "open", state'[c] = "closed"
    PROVE  Answered(wire'[c]) \/ phase = "cleanup"
  <1>1. TypeOK /\ TypeOK'
    BY ExchangeKept DEF EInv, IInv
  <1>2. Seen[c] = "open" /\ Seen'[c] = "closed"
    BY DEF Seen
  <1>3. phase # "stopped"
    <2> SUFFICES ASSUME phase = "stopped" PROVE FALSE
      OBVIOUS
    <2>1. Peers \/ (\E p \in Pids : ChildExits(p)) \/ Stopped \/ UNCHANGED vars
      BY DEF Next, Server, Iterate, Poll, PollCgi, Sweep, NewClient, Accept, AcceptFails,
         ClientData, RecvError, RecvEof, AwaitBody, Respond, Upload, StartCgi, Complete,
         DataReady, Visiting, HandlePollOut, HangUp, Sigint, Cleanup, CleanupClient,
         CleanupListeners
    <2>2. state' = state
      BY <2>1 DEF Peers, Connect, PeerSend, PeerRead, PeerGone, ChildExits, Stopped, vars,
         netVars
    <2> QED  BY <2>2
  <1>4. CASE UNCHANGED Exchange!vars
    <2>1. Seen' = Seen
      BY <1>4, Zenon DEF Exchange!vars, Seen
    <2> QED  BY <1>2, <2>1
  <1>5. CASE Exchange!Stop
    <2>1. Seen' = Seen
      BY <1>5, Zenon DEF Exchange!Stop, Seen
    <2> QED  BY <1>2, <2>1
  <1>6. ASSUME NEW d \in Conns, Exchange!Open(d) PROVE FALSE
    <2>1. Seen[d] = "new" /\ Seen' = [Seen EXCEPT ![d] = "open"]
      BY <1>6, Zenon DEF Exchange!Open, Seen
    <2>2. DOMAIN Seen = Conns
      BY DEF Seen
    <2> QED  BY <1>2, <2>1, <2>2
  <1>7. ASSUME NEW d \in Conns, Exchange!Answer(d) PROVE Answered(wire'[c])
    <2>1. \E done \in BOOLEAN : Seen' = [Seen EXCEPT ![d] = IF done THEN "closed" ELSE "open"]
      BY <1>7, Zenon DEF Exchange!Answer, Seen
    <2>2. DOMAIN Seen = Conns
      BY DEF Seen
    <2>3. c = d
      BY <1>2, <2>1, <2>2
    <2> QED  BY <1>1, <1>2, <1>7, <2>3, EndedIsFinished
  <1>8. ASSUME NEW d \in Conns, Exchange!CutShort(d) PROVE phase = "cleanup"
    BY <1>3, <1>8 DEF Exchange!CutShort
  <1> QED  BY <1>4, <1>5, <1>6, <1>7, <1>8, StepImplements DEF Exchange!Next

LEMMA TrackedBothWays == EInv => EveryCgiTracked
  <1> SUFFICES ASSUME EInv PROVE EveryCgiTracked
    OBVIOUS
  <1>1. TypeOK /\ TrackedCgiIsOpen /\ LeadsBack /\ None \notin Pids
    BY DescriptorAssumption DEF EInv, IInv, XInv
  <1>2. pipes \subseteq Pids
    BY <1>1 DEF TypeOK
  <1>3. pipes = {cgiProcesses[fd] : fd \in Fds} \ {None}
    BY <1>1, <1>2 DEF TrackedCgiIsOpen, LeadsBack
  <1>4. \A p \in Pids, fd \in Fds : cgiProcesses[fd] = p <=> pidToClientFd[p] = fd
    BY <1>1 DEF TrackedCgiIsOpen, LeadsBack
  <1> QED  BY <1>3, <1>4 DEF EveryCgiTracked

-----------------------------------------------------------------------------
(* The theorems *)

\* For attentive peers no child of a CGI request is ever left behind: the
\* children whose pipes the server holds open are those of _cgiProcesses, and
\* both maps say the same (handleClientData, HandleCGI::execute, finalizeCGI,
\* closeClient).
THEOREM NoChildIsLost ==
    ASSUME Attentive PROVE Spec => []EveryCgiTracked
  <1> QED  BY InitExchange, ExchangeKept, TrackedBothWays, PTL DEF Spec

\* When pollCGIProcesses() has run, no child that still runs is over its time,
\* however many there are and whatever else the loop has to do.
THEOREM NoChildOverstays ==
    ASSUME Attentive PROVE Spec => []CgiDeadline
  <1>1. EInv => CgiDeadline
    BY DEF EInv, XInv, Ages, CgiDeadline
  <1> QED  BY InitExchange, ExchangeKept, <1>1, PTL DEF Spec

\* A connection is sent nothing of the answer to another one's request, with CGI
\* scripts too, where the timeout of a script ends before those of its client:
\* then a client is never closed while its child runs, and its descriptor never
\* goes to another one whom the output would reach (closeClient, finalizeCGI).
THEOREM EverybodyGetsHisOwn ==
    ASSUME Attentive PROVE Spec => []OwnResponse
  <1>1. EInv => OwnResponse
    BY DEF EInv, XInv
  <1> QED  BY InitExchange, ExchangeKept, <1>1, PTL DEF Spec

\* A connection of such a peer is closed only with its response out, to the last
\* unit, or by cleanup(): no handler and no timeout takes it away before
\* (handlePollOut, closeClient, the timeout sweep).
THEOREM NobodyClosedWithoutCause ==
    ASSUME Attentive PROVE Spec => ClosedForCause
  <1>1. EInv /\ [Next]_vars =>
           [\A c \in Conns : (state[c] = "open" /\ state'[c] = "closed")
               => Answered(wire'[c]) \/ peer[c] = "rst" \/ phase = "cleanup"]_vars
    BY ClosingHasCause
  <1> QED  BY InitExchange, ExchangeKept, <1>1, PTL DEF Spec, ClosedForCause

\* What the loop does for such peers, with all its descriptors, buffers, children
\* and timeouts, is the exchange of HttpExchange: each is sent the units of one
\* response, his own, in order, without a gap or a unit twice, and is closed with
\* the last one.
THEOREM LoopIsExchange ==
    ASSUME Attentive PROVE Spec => Exchange!Spec
  <1>1. EInv /\ [Next]_vars => [Exchange!Next]_Exchange!vars
    BY StepImplements
  <1> QED  BY InitExchange, ExchangeKept, InitImplements, <1>1, PTL DEF Spec, Exchange!Spec
=============================================================================
