-------------------------- MODULE EventLoopProofs --------------------------
(***************************************************************************)
(* Proofs about the event loop, for any number of listeners, descriptors,  *)
(* connections and children, any limits and any behaviour of the peers.    *)
(***************************************************************************)
EXTENDS EventLoop, SequenceTheorems, FiniteSetTheorems, TLAPS

-----------------------------------------------------------------------------
(* The strengthening: what the handlers rely on besides the tables *)

\* The scan stands on an entry of fds, for a test whose bit is set there.
Scanning ==
    phase = "scan" => /\ at[1] \in DOMAIN fds
                      /\ at[2] \in 1..3
                      /\ Tests[at[2]] \in fds[at[1]].revents

\* A listener is only ever reported readable.
ListenersOnlyRead ==
    \A i \in DOMAIN fds : fds[i].fd \in Listeners => fds[i].revents \subseteq {"IN"}

\* A peer sends no more than its request and one segment after it.
RequestsBounded ==
    \A c \in Conns : /\ inbox[c] <= sent[c]
                     /\ sent[c] <= need[c] + 1
                     /\ state[c] = "new" => sent[c] = 0

\* Children and responses are owed to connections that were accepted.
Accepted(c) == c \in Conns /\ state[c] \in {"open", "closed"}

OwedToAccepted ==
    \A fd \in Fds :
        /\ cgiProcesses[fd] # None => /\ Accepted(asker[cgiProcesses[fd]])
                                      /\ child[cgiProcesses[fd]] # "unborn"
        /\ sendBuffers[fd] # None => Accepted(sendBuffers[fd].owner)

IInv == TypeOK /\ TablesAgree /\ Scanning /\ ListenersOnlyRead
               /\ RequestsBounded /\ OwedToAccepted

-----------------------------------------------------------------------------
(* Lemmas on the operators of the model *)

\* A function on 1..n is a sequence of length n.
LEMMA FunctionIsSeq ==
    ASSUME NEW S, NEW n \in Nat, NEW f \in [1..n -> S]
    PROVE  f \in Seq(S) /\ Len(f) = n
  BY SeqDef, LenProperties

\* RemoveAt drops one entry and shifts the ones behind it.
LEMMA RemoveAtShifts ==
    ASSUME NEW S, NEW s \in Seq(S), NEW i \in 1..Len(s)
    PROVE  /\ RemoveAt(s, i) \in Seq(S)
           /\ Len(RemoveAt(s, i)) = Len(s) - 1
           /\ \A j \in 1..Len(s) - 1 :
                 RemoveAt(s, i)[j] = IF j < i THEN s[j] ELSE s[j + 1]
  <1> DEFINE front == SubSeq(s, 1, i - 1)
             back  == SubSeq(s, i + 1, Len(s))
  <1>1. front \in Seq(S) /\ Len(front) = i - 1
        /\ \A j \in 1..i - 1 : front[j] = s[j]
    OBVIOUS
  <1>2. back \in Seq(S) /\ Len(back) = Len(s) - i
        /\ \A j \in 1..Len(s) - i : back[j] = s[i + j]
    OBVIOUS
  <1> HIDE DEF front, back
  <1>3. RemoveAt(s, i) = front \o back
    BY DEF RemoveAt, front, back
  <1>4. /\ front \o back \in Seq(S)
        /\ Len(front \o back) = Len(s) - 1
        /\ \A j \in 1..Len(s) - 1 :
              (front \o back)[j] = IF j <= i - 1 THEN front[j] ELSE back[j - (i - 1)]
    BY <1>1, <1>2, ConcatProperties
  <1>5. ASSUME NEW j \in 1..Len(s) - 1
        PROVE  (front \o back)[j] = IF j < i THEN s[j] ELSE s[j + 1]
    <2>1. CASE j < i
      BY <1>1, <1>4, <2>1
    <2>2. CASE ~(j < i)
      <3>1. j - (i - 1) \in 1..Len(s) - i /\ i + (j - (i - 1)) = j + 1
        BY <2>2
      <3> QED  BY <1>2, <1>4, <2>2, <3>1
    <2> QED  BY <2>1, <2>2
  <1> QED  BY <1>3, <1>4, <1>5

\* Resume leaves the scan on an entry whose bit is set, or at its end.
LEMMA ResumeFinds ==
    ASSUME NEW j, NEW t, Resume(j, t), fds' \in Seq(PollFd), j \in Nat, t \in 0..3
    PROVE  /\ phase' \in {"scan", "sweep"}
           /\ at' \in Nat \X (0..3)
           /\ Scanning'
  BY DEF Resume, Ahead, Scanning, Tests

\* Arm adds POLLOUT and changes neither descriptors nor reports.
LEMMA ArmKeeps ==
    ASSUME NEW fs \in Seq(PollFd), NEW targets
    PROVE  /\ Arm(fs, targets) \in Seq(PollFd)
           /\ DOMAIN Arm(fs, targets) = DOMAIN fs
           /\ Len(Arm(fs, targets)) = Len(fs)
           /\ \A i \in DOMAIN fs :
                 /\ Arm(fs, targets)[i].fd = fs[i].fd
                 /\ Arm(fs, targets)[i].revents = fs[i].revents
  <1> DEFINE armed == Arm(fs, targets)
  <1>1. ASSUME NEW i \in DOMAIN fs
        PROVE  /\ armed[i].fd = fs[i].fd
               /\ armed[i].revents = fs[i].revents
               /\ armed[i] \in PollFd
    <2>1. fs[i] \in PollFd
      OBVIOUS
    <2>2. armed[i] = IF fs[i].fd \in targets
                     THEN [fs[i] EXCEPT !.events = @ \cup {"OUT"}] ELSE fs[i]
      BY DEF Arm
    <2> QED  BY <2>1, <2>2 DEF PollFd, Events
  <1>2. DOMAIN armed = 1..Len(fs) /\ DOMAIN fs = 1..Len(fs) /\ Len(fs) \in Nat
    BY DEF Arm
  <1>3. armed = [i \in 1..Len(fs) |-> armed[i]]
    BY <1>2 DEF Arm
  <1>4. armed \in [1..Len(fs) -> PollFd]
    <2> HIDE DEF armed
    <2> QED  BY <1>1, <1>2, <1>3
  <1>5. armed \in Seq(PollFd) /\ Len(armed) = Len(fs)
    BY <1>2, <1>4, FunctionIsSeq
  <1>6. /\ armed \in Seq(PollFd) /\ DOMAIN armed = DOMAIN fs /\ Len(armed) = Len(fs)
        /\ \A i \in DOMAIN fs :
              /\ armed[i].fd = fs[i].fd
              /\ armed[i].revents = fs[i].revents
    <2> HIDE DEF armed
    <2> QED  BY <1>1, <1>2, <1>5
  <1> QED  BY <1>6

\* When a handler returns, the control point is well-formed again.
LEMMA ReturnFinds ==
    ASSUME TypeOK, Return, fds' \in Seq(PollFd)
    PROVE  /\ phase' \in {"scan", "sweep"}
           /\ at' \in Nat \X (0..3)
           /\ due' \in SUBSET Fds
           /\ Scanning'
  <1>1. at[1] \in Nat /\ at[2] \in 0..3 /\ Resume(at[1], at[2])
    BY DEF TypeOK, Return
  <1>2. due' \in SUBSET Fds
    BY DEF TypeOK, Return
  <1> QED  BY <1>1, <1>2, ResumeFinds

\* The entries of a poll table.
LEMMA SlotsTyped ==
    ASSUME NEW fs \in Seq(PollFd)
    PROVE  /\ Len(fs) \in Nat /\ DOMAIN fs = 1..Len(fs)
           /\ \A j \in DOMAIN fs : /\ fs[j] \in PollFd
                                   /\ fs[j].fd \in Fds
                                   /\ fs[j].events \in SUBSET Events
                                   /\ fs[j].revents \in SUBSET Readiness
  <1>1. \A j \in DOMAIN fs : fs[j] \in PollFd
    OBVIOUS
  <1> QED  BY <1>1 DEF PollFd

\* closeClient() keeps the tables typed and in agreement.
LEMMA CloseClientKeeps ==
    ASSUME TypeOK, TablesAgree, NEW i \in DOMAIN fds, CloseClient(i), via' = via
    PROVE  /\ state' \in [Conns -> {"new", "backlog", "open", "closed"}]
           /\ sock' \in [Fds -> Conns \cup {None}]
           /\ fds' \in Seq(PollFd)
           /\ clientSockets' \in SUBSET ClientFds
           /\ clients' \in [Fds -> ClientState \cup {None}]
           /\ clientToListenSocket' \in [Fds -> Listeners \cup {None}]
           /\ clientToVirtualServer' \in [Fds -> Listeners \cup {None}]
           /\ sendBuffers' \in [Fds -> Response \cup {None}]
           /\ closeAfterSend' \in [Fds -> BOOLEAN]
           /\ TablesAgree'
  <1> DEFINE fd == fds[i].fd
  <1>1. /\ DOMAIN fds = 1..Len(fds) /\ Len(fds) \in Nat
        /\ \A j \in DOMAIN fds : fds[j] \in PollFd /\ fds[j].fd \in Fds
        /\ fd \in Fds
    BY SlotsTyped DEF TypeOK
  <1>2. /\ state' = [c \in Conns |-> IF sock[fd] = c THEN "closed" ELSE state[c]]
        /\ sock' = [sock EXCEPT ![fd] = None]
        /\ clientSockets' = clientSockets \ {fd}
        /\ clientToVirtualServer' = [clientToVirtualServer EXCEPT ![fd] = None]
        /\ clientToListenSocket' = [clientToListenSocket EXCEPT ![fd] = None]
        /\ clients' = [clients EXCEPT ![fd] = None]
        /\ sendBuffers' = [sendBuffers EXCEPT ![fd] = None]
        /\ closeAfterSend' = [closeAfterSend EXCEPT ![fd] = FALSE]
        /\ fds' = RemoveAt(fds, i)
    BY DEF CloseClient
  <1>3. /\ fds' \in Seq(PollFd) /\ Len(fds') = Len(fds) - 1
        /\ DOMAIN fds' = 1..Len(fds) - 1
        /\ \A j \in DOMAIN fds' : fds'[j] = IF j < i THEN fds[j] ELSE fds[j + 1]
    <2>1. fds \in Seq(PollFd) /\ i \in 1..Len(fds)
      BY <1>1 DEF TypeOK
    <2>2. /\ RemoveAt(fds, i) \in Seq(PollFd)
          /\ Len(RemoveAt(fds, i)) = Len(fds) - 1
          /\ \A j \in 1..Len(fds) - 1 :
                RemoveAt(fds, i)[j] = IF j < i THEN fds[j] ELSE fds[j + 1]
      BY <2>1, RemoveAtShifts
    <2>3. DOMAIN RemoveAt(fds, i) = 1..Len(fds) - 1
      BY <2>2, SlotsTyped
    <2> QED  BY <1>2, <2>2, <2>3
  <1>4. \A g \in Fds : /\ sock'[g] = IF g = fd THEN None ELSE sock[g]
                       /\ clients'[g] = IF g = fd THEN None ELSE clients[g]
                       /\ clientToListenSocket'[g] =
                             IF g = fd THEN None ELSE clientToListenSocket[g]
    <2>1. DOMAIN sock = Fds /\ DOMAIN clients = Fds /\ DOMAIN clientToListenSocket = Fds
      BY DEF TypeOK
    <2> HIDE DEF fd
    <2> QED  BY <1>1, <1>2, <2>1
  <1> HIDE DEF fd
  <1>5. DistinctSlots'
    <2>1. \A j, k \in DOMAIN fds : fds[j].fd = fds[k].fd => j = k
      BY DEF TablesAgree, DistinctSlots, Slots
    <2> SUFFICES ASSUME NEW j \in DOMAIN fds', NEW k \in DOMAIN fds',
                        fds'[j].fd = fds'[k].fd
                 PROVE  j = k
      BY DEF DistinctSlots, Slots
    <2>2. /\ j \in DOMAIN fds /\ j + 1 \in DOMAIN fds
          /\ k \in DOMAIN fds /\ k + 1 \in DOMAIN fds
      BY <1>1, <1>3
    <2>3. /\ j < i => fds'[j] = fds[j]
          /\ ~(j < i) => fds'[j] = fds[j + 1]
          /\ k < i => fds'[k] = fds[k]
          /\ ~(k < i) => fds'[k] = fds[k + 1]
      BY <1>3
    <2> QED  BY <1>1, <1>3, <2>1, <2>2, <2>3
  <1>6. ServedIsWatched'
    <2> SUFFICES ASSUME NEW g \in ClientFds
                 PROVE  g \in clientSockets' <=> \E j \in DOMAIN fds' : fds'[j].fd = g
      BY DEF ServedIsWatched, Slots
    <2>1. CASE g = fd
      <3>1. \A j \in DOMAIN fds' : fds'[j].fd # fd
        BY <1>1, <1>3 DEF TablesAgree, DistinctSlots, Slots, fd
      <3> QED  BY <1>2, <2>1, <3>1
    <2>2. CASE g # fd
      <3>1. g \in clientSockets' <=> \E j \in DOMAIN fds : fds[j].fd = g
        BY <1>2, <2>2 DEF TablesAgree, ServedIsWatched, Slots
      <3>2. ASSUME NEW j \in DOMAIN fds, fds[j].fd = g
            PROVE  \E k \in DOMAIN fds' : fds'[k].fd = g
        <4>1. j # i
          BY <2>2, <3>2 DEF fd
        <4>2. CASE j < i
          <5>1. j \in DOMAIN fds' /\ fds'[j] = fds[j]
            BY <1>1, <1>3, <4>2
          <5> QED  BY <3>2, <5>1
        <4>3. CASE j > i
          <5>1. j - 1 \in DOMAIN fds' /\ fds'[j - 1] = fds[j]
            BY <1>1, <1>3, <4>3
          <5> QED  BY <3>2, <5>1
        <4> QED  BY <1>1, <4>1, <4>2, <4>3
      <3>3. ASSUME NEW k \in DOMAIN fds', fds'[k].fd = g
            PROVE  \E j \in DOMAIN fds : fds[j].fd = g
        <4>1. /\ k \in DOMAIN fds /\ k + 1 \in DOMAIN fds
              /\ fds'[k] = fds[k] \/ fds'[k] = fds[k + 1]
          BY <1>1, <1>3
        <4> QED  BY <3>3, <4>1
      <3> QED  BY <3>1, <3>2, <3>3
    <2> QED  BY <2>1, <2>2
  <1>7. ServedIsKnown'
    BY <1>2, <1>4 DEF TablesAgree, ServedIsKnown
  <1>8. OpenIsServed'
    <2>1. \A g \in clientSockets' : /\ g \in clientSockets /\ g # fd /\ g \in Fds
                                    /\ sock'[g] = sock[g] /\ sock[g] \in Conns
                                    /\ clientToListenSocket'[g] = clientToListenSocket[g]
      BY <1>2, <1>4 DEF TypeOK, TablesAgree, ServedIsKnown, Fds
    <2>2. \A g \in clientSockets' : sock[g] # sock[fd] \/ sock[fd] = None
      BY <1>1, <2>1 DEF TablesAgree, ServedIsKnown, OpenIsServed
    <2>3. \A g \in clientSockets' : state'[sock'[g]] = "open"
      BY <1>2, <2>1, <2>2, DescriptorAssumption DEF TablesAgree, OpenIsServed
    <2>4. ASSUME NEW c \in Conns, state'[c] = "open"
          PROVE  \E g \in clientSockets' : sock'[g] = c
      <3>1. sock[fd] # c /\ state[c] = "open"
        BY <1>2, <2>4
      <3>2. PICK g \in clientSockets : sock[g] = c
        BY <3>1 DEF TablesAgree, OpenIsServed
      <3>3. g # fd /\ g \in Fds
        BY <3>1, <3>2 DEF TypeOK, Fds
      <3> QED  BY <1>2, <1>4, <3>2, <3>3
    <2> QED  BY <2>1, <2>3, <2>4 DEF OpenIsServed, TablesAgree
  <1>9. TablesAgree'
    BY <1>5, <1>6, <1>7, <1>8 DEF TablesAgree
  <1> QED  BY <1>1, <1>2, <1>3, <1>9 DEF TypeOK

-----------------------------------------------------------------------------
(* Type correctness *)

\* Init establishes the types and the strengthening.
LEMMA InitIInv == Init => IInv
  <1> SUFFICES ASSUME Init PROVE IInv
    OBVIOUS
  <1>1. PICK order \in SetToSeqs(Listeners) :
           fds = [i \in DOMAIN order |-> Watch(order[i], {})]
    BY DEF Init
  <1> DEFINE n == Cardinality(Listeners)
  <1>2. n \in Nat
    BY DescriptorAssumption, FS_CardinalityType
  <1>3. /\ order \in [1..n -> Listeners]
        /\ \A i, j \in 1..n : i # j => order[i] # order[j]
    BY DEF SetToSeqs
  <1> HIDE DEF n
  <1>4. /\ DOMAIN fds = 1..n
        /\ \A i \in 1..n : /\ fds[i] = [fd |-> order[i], events |-> {"IN"}, revents |-> {}]
                           /\ order[i] \in Listeners
    BY <1>1, <1>3 DEF Watch
  <1>5. fds \in [1..n -> PollFd]
    <2>1. \A i \in 1..n : fds[i] \in PollFd
      BY <1>4 DEF PollFd, Events, Readiness, Fds
    <2>2. fds = [i \in 1..n |-> fds[i]]
      BY <1>1, <1>3
    <2> QED  BY <2>1, <2>2
  <1>6. fds \in Seq(PollFd)
    BY <1>2, <1>5, FunctionIsSeq
  <1>7. TypeOK
    BY <1>6, BoundAssumption DEF Init, TypeOK
  <1>8. TablesAgree
    <2>1. DistinctSlots
      BY <1>3, <1>4 DEF DistinctSlots, Slots
    <2>2. ServedIsWatched
      BY <1>4, DescriptorAssumption DEF Init, ServedIsWatched, Slots
    <2>3. ServedIsKnown
      BY DEF Init, ServedIsKnown
    <2>4. OpenIsServed
      BY DEF Init, OpenIsServed
    <2> QED  BY <2>1, <2>2, <2>3, <2>4 DEF TablesAgree
  <1>9. Scanning
    BY DEF Init, Scanning
  <1>10. ListenersOnlyRead
    BY <1>4 DEF ListenersOnlyRead
  <1>11. RequestsBounded
    BY DEF Init, RequestsBounded
  <1>12. OwedToAccepted
    BY DEF Init, OwedToAccepted
  <1> QED  BY <1>7, <1>8, <1>9, <1>10, <1>11, <1>12 DEF IInv

-----------------------------------------------------------------------------
(* Every step keeps the strengthening *)

\* A step that leaves descriptors, connections and listeners alone keeps the
\* tables in agreement.
LEMMA TablesFrame ==
    ASSUME TablesAgree,
           UNCHANGED <<state, via, sock, clientSockets, clientToListenSocket>>,
           DOMAIN fds' = DOMAIN fds,
           \A i \in DOMAIN fds : fds'[i].fd = fds[i].fd,
           \A fd \in Fds : clients'[fd] = None <=> clients[fd] = None
    PROVE  TablesAgree'
  BY DEF TablesAgree, DistinctSlots, ServedIsWatched, ServedIsKnown, OpenIsServed, Slots

\* The steps of the environment.
LEMMA PeersKeep == IInv /\ Peers => IInv'
  <1> SUFFICES ASSUME IInv, Peers PROVE IInv'
    OBVIOUS
  <1> USE DEF IInv
  <1>1. ASSUME NEW c \in Conns, Connect(c) PROVE IInv'
    <2>1. TypeOK'
      BY <1>1, BoundAssumption, SMTT(30) DEF Connect, TypeOK, childVars, tableVars, cgiVars, ctlVars
    <2>2. /\ \A d \in Conns : state'[d] = IF d = c THEN "backlog" ELSE state[d]
          /\ \A d \in Conns \ {c} : via'[d] = via[d] /\ need'[d] = need[d]
          /\ state[c] = "new"
      BY <1>1 DEF Connect, TypeOK
    <2>3. TablesAgree'
      <3>1. UNCHANGED <<fds, sock, clientSockets, clientToListenSocket, clients>>
        BY <1>1 DEF Connect, tableVars
      <3>2. \A fd \in clientSockets : sock[fd] \in Conns \ {c}
        BY <2>2 DEF TypeOK, TablesAgree, ServedIsKnown, OpenIsServed, Fds
      <3>3. OpenIsServed'
        BY <2>2, <3>1, <3>2 DEF TablesAgree, OpenIsServed
      <3> QED  BY <3>1, <3>3 DEF TablesAgree, DistinctSlots, ServedIsWatched, ServedIsKnown, Slots
    <2>4. Scanning' /\ ListenersOnlyRead'
      BY <1>1 DEF Connect, ctlVars, Scanning, ListenersOnlyRead
    <2>5. RequestsBounded'
      <3>1. need'[c] \in Nat /\ sent' = sent /\ inbox' = inbox
        BY <1>1, <2>1 DEF Connect, TypeOK
      <3>2. sent[c] = 0 /\ inbox[c] \in Nat
        BY <2>2 DEF RequestsBounded, TypeOK
      <3> QED  BY <2>2, <3>1, <3>2 DEF RequestsBounded
    <2>6. OwedToAccepted'
      BY <1>1, <2>2 DEF Connect, childVars, tableVars, cgiVars, OwedToAccepted, Accepted
    <2> QED  BY <2>1, <2>3, <2>4, <2>5, <2>6
  <1>2. ASSUME NEW c \in Conns, PeerSend(c) PROVE IInv'
    <2>1. /\ UNCHANGED <<state, via, peer, need, room, wire, sock, childVars, fds,
                         tableVars, cgiVars, ctlVars>>
          /\ \A d \in Conns : /\ sent'[d] = IF d = c THEN sent[d] + 1 ELSE sent[d]
                              /\ inbox'[d] = IF d = c THEN inbox[d] + 1 ELSE inbox[d]
          /\ state[c] # "new" /\ sent[c] <= need[c]
      BY <1>2 DEF PeerSend, TypeOK
    <2>2. RequestsBounded'
      BY <2>1, SMTT(30) DEF RequestsBounded, TypeOK
    <2>3. \A d \in Conns : sent'[d] \in 0..MaxSegs + 1 /\ inbox'[d] \in 0..MaxSegs + 1
      <3> SUFFICES ASSUME NEW d \in Conns
                   PROVE  sent'[d] \in 0..MaxSegs + 1 /\ inbox'[d] \in 0..MaxSegs + 1
        OBVIOUS
      <3>1. /\ need[d] \in 1..MaxSegs /\ sent[d] \in Nat /\ inbox[d] \in Nat
            /\ MaxSegs \in Nat
        BY BoundAssumption DEF TypeOK
      <3>2. inbox'[d] <= sent'[d] /\ sent'[d] <= need[d] + 1
        BY <2>1, <2>2 DEF RequestsBounded
      <3> QED  BY <2>1, <3>1, <3>2
    <2>4. TypeOK'
      BY <1>2, <2>1, <2>3 DEF PeerSend, TypeOK, childVars, tableVars, cgiVars, ctlVars
    <2>5. TablesAgree' /\ Scanning' /\ ListenersOnlyRead' /\ OwedToAccepted'
      BY <2>1 DEF childVars, tableVars, cgiVars, ctlVars, TablesAgree, DistinctSlots,
         ServedIsWatched, ServedIsKnown, OpenIsServed, Slots, Scanning,
         ListenersOnlyRead, OwedToAccepted, Accepted
    <2> QED  BY <2>2, <2>4, <2>5
  <1>3. ASSUME NEW c \in Conns, PeerRead(c) PROVE IInv'
    <2>1. /\ UNCHANGED <<state, via, peer, need, sent, inbox, wire, sock, childVars,
                         fds, tableVars, cgiVars, ctlVars>>
          /\ room' \in [Conns -> 0..SndBuf]
      BY <1>3, BoundAssumption DEF PeerRead, TypeOK
    <2> QED  BY <2>1, SMTT(30) DEF TypeOK, childVars, tableVars, cgiVars, ctlVars, TablesAgree,
         DistinctSlots, ServedIsWatched, ServedIsKnown, OpenIsServed, Slots, Scanning,
         ListenersOnlyRead, OwedToAccepted, Accepted, RequestsBounded
  <1>4. ASSUME NEW c \in Conns, NEW how \in {"fin", "reset"}, PeerGone(c, how) PROVE IInv'
    <2>1. /\ UNCHANGED <<state, via, need, sent, inbox, room, wire, sock, childVars,
                         fds, tableVars, cgiVars, ctlVars>>
          /\ peer' \in [Conns -> {"up", "fin", "rst"}]
      BY <1>4 DEF PeerGone, TypeOK
    <2> QED  BY <2>1, SMTT(30) DEF TypeOK, childVars, tableVars, cgiVars, ctlVars, TablesAgree,
         DistinctSlots, ServedIsWatched, ServedIsKnown, OpenIsServed, Slots, Scanning,
         ListenersOnlyRead, OwedToAccepted, Accepted, RequestsBounded
  <1> QED  BY <1>1, <1>2, <1>3, <1>4 DEF Peers

\* The end of a CGI program.
LEMMA ChildExitsKeeps == ASSUME IInv, NEW p \in Pids, ChildExits(p) PROVE IInv'
  <1> USE DEF IInv
  <1>1. /\ UNCHANGED <<netVars, age, asker, pipes, fds, tableVars, cgiVars, ctlVars>>
        /\ child' \in [Pids -> {"unborn", "running", "exited"}]
        /\ \A q \in Pids : child[q] # "unborn" => child'[q] # "unborn"
    BY DEF ChildExits, TypeOK
  <1>2. OwedToAccepted'
    <2>1. \A fd \in Fds : cgiProcesses[fd] # None => cgiProcesses[fd] \in Pids
      BY DEF TypeOK
    <2> QED  BY <1>1, <2>1 DEF netVars, tableVars, cgiVars, OwedToAccepted, Accepted
  <1> QED  BY <1>1, <1>2 DEF TypeOK, netVars, childVars, tableVars, cgiVars, ctlVars,
       TablesAgree, DistinctSlots, ServedIsWatched, ServedIsKnown, OpenIsServed, Slots,
       Scanning, ListenersOnlyRead, RequestsBounded

\* A step that changes nothing.
LEMMA StutterKeeps == IInv /\ UNCHANGED vars => IInv'
  BY DEF IInv, vars, TypeOK, netVars, childVars, tableVars, cgiVars, ctlVars,
     TablesAgree, DistinctSlots, ServedIsWatched, ServedIsKnown, OpenIsServed, Slots,
     Scanning, ListenersOnlyRead, RequestsBounded, OwedToAccepted, Accepted

\* queueResponse() adds POLLOUT to entries and touches no other table.
LEMMA QueueKeeps ==
    ASSUME TypeOK, ListenersOnlyRead, NEW answers, QueueResponse(answers),
           \A fd \in DOMAIN answers : answers[fd] \in Response
    PROVE  /\ fds' \in Seq(PollFd) /\ DOMAIN fds' = DOMAIN fds /\ Len(fds') = Len(fds)
           /\ \A i \in DOMAIN fds : /\ fds'[i].fd = fds[i].fd
                                    /\ fds'[i].revents = fds[i].revents
           /\ sendBuffers' \in [Fds -> Response \cup {None}]
           /\ closeAfterSend' \in [Fds -> BOOLEAN]
           /\ \A fd \in Fds : sendBuffers'[fd] = IF fd \in DOMAIN answers
                                                 THEN answers[fd] ELSE sendBuffers[fd]
           /\ ListenersOnlyRead'
  <1>1. fds \in Seq(PollFd)
    BY DEF TypeOK
  <1>2. fds' = Arm(fds, DOMAIN answers)
    BY DEF QueueResponse
  <1>3. /\ fds' \in Seq(PollFd) /\ DOMAIN fds' = DOMAIN fds /\ Len(fds') = Len(fds)
        /\ \A i \in DOMAIN fds : /\ fds'[i].fd = fds[i].fd
                                 /\ fds'[i].revents = fds[i].revents
    BY <1>1, <1>2, ArmKeeps
  <1>4. ListenersOnlyRead'
    BY <1>3 DEF ListenersOnlyRead
  <1>5. /\ sendBuffers \in [Fds -> Response \cup {None}]
        /\ closeAfterSend \in [Fds -> BOOLEAN]
    BY DEF TypeOK
  <1>6. \A fd \in Fds : sendBuffers'[fd] = IF fd \in DOMAIN answers
                                            THEN answers[fd] ELSE sendBuffers[fd]
    BY DEF QueueResponse
  <1>7. sendBuffers' \in [Fds -> Response \cup {None}]
    <2>1. \A fd \in Fds : sendBuffers'[fd] \in Response \cup {None}
      BY <1>5, <1>6
    <2>2. sendBuffers' = [fd \in Fds |-> sendBuffers'[fd]]
      BY DEF QueueResponse
    <2> QED  BY <2>1, <2>2
  <1>8. closeAfterSend' \in [Fds -> BOOLEAN]
    BY <1>5 DEF QueueResponse
  <1> QED  BY <1>3, <1>4, <1>6, <1>7, <1>8

\* poll() writes the reports, the ages move.
LEMMA PollKeeps == ASSUME IInv, NEW ticks \in {0, 1}, Poll(ticks) PROVE IInv'
  <1> USE DEF IInv
  <1>1. fds \in Seq(PollFd)
    BY DEF TypeOK
  <1>2. /\ Len(fds) \in Nat /\ DOMAIN fds = 1..Len(fds)
        /\ \A i \in DOMAIN fds : fds[i] \in PollFd /\ fds[i].fd \in Fds
    BY <1>1, SlotsTyped
  <1>3. \A i \in DOMAIN fds : Reported(fds[i]) \in SUBSET Readiness
    BY DEF Reported, Readiness
  <1>4. fds' = [i \in DOMAIN fds |-> [fds[i] EXCEPT !.revents = Reported(fds[i])]]
    BY DEF Poll
  <1>5. /\ DOMAIN fds' = DOMAIN fds
        /\ \A i \in DOMAIN fds : /\ fds'[i] \in PollFd
                                 /\ fds'[i].fd = fds[i].fd
                                 /\ fds'[i].events = fds[i].events
                                 /\ fds'[i].revents = Reported(fds[i])
    BY <1>2, <1>3, <1>4 DEF PollFd
  <1>6. fds' \in Seq(PollFd)
    <2>1. fds' \in [1..Len(fds) -> PollFd]
      BY <1>2, <1>4, <1>5
    <2> QED  BY <1>2, <2>1, FunctionIsSeq
  <1>7. \A fd \in Fds : /\ clients'[fd] = IF clients[fd] = None THEN None
                                          ELSE Aged(fd, ticks)
                        /\ clients[fd] # None => Aged(fd, ticks) \in ClientState
    <2>1. \A fd \in Fds : clients'[fd] = IF clients[fd] = None THEN None
                                         ELSE Aged(fd, ticks)
      BY DEF Poll
    <2> SUFFICES ASSUME NEW fd \in Fds, clients[fd] # None
                 PROVE  Aged(fd, ticks) \in ClientState
      BY <2>1
    <2>2. clients[fd] \in ClientState
      BY DEF TypeOK
    <2> DEFINE st == clients[fd]
    <2>3. /\ st \in [buf : 0..MaxSegs, idle : 0..IdleLimit + 1, total : 0..TotalLimit + 1]
          /\ Aged(fd, ticks) = [st EXCEPT !.idle = Least(@ + ticks, IdleLimit + 1),
                                          !.total = Least(@ + ticks, TotalLimit + 1)]
      BY <2>2 DEF ClientState, Aged
    <2> HIDE DEF st
    <2>4. /\ Least(st.idle + ticks, IdleLimit + 1) \in 0..IdleLimit + 1
          /\ Least(st.total + ticks, TotalLimit + 1) \in 0..TotalLimit + 1
      BY <2>3, BoundAssumption DEF Least
    <2> QED  BY <2>3, <2>4 DEF ClientState
  <1>8. \A fd \in Fds : clients'[fd] = None <=> clients[fd] = None
    BY <1>7, NoneAssumption
  <1>9. clients' \in [Fds -> ClientState \cup {None}]
    <2>1. clients' = [fd \in Fds |-> clients'[fd]]
      BY DEF Poll
    <2>2. \A fd \in Fds : clients'[fd] \in ClientState \cup {None}
      BY <1>7
    <2> QED  BY <2>1, <2>2
  <1>10. age' \in [Pids -> 0..CgiLimit + 1]
    <2>1. age \in [Pids -> 0..CgiLimit + 1] /\ CgiLimit \in Nat
      BY BoundAssumption DEF TypeOK
    <2> QED  BY <2>1 DEF Poll, Least
  <1>11. /\ UNCHANGED <<netVars, child, asker, pipes, clientSockets,
                        clientToListenSocket, clientToVirtualServer, sendBuffers,
                        closeAfterSend, cgiVars, at>>
         /\ phase' = "cgi"
    BY DEF Poll
  <1>12. due' \in SUBSET Fds
    BY <1>1, <1>2, <1>5 DEF Poll
  <1>13. TypeOK'
    BY <1>6, <1>9, <1>10, <1>11, <1>12 DEF TypeOK, netVars, cgiVars
  <1>14. TablesAgree'
    BY <1>5, <1>8, <1>11, TablesFrame DEF netVars
  <1>15. ListenersOnlyRead'
    BY <1>5 DEF ListenersOnlyRead, Reported
  <1>16. Scanning' /\ RequestsBounded' /\ OwedToAccepted'
    BY <1>11 DEF Scanning, RequestsBounded, OwedToAccepted, Accepted, netVars, cgiVars
  <1> QED  BY <1>13, <1>14, <1>15, <1>16

\* pollCGIProcesses() queues responses for the connections that asked.
LEMMA PollCgiKeeps == ASSUME IInv, PollCgi PROVE IInv'
  <1> USE DEF IInv
  <1> DEFINE over == {fd \in Fds : Expired(fd) \/ Ended(fd)}
             gone == {cgiProcesses[fd] : fd \in over}
  <1>1. PICK units \in [over -> 0..MaxUnits] :
           QueueResponse([fd \in over |-> Reply(asker[cgiProcesses[fd]], units[fd])])
    BY DEF PollCgi
  <1>2. /\ Untrack(over)
        /\ Resume(Len(fds), 0)
        /\ child' = [p \in Pids |-> IF p \in gone THEN "exited" ELSE child[p]]
        /\ pipes' = pipes \ gone
        /\ UNCHANGED <<netVars, age, asker, clientSockets, clients,
                       clientToListenSocket, clientToVirtualServer, due>>
    BY DEF PollCgi
  <1> DEFINE answers == [fd \in over |-> Reply(asker[cgiProcesses[fd]], units[fd])]
  <1>3. \A fd \in over : cgiProcesses[fd] # None /\ fd \in Fds
    BY DEF Expired, Ended
  <1>4. \A fd \in over : /\ answers[fd] \in Response
                         /\ Accepted(answers[fd].owner)
    <2>1. \A fd \in over : /\ Accepted(asker[cgiProcesses[fd]])
                           /\ asker[cgiProcesses[fd]] \in Conns
      BY <1>3 DEF OwedToAccepted, Accepted
    <2>2. \A fd \in over : units[fd] \in 0..MaxUnits
      BY <1>1
    <2> HIDE DEF over
    <2> QED  BY <2>1, <2>2, BoundAssumption DEF Reply, Response
  <1>5. DOMAIN answers = over
    OBVIOUS
  <1> HIDE DEF over, answers, gone
  <1>6. QueueResponse(answers)
    BY <1>1 DEF answers
  <1>7. /\ fds' \in Seq(PollFd) /\ DOMAIN fds' = DOMAIN fds
        /\ \A i \in DOMAIN fds : fds'[i].fd = fds[i].fd
        /\ sendBuffers' \in [Fds -> Response \cup {None}]
        /\ closeAfterSend' \in [Fds -> BOOLEAN]
        /\ \A fd \in Fds : sendBuffers'[fd] = IF fd \in over
                                              THEN answers[fd] ELSE sendBuffers[fd]
        /\ ListenersOnlyRead'
    BY <1>4, <1>5, <1>6, QueueKeeps
  <1>8. /\ phase' \in {"scan", "sweep"} /\ at' \in Nat \X (0..3) /\ Scanning'
    <2>1. Len(fds) \in Nat
      BY SlotsTyped DEF TypeOK
    <2> QED  BY <1>2, <1>7, <2>1, ResumeFinds
  <1>9. /\ cgiProcesses' \in [Fds -> Pids \cup {None}]
        /\ pidToClientFd' \in [Pids -> Fds \cup {None}]
        /\ \A fd \in Fds : cgiProcesses'[fd] \in {None, cgiProcesses[fd]}
    <2>1. cgiProcesses \in [Fds -> Pids \cup {None}] /\ pidToClientFd \in [Pids -> Fds \cup {None}]
      BY DEF TypeOK
    <2> QED  BY <1>2, <2>1 DEF Untrack
  <1>10. /\ child' \in [Pids -> {"unborn", "running", "exited"}]
         /\ pipes' \in SUBSET Pids
         /\ \A p \in Pids : child[p] # "unborn" => child'[p] # "unborn"
    <2>1. child \in [Pids -> {"unborn", "running", "exited"}] /\ pipes \in SUBSET Pids
      BY DEF TypeOK
    <2> QED  BY <1>2, <2>1
  <1>11. TypeOK'
    BY <1>2, <1>7, <1>8, <1>9, <1>10 DEF TypeOK, netVars
  <1>12. TablesAgree'
    BY <1>2, <1>7, TablesFrame DEF netVars
  <1>13. RequestsBounded'
    BY <1>2 DEF netVars, RequestsBounded
  <1>14. OwedToAccepted'
    <2>1. \A fd \in Fds : cgiProcesses[fd] # None => cgiProcesses[fd] \in Pids
      BY DEF TypeOK
    <2>2. asker' = asker /\ state' = state
      BY <1>2 DEF netVars
    <2>3. ASSUME NEW fd \in Fds, cgiProcesses'[fd] # None
          PROVE  /\ Accepted(asker[cgiProcesses'[fd]])
                 /\ child'[cgiProcesses'[fd]] # "unborn"
      BY <1>9, <1>10, <2>1, <2>3 DEF OwedToAccepted
    <2>4. ASSUME NEW fd \in Fds, sendBuffers'[fd] # None
          PROVE  Accepted(sendBuffers'[fd].owner)
      BY <1>4, <1>7, <2>4 DEF OwedToAccepted
    <2> QED  BY <2>2, <2>3, <2>4 DEF OwedToAccepted, Accepted
  <1> QED  BY <1>7, <1>8, <1>11, <1>12, <1>13, <1>14

\* Where a handler finds itself: on an entry of fds, and, if that is a client,
\* on one with an open connection.
LEMMA HereTyped ==
    ASSUME IInv, phase = "scan"
    PROVE  /\ at[1] \in DOMAIN fds /\ at[2] \in 1..3 /\ at \in Nat \X (0..3)
           /\ Here \in Fds
           /\ Tests[at[2]] \in fds[at[1]].revents
           /\ Here \in Listeners => Tests[at[2]] = "IN"
           /\ Here \in ClientFds => /\ Here \in clientSockets
                                    /\ Caller \in Conns
                                    /\ state[Caller] = "open"
                                    /\ clients[Here] \in ClientState
  <1> USE DEF IInv
  <1>1. at[1] \in DOMAIN fds /\ at[2] \in 1..3 /\ Tests[at[2]] \in fds[at[1]].revents
    BY DEF Scanning
  <1>2. fds \in Seq(PollFd) /\ at \in Nat \X (0..3)
    BY DEF TypeOK
  <1>3. Here \in Fds
    BY <1>1, <1>2, SlotsTyped DEF Here
  <1>4. Here \in Listeners => Tests[at[2]] = "IN"
    BY <1>1 DEF ListenersOnlyRead, Here
  <1>5. ASSUME Here \in ClientFds
        PROVE  /\ Here \in clientSockets
               /\ Caller \in Conns
               /\ state[Caller] = "open"
               /\ clients[Here] \in ClientState
    <2>1. Here \in clientSockets
      BY <1>1, <1>5 DEF TablesAgree, ServedIsWatched, Slots, Here
    <2>2. Caller # None /\ state[Caller] = "open" /\ clients[Here] # None
      BY <1>3, <2>1 DEF TablesAgree, ServedIsKnown, OpenIsServed, Caller
    <2>3. sock \in [Fds -> Conns \cup {None}] /\ clients \in [Fds -> ClientState \cup {None}]
      BY DEF TypeOK
    <2> QED  BY <1>3, <2>1, <2>2, <2>3 DEF Caller
  <1> QED  BY <1>1, <1>2, <1>3, <1>4, <1>5

\* A step that closes one client and leaves the children alone.
LEMMA CloseKeeps ==
    ASSUME IInv, NEW i \in DOMAIN fds, CloseClient(i),
           UNCHANGED <<via, peer, need, sent, inbox, childVars, cgiVars>>,
           wire' \in [Conns -> Seq(Unit)], room' \in [Conns -> 0..SndBuf],
           phase' \in {"poll", "cgi", "scan", "sweep", "cleanup", "stopped"},
           at' \in Nat \X (0..3), due' \in SUBSET Fds, Scanning'
    PROVE  IInv'
  <1> USE DEF IInv
  <1>1. /\ state' \in [Conns -> {"new", "backlog", "open", "closed"}]
        /\ sock' \in [Fds -> Conns \cup {None}]
        /\ fds' \in Seq(PollFd)
        /\ clientSockets' \in SUBSET ClientFds
        /\ clients' \in [Fds -> ClientState \cup {None}]
        /\ clientToListenSocket' \in [Fds -> Listeners \cup {None}]
        /\ clientToVirtualServer' \in [Fds -> Listeners \cup {None}]
        /\ sendBuffers' \in [Fds -> Response \cup {None}]
        /\ closeAfterSend' \in [Fds -> BOOLEAN]
        /\ TablesAgree'
    BY CloseClientKeeps
  <1>2. TypeOK'
    BY <1>1 DEF TypeOK, childVars, cgiVars
  <1>3. ListenersOnlyRead'
    <2>1. fds \in Seq(PollFd) /\ i \in 1..Len(fds) /\ DOMAIN fds = 1..Len(fds)
          /\ Len(fds) \in Nat /\ fds' = RemoveAt(fds, i)
      BY SlotsTyped DEF TypeOK, CloseClient
    <2>2. \A j \in DOMAIN fds' : \E k \in DOMAIN fds : fds'[j] = fds[k]
      <3>1. /\ RemoveAt(fds, i) \in Seq(PollFd)
            /\ Len(RemoveAt(fds, i)) = Len(fds) - 1
            /\ \A j \in 1..Len(fds) - 1 :
                  RemoveAt(fds, i)[j] = IF j < i THEN fds[j] ELSE fds[j + 1]
        BY <2>1, RemoveAtShifts
      <3>2. DOMAIN fds' = 1..Len(fds) - 1
        BY <2>1, <3>1, SlotsTyped
      <3>3. \A j \in 1..Len(fds) - 1 : j \in DOMAIN fds /\ j + 1 \in DOMAIN fds
        BY <2>1
      <3> QED  BY <2>1, <3>1, <3>2, <3>3
    <2> QED  BY <2>2 DEF ListenersOnlyRead
  <1>4. \A c \in Conns : state'[c] = state[c] \/ state'[c] = "closed"
    BY DEF CloseClient
  <1>5. RequestsBounded'
    BY <1>4 DEF RequestsBounded
  <1>6. OwedToAccepted'
    <2>1. \A c : Accepted(c) => Accepted(c)'
      BY <1>4 DEF Accepted
    <2>2. \A fd \in Fds : sendBuffers'[fd] \in {None, sendBuffers[fd]}
      BY DEF CloseClient, TypeOK
    <2>3. UNCHANGED <<asker, child, cgiProcesses>>
      BY DEF childVars, cgiVars
    <2> QED  BY <2>1, <2>2, <2>3 DEF OwedToAccepted
  <1> QED  BY <1>2, <1>1, <1>3, <1>5, <1>6

\* The units of a response are a sequence of units.
LEMMA UnitsTyped ==
    ASSUME NEW r \in Response, NEW n \in Nat, r.sent + n <= r.size
    PROVE  Units(r, n) \in Seq(Unit)
  <1>1. /\ r.owner \in Conns /\ r.size \in 0..MaxUnits /\ r.sent \in 0..MaxUnits
        /\ MaxUnits \in Nat
    BY BoundAssumption DEF Response
  <1>2. \A i \in 1..n : r.sent + i \in 1..MaxUnits
    BY <1>1
  <1>3. Units(r, n) \in [1..n -> Unit]
    BY <1>1, <1>2 DEF Units, Unit
  <1> QED  BY <1>3, FunctionIsSeq

\* recv() on an entry the peer has reset, and POLLHUP: the client is closed.
LEMMA GoneKeeps ==
    ASSUME IInv, phase = "scan", CloseClient(at[1]), Return,
           UNCHANGED <<via, peer, need, sent, inbox, room, wire, childVars, cgiVars>>
    PROVE  IInv'
  <1> USE DEF IInv
  <1>1. at[1] \in DOMAIN fds
    BY HereTyped
  <1>2. fds' \in Seq(PollFd)
    BY <1>1, CloseClientKeeps
  <1>3. /\ phase' \in {"scan", "sweep"} /\ at' \in Nat \X (0..3)
        /\ due' \in SUBSET Fds /\ Scanning'
    BY <1>2, ReturnFinds
  <1>4. wire' \in [Conns -> Seq(Unit)] /\ room' \in [Conns -> 0..SndBuf]
    BY DEF TypeOK
  <1> QED  BY <1>1, <1>3, <1>4, CloseKeeps

\* A handler that changes nothing but the control point.
LEMMA IdleKeeps ==
    ASSUME IInv, phase = "scan", Return,
           UNCHANGED <<netVars, childVars, fds, tableVars, cgiVars>>
    PROVE  IInv'
  <1> USE DEF IInv
  <1>1. fds' \in Seq(PollFd)
    BY DEF TypeOK
  <1>2. /\ phase' \in {"scan", "sweep"} /\ at' \in Nat \X (0..3)
        /\ due' \in SUBSET Fds /\ Scanning'
    BY <1>1, ReturnFinds
  <1> QED  BY <1>2 DEF TypeOK, netVars, childVars, tableVars, cgiVars, TablesAgree,
         DistinctSlots, ServedIsWatched, ServedIsKnown, OpenIsServed, Slots,
         ListenersOnlyRead, RequestsBounded, OwedToAccepted, Accepted

\* handleNewConnection().
LEMMA AcceptKeeps == ASSUME IInv, Accept PROVE IInv'
  <1> USE DEF IInv
  <1>1. phase = "scan" /\ Here \in Listeners /\ Return
    BY DEF Accept, Visiting
  <1>2. PICK c \in Conns, fd \in FreeFds :
          /\ state[c] = "backlog" /\ via[c] = Here
          /\ state' = [state EXCEPT ![c] = "open"]
          /\ sock' = [sock EXCEPT ![fd] = c]
          /\ fds' = Append(fds, Watch(fd, {}))
          /\ clientSockets' = clientSockets \cup {fd}
          /\ clients' = [clients EXCEPT ![fd] = [buf |-> 0, idle |-> 0, total |-> 0]]
          /\ clientToVirtualServer' = [clientToVirtualServer EXCEPT ![fd] = None]
          /\ clientToListenSocket' = [clientToListenSocket EXCEPT ![fd] = Here]
    BY DEF Accept
  <1>3. UNCHANGED <<via, peer, need, sent, inbox, room, wire, childVars,
                    sendBuffers, closeAfterSend, cgiVars>>
    BY DEF Accept
  <1>4. fd \in ClientFds /\ fd \in Fds /\ sock[fd] = None /\ fd \notin Listeners
        /\ fd \notin clientSockets
    BY DescriptorAssumption DEF FreeFds, Fds, TablesAgree, ServedIsKnown
  <1>5. /\ fds \in Seq(PollFd) /\ Len(fds) \in Nat /\ DOMAIN fds = 1..Len(fds)
        /\ \A j \in DOMAIN fds : fds[j].fd # fd
    <2>1. \A j \in DOMAIN fds : fds[j].fd # fd
      BY <1>4 DEF TablesAgree, ServedIsWatched, Slots
    <2> QED  BY <2>1, SlotsTyped DEF TypeOK
  <1>6. Watch(fd, {}) \in PollFd /\ Watch(fd, {}).fd = fd /\ Watch(fd, {}).revents = {}
    BY <1>4 DEF Watch, PollFd, Events, Readiness
  <1>7. /\ fds' \in Seq(PollFd)
        /\ DOMAIN fds' = 1..Len(fds) + 1
        /\ \A j \in DOMAIN fds : fds'[j] = fds[j]
        /\ fds'[Len(fds) + 1].fd = fd
        /\ fds'[Len(fds) + 1].revents = {}
    <2> DEFINE w == Watch(fd, {})
    <2> HIDE DEF w
    <2>1. w \in PollFd /\ w.fd = fd /\ w.revents = {} /\ fds' = Append(fds, w)
      BY <1>2, <1>6 DEF w
    <2> QED  BY <1>5, <2>1
  <1>8. /\ phase' \in {"scan", "sweep"} /\ at' \in Nat \X (0..3)
        /\ due' \in SUBSET Fds /\ Scanning'
    BY <1>1, <1>7, ReturnFinds
  <1>9. /\ state \in [Conns -> {"new", "backlog", "open", "closed"}]
        /\ sock \in [Fds -> Conns \cup {None}]
        /\ clients \in [Fds -> ClientState \cup {None}]
        /\ clientToVirtualServer \in [Fds -> Listeners \cup {None}]
        /\ clientToListenSocket \in [Fds -> Listeners \cup {None}]
    BY DEF TypeOK
  <1>10. [buf |-> 0, idle |-> 0, total |-> 0] \in ClientState
    BY BoundAssumption DEF ClientState
  <1>11. /\ \A g \in Fds : /\ sock'[g] = IF g = fd THEN c ELSE sock[g]
                           /\ g # fd => /\ clients'[g] = clients[g]
                                        /\ clientToListenSocket'[g] = clientToListenSocket[g]
         /\ clients'[fd] # None /\ clientToListenSocket'[fd] = via[c]
         /\ clientToListenSocket'[fd] # None
         /\ \A d \in Conns : state'[d] = IF d = c THEN "open" ELSE state[d]
    <2> DEFINE fresh == [buf |-> 0, idle |-> 0, total |-> 0]
    <2> HIDE DEF fresh
    <2>1. fresh \in ClientState /\ clients' = [clients EXCEPT ![fd] = fresh]
      BY <1>2, <1>10 DEF fresh
    <2>2. Here # None /\ fresh # None
      BY <1>1, <2>1, DescriptorAssumption, NoneAssumption DEF Fds
    <2> QED  BY <1>2, <1>4, <1>9, <2>1, <2>2
  <1>12. TypeOK'
    <2>1. state' \in [Conns -> {"new", "backlog", "open", "closed"}]
      BY <1>2, <1>9
    <2>2. sock' \in [Fds -> Conns \cup {None}]
      BY <1>2, <1>9
    <2>3. clients' \in [Fds -> ClientState \cup {None}]
      BY <1>2, <1>9, <1>10
    <2>4. /\ clientToVirtualServer' \in [Fds -> Listeners \cup {None}]
          /\ clientToListenSocket' \in [Fds -> Listeners \cup {None}]
      BY <1>1, <1>2, <1>9
    <2>5. clientSockets' \in SUBSET ClientFds
      BY <1>2, <1>4 DEF TypeOK
    <2> QED  BY <1>3, <1>7, <1>8, <2>1, <2>2, <2>3, <2>4, <2>5
             DEF TypeOK, childVars, cgiVars
  <1>13. DistinctSlots'
    <2>1. \A j, k \in DOMAIN fds : fds[j].fd = fds[k].fd => j = k
      BY DEF TablesAgree, DistinctSlots, Slots
    <2>2. \A j \in DOMAIN fds' : j \in DOMAIN fds \/ j = Len(fds) + 1
      BY <1>5, <1>7
    <2> QED  BY <1>5, <1>7, <2>1, <2>2 DEF DistinctSlots, Slots
  <1>14. ServedIsWatched'
    <2>1. \A g \in ClientFds : g \in clientSockets <=> \E j \in DOMAIN fds : fds[j].fd = g
      BY DEF TablesAgree, ServedIsWatched, Slots
    <2>2. /\ \A j \in DOMAIN fds' : j \in DOMAIN fds \/ j = Len(fds) + 1
          /\ DOMAIN fds \subseteq DOMAIN fds' /\ Len(fds) + 1 \in DOMAIN fds'
      BY <1>5, <1>7
    <2> QED  BY <1>2, <1>7, <2>1, <2>2 DEF ServedIsWatched, Slots
  <1>15. ServedIsKnown'
    <2>1. c # None
      BY DescriptorAssumption
    <2> QED  BY <1>2, <1>4, <1>11, <2>1 DEF TablesAgree, ServedIsKnown
  <1>16. OpenIsServed'
    <2>1. \A g \in clientSockets : g \in Fds /\ sock[g] \in Conns /\ sock[g] # c /\ g # fd
      BY <1>2, <1>4, <1>9 DEF TypeOK, Fds, TablesAgree, ServedIsKnown, OpenIsServed
    <2>2. clientSockets' = clientSockets \cup {fd} /\ via' = via
      BY <1>2, <1>3
    <2>3. \A g \in clientSockets' : /\ state'[sock'[g]] = "open"
                                    /\ clientToListenSocket'[g] = via'[sock'[g]]
      BY <1>4, <1>11, <2>1, <2>2 DEF TablesAgree, OpenIsServed
    <2>4. \A g, h \in clientSockets' : sock'[g] = sock'[h] => g = h
      BY <1>4, <1>11, <2>1, <2>2 DEF TablesAgree, OpenIsServed
    <2>5. \A d \in Conns : state'[d] = "open" => \E g \in clientSockets' : sock'[g] = d
      BY <1>4, <1>11, <2>1, <2>2 DEF TablesAgree, OpenIsServed
    <2> QED  BY <2>3, <2>4, <2>5 DEF OpenIsServed
  <1>17. ListenersOnlyRead'
    <2>1. \A j \in DOMAIN fds' : j \in DOMAIN fds \/ j = Len(fds) + 1
      BY <1>5, <1>7
    <2> QED  BY <1>4, <1>7, <2>1 DEF ListenersOnlyRead
  <1>18. RequestsBounded'
    BY <1>3, <1>11 DEF RequestsBounded
  <1>19. OwedToAccepted'
    BY <1>3, <1>11 DEF OwedToAccepted, Accepted, childVars, cgiVars
  <1> QED  BY <1>8, <1>12, <1>13, <1>14, <1>15, <1>16, <1>17, <1>18, <1>19 DEF TablesAgree

\* What handleClientData() does with the data it received.
LEMMA RecvKeeps ==
    ASSUME IInv, DataReady, NEW left \in 0..MaxSegs, RecvData(left)
    PROVE  /\ UNCHANGED <<state, via, peer, need, sent, sock, age, clientSockets,
                          clientToListenSocket>>
           /\ inbox' \in [Conns -> 0..MaxSegs + 1]
           /\ clients' \in [Fds -> ClientState \cup {None}]
           /\ clientToVirtualServer' \in [Fds -> Listeners \cup {None}]
           /\ \A fd \in Fds : clients'[fd] = None <=> clients[fd] = None
           /\ RequestsBounded'
  <1> USE DEF IInv
  <1>1. /\ phase = "scan" /\ Here \in ClientFds /\ Here \in Fds /\ inbox[Caller] > 0
        /\ Caller \in Conns /\ clients[Here] \in ClientState
    BY HereTyped DEF DataReady, Visiting
  <1>2. UNCHANGED <<state, via, peer, need, sent, sock, age, clientSockets,
                    clientToListenSocket>>
    BY DEF RecvData
  <1>3. /\ inbox \in [Conns -> 0..MaxSegs + 1]
        /\ clients \in [Fds -> ClientState \cup {None}]
        /\ clientToVirtualServer \in [Fds -> Listeners \cup {None}]
        /\ clientToListenSocket \in [Fds -> Listeners \cup {None}]
        /\ MaxSegs \in Nat
    BY BoundAssumption DEF TypeOK
  <1>4. /\ inbox' \in [Conns -> 0..MaxSegs + 1]
        /\ \A c \in Conns : inbox'[c] <= inbox[c]
    BY <1>1, <1>3 DEF RecvData
  <1>5. clientToVirtualServer' \in [Fds -> Listeners \cup {None}]
    BY <1>1, <1>3 DEF RecvData
  <1> DEFINE before == clients[Here]
             after  == [before EXCEPT !.buf = left, !.idle = 0]
  <1>6. before \in ClientState /\ clients' = [clients EXCEPT ![Here] = after]
    BY <1>1, <1>3 DEF RecvData
  <1> HIDE DEF before
  <1>7. after \in ClientState
    <2>1. 0 \in 0..IdleLimit + 1
      BY BoundAssumption
    <2> HIDE DEF IInv
    <2> QED  BY <1>6, <2>1 DEF ClientState
  <1> HIDE DEF after
  <1>8. clients' \in [Fds -> ClientState \cup {None}]
    BY <1>3, <1>6, <1>7
  <1>9. \A fd \in Fds : clients'[fd] = None <=> clients[fd] = None
    BY <1>1, <1>3, <1>6, <1>7, NoneAssumption
  <1>10. RequestsBounded'
    <2>1. \A c \in Conns : /\ inbox'[c] \in Nat /\ inbox[c] \in Nat /\ sent[c] \in Nat
      BY <1>3, <1>4 DEF TypeOK
    <2> QED  BY <1>2, <1>4, <2>1 DEF RequestsBounded
  <1> QED  BY <1>2, <1>4, <1>5, <1>8, <1>9, <1>10

\* Segments in readBuffer.
LEMMA ReceivedTyped ==
    ASSUME IInv, DataReady PROVE Received \in 0..MaxSegs
  <1>1. clients[Here] \in ClientState /\ Caller \in Conns
    BY HereTyped DEF DataReady, Visiting
  <1>2. clients[Here].buf \in 0..MaxSegs
    BY <1>1 DEF ClientState
  <1>3. need[Caller] \in 1..MaxSegs
    BY <1>1 DEF IInv, TypeOK
  <1> QED  BY <1>2, <1>3, BoundAssumption DEF Received, Least

\* A handler of received data that queues nothing and starts nothing.
LEMMA TakeKeeps ==
    ASSUME IInv, DataReady, RecvData(Received), Return,
           UNCHANGED <<child, asker, pipes, fds, sendBuffers, closeAfterSend, cgiVars>>,
           wire' \in [Conns -> Seq(Unit)], room' \in [Conns -> 0..SndBuf]
    PROVE  IInv'
  <1> USE DEF IInv
  <1>1. Received \in 0..MaxSegs
    BY ReceivedTyped
  <1>2. /\ UNCHANGED <<state, via, peer, need, sent, sock, age, clientSockets,
                       clientToListenSocket>>
        /\ inbox' \in [Conns -> 0..MaxSegs + 1]
        /\ clients' \in [Fds -> ClientState \cup {None}]
        /\ clientToVirtualServer' \in [Fds -> Listeners \cup {None}]
        /\ \A fd \in Fds : clients'[fd] = None <=> clients[fd] = None
        /\ RequestsBounded'
    BY <1>1, RecvKeeps
  <1>3. /\ fds' \in Seq(PollFd)
        /\ phase' \in {"scan", "sweep"} /\ at' \in Nat \X (0..3)
        /\ due' \in SUBSET Fds /\ Scanning'
    <2>1. fds' \in Seq(PollFd)
      BY DEF TypeOK
    <2> QED  BY <2>1, ReturnFinds
  <1>4. TypeOK'
    BY <1>2, <1>3 DEF TypeOK, cgiVars
  <1>5. TablesAgree'
    BY <1>2, TablesFrame
  <1>6. ListenersOnlyRead' /\ OwedToAccepted'
    BY <1>2 DEF ListenersOnlyRead, OwedToAccepted, Accepted, cgiVars
  <1> QED  BY <1>2, <1>3, <1>4, <1>5, <1>6

\* The body is not complete.
LEMMA AwaitBodyKeeps == ASSUME IInv, AwaitBody PROVE IInv'
  <1>1. wire \in [Conns -> Seq(Unit)] /\ room \in [Conns -> 0..SndBuf]
    BY DEF IInv, TypeOK
  <1> QED  BY <1>1, TakeKeeps DEF AwaitBody

\* A handler of received data that queues one response for its caller.
LEMMA AnswerKeeps ==
    ASSUME IInv, DataReady, NEW left \in 0..MaxSegs, RecvData(left), Return,
           NEW n \in 1..MaxUnits,
           QueueResponse([fd \in {Here} |-> Reply(Caller, n)]),
           UNCHANGED <<child, asker, pipes, cgiVars>>,
           wire' \in [Conns -> Seq(Unit)], room' \in [Conns -> 0..SndBuf]
    PROVE  IInv'
  <1> USE DEF IInv
  <1>1. phase = "scan" /\ Here \in ClientFds /\ Here \in Fds
        /\ Caller \in Conns /\ state[Caller] = "open"
    BY HereTyped DEF DataReady, Visiting
  <1>2. /\ UNCHANGED <<state, via, peer, need, sent, sock, age, clientSockets,
                       clientToListenSocket>>
        /\ inbox' \in [Conns -> 0..MaxSegs + 1]
        /\ clients' \in [Fds -> ClientState \cup {None}]
        /\ clientToVirtualServer' \in [Fds -> Listeners \cup {None}]
        /\ \A fd \in Fds : clients'[fd] = None <=> clients[fd] = None
        /\ RequestsBounded'
    BY RecvKeeps
  <1> DEFINE answers == [fd \in {Here} |-> Reply(Caller, n)]
  <1>3. /\ DOMAIN answers = {Here}
        /\ \A fd \in DOMAIN answers : /\ answers[fd] \in Response
                                      /\ answers[fd].owner = Caller
    BY <1>1, BoundAssumption DEF Reply, Response
  <1> HIDE DEF answers
  <1>4. QueueResponse(answers)
    BY DEF answers
  <1>5. /\ fds' \in Seq(PollFd) /\ DOMAIN fds' = DOMAIN fds
        /\ \A i \in DOMAIN fds : fds'[i].fd = fds[i].fd
        /\ sendBuffers' \in [Fds -> Response \cup {None}]
        /\ closeAfterSend' \in [Fds -> BOOLEAN]
        /\ \A fd \in Fds : sendBuffers'[fd] = IF fd \in DOMAIN answers
                                              THEN answers[fd] ELSE sendBuffers[fd]
        /\ ListenersOnlyRead'
    BY <1>3, <1>4, QueueKeeps
  <1>6. /\ phase' \in {"scan", "sweep"} /\ at' \in Nat \X (0..3)
        /\ due' \in SUBSET Fds /\ Scanning'
    BY <1>5, ReturnFinds
  <1>7. TypeOK'
    BY <1>2, <1>5, <1>6 DEF TypeOK, cgiVars
  <1>8. TablesAgree'
    BY <1>2, <1>5, TablesFrame
  <1>9. OwedToAccepted'
    <2>1. ASSUME NEW fd \in Fds, sendBuffers'[fd] # None
          PROVE  Accepted(sendBuffers'[fd].owner)
      <3> HIDE DEF IInv
      <3>1. CASE fd \in DOMAIN answers
        <4>1. sendBuffers'[fd].owner = Caller
          BY <1>3, <1>5, <3>1
        <4> QED  BY <1>1, <4>1 DEF Accepted
      <3>2. CASE fd \notin DOMAIN answers
        <4>1. sendBuffers'[fd] = sendBuffers[fd]
          BY <1>5, <3>2
        <4> QED  BY <2>1, <4>1 DEF IInv, OwedToAccepted
      <3> QED  BY <3>1, <3>2
    <2> QED  BY <1>2, <2>1 DEF OwedToAccepted, Accepted, cgiVars
  <1> QED  BY <1>2, <1>5, <1>6, <1>7, <1>8, <1>9

\* A page, an error or an upload.
LEMMA RespondKeeps == ASSUME IInv, Respond \/ Upload PROVE IInv'
  <1> USE DEF IInv
  <1>1. CASE Respond
    <2>1. DataReady /\ Return /\ UNCHANGED <<room, wire, child, asker, pipes, cgiVars>>
      BY <1>1 DEF Respond, Complete
    <2>2. PICK left \in {Received, 0} : RecvData(left)
      BY <1>1 DEF Respond
    <2>3. PICK n \in 1..MaxUnits : QueueResponse([fd \in {Here} |-> Reply(Caller, n)])
      BY <1>1 DEF Respond
    <2>4. left \in 0..MaxSegs
      BY <2>1, <2>2, ReceivedTyped, BoundAssumption
    <2>5. wire' \in [Conns -> Seq(Unit)] /\ room' \in [Conns -> 0..SndBuf]
      BY <2>1 DEF TypeOK
    <2> QED  BY <2>1, <2>2, <2>3, <2>4, <2>5, AnswerKeeps
  <1>2. CASE Upload
    <2> DEFINE n == IF peer[Caller] = "rst" THEN 0 ELSE Least(1, room[Caller])
    <2>1. /\ DataReady /\ Return /\ RecvData(Received)
          /\ UNCHANGED <<child, asker, pipes, cgiVars>>
          /\ \/ QueueResponse([fd \in {Here} |-> Reply(Caller, 1)])
             \/ UNCHANGED <<fds, sendBuffers, closeAfterSend>>
          /\ wire' = [wire EXCEPT ![Caller] = @ \o Units(Reply(Caller, 1), n)]
          /\ room' = [room EXCEPT ![Caller] = @ - n]
      BY <1>2 DEF Upload, Complete
    <2>2. Received \in 0..MaxSegs
      BY <2>1, ReceivedTyped
    <2>3. Caller \in Conns
      BY <2>1, HereTyped DEF DataReady, Visiting
    <2>4. room \in [Conns -> 0..SndBuf] /\ wire \in [Conns -> Seq(Unit)]
      BY DEF TypeOK
    <2>5. n \in Nat /\ n <= 1 /\ n <= room[Caller]
      BY <2>3, <2>4, BoundAssumption DEF Least
    <2> HIDE DEF n
    <2>6. Reply(Caller, 1) \in Response /\ Reply(Caller, 1).sent + n <= Reply(Caller, 1).size
      BY <2>3, <2>5, BoundAssumption DEF Reply, Response
    <2>7. Units(Reply(Caller, 1), n) \in Seq(Unit)
      BY <2>5, <2>6, UnitsTyped
    <2>8. wire' \in [Conns -> Seq(Unit)]
      BY <2>1, <2>3, <2>4, <2>7
    <2>9. room' \in [Conns -> 0..SndBuf]
      BY <2>1, <2>3, <2>4, <2>5, BoundAssumption
    <2>10. 1 \in 1..MaxUnits
      BY BoundAssumption
    <2>11. CASE QueueResponse([fd \in {Here} |-> Reply(Caller, 1)])
      BY <2>1, <2>2, <2>8, <2>9, <2>10, <2>11, AnswerKeeps
    <2>12. CASE UNCHANGED <<fds, sendBuffers, closeAfterSend>>
      BY <2>1, <2>8, <2>9, <2>12, TakeKeeps
    <2> QED  BY <2>1, <2>11, <2>12
  <1> QED  BY <1>1, <1>2

\* HandleCGI::execute().
LEMMA StartCgiKeeps == ASSUME IInv, StartCgi PROVE IInv'
  <1> USE DEF IInv
  <1>1. /\ DataReady /\ RecvData(Received) /\ Return /\ phase = "scan"
        /\ UNCHANGED <<room, wire, fds, sendBuffers, closeAfterSend>>
    BY DEF StartCgi, Complete, DataReady, Visiting
  <1>2. PICK p \in Pids :
          /\ child[p] = "unborn"
          /\ child' = [child EXCEPT ![p] = "running"]
          /\ asker' = [asker EXCEPT ![p] = Caller]
          /\ pipes' = pipes \cup {p}
          /\ cgiProcesses' = [cgiProcesses EXCEPT ![Here] = p]
          /\ pidToClientFd' = [pidToClientFd EXCEPT ![p] = Here]
    BY DEF StartCgi
  <1>3. Here \in Fds /\ Caller \in Conns /\ state[Caller] = "open"
    BY <1>1, HereTyped DEF DataReady, Visiting
  <1>4. Received \in 0..MaxSegs
    BY <1>1, ReceivedTyped
  <1>5. /\ UNCHANGED <<state, via, peer, need, sent, sock, age, clientSockets,
                       clientToListenSocket>>
        /\ inbox' \in [Conns -> 0..MaxSegs + 1]
        /\ clients' \in [Fds -> ClientState \cup {None}]
        /\ clientToVirtualServer' \in [Fds -> Listeners \cup {None}]
        /\ \A fd \in Fds : clients'[fd] = None <=> clients[fd] = None
        /\ RequestsBounded'
    BY <1>1, <1>4, RecvKeeps
  <1>6. /\ fds' \in Seq(PollFd)
        /\ phase' \in {"scan", "sweep"} /\ at' \in Nat \X (0..3)
        /\ due' \in SUBSET Fds /\ Scanning'
    <2>1. fds' \in Seq(PollFd)
      BY <1>1 DEF TypeOK
    <2> QED  BY <1>1, <2>1, ReturnFinds
  <1>7. /\ child' \in [Pids -> {"unborn", "running", "exited"}]
        /\ asker' \in [Pids -> Conns \cup {None}]
        /\ pipes' \in SUBSET Pids
        /\ cgiProcesses' \in [Fds -> Pids \cup {None}]
        /\ pidToClientFd' \in [Pids -> Fds \cup {None}]
    <2>1. /\ child \in [Pids -> {"unborn", "running", "exited"}]
          /\ asker \in [Pids -> Conns \cup {None}]
          /\ pipes \in SUBSET Pids
          /\ cgiProcesses \in [Fds -> Pids \cup {None}]
          /\ pidToClientFd \in [Pids -> Fds \cup {None}]
      BY DEF TypeOK
    <2> QED  BY <1>2, <1>3, <2>1
  <1>8. TypeOK'
    BY <1>1, <1>5, <1>6, <1>7 DEF TypeOK
  <1>9. TablesAgree'
    BY <1>1, <1>5, TablesFrame
  <1>10. ListenersOnlyRead'
    BY <1>1 DEF ListenersOnlyRead
  <1>11. OwedToAccepted'
    <2>1. ASSUME NEW fd \in Fds, cgiProcesses'[fd] # None
          PROVE  /\ Accepted(asker'[cgiProcesses'[fd]])
                 /\ child'[cgiProcesses'[fd]] # "unborn"
      <3>1. CASE fd = Here
        <4>1. cgiProcesses'[fd] = p
          BY <1>2, <1>3, <3>1 DEF TypeOK
        <4> QED  BY <1>2, <1>3, <4>1 DEF TypeOK, Accepted
      <3>2. CASE fd # Here
        <4>1. /\ cgiProcesses'[fd] = cgiProcesses[fd] /\ cgiProcesses[fd] \in Pids
              /\ cgiProcesses[fd] # p
          BY <1>2, <2>1, <3>2 DEF TypeOK, OwedToAccepted
        <4> QED  BY <1>2, <2>1, <4>1 DEF TypeOK, OwedToAccepted
      <3> QED  BY <3>1, <3>2
    <2>2. \A fd \in Fds : sendBuffers'[fd] # None => Accepted(sendBuffers'[fd].owner)
      BY <1>1 DEF OwedToAccepted
    <2> QED  BY <1>5, <2>1, <2>2 DEF OwedToAccepted, Accepted
  <1> QED  BY <1>5, <1>6, <1>8, <1>9, <1>10, <1>11

\* Disarm() changes neither descriptors nor reports.
LEMMA DisarmKeeps ==
    ASSUME NEW fs \in Seq(PollFd), NEW i \in DOMAIN fs
    PROVE  /\ Disarm(fs, i) \in Seq(PollFd)
           /\ DOMAIN Disarm(fs, i) = DOMAIN fs
           /\ \A j \in DOMAIN fs :
                 /\ Disarm(fs, i)[j].fd = fs[j].fd
                 /\ Disarm(fs, i)[j].revents = fs[j].revents
  <1> DEFINE e == [fs[i] EXCEPT !.events = @ \ {"OUT"}]
  <1>1. fs[i] \in PollFd
    OBVIOUS
  <1>2. e \in PollFd /\ e.fd = fs[i].fd /\ e.revents = fs[i].revents
    BY <1>1 DEF PollFd
  <1>3. Disarm(fs, i) = [fs EXCEPT ![i] = e]
    BY <1>1 DEF Disarm, PollFd
  <1> HIDE DEF e
  <1> QED  BY <1>2, <1>3

\* A sender of POLLOUT that keeps its client.
LEMMA SendKeeps ==
    ASSUME IInv, phase = "scan", Return,
           UNCHANGED <<state, via, peer, need, sent, inbox, sock, childVars, cgiVars,
                       clientSockets, clientToListenSocket, clientToVirtualServer>>,
           wire' \in [Conns -> Seq(Unit)], room' \in [Conns -> 0..SndBuf],
           fds' \in Seq(PollFd), DOMAIN fds' = DOMAIN fds,
           \A j \in DOMAIN fds : /\ fds'[j].fd = fds[j].fd
                                 /\ fds'[j].revents = fds[j].revents,
           sendBuffers' \in [Fds -> Response \cup {None}],
           closeAfterSend' = closeAfterSend,
           \A fd \in Fds : sendBuffers'[fd] # None =>
              sendBuffers[fd] # None /\ sendBuffers'[fd].owner = sendBuffers[fd].owner,
           clients' \in [Fds -> ClientState \cup {None}],
           \A fd \in Fds : clients'[fd] = None <=> clients[fd] = None
    PROVE  IInv'
  <1> USE DEF IInv
  <1>1. /\ phase' \in {"scan", "sweep"} /\ at' \in Nat \X (0..3)
        /\ due' \in SUBSET Fds /\ Scanning'
    BY ReturnFinds
  <1>2. TypeOK'
    BY <1>1 DEF TypeOK, childVars, cgiVars
  <1>3. TablesAgree'
    BY TablesFrame
  <1>4. ListenersOnlyRead'
    BY DEF ListenersOnlyRead
  <1>5. RequestsBounded'
    BY DEF RequestsBounded
  <1>6. OwedToAccepted'
    BY DEF OwedToAccepted, Accepted, childVars, cgiVars
  <1> QED  BY <1>1, <1>2, <1>3, <1>4, <1>5, <1>6

\* What send() takes of a pending response goes to the peer.
LEMMA TransmitKeeps ==
    ASSUME IInv, Here \in ClientFds, Here \in Fds, Caller \in Conns,
           sendBuffers[Here] # None, Sendable > 0, Transmit
    PROVE  /\ wire' \in [Conns -> Seq(Unit)] /\ room' \in [Conns -> 0..SndBuf]
           /\ sendBuffers[Here] \in Response
           /\ Sendable \in Nat
           /\ sendBuffers[Here].sent + Sendable <= sendBuffers[Here].size
           /\ UNCHANGED <<via, peer, need, sent, inbox, childVars, cgiVars>>
  <1> USE DEF IInv
  <1> DEFINE r == sendBuffers[Here]
             n == Sendable
  <1>1. /\ room \in [Conns -> 0..SndBuf] /\ wire \in [Conns -> Seq(Unit)]
        /\ SndBuf \in Nat /\ r \in Response
    BY BoundAssumption DEF TypeOK
  <1>2. r.size \in Nat /\ r.sent \in Nat /\ room[Caller] \in 0..SndBuf
    BY <1>1, BoundAssumption DEF Response
  <1>3. n \in Nat /\ r.sent + n <= r.size /\ n <= room[Caller]
    BY <1>1, <1>2, SMTT(30) DEF Sendable, Least
  <1>4. /\ wire' = [wire EXCEPT ![Caller] = @ \o Units(r, n)]
        /\ room' = [room EXCEPT ![Caller] = @ - n]
        /\ UNCHANGED <<via, peer, need, sent, inbox, childVars, cgiVars>>
    BY DEF Transmit
  <1> HIDE DEF r, n
  <1>5. Units(r, n) \in Seq(Unit)
    BY <1>1, <1>3, UnitsTyped
  <1>6. wire' \in [Conns -> Seq(Unit)]
    BY <1>1, <1>4, <1>5
  <1>7. room' \in [Conns -> 0..SndBuf]
    BY <1>1, <1>2, <1>3, <1>4
  <1> QED  BY <1>1, <1>3, <1>4, <1>6, <1>7 DEF r, n

\* handlePollOut().
LEMMA HandlePollOutKeeps == ASSUME IInv, HandlePollOut PROVE IInv'
  <1> USE DEF IInv
  <1>1. /\ phase = "scan" /\ at[1] \in DOMAIN fds /\ Here \in Fds /\ Here \in ClientFds
        /\ Caller \in Conns /\ clients[Here] \in ClientState
    <2>1. phase = "scan" /\ Tests[at[2]] = "OUT"
      BY DEF HandlePollOut, Visiting
    <2> QED  BY <2>1, HereTyped DEF Fds
  <1>2. /\ fds \in Seq(PollFd) /\ wire \in [Conns -> Seq(Unit)]
        /\ room \in [Conns -> 0..SndBuf] /\ clients \in [Fds -> ClientState \cup {None}]
        /\ sendBuffers \in [Fds -> Response \cup {None}]
    BY DEF TypeOK
  <1>3. /\ Disarm(fds, at[1]) \in Seq(PollFd)
        /\ DOMAIN Disarm(fds, at[1]) = DOMAIN fds
        /\ \A j \in DOMAIN fds : /\ Disarm(fds, at[1])[j].fd = fds[j].fd
                                 /\ Disarm(fds, at[1])[j].revents = fds[j].revents
    BY <1>1, <1>2, DisarmKeeps
  <1>4. CASE sendBuffers[Here] = None /\ NothingToSend
    <2>1. /\ Return /\ fds' = Disarm(fds, at[1])
          /\ UNCHANGED <<netVars, childVars, tableVars, cgiVars>>
      BY <1>4 DEF NothingToSend
    <2> QED  BY <1>1, <1>2, <1>3, <2>1, SendKeeps DEF netVars, tableVars
  <1>5. CASE SendFails
    BY <1>1, <1>5, GoneKeeps DEF SendFails
  <1>6. CASE sendBuffers[Here] # None /\ SendLast
    <2>1. /\ wire' \in [Conns -> Seq(Unit)] /\ room' \in [Conns -> 0..SndBuf]
          /\ UNCHANGED <<via, peer, need, sent, inbox, childVars, cgiVars>>
          /\ Return
      BY <1>1, <1>6, TransmitKeeps DEF SendLast
    <2>2. CASE closeAfterSend[Here]
      <3>1. CloseClient(at[1])
        BY <1>6, <2>2 DEF SendLast
      <3>2. fds' \in Seq(PollFd)
        BY <1>1, <2>1, <3>1, CloseClientKeeps
      <3>3. /\ phase' \in {"scan", "sweep"} /\ at' \in Nat \X (0..3)
            /\ due' \in SUBSET Fds /\ Scanning'
        BY <2>1, <3>2, ReturnFinds
      <3> QED  BY <1>1, <2>1, <3>1, <3>3, CloseKeeps
    <2>3. CASE ~closeAfterSend[Here]
      <3>1. /\ sendBuffers' = [sendBuffers EXCEPT ![Here] = None]
            /\ fds' = Disarm(fds, at[1])
            /\ UNCHANGED <<state, sock, clientSockets, clients, closeAfterSend,
                           clientToListenSocket, clientToVirtualServer>>
        BY <1>6, <2>3 DEF SendLast
      <3>2. /\ sendBuffers' \in [Fds -> Response \cup {None}]
            /\ \A fd \in Fds : sendBuffers'[fd] # None => sendBuffers'[fd] = sendBuffers[fd]
        BY <1>1, <1>2, <3>1
      <3> QED  BY <1>1, <1>2, <1>3, <2>1, <3>1, <3>2, SendKeeps
    <2> QED  BY <2>2, <2>3
  <1>7. CASE sendBuffers[Here] # None /\ SendPart
    <2>1. /\ wire' \in [Conns -> Seq(Unit)] /\ room' \in [Conns -> 0..SndBuf]
          /\ UNCHANGED <<via, peer, need, sent, inbox, childVars, cgiVars>>
          /\ sendBuffers[Here] \in Response /\ Sendable \in Nat
          /\ sendBuffers[Here].sent + Sendable <= sendBuffers[Here].size
          /\ Return
      BY <1>1, <1>7, TransmitKeeps DEF SendPart
    <2>2. /\ sendBuffers' = [sendBuffers EXCEPT ![Here].sent = @ + Sendable]
          /\ clients' = [clients EXCEPT ![Here] =
                            IF @ = None THEN None ELSE [@ EXCEPT !.idle = 0]]
          /\ UNCHANGED <<state, sock, fds, clientSockets, closeAfterSend,
                         clientToListenSocket, clientToVirtualServer>>
      BY <1>7 DEF SendPart
    <2> DEFINE r == sendBuffers[Here]
               rest == [r EXCEPT !.sent = @ + Sendable]
               st == [clients[Here] EXCEPT !.idle = 0]
    <2>3. rest \in Response /\ rest.owner = r.owner
      <3>1. r.size \in 0..MaxUnits /\ r.sent \in 0..MaxUnits
        BY <2>1 DEF Response
      <3>2. r.sent + Sendable \in 0..MaxUnits
        BY <2>1, <3>1, BoundAssumption
      <3> QED  BY <2>1, <3>2 DEF Response
    <2>4. st \in ClientState
      <3>1. 0 \in 0..IdleLimit + 1
        BY BoundAssumption
      <3> QED  BY <1>1, <3>1 DEF ClientState
    <2>5. sendBuffers' = [sendBuffers EXCEPT ![Here] = rest]
      BY <1>1, <1>2, <2>1, <2>2 DEF Response
    <2>6. clients' = [clients EXCEPT ![Here] = st]
      BY <1>1, <1>2, <2>2, NoneAssumption
    <2> HIDE DEF rest, st
    <2>7. /\ sendBuffers' \in [Fds -> Response \cup {None}]
          /\ \A fd \in Fds : sendBuffers'[fd] # None =>
                sendBuffers[fd] # None /\ sendBuffers'[fd].owner = sendBuffers[fd].owner
      BY <1>1, <1>2, <1>7, <2>3, <2>5
    <2>8. /\ clients' \in [Fds -> ClientState \cup {None}]
          /\ \A fd \in Fds : clients'[fd] = None <=> clients[fd] = None
      BY <1>1, <1>2, <2>4, <2>6, NoneAssumption
    <2> QED  BY <1>1, <1>2, <2>1, <2>2, <2>7, <2>8, SendKeeps
  <1> QED  BY <1>4, <1>5, <1>6, <1>7 DEF HandlePollOut

\* The other handlers of the scan.
LEMMA ScanKeeps ==
    ASSUME IInv, NewClient \/ ClientData \/ HangUp PROVE IInv'
  <1>1. CASE Accept  BY <1>1, AcceptKeeps
  <1>2. CASE AcceptFails  BY <1>2, IdleKeeps DEF AcceptFails, Visiting
  <1>3. CASE RecvError  BY <1>3, GoneKeeps DEF RecvError, Visiting
  <1>4. CASE RecvEof  BY <1>4, IdleKeeps DEF RecvEof, Visiting
  <1>5. CASE AwaitBody  BY <1>5, AwaitBodyKeeps
  <1>6. CASE Respond \/ Upload  BY <1>6, RespondKeeps
  <1>7. CASE StartCgi  BY <1>7, StartCgiKeeps
  <1>8. CASE HangUp  BY <1>8, GoneKeeps DEF HangUp, Visiting
  <1> QED  BY <1>1, <1>2, <1>3, <1>4, <1>5, <1>6, <1>7, <1>8 DEF NewClient, ClientData

\* The timeout sweep owes its 408s to open connections.
LEMMA SweepKeeps == ASSUME IInv, Sweep PROVE IInv'
  <1> USE DEF IInv
  <1> DEFINE late == {fd \in ClientFds : Late(fd)}
             answers == [fd \in late |-> Reply(sock[fd], 1)]
  <1>1. /\ QueueResponse(answers)
        /\ phase' = "poll"
        /\ UNCHANGED <<netVars, childVars, cgiVars, clientSockets, clients,
                       clientToListenSocket, clientToVirtualServer, at, due>>
    BY DEF Sweep
  <1>2. \A fd \in late : sock[fd] \in Conns /\ state[sock[fd]] = "open"
    BY DEF Late, Fds, TypeOK, TablesAgree, ServedIsKnown, OpenIsServed
  <1>3. DOMAIN answers = late
    OBVIOUS
  <1>4. \A fd \in late : answers[fd] \in Response /\ Accepted(answers[fd].owner)
    <2> HIDE DEF late
    <2> QED  BY <1>2, BoundAssumption DEF Reply, Response, Accepted
  <1> HIDE DEF late, answers
  <1>5. /\ fds' \in Seq(PollFd) /\ DOMAIN fds' = DOMAIN fds
        /\ \A i \in DOMAIN fds : fds'[i].fd = fds[i].fd
        /\ sendBuffers' \in [Fds -> Response \cup {None}]
        /\ closeAfterSend' \in [Fds -> BOOLEAN]
        /\ \A fd \in Fds : sendBuffers'[fd] = IF fd \in late
                                              THEN answers[fd] ELSE sendBuffers[fd]
        /\ ListenersOnlyRead'
    BY <1>1, <1>3, <1>4, QueueKeeps
  <1>6. TypeOK'
    BY <1>1, <1>5 DEF TypeOK, netVars, childVars, cgiVars
  <1>7. TablesAgree'
    BY <1>1, <1>5, TablesFrame DEF netVars
  <1>8. Scanning' /\ RequestsBounded'
    BY <1>1 DEF Scanning, RequestsBounded, netVars
  <1>9. OwedToAccepted'
    <2>1. ASSUME NEW fd \in Fds, sendBuffers'[fd] # None
          PROVE  Accepted(sendBuffers'[fd].owner)
      BY <1>4, <1>5, <2>1 DEF OwedToAccepted
    <2> QED  BY <1>1, <2>1 DEF OwedToAccepted, Accepted, netVars, childVars, cgiVars
  <1> QED  BY <1>5, <1>6, <1>7, <1>8, <1>9

\* The end of run() and cleanup().
LEMMA CleanupKeeps == ASSUME IInv, Sigint \/ Cleanup PROVE IInv'
  <1> USE DEF IInv
  <1>1. CASE Sigint
    BY <1>1 DEF Sigint, TypeOK, netVars, childVars, tableVars, cgiVars, TablesAgree,
       DistinctSlots, ServedIsWatched, ServedIsKnown, OpenIsServed, Slots, Scanning,
       ListenersOnlyRead, RequestsBounded, OwedToAccepted, Accepted
  <1>2. CASE CleanupClient
    <2>1. /\ phase = "cleanup" /\ CloseClient(1)
          /\ UNCHANGED <<via, peer, need, sent, inbox, room, wire, childVars,
                         cgiVars, ctlVars>>
      BY <1>2 DEF CleanupClient
    <2>2. CASE 1 \in DOMAIN fds
      <3>1. /\ phase' = "cleanup" /\ at' \in Nat \X (0..3) /\ due' \in SUBSET Fds
            /\ Scanning'
            /\ wire' \in [Conns -> Seq(Unit)] /\ room' \in [Conns -> 0..SndBuf]
        BY <2>1 DEF TypeOK, ctlVars, Scanning
      <3> QED  BY <2>1, <2>2, <3>1, CloseKeeps
    <2>3. CASE 1 \notin DOMAIN fds
      <3>1. UNCHANGED vars
        BY <2>1, <2>3 DEF CloseClient, vars, netVars
      <3> QED  BY <3>1, StutterKeeps
    <2> QED  BY <2>2, <2>3
  <1>3. CASE CleanupListeners
    <2>1. /\ clientSockets = {} /\ fds' = <<>> /\ phase' = "stopped"
          /\ UNCHANGED <<netVars, childVars, tableVars, cgiVars, at, due>>
      BY <1>3 DEF CleanupListeners
    <2>2. fds' \in Seq(PollFd) /\ DOMAIN fds' = {}
      BY <2>1
    <2>3. TypeOK'
      BY <2>1, <2>2 DEF TypeOK, netVars, childVars, tableVars, cgiVars
    <2>4. TablesAgree'
      BY <2>1, <2>2 DEF TablesAgree, DistinctSlots, ServedIsWatched, ServedIsKnown,
         OpenIsServed, Slots, netVars, tableVars
    <2>5. Scanning' /\ ListenersOnlyRead' /\ RequestsBounded' /\ OwedToAccepted'
      BY <2>1, <2>2 DEF Scanning, ListenersOnlyRead, RequestsBounded, OwedToAccepted,
         Accepted, netVars, childVars, tableVars, cgiVars
    <2> QED  BY <2>3, <2>4, <2>5
  <1> QED  BY <1>1, <1>2, <1>3 DEF Cleanup

\* Every step of the system keeps the strengthening.
LEMMA NextKeeps == IInv /\ [Next]_vars => IInv'
  <1> SUFFICES ASSUME IInv, [Next]_vars PROVE IInv'
    OBVIOUS
  <1>1. CASE Iterate
    BY <1>1, PollKeeps, PollCgiKeeps, SweepKeeps DEF Iterate
  <1>2. CASE NewClient \/ ClientData \/ HangUp
    BY <1>2, ScanKeeps
  <1>3. CASE HandlePollOut
    BY <1>3, HandlePollOutKeeps
  <1>4. CASE Sigint \/ Cleanup
    BY <1>4, CleanupKeeps
  <1>5. CASE Peers
    BY <1>5, PeersKeep
  <1>6. CASE \E p \in Pids : ChildExits(p)
    BY <1>6, ChildExitsKeeps
  <1>7. CASE Stopped \/ UNCHANGED vars
    BY <1>7, StutterKeeps DEF Stopped
  <1> QED  BY <1>1, <1>2, <1>3, <1>4, <1>5, <1>6, <1>7 DEF Next, Server

-----------------------------------------------------------------------------
(* The theorems *)

\* Every table and every counter of the loop keeps its type and its bound: no
\* entry of _fds, no part of a response still to be sent and no unit handed to
\* a peer lies outside what the code can address (run, handlePollOut).
THEOREM TypeCorrect == Spec => []TypeOK
  <1>1. IInv => TypeOK
    BY DEF IInv
  <1> QED  BY InitIInv, NextKeeps, <1>1, PTL DEF Spec

\* The tables of Server always speak of the same descriptors: _fds,
\* _clientSockets, _clients and _clientToListenSocket agree with each other and
\* with the open connections, through every accept(), closeClient() in the
\* middle of a scan, timeout and cleanup().
THEOREM TablesAlwaysAgree == Spec => []TablesAgree
  <1>1. IInv => TablesAgree
    BY DEF IInv
  <1> QED  BY InitIInv, NextKeeps, <1>1, PTL DEF Spec

-----------------------------------------------------------------------------
(* Tracked children.  What follows builds on the inductive invariant IInv:   *)
(* pending responses are armed, the scan misses no descriptor, a tracked CGI *)
(* child has its pipes open.                                                 *)

\* Pipes belong to children that have been forked.
OpenIsBorn == \A p \in pipes : child[p] # "unborn"

\* A step that leaves maps and pipes alone and forks nothing.
LEMMA ChildrenFrame ==
    ASSUME TypeOK, TrackedCgiIsOpen, OpenIsBorn, UNCHANGED <<pipes, cgiVars>>,
           \A p \in Pids : child[p] # "unborn" => child'[p] # "unborn"
    PROVE  TrackedCgiIsOpen' /\ OpenIsBorn'
  BY DEF TypeOK, TrackedCgiIsOpen, OpenIsBorn, cgiVars

\* finalizeCGI() takes a child out of both maps and closes its pipes: those it
\* leaves in are recorded under other descriptors.
LEMMA FinalizeKeepsTracked ==
    ASSUME IInv, TrackedCgiIsOpen, OpenIsBorn, PollCgi
    PROVE  TrackedCgiIsOpen' /\ OpenIsBorn'
  <1> DEFINE over == {fd \in Fds : Expired(fd) \/ Ended(fd)}
             gone == {cgiProcesses[fd] : fd \in over}
  <1>1. /\ Untrack(over)
        /\ child' = [p \in Pids |-> IF p \in gone THEN "exited" ELSE child[p]]
        /\ pipes' = pipes \ gone
    BY DEF PollCgi
  <1>2. \A fd \in over : fd \in Fds /\ cgiProcesses[fd] # None
    BY DEF Expired, Ended
  <1>3. /\ cgiProcesses \in [Fds -> Pids \cup {None}] /\ pipes \in SUBSET Pids
        /\ None \notin Pids
    BY DescriptorAssumption DEF IInv, TypeOK
  <1> HIDE DEF over
  <1>4. ASSUME NEW fd \in Fds, cgiProcesses'[fd] # None
        PROVE  /\ cgiProcesses'[fd] \in pipes'
               /\ pidToClientFd'[cgiProcesses'[fd]] = fd
    <2>1. fd \notin over /\ cgiProcesses'[fd] = cgiProcesses[fd]
      BY <1>1, <1>4 DEF Untrack
    <2> DEFINE p == cgiProcesses[fd]
    <2>2. p \in Pids /\ p \in pipes /\ pidToClientFd[p] = fd
      BY <1>3, <1>4, <2>1 DEF TrackedCgiIsOpen
    <2>3. \A g \in over : cgiProcesses[g] # p
      BY <1>2, <2>1, <2>2 DEF TrackedCgiIsOpen
    <2>4. p \notin gone
      BY <2>3
    <2>5. pidToClientFd'[p] = pidToClientFd[p]
      BY <1>1, <2>2, <2>3 DEF Untrack
    <2> QED  BY <1>1, <2>1, <2>2, <2>4, <2>5
  <1>5. OpenIsBorn'
    BY <1>1, <1>3 DEF OpenIsBorn
  <1> QED  BY <1>4, <1>5 DEF TrackedCgiIsOpen

\* HandleCGI::execute() records a new child, over the one recorded before.
LEMMA ForkKeepsTracked ==
    ASSUME IInv, TrackedCgiIsOpen, OpenIsBorn, StartCgi
    PROVE  TrackedCgiIsOpen' /\ OpenIsBorn'
  <1>1. PICK p \in Pids :
          /\ child[p] = "unborn"
          /\ child' = [child EXCEPT ![p] = "running"]
          /\ pipes' = pipes \cup {p}
          /\ cgiProcesses' = [cgiProcesses EXCEPT ![Here] = p]
          /\ pidToClientFd' = [pidToClientFd EXCEPT ![p] = Here]
    BY DEF StartCgi
  <1>2. /\ cgiProcesses \in [Fds -> Pids \cup {None}]
        /\ pidToClientFd \in [Pids -> Fds \cup {None}]
        /\ child \in [Pids -> {"unborn", "running", "exited"}]
        /\ pipes \in SUBSET Pids
    BY DEF IInv, TypeOK
  <1>3. Here \in Fds
    BY HereTyped DEF StartCgi, Complete, DataReady, Visiting
  <1>4. ASSUME NEW fd \in Fds, cgiProcesses'[fd] # None
        PROVE  /\ cgiProcesses'[fd] \in pipes'
               /\ pidToClientFd'[cgiProcesses'[fd]] = fd
    <2>1. CASE fd = Here
      BY <1>1, <1>2, <1>3, <2>1
    <2>2. CASE fd # Here
      <3> DEFINE q == cgiProcesses[fd]
      <3>1. cgiProcesses'[fd] = q
        BY <1>1, <1>2, <2>2
      <3>2. q \in pipes /\ q \in Pids /\ q # p /\ pidToClientFd[q] = fd
        BY <1>1, <1>2, <1>4, <3>1 DEF TrackedCgiIsOpen, OpenIsBorn
      <3> QED  BY <1>1, <1>2, <3>1, <3>2
    <2> QED  BY <2>1, <2>2
  <1>5. OpenIsBorn'
    BY <1>1, <1>2 DEF OpenIsBorn
  <1> QED  BY <1>4, <1>5 DEF TrackedCgiIsOpen

\* Every other step leaves children, pipes and maps as they are.
LEMMA OthersLeaveChildren ==
    ASSUME [Next]_vars
    PROVE  \/ PollCgi \/ StartCgi \/ \E p \in Pids : ChildExits(p)
           \/ UNCHANGED <<child, pipes, cgiVars>>
  <1>1. CASE Iterate
    BY <1>1 DEF Iterate, Poll, Sweep, childVars
  <1>2. CASE NewClient \/ HangUp
    BY <1>2 DEF NewClient, Accept, AcceptFails, HangUp, childVars
  <1>3. CASE ClientData
    BY <1>3 DEF ClientData, RecvError, RecvEof, AwaitBody, Respond, Upload, childVars
  <1>4. CASE HandlePollOut
    BY <1>4 DEF HandlePollOut, NothingToSend, SendFails, SendLast, SendPart, Transmit,
       childVars
  <1>5. CASE Sigint \/ Cleanup
    BY <1>5 DEF Sigint, Cleanup, CleanupClient, CleanupListeners, childVars
  <1>6. CASE Peers
    BY <1>6 DEF Peers, Connect, PeerSend, PeerRead, PeerGone, childVars
  <1>7. CASE Stopped \/ UNCHANGED vars
    BY <1>7 DEF Stopped, vars, childVars
  <1>8. CASE \E p \in Pids : ChildExits(p)
    BY <1>8
  <1> QED  BY <1>1, <1>2, <1>3, <1>4, <1>5, <1>6, <1>7, <1>8 DEF Next, Server

\* Every step keeps the maps of children in order.
LEMMA TrackedKept ==
    IInv /\ TrackedCgiIsOpen /\ OpenIsBorn /\ [Next]_vars
       => TrackedCgiIsOpen' /\ OpenIsBorn'
  <1> SUFFICES ASSUME IInv, TrackedCgiIsOpen, OpenIsBorn, [Next]_vars
               PROVE  TrackedCgiIsOpen' /\ OpenIsBorn'
    OBVIOUS
  <1>1. TypeOK
    BY DEF IInv
  <1>2. CASE PollCgi
    BY <1>2, FinalizeKeepsTracked
  <1>3. CASE StartCgi
    BY <1>3, ForkKeepsTracked
  <1>4. ASSUME NEW p \in Pids, ChildExits(p) PROVE TrackedCgiIsOpen' /\ OpenIsBorn'
    <2>1. UNCHANGED <<pipes, cgiVars>>
      BY <1>4 DEF ChildExits
    <2>2. \A q \in Pids : child[q] # "unborn" => child'[q] # "unborn"
      BY <1>1, <1>4 DEF ChildExits, TypeOK
    <2> QED  BY <1>1, <2>1, <2>2, ChildrenFrame
  <1>5. CASE UNCHANGED <<child, pipes, cgiVars>>
    BY <1>1, <1>5, ChildrenFrame
  <1> QED  BY <1>2, <1>3, <1>4, <1>5, OthersLeaveChildren

-----------------------------------------------------------------------------
(* Pending responses *)

\* A step that leaves responses, sockets and requested events alone.
LEMMA PendingFrame ==
    ASSUME PendingIsArmed, UNCHANGED <<sendBuffers, closeAfterSend, sock>>,
           DOMAIN fds' = DOMAIN fds,
           \A i \in DOMAIN fds : fds'[i].fd = fds[i].fd /\ fds'[i].events = fds[i].events
    PROVE  PendingIsArmed'
  BY DEF PendingIsArmed, Slots

\* queueResponse() arms the entries of the descriptors it answers.
LEMMA QueueArms ==
    ASSUME TypeOK, PendingIsArmed, sock' = sock,
           NEW answers, QueueResponse(answers),
           \A fd \in DOMAIN answers : answers[fd] # None
    PROVE  PendingIsArmed'
  <1>1. fds \in Seq(PollFd) /\ \A i \in DOMAIN fds : fds[i].fd \in Fds
    BY SlotsTyped DEF TypeOK
  <1>2. /\ DOMAIN fds' = DOMAIN fds
        /\ \A i \in DOMAIN fds : fds'[i].fd = fds[i].fd
    BY <1>1, ArmKeeps DEF QueueResponse
  <1>3. \A i \in DOMAIN fds :
           fds'[i].events = IF fds[i].fd \in DOMAIN answers
                            THEN fds[i].events \cup {"OUT"} ELSE fds[i].events
    <2> SUFFICES ASSUME NEW i \in DOMAIN fds
                 PROVE  fds'[i].events = IF fds[i].fd \in DOMAIN answers
                                         THEN fds[i].events \cup {"OUT"} ELSE fds[i].events
      OBVIOUS
    <2>1. fds[i] \in PollFd
      BY <1>1
    <2>2. fds'[i] = IF fds[i].fd \in DOMAIN answers
                    THEN [fds[i] EXCEPT !.events = @ \cup {"OUT"}] ELSE fds[i]
      BY DEF QueueResponse, Arm
    <2> QED  BY <2>1, <2>2 DEF PollFd
  <1>4. \A fd \in Fds :
           /\ sendBuffers'[fd] = IF fd \in DOMAIN answers THEN answers[fd] ELSE sendBuffers[fd]
           /\ closeAfterSend'[fd] = (fd \in DOMAIN answers \/ closeAfterSend[fd])
    BY DEF QueueResponse
  <1>5. \A fd \in Fds : closeAfterSend'[fd] <=> sendBuffers'[fd] # None
    BY <1>4 DEF PendingIsArmed
  <1>6. ASSUME NEW i \in DOMAIN fds'
        PROVE  LET fd == fds'[i].fd IN
               /\ "OUT" \in fds'[i].events => sendBuffers'[fd] # None
               /\ (sendBuffers'[fd] # None /\ sock'[fd] = sendBuffers'[fd].owner)
                     => "OUT" \in fds'[i].events
    <2>1. i \in DOMAIN fds /\ fds'[i].fd = fds[i].fd /\ fds[i].fd \in Fds
      BY <1>1, <1>2
    <2>2. CASE fds[i].fd \in DOMAIN answers
      BY <1>3, <1>4, <2>1, <2>2
    <2>3. CASE fds[i].fd \notin DOMAIN answers
      BY <1>3, <1>4, <2>1, <2>3, ZenonT(60) DEF PendingIsArmed, Slots
    <2> QED  BY <2>2, <2>3
  <1> QED  BY <1>5, <1>6 DEF PendingIsArmed, Slots

\* closeClient() drops the response with the entry.
LEMMA CloseArms ==
    ASSUME IInv, PendingIsArmed, NEW i \in DOMAIN fds, CloseClient(i)
    PROVE  PendingIsArmed'
  <1> DEFINE fd == fds[i].fd
  <1>1. fds \in Seq(PollFd) /\ i \in 1..Len(fds) /\ DOMAIN fds = 1..Len(fds)
        /\ Len(fds) \in Nat /\ \A j \in DOMAIN fds : fds[j].fd \in Fds
    BY SlotsTyped DEF IInv, TypeOK
  <1>2. /\ RemoveAt(fds, i) \in Seq(PollFd)
        /\ Len(RemoveAt(fds, i)) = Len(fds) - 1
        /\ \A j \in 1..Len(fds) - 1 :
              RemoveAt(fds, i)[j] = IF j < i THEN fds[j] ELSE fds[j + 1]
    BY <1>1, RemoveAtShifts
  <1>3. /\ fds' = RemoveAt(fds, i)
        /\ sendBuffers' = [sendBuffers EXCEPT ![fd] = None]
        /\ closeAfterSend' = [closeAfterSend EXCEPT ![fd] = FALSE]
        /\ sock' = [sock EXCEPT ![fd] = None]
    BY DEF CloseClient
  <1>4. DOMAIN fds' = 1..Len(fds) - 1
    BY <1>2, <1>3, SlotsTyped
  <1>5. \A j \in DOMAIN fds' :
           \E k \in DOMAIN fds : k # i /\ fds'[j] = fds[k] /\ fds[k].fd # fd
    <2> SUFFICES ASSUME NEW j \in DOMAIN fds'
                 PROVE  \E k \in DOMAIN fds : k # i /\ fds'[j] = fds[k] /\ fds[k].fd # fd
      OBVIOUS
    <2>1. \A k \in DOMAIN fds : k # i => fds[k].fd # fd
      BY DEF IInv, TablesAgree, DistinctSlots, Slots
    <2>2. CASE j < i
      <3>1. j \in DOMAIN fds /\ j # i /\ fds'[j] = fds[j]
        BY <1>1, <1>2, <1>3, <1>4, <2>2
      <3> QED  BY <2>1, <3>1
    <2>3. CASE ~(j < i)
      <3>1. j + 1 \in DOMAIN fds /\ j + 1 # i /\ fds'[j] = fds[j + 1]
        BY <1>1, <1>2, <1>3, <1>4, <2>3
      <3> QED  BY <2>1, <3>1
    <2> QED  BY <2>2, <2>3
  <1>6. /\ DOMAIN sendBuffers = Fds /\ DOMAIN closeAfterSend = Fds /\ DOMAIN sock = Fds
        /\ fd \in Fds
    BY <1>1 DEF IInv, TypeOK
  <1> HIDE DEF fd
  <1>7. \A g \in Fds : closeAfterSend'[g] <=> sendBuffers'[g] # None
    BY <1>3, <1>6 DEF PendingIsArmed
  <1>8. ASSUME NEW j \in DOMAIN fds'
        PROVE  LET g == fds'[j].fd IN
               /\ "OUT" \in fds'[j].events => sendBuffers'[g] # None
               /\ (sendBuffers'[g] # None /\ sock'[g] = sendBuffers'[g].owner)
                     => "OUT" \in fds'[j].events
    <2>1. PICK k \in DOMAIN fds : fds'[j] = fds[k] /\ fds[k].fd # fd
      BY <1>5
    <2>2. /\ sendBuffers'[fds[k].fd] = sendBuffers[fds[k].fd]
          /\ sock'[fds[k].fd] = sock[fds[k].fd]
      BY <1>1, <1>3, <1>6, <2>1
    <2> QED  BY <2>1, <2>2 DEF PendingIsArmed, Slots
  <1> QED  BY <1>7, <1>8 DEF PendingIsArmed, Slots

\* accept() may hand out a number whose buffer still has the response of a CGI
\* child to the client before: that is not the new client's.
LEMMA AcceptArms == ASSUME IInv, PendingIsArmed, Accept PROVE PendingIsArmed'
  <1>1. PICK c \in Conns, fd \in FreeFds :
          /\ state[c] = "backlog"
          /\ sock' = [sock EXCEPT ![fd] = c]
          /\ fds' = Append(fds, Watch(fd, {}))
    BY DEF Accept
  <1>2. UNCHANGED <<sendBuffers, closeAfterSend>>
    BY DEF Accept
  <1>3. fd \in ClientFds /\ fd \in Fds /\ sock[fd] = None /\ fd \notin clientSockets
    BY DEF FreeFds, Fds, IInv, TablesAgree, ServedIsKnown
  <1>4. /\ fds \in Seq(PollFd) /\ Len(fds) \in Nat /\ DOMAIN fds = 1..Len(fds)
        /\ \A j \in DOMAIN fds : fds[j].fd # fd /\ fds[j].fd \in Fds
    <2>1. \A j \in DOMAIN fds : fds[j].fd # fd
      BY <1>3 DEF IInv, TablesAgree, ServedIsWatched, Slots
    <2> QED  BY <2>1, SlotsTyped DEF IInv, TypeOK
  <1>5. /\ DOMAIN fds' = 1..Len(fds) + 1
        /\ \A j \in DOMAIN fds : fds'[j] = fds[j]
        /\ fds'[Len(fds) + 1].fd = fd
        /\ fds'[Len(fds) + 1].events = {"IN"}
    <2> DEFINE w == Watch(fd, {})
    <2>1. w.fd = fd /\ w.events = {"IN"}
      BY DEF Watch
    <2> HIDE DEF w
    <2>2. fds' = Append(fds, w)
      BY <1>1 DEF w
    <2> QED  BY <1>4, <2>1, <2>2
  <1>6. /\ DOMAIN sock = Fds
        /\ sendBuffers[fd] # None => sendBuffers[fd].owner # c
    BY <1>1, <1>3 DEF IInv, TypeOK, OwedToAccepted, Accepted
  <1>7. ASSUME NEW j \in DOMAIN fds'
        PROVE  LET g == fds'[j].fd IN
               /\ "OUT" \in fds'[j].events => sendBuffers'[g] # None
               /\ (sendBuffers'[g] # None /\ sock'[g] = sendBuffers'[g].owner)
                     => "OUT" \in fds'[j].events
    <2>1. j \in DOMAIN fds \/ j = Len(fds) + 1
      BY <1>4, <1>5
    <2>2. CASE j \in DOMAIN fds
      <3>1. fds'[j] = fds[j] /\ sock'[fds[j].fd] = sock[fds[j].fd]
        BY <1>1, <1>4, <1>5, <1>6, <2>2
      <3> QED  BY <1>2, <2>2, <3>1 DEF PendingIsArmed, Slots
    <2>3. CASE j = Len(fds) + 1
      <3>1. sock'[fd] = c
        BY <1>1, <1>3, <1>6
      <3> QED  BY <1>2, <1>5, <1>6, <2>3, <3>1
    <2> QED  BY <2>1, <2>2, <2>3
  <1> QED  BY <1>2, <1>7 DEF PendingIsArmed, Slots

\* The answer to a caller is no absent entry.
LEMMA RepliesExist ==
    ASSUME NEW c \in Conns, NEW n \in 0..MaxUnits PROVE Reply(c, n) # None
  <1>1. Reply(c, n) \in Response
    BY BoundAssumption DEF Reply, Response
  <1> QED  BY <1>1, NoneAssumption

\* handleClientData().
LEMMA ClientDataArms == ASSUME IInv, PendingIsArmed, ClientData PROVE PendingIsArmed'
  <1>1. phase = "scan" /\ Visiting("IN") /\ Here \in ClientFds
    BY DEF ClientData, RecvError, RecvEof, AwaitBody, Respond, Upload, StartCgi,
       Complete, DataReady, Visiting
  <1>2. at[1] \in DOMAIN fds /\ Caller \in Conns /\ TypeOK
    BY <1>1, HereTyped DEF IInv
  <1>3. CASE RecvError
    BY <1>2, <1>3, CloseArms DEF RecvError
  <1>4. ASSUME UNCHANGED <<fds, sendBuffers, closeAfterSend, sock>> PROVE PendingIsArmed'
    BY <1>4, PendingFrame
  <1>5. CASE RecvEof \/ AwaitBody \/ StartCgi
    BY <1>4, <1>5 DEF RecvEof, AwaitBody, StartCgi, RecvData, netVars, tableVars
  <1>6. ASSUME NEW n \in 1..MaxUnits, sock' = sock,
               QueueResponse([fd \in {Here} |-> Reply(Caller, n)])
        PROVE  PendingIsArmed'
    <2> DEFINE answers == [fd \in {Here} |-> Reply(Caller, n)]
    <2>1. Reply(Caller, n) # None
      BY <1>2, RepliesExist, BoundAssumption
    <2>2. \A fd \in DOMAIN answers : answers[fd] # None
      BY <2>1
    <2> HIDE DEF answers
    <2>3. QueueResponse(answers)
      BY <1>6 DEF answers
    <2> QED  BY <1>2, <1>6, <2>2, <2>3, QueueArms
  <1>7. CASE Respond
    <2>1. sock' = sock
      BY <1>7 DEF Respond, RecvData
    <2> QED  BY <1>6, <1>7, <2>1 DEF Respond
  <1>8. CASE Upload
    <2>1. sock' = sock
      BY <1>8 DEF Upload, RecvData
    <2>2. 1 \in 1..MaxUnits
      BY BoundAssumption
    <2> QED  BY <1>4, <1>6, <1>8, <2>1, <2>2 DEF Upload
  <1> QED  BY <1>3, <1>5, <1>7, <1>8 DEF ClientData

\* What is left of a response that is sent in part is a response.
LEMMA RestExists ==
    ASSUME NEW r \in Response, NEW n \in Nat, r.sent + n <= r.size
    PROVE  [r EXCEPT !.sent = @ + n] # None
  <1>1. r.size \in 0..MaxUnits /\ r.sent \in 0..MaxUnits /\ MaxUnits \in Nat
    BY BoundAssumption DEF Response
  <1>2. r.sent + n \in 0..MaxUnits
    BY <1>1
  <1>3. [r EXCEPT !.sent = @ + n] \in Response
    BY <1>2 DEF Response
  <1> QED  BY <1>3, NoneAssumption

\* handlePollOut(): a response goes away with its event.
LEMMA HandlePollOutArms ==
    ASSUME IInv, PendingIsArmed, HandlePollOut PROVE PendingIsArmed'
  <1>1. at[1] \in DOMAIN fds /\ Here \in Fds
    BY HereTyped DEF HandlePollOut, Visiting
  <1>2. /\ fds \in Seq(PollFd) /\ DOMAIN sendBuffers = Fds
        /\ sendBuffers \in [Fds -> Response \cup {None}]
    BY DEF IInv, TypeOK
  <1>3. ASSUME fds' = Disarm(fds, at[1]), UNCHANGED <<sock, closeAfterSend>>,
               sendBuffers[Here] = None, sendBuffers' = sendBuffers
        PROVE  PendingIsArmed'
    <2>1. /\ DOMAIN fds' = DOMAIN fds
          /\ \A j \in DOMAIN fds : fds'[j].fd = fds[j].fd
      BY <1>1, <1>2, <1>3, DisarmKeeps
    <2>2. \A j \in DOMAIN fds : j # at[1] => fds'[j] = fds[j]
      BY <1>3 DEF Disarm
    <2>3. "OUT" \notin fds'[at[1]].events
      <3>1. fds[at[1]] \in PollFd
        BY <1>1, <1>2
      <3>2. fds'[at[1]] = [fds[at[1]] EXCEPT !.events = @ \ {"OUT"}]
        BY <1>1, <1>3 DEF Disarm
      <3> QED  BY <3>1, <3>2 DEF PollFd
    <2> QED  BY <1>3, <2>1, <2>2, <2>3 DEF PendingIsArmed, Slots, Here
  <1>4. CASE sendBuffers[Here] = None /\ NothingToSend
    BY <1>3, <1>4 DEF NothingToSend, netVars, tableVars
  <1>5. CASE SendFails
    BY <1>1, <1>5, CloseArms DEF SendFails
  <1>6. CASE sendBuffers[Here] # None /\ SendLast
    <2>1. closeAfterSend[Here]
      BY <1>1, <1>6 DEF PendingIsArmed
    <2> QED  BY <1>1, <1>6, <2>1, CloseArms DEF SendLast
  <1>7. CASE sendBuffers[Here] # None /\ SendPart
    <2>1. /\ sendBuffers' = [sendBuffers EXCEPT ![Here].sent = @ + Sendable]
          /\ UNCHANGED <<sock, fds, closeAfterSend>>
      BY <1>7 DEF SendPart
    <2> DEFINE r == sendBuffers[Here]
               rest == [r EXCEPT !.sent = @ + Sendable]
    <2>2. r \in Response
      BY <1>1, <1>2, <1>7
    <2>3. rest.owner = r.owner /\ DOMAIN rest = DOMAIN r
      BY <2>2 DEF Response
    <2>4. sendBuffers' = [sendBuffers EXCEPT ![Here] = rest]
      BY <1>1, <1>2, <2>1, <2>2 DEF Response
    <2>5. rest # None
      <3>1. Caller \in Conns
        <4>1. phase = "scan" /\ Tests[at[2]] = "OUT"
          BY DEF HandlePollOut, Visiting
        <4> QED  BY <1>1, <4>1, HereTyped DEF Fds
      <3>2. room[Caller] \in Nat
        BY <3>1, BoundAssumption DEF IInv, TypeOK
      <3>3. r.size \in Nat /\ r.sent \in Nat
        BY <2>2, BoundAssumption DEF Response
      <3>4. Sendable \in Nat /\ r.sent + Sendable <= r.size
        BY <1>7, <3>2, <3>3 DEF Sendable, Least, SendPart
      <3> QED  BY <2>2, <3>4, RestExists
    <2> HIDE DEF rest
    <2>6. \A fd \in Fds :
             /\ sendBuffers'[fd] # None <=> sendBuffers[fd] # None
             /\ sendBuffers[fd] # None => sendBuffers'[fd].owner = sendBuffers[fd].owner
      BY <1>1, <1>2, <1>7, <2>3, <2>4, <2>5
    <2>7. \A i \in DOMAIN fds : fds[i].fd \in Fds
      BY <1>2, SlotsTyped
    <2> QED  BY <2>1, <2>6, <2>7 DEF PendingIsArmed, Slots
  <1> QED  BY <1>4, <1>5, <1>6, <1>7 DEF HandlePollOut

\* poll() leaves the requested events as they are.
LEMMA PollArms ==
    ASSUME IInv, PendingIsArmed, NEW ticks \in {0, 1}, Poll(ticks) PROVE PendingIsArmed'
  <1>1. fds \in Seq(PollFd) /\ \A i \in DOMAIN fds : fds[i] \in PollFd
    BY SlotsTyped DEF IInv, TypeOK
  <1>2. /\ fds' = [i \in DOMAIN fds |-> [fds[i] EXCEPT !.revents = Reported(fds[i])]]
        /\ UNCHANGED <<sendBuffers, closeAfterSend, sock>>
    BY DEF Poll, netVars
  <1>3. /\ DOMAIN fds' = DOMAIN fds
        /\ \A i \in DOMAIN fds : fds'[i].fd = fds[i].fd /\ fds'[i].events = fds[i].events
    BY <1>1, <1>2 DEF PollFd
  <1> QED  BY <1>2, <1>3, PendingFrame

\* finalizeCGI() answers the connection that asked, the sweep the one that is
\* late.
LEMMA AnswersArm == ASSUME IInv, PendingIsArmed, PollCgi \/ Sweep PROVE PendingIsArmed'
  <1>1. TypeOK
    BY DEF IInv
  <1>2. CASE PollCgi
    <2> DEFINE over == {fd \in Fds : Expired(fd) \/ Ended(fd)}
    <2>1. PICK units \in [over -> 0..MaxUnits] :
             QueueResponse([fd \in over |-> Reply(asker[cgiProcesses[fd]], units[fd])])
      BY <1>2 DEF PollCgi
    <2>2. \A fd \in over : asker[cgiProcesses[fd]] \in Conns
      BY DEF Expired, Ended, IInv, OwedToAccepted, Accepted
    <2> DEFINE answers == [fd \in over |-> Reply(asker[cgiProcesses[fd]], units[fd])]
    <2>3. DOMAIN answers = over
      OBVIOUS
    <2>4. \A fd \in over : answers[fd] # None
      <3> HIDE DEF over
      <3> QED  BY <2>1, <2>2, RepliesExist
    <2>5. QueueResponse(answers)
      BY <2>1
    <2>6. sock' = sock
      BY <1>2 DEF PollCgi, netVars
    <2> HIDE DEF answers, over
    <2> QED  BY <1>1, <2>3, <2>4, <2>5, <2>6, QueueArms
  <1>3. CASE Sweep
    <2> DEFINE late == {fd \in ClientFds : Late(fd)}
               answers == [fd \in late |-> Reply(sock[fd], 1)]
    <2>1. QueueResponse(answers) /\ sock' = sock
      BY <1>3 DEF Sweep, netVars
    <2>2. \A fd \in late : sock[fd] \in Conns
      BY DEF Late, Fds, IInv, TypeOK, TablesAgree, ServedIsKnown
    <2>3. DOMAIN answers = late /\ 1 \in 0..MaxUnits
      BY BoundAssumption
    <2>4. \A fd \in late : answers[fd] # None
      <3> HIDE DEF late
      <3> QED  BY <2>2, <2>3, RepliesExist
    <2> HIDE DEF answers, late
    <2> QED  BY <1>1, <2>1, <2>3, <2>4, QueueArms
  <1> QED  BY <1>2, <1>3

\* The listeners ask for POLLIN only.
LEMMA InitArms == ASSUME Init PROVE PendingIsArmed
  <1>1. PICK order \in SetToSeqs(Listeners) :
           fds = [i \in DOMAIN order |-> Watch(order[i], {})]
    BY DEF Init
  <1>2. \A i \in DOMAIN fds : fds[i].events = {"IN"}
    BY <1>1 DEF Watch
  <1>3. \A fd \in Fds : sendBuffers[fd] = None /\ ~closeAfterSend[fd]
    BY DEF Init
  <1>4. IInv
    BY InitIInv
  <1>5. \A i \in DOMAIN fds : fds[i].fd \in Fds
    BY <1>4, SlotsTyped DEF IInv, TypeOK
  <1> QED  BY <1>2, <1>3, <1>5 DEF PendingIsArmed, Slots

\* Every step keeps pending responses armed.
LEMMA PendingKept == IInv /\ PendingIsArmed /\ [Next]_vars => PendingIsArmed'
  <1> SUFFICES ASSUME IInv, PendingIsArmed, [Next]_vars PROVE PendingIsArmed'
    OBVIOUS
  <1>1. ASSUME UNCHANGED <<fds, sendBuffers, closeAfterSend, sock>> PROVE PendingIsArmed'
    BY <1>1, PendingFrame
  <1>2. CASE Iterate
    BY <1>2, PollArms, AnswersArm DEF Iterate
  <1>3. CASE NewClient
    BY <1>1, <1>3, AcceptArms DEF NewClient, AcceptFails, netVars, tableVars
  <1>4. CASE ClientData
    BY <1>4, ClientDataArms
  <1>5. CASE HandlePollOut
    BY <1>5, HandlePollOutArms
  <1>6. CASE HangUp
    <2>1. at[1] \in DOMAIN fds
      BY <1>6, HereTyped DEF HangUp, Visiting
    <2> QED  BY <1>6, <2>1, CloseArms DEF HangUp
  <1>7. CASE CleanupClient
    <2>1. CASE 1 \in DOMAIN fds
      BY <1>7, <2>1, CloseArms DEF CleanupClient
    <2>2. CASE 1 \notin DOMAIN fds
      BY <1>1, <1>7, <2>2 DEF CleanupClient, CloseClient, tableVars
    <2> QED  BY <2>1, <2>2
  <1>8. CASE CleanupListeners
    BY <1>8 DEF CleanupListeners, netVars, tableVars, PendingIsArmed, Slots
  <1>9. CASE Sigint \/ Peers \/ (\E p \in Pids : ChildExits(p)) \/ Stopped \/ UNCHANGED vars
    BY <1>1, <1>9 DEF Sigint, Peers, Connect, PeerSend, PeerRead, PeerGone, ChildExits,
       Stopped, vars, netVars, tableVars
  <1> QED  BY <1>2, <1>3, <1>4, <1>5, <1>6, <1>7, <1>8, <1>9 DEF Next, Server, Cleanup

-----------------------------------------------------------------------------
(* The scan *)

\* What poll() reported and no handler has seen yet has an entry that the scan
\* has still before it.
DueAhead ==
    /\ phase \in {"cgi", "scan"} =>
          \A fd \in due : \E i \in DOMAIN fds :
             /\ fds[i].fd = fd
             /\ fds[i].revents # {}
             /\ phase = "scan" => i <= at[1]
    /\ phase \in {"sweep", "poll"} => due = {}

\* The scan does not pass an entry that has a bit set.
LEMMA ResumeStops ==
    ASSUME NEW j \in Nat, NEW t \in 0..3, Resume(j, t), fds' \in Seq(PollFd),
           NEW i \in DOMAIN fds', fds'[i].revents # {},
           i < j \/ (i = j /\ t = 0)
    PROVE  phase' = "scan" /\ i <= at'[1]
  <1>1. i \in 1..j /\ fds'[i].revents \in SUBSET Readiness
    BY SlotsTyped
  <1>2. PICK k \in 1..3 : Tests[k] \in fds'[i].revents
    BY <1>1 DEF Readiness, Tests
  <1>3. <<i, k>> \in Ahead(fds', j, t)
    BY <1>1, <1>2 DEF Ahead
  <1>4. PICK p \in Ahead(fds', j, t) :
           /\ \A q \in Ahead(fds', j, t) : Sooner(p, q)
           /\ phase' = "scan" /\ at' = p
    BY <1>3 DEF Resume
  <1>5. p[1] \in Nat /\ Sooner(p, <<i, k>>)
    BY <1>3, <1>4 DEF Ahead
  <1> QED  BY <1>1, <1>4, <1>5 DEF Sooner

\* A handler that leaves the entries in front of its own where they are.
LEMMA ReturnKeepsDue ==
    ASSUME IInv, DueAhead, phase = "scan", Return, fds' \in Seq(PollFd),
           \A i \in DOMAIN fds : i < at[1] =>
              /\ i \in DOMAIN fds'
              /\ fds'[i].fd = fds[i].fd /\ fds'[i].revents = fds[i].revents
    PROVE  DueAhead'
  <1>1. at[1] \in Nat /\ at[2] \in 0..3 /\ at[1] \in DOMAIN fds /\ DOMAIN fds \subseteq Nat
    <2>1. at[1] \in DOMAIN fds /\ at \in Nat \X (0..3) /\ DOMAIN fds = 1..Len(fds)
      BY HereTyped, SlotsTyped DEF IInv, TypeOK
    <2> QED  BY <2>1
  <1>2. due' = due \ {Here} /\ Resume(at[1], at[2])
    BY DEF Return
  <1>3. phase' \in {"scan", "sweep"}
    BY ReturnFinds DEF IInv
  <1>4. ASSUME NEW fd \in due'
        PROVE  /\ phase' = "scan"
               /\ \E i \in DOMAIN fds' : /\ fds'[i].fd = fd /\ fds'[i].revents # {}
                                         /\ i <= at'[1]
    <2>1. fd \in due /\ fd # Here
      BY <1>2, <1>4
    <2>2. PICK i \in DOMAIN fds : fds[i].fd = fd /\ fds[i].revents # {} /\ i <= at[1]
      BY <2>1 DEF DueAhead
    <2>3. i < at[1]
      BY <1>1, <2>1, <2>2 DEF Here
    <2>4. i \in DOMAIN fds' /\ fds'[i].fd = fd /\ fds'[i].revents # {}
      BY <2>2, <2>3
    <2>5. phase' = "scan" /\ i <= at'[1]
      BY <1>1, <1>2, <2>3, <2>4, ResumeStops
    <2> QED  BY <2>4, <2>5
  <1>5. phase' \in {"sweep", "poll"} => due' = {}
    BY <1>4
  <1>6. phase' \in {"cgi", "scan"} =>
           \A fd \in due' : \E i \in DOMAIN fds' :
              /\ fds'[i].fd = fd /\ fds'[i].revents # {}
              /\ phase' = "scan" => i <= at'[1]
    BY <1>4
  <1> QED  BY <1>5, <1>6 DEF DueAhead

\* closeClient() in the scan: the entries in front stay.
LEMMA CloseKeepsDue ==
    ASSUME IInv, DueAhead, phase = "scan", Return, CloseClient(at[1]) PROVE DueAhead'
  <1>1. /\ at[1] \in 1..Len(fds) /\ fds \in Seq(PollFd) /\ Len(fds) \in Nat
        /\ DOMAIN fds = 1..Len(fds) /\ fds' = RemoveAt(fds, at[1])
    <2>1. at[1] \in DOMAIN fds
      BY HereTyped
    <2> QED  BY <2>1, SlotsTyped DEF IInv, TypeOK, CloseClient
  <1>2. /\ fds' \in Seq(PollFd) /\ Len(fds') = Len(fds) - 1
        /\ \A j \in 1..Len(fds) - 1 :
              fds'[j] = IF j < at[1] THEN fds[j] ELSE fds[j + 1]
    BY <1>1, RemoveAtShifts
  <1>3. DOMAIN fds' = 1..Len(fds) - 1
    BY <1>2, SlotsTyped
  <1>4. \A i \in DOMAIN fds : i < at[1] => i \in DOMAIN fds' /\ fds'[i] = fds[i]
    BY <1>1, <1>2, <1>3
  <1> QED  BY <1>2, <1>4, ReturnKeepsDue

\* A handler that changes no report.
LEMMA SameReportsKeepDue ==
    ASSUME IInv, DueAhead, phase = "scan", Return, fds' \in Seq(PollFd),
           DOMAIN fds' = DOMAIN fds,
           \A i \in DOMAIN fds : fds'[i].fd = fds[i].fd /\ fds'[i].revents = fds[i].revents
    PROVE  DueAhead'
  BY ReturnKeepsDue

\* A handler that leaves _fds alone.
LEMMA SameTableKeepsDue ==
    ASSUME IInv, DueAhead, phase = "scan", Return, fds' = fds PROVE DueAhead'
  <1>1. fds' \in Seq(PollFd)
    BY DEF IInv, TypeOK
  <1> QED  BY <1>1, SameReportsKeepDue

\* A handler that queues a response.
LEMMA QueueKeepsDue ==
    ASSUME IInv, DueAhead, phase = "scan", Return, NEW answers, QueueResponse(answers)
    PROVE  DueAhead'
  <1>1. fds \in Seq(PollFd) /\ fds' = Arm(fds, DOMAIN answers)
    BY DEF IInv, TypeOK, QueueResponse
  <1>2. /\ fds' \in Seq(PollFd) /\ DOMAIN fds' = DOMAIN fds
        /\ \A i \in DOMAIN fds : fds'[i].fd = fds[i].fd /\ fds'[i].revents = fds[i].revents
    BY <1>1, ArmKeeps
  <1> QED  BY <1>2, SameReportsKeepDue

\* handleNewConnection() appends behind the scan.
LEMMA AcceptKeepsDue == ASSUME IInv, DueAhead, Accept PROVE DueAhead'
  <1>1. phase = "scan" /\ Return
    BY DEF Accept, Visiting
  <1>2. PICK fd \in FreeFds : fds' = Append(fds, Watch(fd, {}))
    BY DEF Accept
  <1>3. fds \in Seq(PollFd) /\ Len(fds) \in Nat /\ DOMAIN fds = 1..Len(fds)
    BY SlotsTyped DEF IInv, TypeOK
  <1>4. fds' \in Seq(PollFd)
    BY AcceptKeeps DEF IInv, TypeOK
  <1>5. \A i \in DOMAIN fds : i \in DOMAIN fds' /\ fds'[i] = fds[i]
    <2> DEFINE w == Watch(fd, {})
    <2> HIDE DEF w
    <2>1. fds' = Append(fds, w)
      BY <1>2 DEF w
    <2> QED  BY <1>3, <2>1
  <1> QED  BY <1>1, <1>4, <1>5, ReturnKeepsDue

\* The handlers of the scan.
LEMMA ScanKeepsDue ==
    ASSUME IInv, DueAhead, NewClient \/ ClientData \/ HangUp \/ HandlePollOut
    PROVE  DueAhead'
  <1>1. ASSUME phase = "scan", Return, fds' = fds PROVE DueAhead'
    BY <1>1, SameTableKeepsDue
  <1>2. ASSUME phase = "scan", Return, CloseClient(at[1]) PROVE DueAhead'
    BY <1>2, CloseKeepsDue
  <1>3. ASSUME phase = "scan", Return, NEW answers, QueueResponse(answers) PROVE DueAhead'
    BY <1>3, QueueKeepsDue
  <1>4. ASSUME phase = "scan", Return, fds' = Disarm(fds, at[1]) PROVE DueAhead'
    <2>1. fds \in Seq(PollFd) /\ at[1] \in DOMAIN fds
      BY <1>4, HereTyped DEF IInv, TypeOK
    <2>2. /\ fds' \in Seq(PollFd) /\ DOMAIN fds' = DOMAIN fds
          /\ \A i \in DOMAIN fds : fds'[i].fd = fds[i].fd /\ fds'[i].revents = fds[i].revents
      BY <1>4, <2>1, DisarmKeeps
    <2> QED  BY <1>4, <2>2, SameReportsKeepDue
  <1>5. CASE NewClient
    <2>1. CASE Accept
      BY <2>1, AcceptKeepsDue
    <2>2. CASE AcceptFails
      BY <1>1, <2>2 DEF AcceptFails, Visiting
    <2> QED  BY <1>5, <2>1, <2>2 DEF NewClient
  <1>6. CASE RecvError \/ HangUp
    BY <1>2, <1>6 DEF RecvError, HangUp, Visiting
  <1>7. CASE RecvEof \/ AwaitBody \/ StartCgi
    BY <1>1, <1>7 DEF RecvEof, AwaitBody, StartCgi, Complete, DataReady, Visiting
  <1>8. CASE Respond
    BY <1>3, <1>8 DEF Respond, Complete, DataReady, Visiting
  <1>9. CASE Upload
    BY <1>1, <1>3, <1>9 DEF Upload, Complete, DataReady, Visiting
  <1>10. CASE HandlePollOut
    <2>1. phase = "scan"
      BY <1>10 DEF HandlePollOut, Visiting
    <2>2. CASE NothingToSend
      BY <1>4, <2>1, <2>2 DEF NothingToSend
    <2>3. CASE SendFails
      BY <1>2, <2>1, <2>3 DEF SendFails
    <2>4. CASE SendLast
      BY <1>2, <1>4, <2>1, <2>4 DEF SendLast
    <2>5. CASE SendPart
      BY <1>1, <2>1, <2>5 DEF SendPart
    <2> QED  BY <1>10, <2>2, <2>3, <2>4, <2>5 DEF HandlePollOut
  <1> QED  BY <1>5, <1>6, <1>7, <1>8, <1>9, <1>10 DEF ClientData

\* poll() fills in the reports, and the scan begins at the last entry.
LEMMA LoopKeepsDue == ASSUME IInv, DueAhead, Iterate PROVE DueAhead'
  <1>1. /\ fds \in Seq(PollFd) /\ Len(fds) \in Nat /\ DOMAIN fds = 1..Len(fds)
        /\ \A i \in DOMAIN fds : fds[i] \in PollFd
    BY SlotsTyped DEF IInv, TypeOK
  <1>2. ASSUME NEW ticks \in {0, 1}, Poll(ticks) PROVE DueAhead'
    <2>1. /\ fds' = [i \in DOMAIN fds |-> [fds[i] EXCEPT !.revents = Reported(fds[i])]]
          /\ due' = {fds[i].fd : i \in {j \in DOMAIN fds : Reported(fds[j]) # {}}}
          /\ phase' = "cgi"
      BY <1>2 DEF Poll
    <2>2. /\ DOMAIN fds' = DOMAIN fds
          /\ \A i \in DOMAIN fds : /\ fds'[i].fd = fds[i].fd
                                   /\ fds'[i].revents = Reported(fds[i])
      BY <1>1, <2>1 DEF PollFd
    <2>3. ASSUME NEW fd \in due'
          PROVE  \E i \in DOMAIN fds' : fds'[i].fd = fd /\ fds'[i].revents # {}
      <3>1. PICK i \in DOMAIN fds : Reported(fds[i]) # {} /\ fd = fds[i].fd
        BY <2>1
      <3> QED  BY <2>2, <3>1
    <2> QED  BY <2>1, <2>3 DEF DueAhead
  <1>3. CASE PollCgi
    <2>1. PICK answers : QueueResponse(answers)
      BY <1>3 DEF PollCgi
    <2>2. /\ fds' \in Seq(PollFd) /\ DOMAIN fds' = DOMAIN fds
          /\ \A i \in DOMAIN fds : fds'[i].fd = fds[i].fd /\ fds'[i].revents = fds[i].revents
      BY <1>1, <2>1, ArmKeeps DEF QueueResponse
    <2>3. phase = "cgi" /\ Resume(Len(fds), 0) /\ due' = due
      BY <1>3 DEF PollCgi
    <2>4. phase' \in {"scan", "sweep"}
      BY <1>1, <2>2, <2>3, ResumeFinds
    <2>5. ASSUME NEW fd \in due'
          PROVE  /\ phase' = "scan"
                 /\ \E i \in DOMAIN fds' : /\ fds'[i].fd = fd /\ fds'[i].revents # {}
                                           /\ i <= at'[1]
      <3>1. PICK i \in DOMAIN fds : fds[i].fd = fd /\ fds[i].revents # {}
        BY <2>3, <2>5 DEF DueAhead
      <3>2. i \in DOMAIN fds' /\ fds'[i].fd = fd /\ fds'[i].revents # {}
        BY <2>2, <3>1
      <3>3. i < Len(fds) \/ i = Len(fds)
        BY <1>1
      <3>4. phase' = "scan" /\ i <= at'[1]
        BY <1>1, <2>2, <2>3, <3>2, <3>3, ResumeStops
      <3> QED  BY <3>2, <3>4
    <2>6. phase' \in {"sweep", "poll"} => due' = {}
      BY <2>5
    <2>7. phase' \in {"cgi", "scan"} =>
             \A fd \in due' : \E i \in DOMAIN fds' :
                /\ fds'[i].fd = fd /\ fds'[i].revents # {}
                /\ phase' = "scan" => i <= at'[1]
      BY <2>5
    <2> QED  BY <2>6, <2>7 DEF DueAhead
  <1>4. CASE Sweep
    BY <1>4 DEF Sweep, DueAhead
  <1> QED  BY <1>2, <1>3, <1>4 DEF Iterate

\* Every step keeps what is due ahead of the scan.
LEMMA DueKept == IInv /\ DueAhead /\ [Next]_vars => DueAhead'
  <1> SUFFICES ASSUME IInv, DueAhead, [Next]_vars PROVE DueAhead'
    OBVIOUS
  <1>1. CASE Iterate
    BY <1>1, LoopKeepsDue
  <1>2. CASE NewClient \/ ClientData \/ HangUp \/ HandlePollOut
    BY <1>2, ScanKeepsDue
  <1>3. CASE Sigint \/ Cleanup
    BY <1>3 DEF Sigint, Cleanup, CleanupClient, CleanupListeners, ctlVars, DueAhead
  <1>4. CASE Peers \/ (\E p \in Pids : ChildExits(p)) \/ Stopped \/ UNCHANGED vars
    <2>1. UNCHANGED <<fds, ctlVars>>
      BY <1>4 DEF Peers, Connect, PeerSend, PeerRead, PeerGone, ChildExits, Stopped, vars
    <2> QED  BY <2>1 DEF DueAhead, ctlVars
  <1> QED  BY <1>1, <1>2, <1>3, <1>4 DEF Next, Server

-----------------------------------------------------------------------------
(* Whose response a peer is sent, when no request names a CGI script *)

\* A response is pending for the connection that is on its descriptor, and no
\* descriptor has a child.
OwedHere ==
    /\ \A fd \in Fds : cgiProcesses[fd] = None
    /\ \A fd \in Fds : sendBuffers[fd] # None => sendBuffers[fd].owner = sock[fd]

OwnInv == OwedHere /\ OwnResponse

\* What is sent on to the wire of a connection keeps it its own.
LEMMA SentStaysOwn ==
    ASSUME TypeOK, OwnResponse, NEW c \in Conns, NEW r \in Response, r.owner = c,
           NEW n \in Nat, r.sent + n <= r.size,
           wire' = [wire EXCEPT ![c] = @ \o Units(r, n)]
    PROVE  OwnResponse'
  <1> DEFINE u == Units(r, n)
  <1>1. u \in Seq(Unit) /\ wire \in [Conns -> Seq(Unit)]
    BY UnitsTyped DEF TypeOK
  <1>2. \A i \in DOMAIN u : u[i].owner = c
    BY DEF Units
  <1>3. wire' = [wire EXCEPT ![c] = wire[c] \o u]
    BY <1>1
  <1> HIDE DEF u
  <1>4. \A i \in DOMAIN (wire[c] \o u) : (wire[c] \o u)[i].owner = c
    <2> DEFINE s == wire[c]
    <2>1. s \in Seq(Unit) /\ \A i \in DOMAIN s : s[i].owner = c
      BY <1>1 DEF OwnResponse
    <2> HIDE DEF s
    <2>2. /\ Len(s \o u) = Len(s) + Len(u) /\ s \o u \in Seq(Unit)
          /\ \A i \in 1..Len(s) + Len(u) :
                (s \o u)[i] = IF i <= Len(s) THEN s[i] ELSE u[i - Len(s)]
      BY <1>1, <2>1, ConcatProperties
    <2>3. /\ DOMAIN s = 1..Len(s) /\ DOMAIN u = 1..Len(u)
          /\ DOMAIN (s \o u) = 1..Len(s) + Len(u)
          /\ Len(s) \in Nat /\ Len(u) \in Nat
      BY <1>1, <2>1, <2>2, LenProperties
    <2>4. ASSUME NEW i \in DOMAIN (s \o u) PROVE (s \o u)[i].owner = c
      <3>1. CASE i <= Len(s)
        BY <2>1, <2>2, <2>3, <3>1
      <3>2. CASE ~(i <= Len(s))
        <4>1. i - Len(s) \in DOMAIN u /\ (s \o u)[i] = u[i - Len(s)]
          BY <2>2, <2>3, <3>2
        <4> QED  BY <1>2, <4>1
      <3> QED  BY <3>1, <3>2
    <2> QED  BY <2>4 DEF s
  <1>5. \A d \in Conns : wire'[d] = IF d = c THEN wire[c] \o u ELSE wire[d]
    BY <1>1, <1>3
  <1> SUFFICES ASSUME NEW d \in Conns, NEW i \in DOMAIN wire'[d]
               PROVE  wire'[d][i].owner = d
    BY DEF OwnResponse
  <1>6. CASE d = c
    BY <1>4, <1>5, <1>6
  <1>7. CASE d # c
    <2>1. wire'[d] = wire[d]
      BY <1>5, <1>7
    <2> QED  BY <2>1 DEF OwnResponse
  <1> QED  BY <1>6, <1>7

\* A step that leaves sockets and wires alone and queues only for the connection
\* on the descriptor.
LEMMA OwedFrame ==
    ASSUME OwnInv, UNCHANGED <<cgiProcesses, sock, wire>>,
           \A fd \in Fds : sendBuffers'[fd] # None =>
              \/ sendBuffers'[fd].owner = sock[fd]
              \/ /\ sendBuffers[fd] # None
                 /\ sendBuffers'[fd].owner = sendBuffers[fd].owner
    PROVE  OwnInv'
  BY DEF OwnInv, OwedHere, OwnResponse

\* closeClient() drops response and socket together.
LEMMA CloseKeepsOwed ==
    ASSUME IInv, OwedHere, NEW i \in DOMAIN fds, CloseClient(i), cgiProcesses' = cgiProcesses
    PROVE  OwedHere'
  <1>1. fds[i].fd \in Fds /\ DOMAIN sock = Fds /\ DOMAIN sendBuffers = Fds
    BY SlotsTyped DEF IInv, TypeOK
  <1> DEFINE fd == fds[i].fd
  <1>2. /\ sendBuffers' = [sendBuffers EXCEPT ![fd] = None]
        /\ sock' = [sock EXCEPT ![fd] = None]
    BY DEF CloseClient
  <1> HIDE DEF fd
  <1>3. \A g \in Fds : sendBuffers'[g] # None =>
           sendBuffers'[g] = sendBuffers[g] /\ sock'[g] = sock[g]
    BY <1>1, <1>2
  <1> QED  BY <1>3 DEF OwedHere

\* handleNewConnection(): a descriptor that is free has nothing pending.
LEMMA AcceptKeepsOwn == ASSUME IInv, OwnInv, Accept PROVE OwnInv'
  <1>1. PICK c \in Conns, fd \in FreeFds : sock' = [sock EXCEPT ![fd] = c]
    BY DEF Accept
  <1>2. UNCHANGED <<wire, sendBuffers, cgiProcesses>>
    BY DEF Accept, cgiVars
  <1>3. fd \in Fds /\ sock[fd] = None /\ DOMAIN sock = Fds
    BY DEF FreeFds, Fds, IInv, TypeOK
  <1>4. sendBuffers[fd] = None
    <2>1. None \notin Conns
      BY DescriptorAssumption
    <2> QED  BY <1>3, <2>1 DEF IInv, OwedToAccepted, Accepted, OwnInv, OwedHere
  <1>5. OwedHere'
    BY <1>1, <1>2, <1>3, <1>4 DEF OwnInv, OwedHere
  <1> QED  BY <1>2, <1>5 DEF OwnInv, OwnResponse

\* handleClientData(), for a request that names no script.
LEMMA ClientDataKeepsOwn ==
    ASSUME "cgi" \notin Behaviours, IInv, OwnInv, ClientData PROVE OwnInv'
  <1>1. phase = "scan" /\ Here \in ClientFds /\ TypeOK
    BY DEF ClientData, RecvError, RecvEof, AwaitBody, Respond, Upload, StartCgi,
       Complete, DataReady, Visiting, IInv
  <1>2. at[1] \in DOMAIN fds /\ Here \in Fds /\ Caller \in Conns /\ sock[Here] = Caller
    BY <1>1, HereTyped DEF Caller
  <1>3. ASSUME NEW n, QueueResponse([fd \in {Here} |-> Reply(Caller, n)])
        PROVE  \A fd \in Fds : sendBuffers'[fd] # None =>
                  sendBuffers'[fd] = sendBuffers[fd] \/ sendBuffers'[fd].owner = sock[fd]
    BY <1>2, <1>3 DEF QueueResponse, Reply
  <1>4. CASE RecvError
    <2>1. CloseClient(at[1]) /\ UNCHANGED <<wire, cgiProcesses>>
      BY <1>4 DEF RecvError, cgiVars
    <2>2. OwedHere'
      BY <1>2, <2>1, CloseKeepsOwed DEF OwnInv
    <2> QED  BY <2>1, <2>2 DEF OwnInv, OwnResponse
  <1>5. CASE RecvEof \/ AwaitBody
    <2>1. UNCHANGED <<wire, sock, sendBuffers, cgiProcesses>>
      BY <1>5 DEF RecvEof, AwaitBody, RecvData, netVars, tableVars, cgiVars
    <2> QED  BY <2>1, OwedFrame
  <1>6. CASE Respond
    <2>1. UNCHANGED <<wire, sock, cgiProcesses>>
      BY <1>6 DEF Respond, RecvData, cgiVars
    <2>2. PICK n \in 1..MaxUnits : QueueResponse([fd \in {Here} |-> Reply(Caller, n)])
      BY <1>6 DEF Respond
    <2> QED  BY <1>3, <2>1, <2>2, OwedFrame
  <1>7. CASE Upload
    <2> DEFINE n == IF peer[Caller] = "rst" THEN 0 ELSE Least(1, room[Caller])
    <2>1. /\ sock' = sock /\ cgiProcesses' = cgiProcesses
          /\ \/ QueueResponse([fd \in {Here} |-> Reply(Caller, 1)])
             \/ sendBuffers' = sendBuffers
          /\ wire' = [wire EXCEPT ![Caller] = @ \o Units(Reply(Caller, 1), n)]
      BY <1>7 DEF Upload, RecvData, cgiVars
    <2>2. n \in Nat /\ n <= 1
      BY <1>1, <1>2, BoundAssumption DEF Least, TypeOK
    <2> HIDE DEF n
    <2>3. /\ Reply(Caller, 1) \in Response /\ Reply(Caller, 1).owner = Caller
          /\ Reply(Caller, 1).sent + n <= Reply(Caller, 1).size
      BY <1>2, <2>2, BoundAssumption DEF Reply, Response
    <2>4. OwnResponse'
      BY <1>1, <1>2, <2>1, <2>2, <2>3, SentStaysOwn DEF OwnInv
    <2>5. \A fd \in Fds : sendBuffers'[fd] # None =>
             sendBuffers'[fd] = sendBuffers[fd] \/ sendBuffers'[fd].owner = sock[fd]
      BY <1>3, <2>1
    <2>6. OwedHere'
      BY <2>1, <2>5 DEF OwnInv, OwedHere
    <2> QED  BY <2>4, <2>6 DEF OwnInv
  <1>8. ~StartCgi
    BY DEF StartCgi
  <1> QED  BY <1>4, <1>5, <1>6, <1>7, <1>8 DEF ClientData

\* handlePollOut() sends what is pending on the descriptor.
LEMMA HandlePollOutKeepsOwn == ASSUME IInv, OwnInv, HandlePollOut PROVE OwnInv'
  <1>1. /\ at[1] \in DOMAIN fds /\ Here \in Fds /\ Here \in ClientFds /\ Caller \in Conns
        /\ TypeOK
    <2>1. phase = "scan" /\ Tests[at[2]] = "OUT"
      BY DEF HandlePollOut, Visiting
    <2> QED  BY <2>1, HereTyped DEF Fds, IInv
  <1>2. CASE sendBuffers[Here] = None /\ NothingToSend
    BY <1>2, OwedFrame DEF NothingToSend, netVars, tableVars, cgiVars
  <1>3. CASE SendFails
    <2>1. CloseClient(at[1]) /\ UNCHANGED <<wire, cgiProcesses>>
      BY <1>3 DEF SendFails, cgiVars
    <2>2. OwedHere'
      BY <1>1, <2>1, CloseKeepsOwed DEF OwnInv
    <2> QED  BY <2>1, <2>2 DEF OwnInv, OwnResponse
  <1>4. ASSUME sendBuffers[Here] # None, Sendable > 0, Transmit PROVE OwnResponse'
    <2>1. /\ sendBuffers[Here] \in Response /\ Sendable \in Nat
          /\ sendBuffers[Here].sent + Sendable <= sendBuffers[Here].size
      BY <1>1, <1>4, TransmitKeeps
    <2>2. sendBuffers[Here].owner = Caller
      BY <1>1, <1>4 DEF OwnInv, OwedHere, Caller
    <2>3. wire' = [wire EXCEPT ![Caller] = @ \o Units(sendBuffers[Here], Sendable)]
      BY <1>4 DEF Transmit
    <2> QED  BY <1>1, <2>1, <2>2, <2>3, SentStaysOwn DEF OwnInv
  <1>5. CASE sendBuffers[Here] # None /\ SendLast
    <2>1. OwnResponse' /\ cgiProcesses' = cgiProcesses
      BY <1>4, <1>5 DEF SendLast, Transmit, cgiVars
    <2>2. CASE closeAfterSend[Here]
      BY <1>1, <1>5, <2>1, <2>2, CloseKeepsOwed DEF SendLast, OwnInv
    <2>3. CASE ~closeAfterSend[Here]
      <3>1. sendBuffers' = [sendBuffers EXCEPT ![Here] = None] /\ sock' = sock
        BY <1>5, <2>3 DEF SendLast
      <3>2. \A fd \in Fds : sendBuffers'[fd] # None => sendBuffers'[fd] = sendBuffers[fd]
        BY <1>1, <3>1 DEF TypeOK
      <3> QED  BY <2>1, <3>1, <3>2 DEF OwnInv, OwedHere
    <2> QED  BY <2>2, <2>3
  <1>6. CASE sendBuffers[Here] # None /\ SendPart
    <2>1. OwnResponse' /\ cgiProcesses' = cgiProcesses /\ sock' = sock
      BY <1>4, <1>6 DEF SendPart, Transmit, cgiVars
    <2>2. sendBuffers' = [sendBuffers EXCEPT ![Here].sent = @ + Sendable]
      BY <1>6 DEF SendPart
    <2> DEFINE r == sendBuffers[Here]
               rest == [r EXCEPT !.sent = @ + Sendable]
    <2>3. r \in Response
      BY <1>1, <1>6 DEF TypeOK
    <2>4. rest.owner = r.owner
      BY <2>3 DEF Response
    <2>5. sendBuffers' = [sendBuffers EXCEPT ![Here] = rest]
      BY <1>1, <2>2, <2>3 DEF Response, TypeOK
    <2> HIDE DEF rest
    <2>6. \A fd \in Fds : sendBuffers'[fd] # None =>
             sendBuffers[fd] # None /\ sendBuffers'[fd].owner = sendBuffers[fd].owner
      BY <1>1, <1>6, <2>4, <2>5 DEF TypeOK
    <2> QED  BY <2>1, <2>6 DEF OwnInv, OwedHere
  <1> QED  BY <1>2, <1>3, <1>5, <1>6 DEF HandlePollOut

\* Every step, when no request names a script.
LEMMA OwnKept ==
    ASSUME "cgi" \notin Behaviours
    PROVE  IInv /\ OwnInv /\ [Next]_vars => OwnInv'
  <1> SUFFICES ASSUME IInv, OwnInv, [Next]_vars PROVE OwnInv'
    OBVIOUS
  <1>1. ASSUME UNCHANGED <<wire, sock, sendBuffers, cgiProcesses>> PROVE OwnInv'
    BY <1>1, OwedFrame
  <1>2. ASSUME NEW ticks \in {0, 1}, Poll(ticks) PROVE OwnInv'
    BY <1>1, <1>2 DEF Poll, netVars, cgiVars
  <1>3. CASE PollCgi
    <2>1. {fd \in Fds : Expired(fd) \/ Ended(fd)} = {}
      BY DEF Expired, Ended, OwnInv, OwedHere
    <2>2. /\ \A fd \in Fds : sendBuffers'[fd] = sendBuffers[fd]
          /\ \A fd \in Fds : cgiProcesses'[fd] = cgiProcesses[fd]
          /\ UNCHANGED <<sock, wire>>
      BY <1>3, <2>1 DEF PollCgi, QueueResponse, Untrack, netVars
    <2> QED  BY <2>2 DEF OwnInv, OwedHere, OwnResponse
  <1>4. CASE Sweep
    <2>1. \A fd \in Fds : sendBuffers'[fd] # None =>
             sendBuffers'[fd] = sendBuffers[fd] \/ sendBuffers'[fd].owner = sock[fd]
      BY <1>4 DEF Sweep, QueueResponse, Reply
    <2>2. UNCHANGED <<cgiProcesses, sock, wire>>
      BY <1>4 DEF Sweep, netVars, cgiVars
    <2> QED  BY <2>1, <2>2, OwedFrame
  <1>5. CASE NewClient
    BY <1>1, <1>5, AcceptKeepsOwn DEF NewClient, AcceptFails, netVars, tableVars, cgiVars
  <1>6. CASE ClientData
    BY <1>6, ClientDataKeepsOwn
  <1>7. CASE HandlePollOut
    BY <1>7, HandlePollOutKeepsOwn
  <1>8. CASE HangUp \/ CleanupClient
    <2>1. PICK i : CloseClient(i)
      BY <1>8 DEF HangUp, CleanupClient
    <2>2. UNCHANGED <<wire, cgiProcesses>>
      BY <1>8 DEF HangUp, CleanupClient, cgiVars
    <2>3. CASE i \in DOMAIN fds
      <3>1. OwedHere'
        BY <2>1, <2>2, <2>3, CloseKeepsOwed DEF OwnInv
      <3> QED  BY <2>2, <3>1 DEF OwnInv, OwnResponse
    <2>4. CASE i \notin DOMAIN fds
      BY <1>1, <2>1, <2>2, <2>4 DEF CloseClient, tableVars
    <2> QED  BY <2>3, <2>4
  <1>9. CASE Sigint \/ CleanupListeners \/ (\E p \in Pids : ChildExits(p)) \/ Stopped
             \/ UNCHANGED vars
    BY <1>1, <1>9 DEF Sigint, CleanupListeners, ChildExits, Stopped, vars, netVars,
       tableVars, cgiVars
  <1>10. CASE Peers
    BY <1>1, <1>10 DEF Peers, Connect, PeerSend, PeerRead, PeerGone, tableVars, cgiVars
  <1> QED  BY <1>2, <1>3, <1>4, <1>5, <1>6, <1>7, <1>8, <1>9, <1>10
           DEF Next, Server, Iterate, Cleanup

-----------------------------------------------------------------------------
(* The theorems *)

\* What _cgiProcesses records is a child whose pipes are open and whose
\* _pidToClientFd entry leads back to it, whatever clients are closed under
\* their children and whatever requests follow each other on one descriptor:
\* finalizeCGI() never closes the pipes of one child twice (execute,
\* finalizeCGI).
THEOREM TrackedAreOpen == Spec => []TrackedCgiIsOpen
  <1>1. Init => TrackedCgiIsOpen /\ OpenIsBorn
    BY DEF Init, TrackedCgiIsOpen, OpenIsBorn
  <1> QED  BY InitIInv, NextKeeps, TrackedKept, <1>1, PTL DEF Spec

\* A response never sits in _sendBuffers with nobody asking for POLLOUT, and
\* POLLOUT is never asked for without one: no peer is forgotten with its answer
\* ready, and poll() never spins on a writable socket with nothing to write
\* (queueResponse, handlePollOut, closeClient).
THEOREM PendingAlwaysArmed == Spec => []PendingIsArmed
  <1>1. Init => PendingIsArmed
    BY InitArms
  <1> QED  BY InitIInv, NextKeeps, PendingKept, <1>1, PTL DEF Spec

\* Whatever handlers erase from _fds and append to it while run() walks over it
\* by index, every descriptor poll() reported has been visited when the scan
\* ends: an erased entry shifts only entries the scan has behind it (run,
\* closeClient, handleNewConnection).
THEOREM ScanIsComplete == Spec => []ScanMissesNobody
  <1>1. Init => DueAhead
    BY DEF Init, DueAhead
  <1>2. DueAhead => ScanMissesNobody
    BY DEF DueAhead, ScanMissesNobody
  <1> QED  BY InitIInv, NextKeeps, DueKept, <1>1, <1>2, PTL DEF Spec

\* As long as no request names a CGI script no peer is sent a unit of the answer
\* to another one's request, however descriptors are reused and timeouts strike:
\* closeClient() leaves nothing behind for the next connection on a descriptor
\* but a CGI child (closeClient, handleNewConnection, handlePollOut).
THEOREM OwnWithoutScripts ==
    ASSUME "cgi" \notin Behaviours PROVE Spec => []OwnResponse
  <1>1. Init => OwnInv
    BY DEF Init, OwnInv, OwedHere, OwnResponse
  <1>2. OwnInv => OwnResponse
    BY DEF OwnInv
  <1>3. IInv /\ OwnInv /\ [Next]_vars => OwnInv'
    BY OwnKept
  <1> QED  BY InitIInv, NextKeeps, <1>1, <1>2, <1>3, PTL DEF Spec
=============================================================================
