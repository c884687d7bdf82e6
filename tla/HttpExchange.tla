---------------------------- MODULE HttpExchange ----------------------------
(***************************************************************************)
(* What the server promises a well-behaved peer, said without descriptors, *)
(* buffers or children: a connection is sent the units of one response,    *)
(* its own, in order and without a gap, and is closed when the last one is *)
(* out.  Only the end of the server cuts an exchange short.                *)
(***************************************************************************)
EXTENDS Naturals, Sequences

CONSTANTS Conns,      \* the connections
          MaxUnits    \* units of the longest response

VARIABLES status,     \* of each connection: "new", "open", "closed"
          stream,     \* the units it has been sent
          stopping    \* the server has been told to stop

vars == <<status, stream, stopping>>

Finished(units) == units # <<>> /\ units[Len(units)].last

\* n more units of the response to c, the last of them its final one if done
Continue(c, n, done) ==
    LET before == Len(stream[c]) IN
    stream[c] \o [i \in 1..n |-> [owner |-> c, unit |-> before + i,
                                  last |-> done /\ i = n]]

Init ==
    /\ status = [c \in Conns |-> "new"]
    /\ stream = [c \in Conns |-> <<>>]
    /\ stopping = FALSE

Open(c) ==
    /\ status[c] = "new"
    /\ status' = [status EXCEPT ![c] = "open"]
    /\ UNCHANGED <<stream, stopping>>

Answer(c) ==
    /\ status[c] = "open"
    /\ \E n \in 1..MaxUnits - Len(stream[c]), done \in BOOLEAN :
          /\ Len(stream[c]) + n = MaxUnits => done
          /\ stream' = [stream EXCEPT ![c] = Continue(c, n, done)]
          /\ status' = [status EXCEPT ![c] = IF done THEN "closed" ELSE "open"]
    /\ UNCHANGED stopping

Stop == ~stopping /\ stopping' = TRUE /\ UNCHANGED <<status, stream>>

CutShort(c) ==
    /\ stopping
    /\ status[c] = "open"
    /\ status' = [status EXCEPT ![c] = "closed"]
    /\ UNCHANGED <<stream, stopping>>

Next == Stop \/ \E c \in Conns : Open(c) \/ Answer(c) \/ CutShort(c)

Spec == Init /\ [][Next]_vars

\* Every exchange that was opened is brought to its end
FairSpec == Spec /\ \A c \in Conns : WF_vars(Answer(c) \/ CutShort(c))
=============================================================================
