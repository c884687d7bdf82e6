---------------------------- MODULE MCEventLoop ----------------------------
(* Instances of EventLoop for TLC. *)
EXTENDS EventLoop

\* Connections, client descriptors and pids are interchangeable
Interchangeable ==
    Permutations(Conns) \cup Permutations(ClientFds) \cup Permutations(Pids)
=============================================================================
