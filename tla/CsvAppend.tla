----------------------------- MODULE CsvAppend -----------------------------
(***************************************************************************)
(* appendToCSV(): several server processes, or one after a crash, append   *)
(* to one contacts.csv.  A call opens the file, takes flock(LOCK_EX), sees *)
(* whether the file is empty, and writes the header, if it is, and a row,  *)
(* in as many write() calls as it takes.  The call is made in the one      *)
(* thread of the server, so a process is in one call at a time.            *)
(*                                                                         *)
(* What is written is counted in pieces: write() may take any part of the  *)
(* line, and O_APPEND puts each piece at the end as the file is then.      *)
(***************************************************************************)
EXTENDS Integers, Sequences

CONSTANTS
    None,
    Process,     \* the server processes
    Header,      \* pieces of the header line
    Row,         \* pieces of a row
    Calls        \* how often a process may call appendToCSV(): a bound

ASSUME CsvAssumption ==
    /\ None \notin Process
    /\ Header \in Nat /\ Row \in Nat \ {0} /\ Calls \in Nat

VARIABLES
    file,        \* contacts.csv, as a sequence of pieces
    lock,        \* who holds the flock
    pc,          \* where a process is
    call,        \* the number of its call
    empty,       \* bool empty
    written,     \* ssize_t written, in pieces
    refused      \* history: a flock(LOCK_EX) has failed

vars == <<file, lock, pc, call, empty, written, refused>>

\* One piece of a line: of which call, the how-manieth, and of which part
Piece == [by : Process, call : Nat, place : Nat, header : BOOLEAN]

TypeOK ==
    /\ file \in Seq(Piece)
    /\ lock \in Process \cup {None}
    /\ pc \in [Process -> {"idle", "flock", "fstat", "write", "close", "dead"}]
    /\ call \in [Process -> 0..Calls]
    /\ empty \in [Process -> BOOLEAN]
    /\ written \in [Process -> 0..Header + Row]
    /\ refused \in BOOLEAN

Init ==
    /\ file = <<>>
    /\ lock = None
    /\ pc = [p \in Process |-> "idle"]
    /\ call = [p \in Process |-> 0]
    /\ empty = [p \in Process |-> FALSE]
    /\ written = [p \in Process |-> 0]
    /\ refused = FALSE

-----------------------------------------------------------------------------

At(p, here) == pc[p] = here
Go(p, there) == pc' = [pc EXCEPT ![p] = there]

\* open(), which fails without a trace
Open(p) ==
    /\ At(p, "idle") /\ call[p] < Calls
    /\ call' = [call EXCEPT ![p] = @ + 1]
    /\ pc' \in {pc, [pc EXCEPT ![p] = "flock"]}
    /\ UNCHANGED <<file, lock, empty, written, refused>>

\* Variant: nobody waits for the lock
FlockShared(p) ==
    /\ At(p, "flock")
    /\ lock' = p
    /\ Go(p, "fstat")
    /\ UNCHANGED <<file, call, empty, written, refused>>

\* flock(LOCK_EX): the process, with its event loop, waits for the lock
Flock(p) ==
    /\ At(p, "flock") /\ lock = None
    /\ lock' = p
    /\ Go(p, "fstat")
    /\ UNCHANGED <<file, call, empty, written, refused>>

\* flock() fails, and the call goes on without the lock
FlockFails(p) ==
    /\ At(p, "flock")
    /\ refused' = TRUE
    /\ Go(p, "fstat")
    /\ UNCHANGED <<file, lock, call, empty, written>>

\* Variant: the file is taken to be empty in every first call
FstatOnce(p) ==
    /\ At(p, "fstat")
    /\ empty' = [empty EXCEPT ![p] = call[p] = 1]
    /\ written' = [written EXCEPT ![p] = 0]
    /\ Go(p, "write")
    /\ UNCHANGED <<file, lock, call, refused>>

\* fstat(): if it fails, the file is taken not to be empty
Fstat(p) ==
    /\ At(p, "fstat")
    /\ \E known \in BOOLEAN : empty' = [empty EXCEPT ![p] = known /\ file = <<>>]
    /\ written' = [written EXCEPT ![p] = 0]
    /\ Go(p, "write")
    /\ UNCHANGED <<file, lock, call, refused>>

Length(p) == IF empty[p] THEN Header + Row ELSE Row

\* Variant: the loop goes round once more
WriteOneMore(p) ==
    /\ At(p, "write") /\ written[p] <= Length(p)
    /\ file' = Append(file, [by |-> p, call |-> call[p], place |-> written[p] + 1,
                             header |-> empty[p] /\ written[p] < Header])
    /\ written' = [written EXCEPT ![p] = @ + 1]
    /\ UNCHANGED <<lock, pc, call, empty, refused>>

\* write() takes one more piece
Write(p) ==
    /\ At(p, "write") /\ written[p] < Length(p)
    /\ file' = Append(file, [by |-> p, call |-> call[p], place |-> written[p] + 1,
                             header |-> empty[p] /\ written[p] < Header])
    /\ written' = [written EXCEPT ![p] = @ + 1]
    /\ UNCHANGED <<lock, pc, call, empty, refused>>

\* All is written, or write() fails and the rest is given up
WriteEnds(p) ==
    /\ At(p, "write")
    /\ Go(p, "close")
    /\ UNCHANGED <<file, lock, call, empty, written, refused>>

\* Variant: only a line that was written whole is followed by LOCK_UN
CloseWhole(p) ==
    /\ At(p, "close")
    /\ lock' = IF lock = p /\ written[p] = Length(p) THEN None ELSE lock
    /\ Go(p, "idle")
    /\ UNCHANGED <<file, call, empty, written, refused>>

\* flock(LOCK_UN) and close()
Close(p) ==
    /\ At(p, "close")
    /\ lock' = IF lock = p THEN None ELSE lock
    /\ Go(p, "idle")
    /\ UNCHANGED <<file, call, empty, written, refused>>

\* A process is killed; the kernel gives back its lock
Crash(p) ==
    /\ ~At(p, "dead")
    /\ lock' = IF lock = p THEN None ELSE lock
    /\ Go(p, "dead")
    /\ UNCHANGED <<file, call, empty, written, refused>>

AppendToCSV(p) ==
    Open(p) \/ Flock(p) \/ FlockFails(p) \/ Fstat(p) \/ Write(p) \/ WriteEnds(p)
    \/ Close(p)

Quiet == (\A p \in Process : pc[p] \in {"idle", "dead"}) /\ UNCHANGED vars

Next == (\E p \in Process : AppendToCSV(p) \/ Crash(p)) \/ Quiet

Spec == Init /\ [][Next]_vars

\* The thread of each process is scheduled, and the kernel does not keep one
\* waiting for ever for a lock that others give back again and again.
FairSpec ==
    Spec /\ \A p \in Process :
        /\ SF_vars(Flock(p))
        /\ WF_vars(Fstat(p)) /\ WF_vars(Write(p) \/ WriteEnds(p)) /\ WF_vars(Close(p))

-----------------------------------------------------------------------------

\* As long as no flock() fails, the header is written once, at the beginning of
\* the file, whoever comes first, whichever write() fails and whoever dies in
\* between (appendToCSV: fstat under the lock).
HeaderOnlyFirst ==
    ~refused => \A i \in DOMAIN file : file[i].header => file[i].place = i

\* As long as no flock() fails, the pieces of a line are never torn apart by those
\* of another process: a line may break off, but never goes on behind another
\* (appendToCSV: the lock is kept around the loop of write()).
LinesUnbroken ==
    ~refused =>
        \A i, j \in DOMAIN file :
            /\ i < j
            /\ file[i].by = file[j].by /\ file[i].call = file[j].call
            => file[j].place = file[i].place + (j - i)

\* A call comes to its end: no process that lives waits for ever for another,
\* also if that one gave up its line or was killed (LOCK_UN on every path).
EveryCallEnds ==
    \A p \in Process : pc[p] = "flock" ~> pc[p] \in {"idle", "dead"}
=============================================================================
