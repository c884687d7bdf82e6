-------------------------- MODULE CsvAppendProofs --------------------------
(***************************************************************************)
(* What appendToCSV() keeps true for any number of processes, calls and    *)
(* pieces.  The argument: as long as no flock() fails, only the holder of  *)
(* the lock is between flock() and close(), so that whoever found the file *)
(* empty is still the only one to have written when it writes on, and the  *)
(* pieces of its call are the last ones of the file.                       *)
(***************************************************************************)
EXTENDS CsvAppend, SequenceTheorems, TLAPS

USE CsvAssumption DEF CsvAssumption

\* The pieces of the file are pieces.
LEMMA PiecesTyped ==
    ASSUME TypeOK, NEW i \in DOMAIN file
    PROVE  i \in Int /\ file[i] \in Piece /\ file[i].call \in Nat /\ file[i].place \in Nat
<1>1. file \in Seq(Piece)
  BY DEF TypeOK
<1>2. DOMAIN file = 1..Len(file) /\ file[i] \in Piece
  BY <1>1
<1>3. QED
  BY <1>2 DEF Piece

\* Every value a variable takes is one that the code's variable can have.
THEOREM TypeCorrect == Spec => []TypeOK
<1>1. Init => TypeOK
  <2> SUFFICES ASSUME Init PROVE TypeOK
    OBVIOUS
  <2>1. file \in Seq(Piece) /\ lock \in Process \cup {None} /\ refused \in BOOLEAN
    BY EmptySeq DEF Init
  <2>2. pc \in [Process -> {"idle", "flock", "fstat", "write", "close", "dead"}]
    BY DEF Init
  <2>3. call \in [Process -> 0..Calls] /\ written \in [Process -> 0..Header + Row]
    BY DEF Init
  <2>4. empty \in [Process -> BOOLEAN]
    BY DEF Init
  <2>5. QED
    BY <2>1, <2>2, <2>3, <2>4 DEF TypeOK
<1>2. TypeOK /\ [Next]_vars => TypeOK'
  <2> SUFFICES ASSUME TypeOK, [Next]_vars PROVE TypeOK'
    OBVIOUS
  <2> USE DEF TypeOK, At, Go
  <2>1. ASSUME NEW p \in Process, Open(p) PROVE TypeOK'
    BY <2>1 DEF Open
  <2>2. ASSUME NEW p \in Process, Flock(p) PROVE TypeOK'
    BY <2>2 DEF Flock
  <2>3. ASSUME NEW p \in Process, FlockFails(p) PROVE TypeOK'
    BY <2>3 DEF FlockFails
  <2>4. ASSUME NEW p \in Process, Fstat(p) PROVE TypeOK'
    <3>1. empty' \in [Process -> BOOLEAN]
      BY <2>4 DEF Fstat
    <3>2. QED
      BY <2>4, <3>1 DEF Fstat
  <2>5. ASSUME NEW p \in Process, Write(p) PROVE TypeOK'
    <3>1. written[p] \in Nat /\ call[p] \in Nat /\ empty[p] \in BOOLEAN
      OBVIOUS
    <3>2. [by |-> p, call |-> call[p], place |-> written[p] + 1,
           header |-> empty[p] /\ written[p] < Header] \in Piece
      BY <3>1 DEF Piece
    <3>3. file' \in Seq(Piece)
      BY <2>5, <3>2 DEF Write
    <3>4. written' \in [Process -> 0..Header + Row]
      BY <2>5 DEF Write, Length
    <3>5. QED
      BY <2>5, <3>3, <3>4 DEF Write
  <2>6. ASSUME NEW p \in Process, WriteEnds(p) PROVE TypeOK'
    BY <2>6 DEF WriteEnds
  <2>7. ASSUME NEW p \in Process, Close(p) PROVE TypeOK'
    BY <2>7 DEF Close
  <2>8. ASSUME NEW p \in Process, Crash(p) PROVE TypeOK'
    BY <2>8 DEF Crash
  <2>9. CASE UNCHANGED vars
    BY <2>9 DEF vars
  <2>10. QED
    BY <2>1, <2>2, <2>3, <2>4, <2>5, <2>6, <2>7, <2>8, <2>9
       DEF Next, AppendToCSV, Quiet
<1>3. QED
  BY <1>1, <1>2, PTL DEF Spec

-----------------------------------------------------------------------------
(* The inductive invariant *)

Busy(p) == pc[p] \in {"fstat", "write", "close"}

\* Only the holder of the lock is between flock() and close().
Exclusive == ~refused => \A p \in Process : Busy(p) => lock = p

\* Who found the file empty has written all there is.
Alone ==
    ~refused => \A p \in Process : At(p, "write") /\ empty[p] => Len(file) = written[p]

\* No piece is of a call that has not been made, and a call that has not reached
\* its first write() has no piece.
OfCallsMade ==
    \A i \in DOMAIN file : \A p \in Process :
        file[i].by = p =>
            /\ file[i].call <= call[p]
            /\ pc[p] \in {"flock", "fstat"} => file[i].call < call[p]

\* The pieces of a call that is writing end with the file.
AtTheEnd ==
    ~refused =>
        \A p \in Process : \A i \in DOMAIN file :
            /\ At(p, "write")
            /\ file[i].by = p /\ file[i].call = call[p]
            => file[i].place = written[p] - (Len(file) - i)

IInv == TypeOK /\ Exclusive /\ Alone /\ OfCallsMade /\ AtTheEnd /\ HeaderOnlyFirst /\ LinesUnbroken

LEMMA InitEstablishes == TypeOK /\ Init => IInv
<1> SUFFICES ASSUME TypeOK, Init PROVE IInv
  OBVIOUS
<1>1. DOMAIN file = {} /\ \A p \in Process : pc[p] = "idle"
  BY DEF Init
<1>2. QED
  BY <1>1 DEF IInv, Exclusive, Busy, Alone, At, OfCallsMade, AtTheEnd,
              HeaderOnlyFirst, LinesUnbroken

\* Steps that leave the file alone leave what is said of the file alone.
LEMMA FileKept ==
    ASSUME HeaderOnlyFirst, LinesUnbroken, file' = file, refused' \in {refused, TRUE}
    PROVE  HeaderOnlyFirst' /\ LinesUnbroken'
  BY DEF HeaderOnlyFirst, LinesUnbroken

LEMMA OpenKeeps ==
    ASSUME IInv, TypeOK', NEW p \in Process, Open(p) PROVE IInv'
<1> USE DEF IInv
<1>1. Exclusive'
  BY DEF Open, Exclusive, Busy, TypeOK, At
<1>2. Alone'
  BY DEF Open, Alone, TypeOK, At
<1>3. OfCallsMade'
  <2>1. \A i \in DOMAIN file : file[i].call \in Nat
    BY PiecesTyped
  <2>2. \A q \in Process : call[q] \in Nat /\ call'[q] \in Nat /\ call[q] <= call'[q]
    BY DEF Open, TypeOK
  <2>3. \A q \in Process : pc'[q] \in {"flock", "fstat"} =>
            pc[q] \in {"flock", "fstat"} \/ call[q] < call'[q]
    BY DEF Open, TypeOK
  <2>4. QED
    BY <2>1, <2>2, <2>3 DEF Open, OfCallsMade
<1>4. AtTheEnd'
  BY DEF Open, AtTheEnd, TypeOK, At
<1>5. QED
  BY <1>1, <1>2, <1>3, <1>4, FileKept DEF Open

LEMMA FlockKeeps ==
    ASSUME IInv, TypeOK', NEW p \in Process, Flock(p) PROVE IInv'
<1> USE DEF IInv
<1>1. Exclusive'
  BY DEF Flock, Exclusive, Busy, TypeOK, At, Go
<1>2. Alone'
  BY DEF Flock, Alone, TypeOK, At, Go
<1>3. OfCallsMade'
  BY DEF Flock, OfCallsMade, TypeOK, At, Go
<1>4. AtTheEnd'
  BY DEF Flock, AtTheEnd, TypeOK, At, Go
<1>5. QED
  BY <1>1, <1>2, <1>3, <1>4, FileKept DEF Flock

LEMMA FlockFailsKeeps ==
    ASSUME IInv, TypeOK', NEW p \in Process, FlockFails(p) PROVE IInv'
<1> USE DEF IInv
<1>1. refused'
  BY DEF FlockFails
<1>2. OfCallsMade'
  BY DEF FlockFails, OfCallsMade, TypeOK, At, Go
<1>3. QED
  BY <1>1, <1>2 DEF Exclusive, Alone, AtTheEnd, HeaderOnlyFirst, LinesUnbroken

LEMMA FstatKeeps ==
    ASSUME IInv, TypeOK', NEW p \in Process, Fstat(p) PROVE IInv'
<1> USE DEF IInv
<1>1. Exclusive'
  BY DEF Fstat, Exclusive, Busy, TypeOK, At, Go
<1>2. Alone'
  <2> SUFFICES ASSUME ~refused', NEW q \in Process, At(q, "write")', empty'[q]
               PROVE  Len(file') = written'[q]
    BY DEF Alone
  <2>1. CASE q = p
    <3>1. file = <<>>
      BY <2>1 DEF Fstat, TypeOK
    <3>2. QED
      BY <2>1, <3>1 DEF Fstat, TypeOK
  <2>2. CASE q # p
    BY <2>2 DEF Fstat, Alone, TypeOK, At, Go
  <2>3. QED
    BY <2>1, <2>2
<1>3. OfCallsMade'
  BY DEF Fstat, OfCallsMade, TypeOK, At, Go
<1>4. AtTheEnd'
  <2> SUFFICES ASSUME ~refused', NEW q \in Process, NEW i \in DOMAIN file', At(q, "write")',
                      file'[i].by = q, file'[i].call = call'[q]
               PROVE  file'[i].place = written'[q] - (Len(file') - i)
    BY DEF AtTheEnd
  <2>1. q # p
    <3>1. file[i].call \in Nat /\ call[p] \in Nat
      BY DEF Fstat, TypeOK, Piece
    <3>2. file[i].by = p => file[i].call < call[p]
      BY DEF Fstat, OfCallsMade, At
    <3>3. QED
      BY <3>1, <3>2 DEF Fstat
  <2>2. QED
    BY <2>1 DEF Fstat, AtTheEnd, TypeOK, At, Go
<1>5. QED
  BY <1>1, <1>2, <1>3, <1>4, FileKept DEF Fstat

\* The piece that is written is the next of the only call that writes.
LEMMA WriteKeeps ==
    ASSUME IInv, TypeOK', NEW p \in Process, Write(p) PROVE IInv'
<1> USE DEF IInv
<1> DEFINE piece == [by |-> p, call |-> call[p], place |-> written[p] + 1,
                     header |-> empty[p] /\ written[p] < Header]
           n == Len(file)
<1>1. /\ file \in Seq(Piece) /\ n \in Nat /\ file' = Append(file, piece)
      /\ DOMAIN file = 1..n /\ DOMAIN file' = 1..(n + 1) /\ Len(file') = n + 1
      /\ \A i \in 1..n : file'[i] = file[i]
      /\ file'[n + 1] = piece
  BY DEF Write, TypeOK
<1>2. /\ pc' = pc /\ call' = call /\ empty' = empty /\ lock' = lock /\ refused' = refused
      /\ At(p, "write")
      /\ written[p] \in Nat /\ written'[p] = written[p] + 1
      /\ \A q \in Process \ {p} : written'[q] = written[q]
  BY DEF Write, TypeOK
<1>3. ~refused => \A q \in Process : At(q, "write") => q = p
  BY <1>2 DEF Exclusive, Busy, At
<1>4. \A i \in 1..n : file[i].place \in Nat /\ file[i].call \in Nat
  BY <1>1, PiecesTyped
<1> HIDE DEF n
<1>5. Exclusive'
  BY <1>2 DEF Exclusive, Busy
<1>6. Alone'
  BY <1>1, <1>2, <1>3 DEF Alone, At, n
<1>7. OfCallsMade'
  <2> SUFFICES ASSUME NEW i \in DOMAIN file', NEW q \in Process, file'[i].by = q
               PROVE  /\ file'[i].call <= call'[q]
                      /\ pc'[q] \in {"flock", "fstat"} => file'[i].call < call'[q]
    BY DEF OfCallsMade
  <2>1. CASE i \in 1..n
    BY <2>1, <1>1, <1>2 DEF OfCallsMade
  <2>2. CASE i = n + 1
    BY <2>2, <1>1, <1>2 DEF At, TypeOK
  <2>3. QED
    BY <2>1, <2>2, <1>1
<1>8. AtTheEnd'
  <2> SUFFICES ASSUME ~refused', NEW q \in Process, NEW i \in DOMAIN file', At(q, "write")',
                      file'[i].by = q, file'[i].call = call'[q]
               PROVE  file'[i].place = written'[q] - (Len(file') - i)
    BY DEF AtTheEnd
  <2>1. q = p
    BY <1>2, <1>3 DEF At
  <2>2. CASE i \in 1..n
    <3>1. file[i].place = written[p] - (n - i)
      BY <2>1, <2>2, <1>1, <1>2, SMTT(30) DEF AtTheEnd, n
    <3>2. file'[i].place = file[i].place
      BY <2>2, <1>1
    <3>3. written[p] - (n - i) = written[p] + 1 - (n + 1 - i)
      BY <2>2, <1>1, <1>2
    <3>4. QED
      BY <2>1, <3>1, <3>2, <3>3, <1>1, <1>2
  <2>3. CASE i = n + 1
    BY <2>1, <2>3, <1>1, <1>2
  <2>4. QED
    BY <2>2, <2>3, <1>1
<1>9. HeaderOnlyFirst'
  <2> SUFFICES ASSUME ~refused', NEW i \in DOMAIN file', file'[i].header
               PROVE  file'[i].place = i
    BY DEF HeaderOnlyFirst
  <2>1. CASE i \in 1..n
    BY <2>1, <1>1, <1>2 DEF HeaderOnlyFirst
  <2>2. CASE i = n + 1
    <3>1. empty[p]
      <4>1. piece.header = (empty[p] /\ written[p] < Header)
        OBVIOUS
      <4>2. QED
        BY <2>2, <4>1, <1>1, Zenon
    <3>2. n = written[p]
      BY <3>1, <1>2 DEF Alone, n
    <3>3. QED
      BY <2>2, <3>2, <1>1
  <2>3. QED
    BY <2>1, <2>2, <1>1
<1>10. LinesUnbroken'
  <2> SUFFICES ASSUME ~refused', NEW i \in DOMAIN file', NEW j \in DOMAIN file', i < j,
                      file'[i].by = file'[j].by, file'[i].call = file'[j].call
               PROVE  file'[j].place = file'[i].place + (j - i)
    BY DEF LinesUnbroken
  <2>1. i \in 1..n
    BY <1>1
  <2>2. CASE j \in 1..n
    BY <2>1, <2>2, <1>1, <1>2 DEF LinesUnbroken
  <2>3. CASE j = n + 1
    <3>1. file[i].by = p /\ file[i].call = call[p]
      BY <2>1, <2>3, <1>1
    <3>2. file[i].place = written[p] - (n - i)
      BY <2>1, <3>1, <1>1, <1>2, SMTT(30) DEF AtTheEnd, n
    <3>3. QED
      BY <2>1, <2>3, <3>2, <1>1, <1>2, <1>4
  <2>4. QED
    BY <2>2, <2>3, <1>1
<1>11. QED
  BY <1>5, <1>6, <1>7, <1>8, <1>9, <1>10

\* Steps after which a process is not in its call, or done with its writing
LEMMA LeavingKeeps ==
    ASSUME IInv, TypeOK', NEW p \in Process, WriteEnds(p) \/ Close(p) \/ Crash(p) PROVE IInv'
<1> USE DEF IInv
<1>1. Exclusive'
  BY DEF WriteEnds, Close, Crash, Exclusive, Busy, TypeOK, At, Go
<1>2. Alone'
  BY DEF WriteEnds, Close, Crash, Alone, TypeOK, At, Go
<1>3. OfCallsMade'
  BY DEF WriteEnds, Close, Crash, OfCallsMade, TypeOK, At, Go
<1>4. AtTheEnd'
  <2>1. /\ file' = file /\ call' = call /\ written' = written /\ refused' = refused
        /\ \A q \in Process : At(q, "write")' => At(q, "write")
    BY DEF WriteEnds, Close, Crash, TypeOK, At, Go
  <2>2. QED
    BY <2>1 DEF AtTheEnd
<1>5. QED
  BY <1>1, <1>2, <1>3, <1>4, FileKept DEF WriteEnds, Close, Crash

LEMMA Inductive == Spec => []IInv
<1>1. IInv /\ TypeOK' /\ [Next]_vars => IInv'
  <2> SUFFICES ASSUME IInv, TypeOK', [Next]_vars PROVE IInv'
    OBVIOUS
  <2>1. CASE UNCHANGED vars
    BY <2>1 DEF vars, IInv, TypeOK, Exclusive, Busy, Alone, At, OfCallsMade, AtTheEnd,
                HeaderOnlyFirst, LinesUnbroken
  <2>2. CASE \E p \in Process : AppendToCSV(p) \/ Crash(p)
    BY <2>2, OpenKeeps, FlockKeeps, FlockFailsKeeps, FstatKeeps, WriteKeeps, LeavingKeeps
       DEF AppendToCSV
  <2>3. QED
    BY <2>1, <2>2 DEF Next, Quiet
<1>2. QED
  BY <1>1, InitEstablishes, TypeCorrect, PTL DEF Spec

\* The header comes once, at the beginning of the file, for any number of
\* processes that append, give up or are killed, unless a flock() fails.
THEOREM OneHeader == Spec => []HeaderOnlyFirst
<1>1. IInv => HeaderOnlyFirst
  BY DEF IInv
<1>2. QED
  BY <1>1, Inductive, PTL

\* The line of a call is never torn apart by another call, unless a flock() fails.
THEOREM LinesStayWhole == Spec => []LinesUnbroken
<1>1. IInv => LinesUnbroken
  BY DEF IInv
<1>2. QED
  BY <1>1, Inductive, PTL
=============================================================================
