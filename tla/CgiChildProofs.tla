--------------------------- MODULE CgiChildProofs ---------------------------
(***************************************************************************)
(* Proofs about one CGI child, for output, errors, buffers, pipes and      *)
(* deadline of any size and any pace of the loop.                          *)
(***************************************************************************)
EXTENDS CgiChild, TLAPS

\* Nothing is lost on the way: what the program meant to print is printed and
\* read, in the pipe, or still to come.
Conserved ==
    /\ output + pipeOut + outLeft = total
    /\ error + pipeErr + errLeft <= MaxErr

\* The life of the program as the control point of the server knows it.
Lifeline ==
    /\ phase = "start" => process = "unborn" /\ answer = "none"
    /\ process = "exited" => outLeft = 0
    /\ phase = "close" => process \in {"exited", "killed"}
    /\ process = "killed" => age > Limit /\ phase \in {"close", "done"}
    /\ phase \in {"readOut", "readErr", "wait"} => age <= Limit
    /\ phase \in {"loop", "readOut", "readErr", "wait", "close"} =>
          held = 2 /\ process # "unborn" /\ answer = "none"
    /\ phase = "done" /\ process # "unborn" =>
          process \in {"exited", "killed"} /\ held = 0
    /\ answer \in {"page", "bare"} => phase = "done" /\ age <= Limit

\* A program that had ended when the server looked in leaves at most one read
\* in its pipe before ReadOut, and nothing after it.
LastRead ==
    /\ outEof => pipeOut = 0 /\ process \in {"exited", "killed"}
    /\ early => process \in {"exited", "killed"}
    /\ early /\ phase = "readOut" => pipeOut <= ReadMax
    /\ early /\ (phase \in {"readErr", "wait"} \/ (phase \in {"close", "done"} /\ age <= Limit))
          => pipeOut = 0

IInv == TypeOK /\ Conserved /\ Lifeline /\ LastRead

\* Init establishes the strengthening.
LEMMA InitIInv == Init => IInv
  <1> SUFFICES ASSUME Init PROVE IInv
    OBVIOUS
  <1>1. TypeOK
    <2>1. outEof \in BOOLEAN /\ errEof \in BOOLEAN /\ early \in BOOLEAN
      BY Zenon DEF Init
    <2> QED  BY <2>1, SizeAssumption, ClockAssumption DEF Init, TypeOK
  <1>2. Conserved
    BY SizeAssumption DEF Init, Conserved
  <1>3. Lifeline /\ LastRead
    BY DEF Init, Lifeline, LastRead
  <1> QED  BY <1>1, <1>2, <1>3 DEF IInv

\* The start of the child.
LEMMA StartKeeps == IInv /\ Start => IInv'
  <1> SUFFICES ASSUME IInv, Start PROVE IInv'
    OBVIOUS
  <1> USE SizeAssumption, ClockAssumption
          DEF IInv, TypeOK, Conserved, Lifeline, LastRead, programVars, cgiVars, pipeVars
  <1>1. CASE PipesFail  BY <1>1 DEF PipesFail
  <1>2. CASE ForkFails  BY <1>2 DEF ForkFails
  <1>3. CASE Execute  BY <1>3 DEF Execute
  <1> QED  BY <1>1, <1>2, <1>3 DEF Start

\* The steps of pollCGIProcesses() and finalizeCGI().
LEMMA PollCgiKeeps == IInv /\ PollCgi => IInv'
  <1> SUFFICES ASSUME IInv, PollCgi PROVE IInv'
    OBVIOUS
  <1> USE SizeAssumption, ClockAssumption
          DEF IInv, TypeOK, Conserved, Lifeline, LastRead, programVars, cgiVars, pipeVars
  <1>1. ASSUME NEW ticks \in Pace, Look(ticks) PROVE IInv'
    <2>1. ticks \in {0, 1}
      OBVIOUS
    <2>2. age' \in 0..Limit + 1
      BY <1>1, <2>1 DEF Look, Least
    <2> QED  BY <1>1, <2>1, <2>2 DEF Look
  <1>2. CASE ReadOut
    <2>1. Reads \in Nat /\ Reads <= pipeOut /\ (pipeOut <= ReadMax => Reads = pipeOut)
      BY DEF Reads, Least
    <2> QED  BY <1>2, <2>1 DEF ReadOut
  <1>3. CASE ReadErr
    <2> DEFINE n == Least(ReadMax, pipeErr)
    <2>1. n \in Nat /\ n <= pipeErr
      BY DEF Least
    <2> HIDE DEF n
    <2> QED  BY <1>3, <2>1 DEF ReadErr, n
  <1>4. CASE Wait  BY <1>4 DEF Wait
  <1>5. CASE Finalize  BY <1>5 DEF Finalize
  <1> QED  BY <1>1, <1>2, <1>3, <1>4, <1>5 DEF PollCgi

\* The steps of the program.
LEMMA ProgramKeeps == IInv /\ Program => IInv'
  <1> SUFFICES ASSUME IInv, Program PROVE IInv'
    OBVIOUS
  <1> USE SizeAssumption, ClockAssumption
          DEF IInv, TypeOK, Conserved, Lifeline, LastRead, programVars, cgiVars, pipeVars
  <1>1. CASE WriteOut  BY <1>1 DEF WriteOut
  <1>2. CASE Complain  BY <1>2 DEF Complain
  <1>3. CASE Exit  BY <1>3 DEF Exit
  <1> QED  BY <1>1, <1>2, <1>3 DEF Program

\* Every step keeps the strengthening.
LEMMA NextKeeps == IInv /\ [Next]_vars => IInv'
  <1> SUFFICES ASSUME IInv, UNCHANGED vars PROVE IInv'
    BY StartKeeps, PollCgiKeeps, ProgramKeeps DEF Next, Answered
  <1> QED  BY DEF IInv, TypeOK, Conserved, Lifeline, LastRead, vars, programVars,
              cgiVars, pipeVars

\* No buffer of CGIProcess and no pipe ever holds more than its bound.
THEOREM TypeCorrect == Spec => []TypeOK
  <1>1. IInv => TypeOK
    BY DEF IInv
  <1> QED  BY InitIInv, NextKeeps, <1>1, PTL DEF Spec

\* No process and no pipe outlives the request it was started for, whether the
\* program ends by itself, at its deadline, or between the two.
THEOREM NothingIsLeftBehind == Spec => []NothingLeftBehind
  <1>1. IInv => NothingLeftBehind
    BY DEF IInv, Lifeline, NothingLeftBehind
  <1> QED  BY InitIInv, NextKeeps, <1>1, PTL DEF Spec

\* A program that ended before the server looked in, with one read() left in
\* its pipe, is answered with all it printed, for any output and any pipe.
THEOREM WholeWhenEndedEarly == Spec => []WholeIfEndedEarly
  <1>1. IInv => WholeIfEndedEarly
    <2> SUFFICES ASSUME IInv, phase = "done", answer \in {"page", "bare"}, early
                 PROVE  output = total
      BY DEF WholeIfEndedEarly
    <2>1. age <= Limit /\ pipeOut = 0
      BY DEF IInv, Lifeline, LastRead
    <2>2. process = "exited" /\ outLeft = 0
      BY <2>1, ClockAssumption DEF IInv, TypeOK, Lifeline, LastRead
    <2> QED  BY <2>1, <2>2 DEF IInv, TypeOK, Conserved
  <1> QED  BY InitIInv, NextKeeps, <1>1, PTL DEF Spec
=============================================================================
