------------------------------ MODULE CgiChild ------------------------------
(***************************************************************************)
(* One CGI child, from HandleCGI::execute() to Server::finalizeCGI(): the  *)
(* program at one end of three pipes, and at the other end the server,     *)
(* which looks in once per iteration of its loop (pollCGIProcesses).       *)
(*                                                                         *)
(* EventLoop takes a child as one step and its output as any size; this    *)
(* module is about the steps in between, at which the program runs on.     *)
(* Output and errors are counted in pieces of any fixed size.              *)
(* SIGCHLD is ignored (main), so the kernel reaps a child that ends and    *)
(* waitpid() says 0 while it runs and fails with ECHILD from then on.      *)
(***************************************************************************)
EXTENDS Integers

CONSTANTS
    MaxOut,      \* pieces of the longest output of a program
    MaxErr,      \* pieces it may write to its standard error
    ReadMax,     \* pieces one read() takes: buffer[4096]
    PipeCap,     \* pieces a pipe holds
    Limit,       \* timeoutMs, in ticks
    Pace         \* ticks an iteration of the loop may take

ASSUME SizeAssumption ==
    /\ MaxOut \in Nat /\ MaxErr \in Nat
    /\ ReadMax \in Nat \ {0} /\ PipeCap \in Nat \ {0}

ASSUME ClockAssumption == Limit \in Nat /\ Pace \in SUBSET {0, 1} /\ Pace # {}

VARIABLES
    total,       \* what the program means to print
    outLeft,     \* what it has not printed yet
    errLeft,     \* what it has not written to standard error yet
    process,     \* "unborn", "running", "exited", "killed"
    pipeOut,     \* in the pipe of standard output
    pipeErr,     \* in the pipe of standard error
    held,        \* pipe ends the server holds open for this child
    output,      \* CGIProcess::output
    error,       \* CGIProcess::error
    outEof,      \* CGIProcess::out_eof
    errEof,      \* CGIProcess::err_eof
    age,         \* ticks since startTime
    phase,       \* "start", "loop", "readOut", "readErr", "wait", "close", "done"
    answer,      \* "none", then what is queued: "408", "500", "page", "bare"
    early        \* history: at the last look the program had ended and what
                 \* was left in its pipe fitted one read

programVars == <<total, outLeft, errLeft>>
pipeVars    == <<pipeOut, pipeErr, held>>
cgiVars     == <<output, error, outEof, errEof, age>>
vars == <<programVars, process, pipeVars, cgiVars, phase, answer, early>>

TypeOK ==
    /\ total \in 0..MaxOut /\ outLeft \in 0..MaxOut /\ errLeft \in 0..MaxErr
    /\ process \in {"unborn", "running", "exited", "killed"}
    /\ pipeOut \in 0..PipeCap /\ pipeErr \in 0..PipeCap
    /\ held \in 0..4
    /\ output \in 0..MaxOut /\ error \in 0..MaxErr
    /\ outEof \in BOOLEAN /\ errEof \in BOOLEAN
    /\ age \in 0..Limit + 1
    /\ phase \in {"start", "loop", "readOut", "readErr", "wait", "close", "done"}
    /\ answer \in {"none", "408", "500", "page", "bare"}
    /\ early \in BOOLEAN

Init ==
    /\ total \in 0..MaxOut /\ outLeft = total
    /\ errLeft \in 0..MaxErr
    /\ process = "unborn"
    /\ pipeOut = 0 /\ pipeErr = 0 /\ held = 0
    /\ output = 0 /\ error = 0 /\ outEof = FALSE /\ errEof = FALSE
    /\ age = 0
    /\ phase = "start" /\ answer = "none" /\ early = FALSE

Least(m, n) == IF m < n THEN m ELSE n

-----------------------------------------------------------------------------
(* HandleCGI::execute() *)

\* One of the three pipe() calls fails: those made before it stay open
PipesFail ==
    /\ phase = "start"
    /\ held' \in {0, 2, 4}
    /\ phase' = "done" /\ answer' = "500"
    /\ UNCHANGED <<programVars, process, pipeOut, pipeErr, cgiVars, early>>

\* fork() fails: everything is closed again
ForkFails ==
    /\ phase = "start"
    /\ phase' = "done" /\ answer' = "500"
    /\ UNCHANGED <<programVars, process, pipeVars, cgiVars, early>>

\* The program runs; the server keeps the reading ends of two pipes and has
\* written the body to the third and closed it
Execute ==
    /\ phase = "start"
    /\ process' = "running"
    /\ held' = 2
    /\ phase' = "loop"
    /\ UNCHANGED <<programVars, pipeOut, pipeErr, cgiVars, answer, early>>

-----------------------------------------------------------------------------
(* pollCGIProcesses(), once in every iteration *)

\* Variant: a child that has ended is finalised without a read
LookWaitsFirst(ticks) ==
    /\ phase = "loop"
    /\ age' = Least(age + ticks, Limit + 1)
    /\ IF age' > Limit
       THEN phase' = "close" /\ process' = IF process = "running" THEN "killed" ELSE process
       ELSE /\ phase' = IF process = "exited" THEN "close" ELSE "readOut"
            /\ UNCHANGED process
    /\ early' = (process = "exited" /\ pipeOut <= ReadMax)
    /\ UNCHANGED <<programVars, pipeVars, output, error, outEof, errEof, answer>>

\* Variant: a child past its deadline is finalised but not killed
LookSpares(ticks) ==
    /\ phase = "loop"
    /\ age' = Least(age + ticks, Limit + 1)
    /\ phase' = IF age' > Limit THEN "close" ELSE "readOut"
    /\ early' = (process = "exited" /\ pipeOut <= ReadMax)
    /\ UNCHANGED <<programVars, process, pipeVars, output, error, outEof,
                   errEof, answer>>

\* Variant: there is no deadline
LookForever(ticks) ==
    /\ phase = "loop"
    /\ age' = Least(age + ticks, Limit)
    /\ phase' = "readOut"
    /\ early' = (process = "exited" /\ pipeOut <= ReadMax)
    /\ UNCHANGED <<programVars, process, pipeVars, output, error, outEof,
                   errEof, answer>>

\* The deadline is looked at first: past it, SIGKILL and no more reading
Look(ticks) ==
    /\ phase = "loop"
    /\ age' = Least(age + ticks, Limit + 1)
    /\ IF age' > Limit
       THEN phase' = "close" /\ process' = IF process = "running" THEN "killed" ELSE process
       ELSE phase' = "readOut" /\ UNCHANGED process
    /\ early' = (process = "exited" /\ pipeOut <= ReadMax)
    /\ UNCHANGED <<programVars, pipeVars, output, error, outEof, errEof, answer>>

\* Variant: the output is read when the program has ended
ReadsAtTheEnd == IF process = "running" THEN 0 ELSE Least(ReadMax, pipeOut)

\* Variant: every read() is taken to fill the buffer
ReadsFull == ReadMax

\* What one read() of standard output takes
Reads == Least(ReadMax, pipeOut)

\* readCGIOutput(): one read() of standard output ...
ReadOut ==
    /\ phase = "readOut"
    /\ phase' = "readErr"
    /\ IF outEof THEN UNCHANGED <<output, pipeOut>>
       ELSE output' = output + Reads /\ pipeOut' = pipeOut - Reads
    /\ outEof' = (outEof \/ (pipeOut = 0 /\ process # "running"))
    /\ UNCHANGED <<programVars, process, pipeErr, held, error, errEof, age,
                   answer, early>>

\* ... and one of standard error
ReadErr ==
    /\ phase = "readErr"
    /\ phase' = "wait"
    /\ LET n == Least(ReadMax, pipeErr) IN
          IF errEof THEN UNCHANGED <<error, pipeErr>>
          ELSE error' = error + n /\ pipeErr' = pipeErr - n
    /\ errEof' = (errEof \/ (pipeErr = 0 /\ process # "running"))
    /\ UNCHANGED <<programVars, process, pipeOut, held, output, outEof, age,
                   answer, early>>

\* waitpid(WNOHANG): 0, or ECHILD, which ends the child's time in the loop
Wait ==
    /\ phase = "wait"
    /\ phase' = IF process = "running" THEN "loop" ELSE "close"
    /\ UNCHANGED <<programVars, process, pipeVars, cgiVars, answer, early>>

\* finalizeCGI(): a 408 past the deadline, a 500 if anything came on standard
\* error, else the output, which makes a page of its own if its header is there
\* (the first piece) and is sent as it is otherwise
Finalize ==
    /\ phase = "close"
    /\ phase' = "done"
    /\ held' = 0
    /\ answer' = IF age > Limit THEN "408"
                 ELSE IF error > 0 THEN "500"
                 ELSE IF output > 0 THEN "page" ELSE "bare"
    /\ UNCHANGED <<programVars, process, pipeOut, pipeErr, cgiVars, early>>

-----------------------------------------------------------------------------
(* The program *)

\* write() to standard output: waits while the pipe is full
WriteOut ==
    /\ process = "running" /\ outLeft > 0 /\ pipeOut < PipeCap
    /\ outLeft' = outLeft - 1 /\ pipeOut' = pipeOut + 1
    /\ UNCHANGED <<total, errLeft, process, pipeErr, held, cgiVars,
                   phase, answer, early>>

Complain ==
    /\ process = "running" /\ errLeft > 0 /\ pipeErr < PipeCap
    /\ errLeft' = errLeft - 1 /\ pipeErr' = pipeErr + 1
    /\ UNCHANGED <<total, outLeft, process, pipeOut, held, cgiVars,
                   phase, answer, early>>

Exit ==
    /\ process = "running" /\ outLeft = 0 /\ errLeft = 0
    /\ process' = "exited"
    /\ UNCHANGED <<programVars, pipeVars, cgiVars, phase, answer, early>>

-----------------------------------------------------------------------------

Start == PipesFail \/ ForkFails \/ Execute
PollCgi == (\E ticks \in Pace : Look(ticks)) \/ ReadOut \/ ReadErr \/ Wait \/ Finalize
Program == WriteOut \/ Complain \/ Exit

Answered == phase = "done" /\ UNCHANGED vars

Next == Start \/ PollCgi \/ Program \/ Answered

Spec == Init /\ [][Next]_vars

\* The loop comes round again and again; the program may hang
ServedSpec == Spec /\ WF_vars(Start) /\ WF_vars(PollCgi)

\* Time passes
ClockRuns == SF_vars(Look(1))

\* Time does not pass, so that no deadline ends the program
ClockStops == <>[][age' = age]_vars

\* The program writes what it has to write and ends
Willing == WF_vars(WriteOut) /\ WF_vars(Complain) /\ WF_vars(Exit)

-----------------------------------------------------------------------------

\* When a child that was started is answered for, it is gone and the pipes are
\* closed: no process and no descriptor outlives its request, on the path of
\* the deadline as on that of the program's own end (pollCGIProcesses,
\* finalizeCGI).
NothingLeftBehind ==
    phase = "done" /\ process # "unborn" => process # "running" /\ held = 0

\* A program that has ended before the server looks in, leaving no more than
\* one read() takes, is answered with its whole output: reading comes before
\* waitpid() (pollCGIProcesses).
WholeIfEndedEarly ==
    phase = "done" /\ answer \in {"page", "bare"} /\ early => output = total

\* A client that asked for a CGI page is answered, even if the program hangs or
\* never reads, as long as time passes (pollCGIProcesses).
EveryRequestIsAnswered ==
    ClockRuns => (phase = "start" ~> answer # "none")

\* A program that prints more than its pipes hold is never stuck in a write()
\* for good: the loop drains both pipes while it runs, so that it ends even if
\* no deadline ends it (readCGIOutput).
WillingProgramEnds ==
    Willing /\ ClockStops => (process = "running" ~> process # "running")

\* "Try to read any remaining data": the page a program printed is sent whole.
OutputComplete == answer = "page" => output = total
=============================================================================
