# A verification development for webserv

`src/webserv` is a non-blocking HTTP/1.0 server in C++98: one process, one
thread, one `poll()` loop, CGI programs in forked children. This directory holds
its TLA+ models, the TLC configurations that check them on small instances, and
theorems with proofs checked by TLAPS. Paths below are relative to
`src/webserv`.

1. [The system](#1-the-system)
2. [The modules](#2-the-modules)
3. [What the runs check](#3-what-the-runs-check)
4. [Bounds](#4-bounds) and [fairness](#5-fairness)
6. [What is proved](#6-what-is-proved)
7. [What the models found](#7-what-the-models-found)
8. [What is not modelled](#8-what-is-not-modelled)
9. [Plan](#9-plan)

## 1. The system

| component | code | state it keeps | operations |
|---|---|---|---|
| event loop | `srcs/server.cpp` 495-934, `main.cpp` | `_fds` and six tables per descriptor, `_cgiProcesses`, `_pidToClientFd`, `g_stop` | `run`, `handleNewConnection`, `handleClientData`, `queueResponse`, `handlePollOut`, `closeClient`, the timeout sweep, `cleanup` |
| CGI execution | `srcs/handleCGI.cpp`, `server.cpp` 794-934 | one `CGIProcess` per child: pipes, what was read, end-of-file flags, start time | `execute`, `readCGIOutput`, `pollCGIProcesses`, `finalizeCGI` |
| request framing, parsing | `server.cpp` 292-358, `srcs/requestParser.cpp`, `dechunkBody` | `ClientState::readBuffer` | wait, reject, dechunk, parse |
| server and location selection | `server.cpp` 247-289, 537-595 | `_clientToVirtualServer` | the server of the socket, the location with the longest prefix |
| static responses | `srcs/responseBuilder.cpp`, `srcs/handleErrors.cpp` | none | redirect, method check, file, index, autoindex, error page |
| paths | `utils/httpUtils.cpp` | none | normalise, stay inside the root |
| uploads, CSV | `server.cpp` 153-244, `utils/appendToCSV.cpp` | files on disk | save, append under `flock` |
| configuration parser | `srcs/configParser.cpp` | `HttpConfig`, read-only after start | nested blocks, validators |
| listening sockets | `server.cpp` 41-107 | `_listenSockets` | bind one per host and port |

How they interact. `run()` calls everything else, synchronously: `poll()`, then
`pollCGIProcesses()`, then the handlers of the reported descriptors from the
last slot of `_fds` to the first, then the timeout sweep. Handlers share the
tables of `Server`, which are keyed by descriptor *numbers*; a number is freed
by `closeClient()` and handed out again by `accept()`. A response goes from
whoever makes it to the peer through `_sendBuffers` and `POLLOUT`. CGI children
are processes of their own: the loop knows of them by a pid, two pipes and the
number of the descriptor that asked. The configuration parser refuses two
servers on one host and port (`configParser.cpp` 391-400, 432-447), so a
listening socket has one candidate server, and the selection by `Host:` in
`selectServerForClient` never has a choice. An upload or a form appends a row to
a CSV file under `flock`, in the same thread.

What is hard. There is one thread, so the concurrency is that of the
environment: peers send, read, half-close and reset, children print and exit,
time passes, between any two system calls. `_fds` changes while `run()` walks
over it by index. What `poll()` reported, which descriptor a child works for and
what a response buffer holds may all be stale when they are used. The timeout
sweep races the end of requests, partly sent responses and children. Every
hazard is listed in `PROJECT.json` at the line where it bites.

What makes each component correct:

- *event loop*: the tables agree; every ready descriptor is handled; a pending
  response is always armed; a peer gets one response, its own, in order and
  whole; nobody is closed without cause or kept for ever; no child is lost.
- *CGI execution*: a child is reaped or killed, its pipes closed, its request
  answered once, its output complete, and it is never blocked for good.
- *framing*: a request is served with its own body, whole, or refused for a
  reason, wherever TCP cut it; nobody waits for an answer that does not come.
- *selection, static responses, paths*: the location is the one with the longest
  path that matches; an answer that several system calls put together is the one
  the files call for; a DELETE removes its file, nothing else, and nothing
  outside the root of its location.
- *uploads, CSV*: what is answered is on disk; one header and unbroken lines,
  whatever processes append.
- *configuration, sockets*: a file that is accepted means what its blocks say;
  servers have addresses of their own; the loop starts from tables that agree,
  and one failing endpoint costs no other.

## 2. The modules

`EventLoop.tla` models the event loop. The variables named after members of
`Server` are those members; the others are the kernel (`sock`, `inbox`, `room`),
the peers (`need`, `sent`, `peer`, `wire`), the children (`child`, `age`,
`asker`, `pipes`) and the control point of `run()` (`phase`, `at`). An iteration
is `Poll`, `PollCgi`, the scan, `Sweep`. In the scan one action is one handler
call on one slot: `Accept` and `AcceptFails` are `handleNewConnection`;
`RecvError`, `RecvEof`, `AwaitBody`, `Respond`, `Upload` and `StartCgi` are the
ways through `handleClientData`; `NothingToSend`, `SendFails`, `SendLast` and
`SendPart` those through `handlePollOut`; `HangUp` is the `POLLHUP | POLLERR`
branch. `Resume` moves `at` to the next test whose bit is set, in the table *as
the handler left it*, so that the effect of an erased entry on the slots behind
it is the code's. When the erased entry was the last, the code goes on to test
the slot past the end; what it finds is the entry just closed, on which the
handlers do nothing. Peers, children and the clock may move between any two of
these actions.

Data is reduced to what the properties tell apart: a request is a number of
segments, a response a number of units and the connection whose request it
answers. The constant `Behaviours` says which freedoms an instance gives to its
environment; a theorem holds for all of them.

`HttpExchange.tla` is the abstract specification: what one peer is promised,
without descriptors, buffers or children. Its liveness (`FairSpec`) is part of
the promise. `EventLoop!Exchange` is the refinement mapping.

`CgiChild.tla` models one child, from `execute()` to `finalizeCGI()`, with the
steps inside one look of `pollCGIProcesses()` (deadline, `read` of standard
output, `read` of standard error, `waitpid`) interleaved with the program's own.
`EventLoop` takes these together: there a child is running or exited and its
output has any size, which covers every outcome `CgiChild` has. Two facts of the
environment matter: SIGCHLD is ignored (`main.cpp:45`), so `waitpid()` never
returns the pid and the end of a child shows as `ECHILD`; and a pipe holds more
than one `read()` takes.

`RequestFraming.tla` models one connection from `recv()` to the parsed request:
each segment runs `handleClientData` on all that has come so far. One action is
one way through the handler: `RejectOverLong`, `AwaitMore`, `RejectChunks`,
`RejectDecoded`, `RejectSyntax`, `RejectVersion`, `Serve`, `AnswerRest`. `BodyLen`
has the wrap-around of `hdrEnd + 4`, `Dechunked` is `dechunkBody` as a recursive
function, `LastChunk` the weaker test that `validateAndParseRequest` makes
before. An item is one byte. What the code searches for is abbreviated to one item:
a word of the request line, `Content-Length:` (`"length:"`) and
`Transfer-Encoding: chunked` (`"chunked"`). The two names may be in a body as well,
anywhere, for the code searches the whole buffer (297, 317), and so may NULs, at
the first of which `HttpRequest::body` ends (`UpToNul`, `requestParser.cpp:41`).
`AsInt` is `atoi()`, which cuts what `strtol()` returns to an `int`; `Malformed` has
`ftToInt()`, which throws above `INT_MAX`. When a request has been refused and its
bytes cleared from the buffer, what still comes of it is read as a new request;
such a text does not begin with the request's words (`Foreign`), and whether it is
one and how it is answered is left open (`RejectSyntax`, `AnswerRest`).
`EventLoop` takes all of this together as "complete or not".

`CsvAppend.tla` models processes in `appendToCSV()`, one system call per action.
The file is a sequence of pieces, since `write()` may take any part of a line.
`Crash` kills a process anywhere.

`Site.tla` models what becomes of a parsed request: the location loop and the
method check of `handleClientData`, `handleSpecialMethods` with uploads and
DELETE, `buildResponse` and `generateErrorResponse`. It takes up where
`RequestFraming` ends; what it queues is what `EventLoop` sends, and its
`AppendRow` is all of `CsvAppend`. A step is one system call with the code up to
the next one (one turn of the location loop, which makes none), and `Change` lets
other processes (CGI programs, an editor) change files between any two. `disk` is
a function from the paths that exist to what is there. `filePath` stands for
`filePath`, `targetPath` and `fullPath`, `canon` for the canonical paths of
`isPathInsideRoot`, `accum` and `todo` for the loops that make directories.
`FileExists` has the uninitialised `st` of `responseBuilder.cpp` 164-175 as a
choice. `stat()` and `mkdir()` of one directory are one step, because the code
takes `EEXIST` for success. The environment has these limits: no symbolic links,
and the server's directory is the top of the tree. The branches of
`buildResponse` that `handleClientData` never lets a request reach (its own
DELETE, its CGI check) and the size check of 562, which `RequestFraming` has, are
left out.

`Paths.tla` has what `Site` says about texts and files: a text is a sequence of
tokens, so that `/img` is a prefix of `/imgs` as it is in the code;
`NormalPath` is `normalizeRelativePath`, `Walk` and `Stat` are the kernel's.

`Startup.tla` models `main()` up to `run()`: the check for semicolons, the parser
turn by turn, the validation, and `setupListeningSockets` with each socket call
free to fail. A file is a sequence of tokens and line ends. `block` is the
innermost parse function; its caller is always the next one out. `Value` is what
`getline(..., ';')` takes, across lines and braces. Whether a word is a valid
host, name or size, and the number it stands for, are constants. `pc = "running"`
is the initial state of `EventLoop`.

`MCEventLoop.tla`, `MCRequestFraming.tla`, `MCSite.tla` and `MCStartup.tla`
instantiate their modules for TLC (symmetry; the requests, files and
configurations). The theorems are in `EventLoopProofs.tla`, on which
`ExchangeProofs.tla` builds, `CgiChildProofs.tla`, `RequestFramingProofs.tla`,
`CsvAppendProofs.tla`, `SiteProofs.tla` (with `PathsProofs.tla`, lemmas about
`Paths` and inductions that `RequestFramingProofs` uses too) and
`StartupProofs.tla`.

An operator whose comment begins with *Variant* is a plausible mistake in the
code; `PROJECT.json` pairs each checked property with one that breaks it.

## 3. What the runs check

| run | instance | properties |
|---|---|---|
| `loop_safety` | two connections, two descriptors, one child; resets, half-closes, silent and stalled peers, uploads, CGI with and without output | `TypeOK`, `TablesAgree`, `PendingIsArmed`, `ScanMissesNobody`, `TrackedCgiIsOpen` |
| `cgi_exchange` | two peers that send one request, for a page or a script, and read | `EveryCgiTracked`, `CgiDeadline`, `ClosedForCause`, and `ImplementsExchange`: the loop implements `HttpExchange`, liveness included |
| `page_exchange` | two peers whose requests come in two segments at any speed, so that idle timeouts race the data | `ImplementsExchange` |
| `attended` | two connections compete for one descriptor, may reset or never ask; scripts may hang; SIGINT at any time | `EveryClientIsClosed`, `EveryCallerIsAccepted`, `EveryCgiIsFinalised`, `CleanupEnds` |
| `cgi_served` | one program that prints, complains, ends or hangs | `TypeOK`, `NothingLeftBehind`, `WholeIfEndedEarly`, `EveryRequestIsAnswered`, `WillingProgramEnds` |
| `framing` | requests with a length, chunks or neither, on both sides of the limit and of `INT_MAX`, some with header names or NULs in their bodies, in segments of any length | `AnsweredAsSent`, `ServedWhole`, `NobodyWaitsInVain` |
| `csv_append` | two processes that append twice each, may fail at each system call and may be killed | `TypeOK`, `HeaderOnlyFirst`, `LinesUnbroken`, `EveryCallEnds` |
| `site` | four server blocks, three trees, one of which has a copy of the root below the root; GET and DELETE of 17 uris, a PUT, a POST and four uploads; up to two changes by others while a request is served | `TypeOK`, `LongestMatch`, `StableAnswer`, `DoneAsAnswered`, `TargetInsideRoot`, `UploadIsKept`, `OnlyDeleteRemoves`, `MatchedIsAnswered` |
| `startup` | two good configuration files, each also with any one semicolon, brace or line end lost or doubled; 14 bad ones; an empty one | `TypeOK`, `EndpointsDistinct`, `ReadAsWritten`, `ReadyToRun`, `ListensWhereItCan`, `StartupEnds` |

The properties of `loop_safety` hold in every environment. Those of
`cgi_exchange` and `page_exchange` are promises to well-behaved peers (one
request, nothing after it, reading what is sent): with the other freedoms they
fail, as the runs and deviations of section 7 show; section 6 says for whom they
are proved. The properties of
`csv_append` are conditional on `flock()`, whose failure the code ignores.

The properties of `framing` say where the code keeps its promise and where not;
each exception is one that TLC refutes the property without (section 7).
`AnsweredAsSent` and `ServedWhole` are about requests whose head comes in one
segment: the code parses a head that is cut as it stands, and then only
`NobodyWaitsInVain` is left. "Its body" is the body up to its first NUL, which is
all that the parser takes. A body with a length and `Transfer-Encoding: chunked` in
it may be refused, decoded or waited for, so that no promise is left to it;
one whose length is above `INT_MAX` may be refused or waited for, but not served
short. A chunked request may be refused (`framing_chunks`); it is waited for in vain
if it has no data, or `Content-Length:` in its body.

`StableAnswer` of `site` is the strongest promise that survives changes by
others. An answer need not be one that any single state of the files calls for:
an index file that vanishes between `file_exists()` and `ftReadFile()` makes a
404 where every state calls for a page or a 403. Nor is it enough that all states
call for the same answer, for they may do so by different files, of which the
code finds neither. What holds is that changes to files which no call for this
request looks at make no difference (`Alike`, `Unaffected`). `DoneAsAnswered` and
`UploadIsKept` are about requests that nobody disturbed, `OnlyDeleteRemoves` and
`TargetInsideRoot` about all. The file that `DoneAsAnswered` expects to be gone
is the one that `isPathInsideRoot()` finds (`CanonTarget`), which need not be the
one that the uri names (section 7). `UploadIsKept` is about the places that file
names lead to: of several parts for one place the last is kept, and nothing is
claimed of a file that stands where another's name leads through. It leaves out
directories with a first name of one character (`Sound`; section 7), files that
may not be written, and a file called `contacts.csv`, to which the row is
appended. `MatchedIsAnswered` leaves out uris that no location matches: there
`isCgiRequest()` may throw.

In `startup`, a fault says of each file whether it is to be read as written, to
be refused, or whether either may happen. The last is claimed of two faults only:
a brace lost inside the file, and a semicolon lost before a brace on its line
(section 7).

## 4. Bounds

- Two connections are enough for one to disturb the other (erased neighbour,
  reused descriptor); with one descriptor for two connections (`attended`)
  `accept()` fails and descriptors are reused, with two the scan has three slots
  and an entry can shift into a slot the scan has not left.
- A response has up to two units and the send buffer one, so that every response
  is sent whole, in part, or not at all. A request has one or two segments.
- Timeouts are counted in ticks and end after one or two: what matters is on
  which side of the limit a step falls. Ages stop counting one tick past their
  limit, where nothing looks at them any more.
- One CGI child per instance: a pid is used once.
- In `CgiChild` a `read()` takes two pieces, a pipe holds three and a program
  prints up to four, so that output fits neither the one nor the other.
- In `RequestFraming` a segment has any length up to the longest request
  (`SegMax`), so every cut occurs. Bodies lie below, on and above the limit of
  6 bytes, and shorter and longer than their own head, which counts as body while
  its end is missing. `INT_MAX` is 11, so that a length of 13 becomes negative in
  `atoi()` and one of 25 becomes 1, and a number of three nines is above `LONG_MAX`.
  Bodies contain NULs, a last chunk, a length that is small, large or above
  `LONG_MAX`, and `Transfer-Encoding: chunked` with no last chunk, with one, and with
  one that ends a chunk. Chunk sizes have one digit.
- In `CsvAppend` header and row have three pieces together, so that a line is
  cut in the header, between it and the row, and in the row; two calls each, so
  that a process finds the file as its own earlier call or another left it.
- In `Site` one request comes (`MaxRequests`), since nothing but the disk survives
  a request and the trees contain what earlier ones may leave. Two changes
  (`MaxChanges`) are enough to take a file away and put another there. The
  locations have paths that are prefixes of each other in both orders, the trees
  a directory whose name begins like the root's, files and directories that may
  not be read or changed, and a pipe.
- In `Startup` the files have up to three servers, on addresses that differ in
  host, in port, in both, and that contend through the wildcard; three
  descriptors are enough for each to have a socket, and `socket()` may fail
  at any time, so that running out of them is covered too.

## 5. Fairness

`ServedSpec` has weak fairness of `Server` (the thread is scheduled; each handler
ends, all descriptors being non-blocking) and strong fairness of `Poll(1)`: an
iteration that waits its 1000 ms comes again and again, for the clock does not
stop. It says nothing of peers and programs. `AttendedSpec` adds that peers read
what they are sent, `DiligentSpec` that they send their request; both are
assumptions on peers a property is about.

In `CgiChild`, `ServedSpec` has weak fairness of the server only. What its
liveness assumes of clock and program is a hypothesis of the property
(`ClockRuns`, `ClockStops`, `Willing`), so that nothing is assumed of programs in
general. `CsvAppend!FairSpec` has weak fairness of each process's system calls
and strong fairness of `Flock`: the kernel keeps waiters in a queue.
`RequestFraming` is checked for safety only. `Site!FairSpec` is weak fairness of
`Serve`, with its enabling condition written out (`Served`), which TLC evaluates
much faster: the handler runs to its end in one thread, and nothing is assumed of
the other processes. `Startup!FairSpec` is weak fairness of `Next`: the process
runs until its code stops.

## 6. What is proved

For every value of the constants: any number of listeners, descriptors,
connections and children, any sizes and limits, any set of behaviours. The
assumptions are `DescriptorAssumption`, `BoundAssumption`, `BehaviourAssumption`
and `NoneAssumption` in `EventLoop`, `SizeAssumption` and `ClockAssumption` in
`CgiChild`, `CsvAssumption` in `CsvAppend`, `SiteAssumption` and `WidthAssumption`
(each token has characters, the slash one) in `Site`, `StartupAssumption` and `HostsAssumption` (the order in which a `std::map` holds
the hosts begins with the wildcard) in `Startup`; TLC evaluates them in each run.
The theorems of `ExchangeProofs` have a hypothesis besides, `Attentive`, and
`TargetsStayInside` has `LocationsStay`, which `MCSite` satisfies as well.

`EventLoopProofs`: `TypeCorrect` (`[]TypeOK`) and `TablesAlwaysAgree`
(`[]TablesAgree`). Neither is inductive alone; `IInv` joins them with
`Scanning` (the scan stands on an entry whose bit is set),
`ListenersOnlyRead` (a listener is never reported writable or hung up, so no
handler ever closes one in the loop), `RequestsBounded`, and `OwedToAccepted`
(responses and children belong to connections that were accepted, which types
the owner of a queued response). The proof has one lemma per handler; the lemmas
underneath say what `RemoveAt`, `Arm`, `Disarm`, `QueueResponse`, `CloseClient`
and `Resume` do to the tables. The interesting case is `CloseClientKeeps`: an
entry leaves the middle of `_fds`, all others shift, and the tables still agree
because no descriptor had two entries.

`CgiChildProofs`: `NothingIsLeftBehind`, `WholeWhenEndedEarly` and
`TypeCorrect`, from `Conserved` (printed = read + in the pipe + to come),
`Lifeline` (what the control point of the server implies for the process) and
`LastRead`.

`RequestFramingProofs`: `RequestAnsweredAsSent` (`[]AnsweredAsSent`),
`RequestServedWhole` (`[]ServedWhole`) and `RequestNotWaitedFor`
(`[]NobodyWaitsInVain`), for every set of requests whose chunks have one to nine
bytes (a body with a length has any number of chunks, and so any length), any bytes,
header names and NULs among them, every limit, every `INT_MAX` and every way of
cutting. The exceptions of section 3 are conditions of the properties, not
assumptions. The invariant `FramingInv` says that
the buffer is what has been received until an answer has been queued, and that it
is then incomplete by the code's own test. After an answer it may also be the
decoded request, but then all has come, or bytes without their head
(`RejectChunks` empties it). Of those the theorems claim nothing but that the
answer is told apart from one to the request (`HeadlessStep`): what is left of it, or
decoded from that, has no words and is `Foreign` (`RestForeign`, `DechunkedType`,
`TextType`). That disjunct is what the three properties lack to be
inductive. The work is in the lemmas about the text:

- `DecimalReads`: the digits that `Decimal` writes are read back by `Number`, for
  every number. `Number` is a fold and `Decimal` a recursive function; each is
  shown to exist and to take its step by an induction of its own.
- `HeadRead`: in a text that begins with the head of a request and goes on with
  bytes, `find()` finds the blank line where the head ends (`BlankFound`) and the
  word that frames the body, and the parser reads the length that was sent, which
  `atoi()` leaves as it is up to `INT_MAX` (`AsIntIs`). A blank line or a
  `Content-Length:` in the body comes too late to matter, but a name that the
  head does not have is found there (`FindFinds`).
- `DecodingIs`: the recursion of `dechunkBody()` ends, its function exists on all
  positions of any text, because a chunk takes it forward (`DecodedLater`).
- `DecodedData`: on any first part of a chunked body it yields the data if all of
  the body has come, and nothing otherwise; by induction from the last chunk to
  the first. So what `LastChunk()` takes for the end too early is refused, not
  served short, and that is the whole damage of the run `framing_chunks`.
- `LastChunkSeen`, `NotBehind`, `AllHasCome`: a request of which all has come is
  complete by the code's test, the four exceptions apart.

`CsvAppendProofs`: `TypeCorrect`, `OneHeader` and `LinesStayWhole`. The inductive
invariant adds `Exclusive` (only the holder of the lock is between `flock` and
`close`), `Alone` (who found the file empty has written all of it),
`OfCallsMade` and `AtTheEnd` (the pieces of a call that is writing are the last
of the file); all but `OfCallsMade` under the condition that no `flock()` failed.

The second half of `EventLoopProofs` builds on `IInv`, with one strengthening
for each theorem. `TrackedAreOpen` (`[]TrackedCgiIsOpen`) needs `OpenIsBorn`: a
pid that can still be forked owns no pipe. `PendingAlwaysArmed`
(`[]PendingIsArmed`) is inductive with `IInv`; the work is in the steps that erase
an entry or hand its descriptor on. `ScanIsComplete` (`[]ScanMissesNobody`) rests
on `DueAhead`: what `poll()` reported and nobody has handled has an entry, with a
bit set, at or below the slot the scan stands on; erasing a slot moves only the
entries above it, and those are done. `OwnWithoutScripts` is `[]OwnResponse` for
every instance whose `Behaviours` have no "cgi": the buffer of a descriptor
belongs to the connection that is on it. The run `fd_reuse` shows that the
hypothesis is needed.

`ExchangeProofs` has what the loop owes its well-behaved peers, the promises of
`cgi_exchange` and `page_exchange`: `NoChildIsLost` (`[]EveryCgiTracked`),
`NoChildOverstays` (`[]CgiDeadline`), `EverybodyGetsHisOwn` (`[]OwnResponse`, with
scripts too), `NobodyClosedWithoutCause` (`ClosedForCause`) and `LoopIsExchange`:
every step is one of `HttpExchange` or changes nothing that it sees. They are not
invariants of every environment, and `Attentive` says of which: peers send one
request, may then shut down their sending side, and read. TLC refuted weaker
hypotheses, and each refutation is a deviation of section 7:

- *with scripts, requests come at once and the timeout of a script ends before
  those of its client*. Otherwise a 408 that is due when the request comes, or
  becomes so while the child runs, closes the client, and the child's output goes to
  whoever has the descriptor next.
- *a request whose segments each come within the idle timeout is complete within
  the total one, or no response is too long for an empty send buffer* (`Punctual
  \/ Small`). Otherwise the refinement fails: a request is completed while the
  total timeout has its 408 pending, a part of the response is sent, and the next
  sweep replaces the rest.

The instances satisfy it: `(0 + 1) * 2 <= 2` in `page_exchange`, `0 <= 0 < 1` in
`cgi_exchange`. So do the limits of the code (60 s idle, 300 s total, 10 s for a
script, which no directive changes: `configParser.cpp:142` refuses `cgi_timeout`)
for scripts, for pages requested in up to four segments,
and for any number of segments where responses fit the send buffer.

The inductive invariant `EInv` adds `XInv` to those of the other two modules.
`InStage` is its core: each client is in one of three stages, `Asking` (nothing
has been sent; what may be pending is a 408), `Waiting` (a child runs for it, and
it has waited no longer than the child has run) and `Answering` (its own response
is pending and the first part of it sent), and each stage says how far the clock
can have come. That is what keeps the sweep from striking in the wrong stage.
`LeadsBack` and `Ages` tie children to clients and to their deadline,
`Undisturbed` and `Writable` say that no peer resets and that what `poll()`
reported writable has room until its handler runs. The proof has one lemma per
handler, as `EventLoopProofs` has. Liveness, the other half of
`ImplementsExchange`, stays with TLC.

`SiteProofs`: `TypeCorrect`, `LocationIsLongest` (`[]LongestMatch`, from
`Searching`: the best match so far is the longest below `i`) and
`RemovalsAreDeletes` (`OnlyDeleteRemoves`, from `Deleting`: past the method check
a DELETE is one that its location allows). `Saving` types the index of the part
that is saved.

`AnswersAreStable` (`[]StableAnswer`) and `DoneIsAnswered`
(`[]DoneAsAnswered`). `Progressing` is the invariant: at each control point
between two calls, what the calls before have found is what each state of the
files seen so far would have told them (`Progress(d)`, for pages and for DELETE).
A step carries it to the next control point for the files as they are, and
`Alike` from those to the others. `Doing` and `Fails` do the same for what is done
to the disk.

`TargetsStayInside` is `[]TargetInsideRoot` for blocks in which no location's
path has a `..` (`LocationsStay`; section 7 says what happens with one). `Inside`
is the invariant: between the two halves of `isPathInsideRoot()` the text is the
target's, and the canonical path is where the root leads, whatever becomes of the
files. It rests on `TargetParts`: the parts of the target's text are those of
the root and then parts without `..`, and on `BelowGrows` of `PathsProofs`: such
parts lead from where one is further down. That the canonical path begins with the
root as a text (`find(...) == 0`) is not needed for it: the normalisation alone
keeps a target inside, as long as there are no symbolic links.

`UploadsAreKept` is `[]UploadIsKept`, for parts with any names: names with
directories, with empty parts, with `.` and `..`, and names that lead to one
place or through one another. `Uploaded` is the invariant, and `Reached` says
where an upload stands. Three things hold at each of its steps:

- *where the loops are* (`Underway`): the text in `accum` leads where the parts
  done so far lead, by directories that are among theirs (`Same`), although it
  has none of their empty parts; and what is left of the text in `todo` belongs
  to the parts still to come. `NextRound` takes this round by round (the slash
  that the loops put between two names is there, or the text ends in one:
  `Follows`, `Leads`), and `RoundMakes` says that the directory of the round is
  there afterwards if nothing on the way is in its way. That needs `Sound`:
  with a first name of one character the induction has no beginning
  (`Starting`).
- *what became of the files* (`Grown`): those found are there with their kind and
  mode, and only at the places of parts and of `contacts.csv` with another
  content; what came is a directory on the way of a part or a file at a place. So
  a way that was clear stays clear (`StaysClear`), and a file that could be opened
  can be (`StaysOpen`), whatever the parts before have made.
- *what is saved*: the files of the parts before `i` that no other part is in the
  way of. `PlaceOpens` makes it true of the next one, and no later part has the
  same place.

`FileParts` and `UploadDirParts` find the parts of a file's text and of its
directory: up to the last slash, wherever the name has one.

`PathsProofs` proves by induction what a text's parts are when a slash joins two
texts (`PartsAcrossSlash`), that a path's text has the path's names for its parts
(`PartsOfPath`), and what `Below()` does to a sequence of parts. The induction
theorems of the library cannot be instantiated, so it has its own, for sets of
numbers and of sequences (`AllNumbers`, `AllSequences`), from the least
counterexample.

`StartupProofs`: `TypeCorrect`, `AddressesDistinct` and `TablesReady`, from
`Distinct` and `Ports` (the comparison at the end of each block keeps them at any
time), `NoSocketYet`, `Descriptors` (an open descriptor listens or is the one
being made, and none is in the tables twice) and `Turns` (an endpoint with a
socket does not come up again). `NobodyLeftOut` (`[]ListensWhereItCan`) adds
`WildcardFirst` and `Settled`: endpoints come up in the order of the map, the
wildcard of a port before all others of that port, so that one which came up and
has no socket had a call that failed by itself or met the wildcard. It needs
`HostsAssumption`: were the wildcard to come later, another host could keep it
out without any failure.

Only model-checked:

- liveness (`ImplementsExchange`'s `FairSpec` with it), which the prover does not
  reach;
- `ReadAsWritten`, which says of given files what they mean: there is no meaning
  of a file in general but the parser's.

## 7. What the models found

Each of these runs checks one promise of a comment, a log line or the
requirements (`aDOC/README.md`) and ends in a counterexample; `PROJECT.json`
quotes the promise.

| run | what happens |
|---|---|
| `fd_reuse` | a request for a script comes late, when a 408 is already due or less than 10 s before the total timeout: the client is closed under its running child, and the next client on that descriptor number is sent the child's output |
| `framing_chunks` | a chunked request is taken for complete two bytes before it is, and refused with a 400 if a segment ends there |
| `cgi_output` | a page is cut short: what a program prints between the last `read()` and `waitpid()`, or beyond one `read()`, is dropped |

The models have these further deviations, each with its steps and without a run
of its own, because it is of one instance of a property that other runs check,
or because nothing in the repository promises otherwise:

- A reset connection is erased in mid-scan, its neighbour is sent to twice in one
  iteration and closed on `EAGAIN` (`server.cpp` 658-675, 733): `ClosedForCause`
  fails once peers may reset.
- The total timeout replaces the rest of a partly sent response by a 408 (694),
  and an upload is answered twice, 303 and then 201 (417, 201).
- Bytes after a CGI request start it again, and the first child is forgotten
  (616): `EveryCgiTracked` fails with a peer that sends more. A peer that stops
  reading is never closed: `EveryClientIsClosed` fails without `AttendedSpec`.
- A uri that matches no location, ends like a script and is shorter than the path
  of the first location makes `substr()` throw (`httpUtils.cpp:107`), which ends
  the server (`Site!ThrowOnCgi`).
- The first name of the directories that an upload needs melts with the second if
  it has one character (`server.cpp` 394, 224). An upload whose file cannot be
  opened is answered 201 and 303 all the same (239).
- `GET` and `DELETE` of one uri mean different files for a location other than
  `/`: `DELETE` puts the location's path behind the root (445-449), `GET` does so
  only when the file is not found without it (`responseBuilder.cpp` 165-171).
- `checkBraces()` (`configParser.cpp:203`) is never called: a closing brace lost
  inside the file moves what follows into another block. A semicolon lost before
  a brace on the same line makes the value swallow the brace. An empty file is
  accepted, and a server for which no socket could be made goes on.
- The path of a location may lead up, for the parser takes any token
  (`configParser.cpp:362-370`), and `DELETE` puts it behind the root as it is
  (445-449). With the root `www` and a location `/../www2` the target is in the
  directory `www2` beside the root, and the comparison of text prefixes
  (`httpUtils.cpp:54`) lets it pass. `TargetInsideRoot` fails with such a block.
- A wildcard address and a particular one with the same port are accepted, and
  the second `bind()` fails.
- A target of `DELETE` that does not exist is looked up again with the root twice
  (`httpUtils.cpp:52`): `/x` finds `www/www/x` below the root `www`, and a file
  there is removed and answered 204.
- A request that is completed while a 408 is pending replaces the 408 by its
  response (`queueResponse`); if the total timeout has passed, the next sweep
  replaces what is left of it by a 408 again (`server.cpp:692`).
- `Content-Length:` and `Transfer-Encoding:` are searched for in the body too
  (`server.cpp` 297, 317). A complete body with a length that contains
  `Transfer-Encoding: chunked` and no last chunk waits for its timeout; with a last
  chunk it is refused with a 400, or decoded and served as something else. A chunked
  body that contains `Content-Length:` waits if the number is large enough.
- The body ends at its first NUL (`requestParser.cpp:41`), for uploads and programs
  alike, though `CONTENT_LENGTH` announces the whole.
- A `Content-Length` above `INT_MAX` is cut by `atoi()` (`server.cpp:303`): to a
  negative number, and the request waits for its timeout, or to a small one, and it
  is refused with a 400 before its body has come, for `ftToInt()` throws
  (`requestParser.cpp:75`).
- After a request was refused, what still comes of it is taken for a new request,
  because the buffer was cleared (330, 335, 353) and the connection is closed only
  once the answer has been sent.

## 8. What is not modelled

- The bytes of requests beyond what `RequestFraming` looks at, the bytes of
  responses, the strings of `buildEnv`, HTML and logging: no property is about
  them. In `RequestFraming` a head has no header but the one that frames the body,
  and a header's name comes whole (a name that a segment cuts is found when its
  rest has come).
- The truncation of a request body to 4095 bytes on its way to a CGI program, and
  the inheritance of client descriptors by CGI children, which delays the close
  a peer sees.
- The strings of multipart parts (`ftSplit`, `extractFieldName`,
  `extractFilename`, `extractFileContent`): `Site` starts from the parts.
- Symbolic links, and failures of `read` and `write` on files (a full disk) but
  for the ones of `CsvAppend`.
- `pipe()` may fail in `CgiChild` (`PipesFail`), with the pipe ends it leaks; no
  property excludes them.

The older copy of the server (`src/ancien`), prototypes, sites and vendored
packages are not part of the program.

## 9. Plan

Done: all modules of section 2, their runs, and the proofs of section 6. Left, by
what they would add:

1. The multipart parts as sequences of lines: a delimiter within a part, a part
   without a name, and what `extractFileContent` leaves of the data.
2. The descriptors that a CGI child inherits, as a table of open file
   descriptions below `EventLoop` and `CgiChild`: a connection would then be
   closed for its peer when the last holder closes it.

A run is a question asked of the system: where a new module needs one, the
violation runs that show the least give way.
