--------------------------- MODULE RequestFraming ---------------------------
(***************************************************************************)
(* When the server takes the bytes of one connection for a request, and    *)
(* for which: Server::handleClientData() up to the parsed request, with    *)
(* selectServerForClient(), validateAndParseRequest(), dechunkBody() and   *)
(* HttpRequestParser.  TCP delivers the request in segments cut anywhere;  *)
(* every segment runs the whole handler on all that has come so far.       *)
(*                                                                         *)
(* An item is one byte.  The names that the server searches for are        *)
(* abbreviated to one: "length:" is Content-Length: and "chunked" is       *)
(* Transfer-Encoding: chunked, in a head or anywhere in a body; so are the *)
(* four words of the request line.  "x" is any byte that none of the       *)
(* functions looks for: no white space, NUL, sign, semicolon, digit or     *)
(* hexadecimal letter.  The head has no header but the one that frames the *)
(* body, and a body has no Transfer-Encoding: but with chunked.            *)
(*                                                                         *)
(* The parser of the configuration refuses two servers on one address, so  *)
(* that a listening socket has one candidate, which                        *)
(* selectServerForClient() selects on the first segment whatever Host      *)
(* says; what is left of it is its limit.                                  *)
(***************************************************************************)
EXTENDS Integers, Sequences, FiniteSets, FiniteSetsExt, SequencesExt

CONSTANTS
    Limits,      \* values of client_max_body_size, 0 for none
    Requests,    \* the requests the peer may send, see Request
    SegMax,      \* items of the longest segment: buffer[BUFFER_SIZE]
    IntMax       \* INT_MAX

Numeral == <<"0", "1", "2", "3", "4", "5", "6", "7", "8", "9">>
Digit == ToSet(Numeral)
White == {" ", "cr", "lf"}
Byte == Digit \cup White \cup {"nul", "length:", "chunked", "x"}
Word == {"verb", "uri", "http", "/1.0"}

\* A request: how its body is framed, and the body, of any bytes, in the chunks in
\* which it is sent.
Request == [kind : {"none", "length", "chunked"}, chunks : Seq(Seq(Byte))]

ASSUME RequestsAssumption ==
    /\ Requests \subseteq Request
    /\ \A r \in Requests :
          /\ r.kind = "none" => r.chunks = <<>>
          /\ \A i \in DOMAIN r.chunks : Len(r.chunks[i]) \in 1..9
    /\ Limits \subseteq Nat
    /\ SegMax \in Nat \ {0} /\ IntMax \in Nat

VARIABLES
    request,     \* what the peer sends
    limit,       \* clientMaxBodySize of its server
    taken,       \* how much of it has been received
    headed,      \* history: the first segment held the whole head
    open,        \* the connection has not been closed
    buffer,      \* ClientState::readBuffer
    selected,    \* _clientToVirtualServer is not NULL
    answers      \* the answers that were queued for the peer

vars == <<request, limit, taken, headed, open, buffer, selected, answers>>

-----------------------------------------------------------------------------
(* The peer: how a request is written *)

Data(r) == FlattenSeq(r.chunks)

Decimal(n) ==
    LET digits[m \in 0..n] ==
          IF m < 10 THEN <<Numeral[m + 1]>>
          ELSE digits[m \div 10] \o <<Numeral[(m % 10) + 1]>>
    IN digits[n]

Line(items) == items \o <<"cr", "lf">>

HeadOf(r) ==
    Line(<<"verb", "uri", "http", "/1.0">>)
    \o (CASE r.kind = "none"    -> <<>>
          [] r.kind = "length"  -> Line(<<"length:">> \o Decimal(Len(Data(r))))
          [] r.kind = "chunked" -> Line(<<"chunked">>))
    \o Line(<<>>)

ChunkOf(bytes) == Line(Decimal(Len(bytes))) \o Line(bytes)

BodyOf(r) ==
    IF r.kind = "chunked"
    THEN FlattenSeq([i \in DOMAIN r.chunks |-> ChunkOf(r.chunks[i])])
         \o Line(<<"0">>) \o Line(<<>>)
    ELSE Data(r)

Wire(r) == HeadOf(r) \o BodyOf(r)

-----------------------------------------------------------------------------
(* Reading the buffer *)

\* std::string::find: the first place of a pattern from a place on, or 0
Find(pattern, text, from) ==
    LET places == {i \in from..Len(text) - Len(pattern) + 1 :
                      SubSeq(text, i, i + Len(pattern) - 1) = pattern}
    IN IF places = {} THEN 0 ELSE Min(places)

Crlf == <<"cr", "lf">>
Blank == Crlf \o Crlf

HeadEnds(text) == Find(Blank, text, 1) # 0
BodyAt(text) == Find(Blank, text, 1) + 4
Rest(text, from) == SubSeq(text, from, Len(text))

\* How many items of a set a text begins with
Span(set, text) == SelectInSeq(Append(text, "end"), LAMBDA b : b \notin set) - 1

\* The digits a text begins with, behind white space
Decimals(text) ==
    LET digits == Rest(text, Span(White, text) + 1)
    IN SubSeq(digits, 1, Span(Digit, digits))

\* strtol, strtoul: the number a text begins with, 0 if there is none
Number(text, base) ==
    LET value(d) == (CHOOSE i \in DOMAIN Numeral : Numeral[i] = d) - 1
    IN FoldLeft(LAMBDA n, d : base * n + value(d), 0, Decimals(text))

\* atoi: what strtol returns, at most LONG_MAX, cut to an int
LongMax == 2 * (IntMax + 1) * (IntMax + 1) - 1
AsInt(n) ==
    IF n > LongMax THEN -1
    ELSE ((n + IntMax + 1) % (2 * (IntMax + 1))) - (IntMax + 1)

\* The first Content-Length, wherever it is, and the value behind it in its line
HasLength(text) == Find(<<"length:">>, text, 1) # 0
LengthAt(text) == Find(<<"length:">>, text, 1) + 1
Value(text) ==
    LET eol == Find(Crlf, text, LengthAt(text))
    IN SubSeq(text, LengthAt(text), IF eol = 0 THEN Len(text) ELSE eol - 1)

ContentLength(text) == AsInt(Number(Value(text), 10))

\* Variant: the blank line is counted as part of the body
BodyLenWithBlank(text) ==
    IF HeadEnds(text) THEN Len(text) - BodyAt(text) + 5 ELSE Len(text) - 3

\* size() - (hdrEnd + 4): without the head's end hdrEnd is npos, the largest
\* size_t, and hdrEnd + 4 wraps around to 3
BodyLen(text) ==
    IF HeadEnds(text) THEN Len(text) - BodyAt(text) + 1 ELSE Len(text) - 3

\* a < b as size_t, of which a negative number is one of the largest
SizeLess(a, b) == IF (a < 0) = (b < 0) THEN a < b ELSE b < 0

\* The first Transfer-Encoding, wherever it is
Chunked(text) == Find(<<"chunked">>, text, 1) # 0
LastChunk(text) == Find(Crlf \o <<"0">> \o Crlf, text, BodyAt(text)) # 0

\* Variant: a body that breaks off is taken as far as it goes
DechunkedLoosely(text) ==
    LET from[p \in Nat \ {0}] ==
          LET eol == Find(Crlf, text, p)
              size == Number(SubSeq(text, p, eol - 1), 16)
              next == eol + 2 + size
          IN IF p > Len(text) \/ eol = 0 \/ size = 0 THEN {<<>>}
             ELSE {SubSeq(text, eol + 2, Min({next - 1, Len(text)})) \o rest :
                      rest \in from[next + 2]}
    IN from[1]

\* dechunkBody: the body that a text encodes, in a set that is empty if the
\* text breaks off or is no encoding.  A size that would make the position wrap
\* around is taken for one that breaks off: only a body with a length, or the rest of
\* a refused request, can spell one, and of neither the properties say how it is decoded.
Dechunked(text) ==
    LET from[p \in Nat \ {0}] ==
          LET eol == Find(Crlf, text, p)
              size == Number(SubSeq(text, p, eol - 1), 16)
              next == eol + 2 + size
          IN IF p > Len(text) \/ eol = 0 THEN {}
             ELSE IF size = 0 THEN {d \in {<<>>} : eol + 3 <= Len(text)}
             ELSE IF next + 1 > Len(text) \/ Find(Crlf, text, next) # next THEN {}
             ELSE {SubSeq(text, eol + 2, next - 1) \o rest : rest \in from[next + 2]}
    IN from[1]

\* What is parsed: the buffer, or its head with the decoded body
Decoded(b) == CHOOSE d \in Dechunked(Rest(b, BodyAt(b))) : TRUE
Text(b) == IF Chunked(b) THEN SubSeq(b, 1, BodyAt(b) - 1) \o Decoded(b) ELSE b

\* The rest of a request that was refused and cleared from the buffer.  Its bytes
\* may spell anything: how the parser reads them is left open below.
Foreign(text) == ~IsPrefix(<<"verb">>, text)

\* A header of the text is Content-Length
Declares(text) == HasLength(text) /\ (HeadEnds(text) => LengthAt(text) < BodyAt(text))

\* HttpRequestParser::parseRequest throws: a request line of less than three
\* words, a Content-Length that has no number or none that is an int
Malformed(text) ==
    \/ ~IsPrefix(<<"verb", "uri", "http">>, text)
    \/ Declares(text) /\ (Decimals(Value(text)) = <<>> \/ Number(Value(text), 10) > IntMax)

\* httpVersion is neither of the two that are known
Unsupported(text) == ~IsPrefix(<<"verb", "uri", "http", "/1.0">>, text)

\* getline(stream, body, '\0')
UpToNul(text) == SubSeq(text, 1, Span(Byte \ {"nul"}, text))

\* HttpRequest::body
Body(text) == IF HeadEnds(text) THEN UpToNul(Rest(text, BodyAt(text))) ELSE <<>>

\* checkClientMaxBodySize
TooLong(length) == limit > 0 /\ length > limit

-----------------------------------------------------------------------------

Init ==
    /\ request \in Requests /\ limit \in Limits
    /\ taken = 0 /\ headed = FALSE /\ open = TRUE
    /\ buffer = <<>> /\ selected = FALSE /\ answers = {}

\* recv() returns n items: readBuffer as it is from then on
Read(n) == buffer \o SubSeq(Wire(request), taken + 1, taken + n)

Receive(n) ==
    /\ open /\ n <= SegMax /\ taken + n <= Len(Wire(request))
    /\ taken' = taken + n
    /\ headed' = (headed \/ (taken = 0 /\ n >= Len(HeadOf(request))))
    /\ UNCHANGED <<request, limit, open>>

Reply(status, body) == answers' = answers \cup {[status |-> status, body |-> body]}

\* The first check of handleClientData(): what has come of the body is too
\* long for the server, if an earlier segment selected it
IsOverLong(n) ==
    /\ selected /\ HeadEnds(Read(n))
    /\ TooLong(Len(Read(n)) - BodyAt(Read(n)) + 1)

RejectOverLong(n) ==
    /\ Receive(n) /\ IsOverLong(n)
    /\ Reply("413", <<>>)
    /\ buffer' = Read(n) /\ UNCHANGED selected

\* Past that check, the server is selected
Examine(n) == Receive(n) /\ ~IsOverLong(n) /\ selected' = TRUE

\* Variant: a body that is just complete is waited for
IncompleteAtEnd(b) ==
    \/ HasLength(b) /\ ~SizeLess(ContentLength(b), BodyLen(b))
    \/ Chunked(b) /\ ~LastChunk(b)

\* "Wait for more data"
Incomplete(b) ==
    \/ HasLength(b) /\ SizeLess(BodyLen(b), ContentLength(b))
    \/ Chunked(b) /\ ~LastChunk(b)

AwaitMore(n) ==
    /\ Examine(n) /\ Incomplete(Read(n))
    /\ buffer' = Read(n) /\ UNCHANGED answers

\* dechunkBody() returned nothing
BadChunks(b) == Chunked(b) /\ Dechunked(Rest(b, BodyAt(b))) \subseteq {<<>>}

RejectChunks(n) ==
    /\ Examine(n) /\ ~Incomplete(Read(n)) /\ BadChunks(Read(n))
    /\ Reply("400", <<>>)
    /\ buffer' = <<>>

\* The decoded body is too long
Overflows(n) == Chunked(Read(n)) /\ TooLong(Len(Decoded(Read(n))))

RejectDecoded(n) ==
    /\ Examine(n) /\ ~Incomplete(Read(n)) /\ ~BadChunks(Read(n)) /\ Overflows(n)
    /\ Reply("413", <<>>)
    /\ buffer' = <<>>

\* The request is parsed
Parse(n) ==
    /\ Examine(n)
    /\ ~Incomplete(Read(n)) /\ ~BadChunks(Read(n)) /\ ~Overflows(n)

RejectSyntax(n) ==
    /\ Parse(n) /\ (Foreign(Text(Read(n))) \/ Malformed(Text(Read(n))))
    /\ Reply("400", <<>>)
    /\ buffer' = <<>>

RejectVersion(n) ==
    /\ Parse(n) /\ ~Foreign(Text(Read(n)))
    /\ ~Malformed(Text(Read(n))) /\ Unsupported(Text(Read(n)))
    /\ Reply("505", <<>>)
    /\ buffer' = Text(Read(n))

\* The last check, of Content-Length; past it, the request is served
Serve(n) ==
    LET text == Text(Read(n))
        long == Declares(text) /\ TooLong(Number(Value(text), 10))
    IN /\ Parse(n) /\ ~Foreign(text) /\ ~Malformed(text) /\ ~Unsupported(text)
       /\ IF long THEN Reply("413", <<>>)
                  ELSE Reply("served", Body(text))
       /\ buffer' = text

\* The same for the rest of a request, should it read as a request: whether it is of
\* a known version or too long, and with which part of it as a body it is served, is
\* left open
AnswerRest(n) ==
    /\ Parse(n) /\ Foreign(Text(Read(n)))
    /\ Reply("rest", <<>>)
    /\ buffer' = Text(Read(n))

\* An answer has been sent, and closes the connection (EventLoop)
Close ==
    /\ open /\ answers # {}
    /\ open' = FALSE
    /\ UNCHANGED <<request, limit, taken, headed, buffer, selected, answers>>

HandleClientData(n) ==
    \/ RejectOverLong(n) \/ AwaitMore(n) \/ RejectChunks(n) \/ RejectDecoded(n)
    \/ RejectSyntax(n) \/ RejectVersion(n) \/ Serve(n) \/ AnswerRest(n)

Ended == ~open \/ taken = Len(Wire(request))

Next ==
    \/ \E n \in 1..Len(Wire(request)) : HandleClientData(n)
    \/ Close
    \/ Ended /\ UNCHANGED vars

Spec == Init /\ [][Next]_vars

-----------------------------------------------------------------------------

\* What the peer is entitled to: 413 for a body that is longer than the server
\* takes, else to be served with its body and nothing else.  For the parser a body
\* ends at its first NUL.
Expected ==
    IF TooLong(Len(Data(request))) THEN [status |-> "413", body |-> <<>>]
    ELSE [status |-> "served", body |-> UpToNul(Data(request))]

\* A name that the server searches for is in the body too
BodyHas(name) == name \in ToSet(BodyOf(request))

\* A request without chunks whose head comes in one segment is answered as it
\* should be, however its body is cut and however many segments follow before
\* the connection is closed, if its length is an int and its body does not look
\* like a chunked request's head (handleClientData, validateAndParseRequest).
AnsweredAsSent ==
    /\ headed /\ request.kind # "chunked"
    /\ ~BodyHas("chunked") /\ Len(Data(request)) <= IntMax
    => answers \subseteq {Expected}

\* No request whose head comes in one segment is served with less, more or other
\* than its body as far as the first NUL, chunked or not, whatever its chunks hold:
\* what breaks off or is too long is refused, and so is a length that is no int
\* (dechunkBody).  Excepted are bodies with a length that look like a chunked
\* request's head; and of a request that was refused nothing is said of what is
\* made of the rest.
ServedWhole ==
    headed /\ ~(request.kind = "length" /\ BodyHas("chunked")) =>
        \A a \in answers : a.status = "served" => a = Expected

\* When everything has come, the peer is not left to wait for its timeout,
\* wherever the segments were cut, but in four cases: a chunked request without
\* data, whose last chunk is its first, or with Content-Length: in its body, and a
\* body with a length that is no int or that has Transfer-Encoding: chunked in it
\* (validateAndParseRequest).
NobodyWaitsInVain ==
    taken = Len(Wire(request)) /\ answers = {} =>
        \/ request.kind = "chunked" /\ (Data(request) = <<>> \/ BodyHas("length:"))
        \/ request.kind = "length" /\ (Len(Data(request)) > IntMax \/ BodyHas("chunked"))

\* "Check if complete body is received (Content-Length or chunked)": a chunked
\* request is answered as it should be.
ChunksAnsweredAsSent ==
    headed /\ request.kind = "chunked" => answers \subseteq {Expected}
=============================================================================
