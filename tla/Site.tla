-------------------------------- MODULE Site --------------------------------
(***************************************************************************)
(* From a parsed request to its answer: the location match and method      *)
(* check of handleClientData(), handleSpecialMethods(), buildResponse()    *)
(* and the error pages.  Requests are served one after another; a step is  *)
(* one system call with the code up to the next one.  Other processes (CGI *)
(* programs, an editor) change files between any two steps.                *)
(***************************************************************************)
EXTENDS Paths

CONSTANTS
    Configs,      \* the server blocks there may be
    Requests,     \* the parsed requests that may come
    Disks,        \* the files there may be at the start
    Changes,      \* what other processes do: paths, and entries put there
    Width,        \* the number of characters of a token
    MaxRequests,  \* bounds: how many requests come, and
    MaxChanges    \* how often other processes change files between them

Method == {"GET", "POST", "DELETE"}
Code == {200, 201, 204, 303, 400, 403, 404, 405, 500}

\* A text is a sequence of tokens, the slash among them
Token == DOMAIN Width
Text == Seq(Token)

ASSUME WidthAssumption ==
    /\ Width \in [Token -> Nat \ {0}]
    /\ {"/", "uploads", "contacts.csv"} \subseteq Token
    /\ Width["/"] = 1 /\ Width["uploads"] > 1

\* A file's body is a sequence of pieces, the header and the rows of a CSV file
\* among them
Piece == STRING \cup {"header", "row"}
Entry == [kind : {"dir", "file", "other"}, body : Seq(Piece), mode : SUBSET {"r", "w"}]
Gone == [kind |-> "none", body |-> <<>>, mode |-> {}]

Location == [path : Text, root : Text, indexFiles : Seq(Text), methods : SUBSET Method,
             autoindex : BOOLEAN, redirect : BOOLEAN, cgiExtension : Text, uploadDir : Text]

\* No error page is an empty one
Config == [root : Text \ {<<>>}, indexFiles : Seq(Text), errorPages : [Code -> Text],
           locations : Seq(Location)]

\* Of the parts of an upload those with a file name; the others are fields of
\* the row that appendToCSV() writes
Request == [method : STRING, uri : Text \ {<<>>}, multipart : BOOLEAN, boundary : BOOLEAN,
            parts : Seq([filename : Text, data : STRING])]

ASSUME SiteAssumption ==
    /\ Configs \subseteq Config
    /\ Requests \subseteq Request
    /\ \A d \in Disks : d \in [DOMAIN d -> Entry] /\ Nowhere \notin DOMAIN d
    /\ \A c \in Changes : /\ DOMAIN c = {"path", "entry"} /\ c.entry \in Entry \cup {Gone}
                          /\ c.path # Nowhere
    /\ MaxRequests \in Nat /\ MaxChanges \in Nat

VARIABLES
    config,       \* the server block
    disk,         \* the files, as a function from the paths that exist
    pc,           \* what comes next
    req, loc, i,  \* the request, the index of its location (0: NULL), a loop's index
    filePath, st, \* the text of filePath, targetPath or fullPath; the kind that stat() found
    canon,        \* isPathInsideRoot(): a canonical path
    accum, todo,  \* the loops that make directories: made so far, to be made
    code,         \* of the error to answer
    reply,        \* the answers to the request, in the order they arrive
    seen,         \* history: the disks there were since the request came
    served,       \* how many requests came
    changes       \* how many changes others made since the last one did

vars == <<config, disk, pc, req, loc, i, filePath, st, canon, accum, todo, code, reply,
          seen, served, changes>>

L == config.locations[loc]
N == Len(config.locations)

Answer(c, page, names) == [code |-> c, page |-> page, names |-> names]
Empty(c) == Answer(c, <<>>, {})

\* 200 with the body of a file, 200 with the names in a directory
Page(body) == Answer(200, body, {})
Listing(names) == Answer(200, <<"Index of">>, names)

\* What a CGI program answers is not known here
Handed == Answer(0, <<>>, {})

TypeOK ==
    /\ config \in Configs
    /\ disk \in [DOMAIN disk -> Entry]
    /\ pc \in {"idle", "match", "method", "stat", "alt", "exists", "index", "access",
               "read", "list", "error", "root", "target", "examine", "writable", "unlink",
               "uploads", "mkdir", "part", "mkdirFor", "write", "csv", "redirect", "dead"}
    /\ req \in Requests
    /\ loc \in 0..N
    /\ i \in Nat \ {0}
    /\ st \in {"none", "dir", "file", "other"}
    /\ code \in Code
    /\ Len(reply) \in 0..2 /\ \A k \in 1..Len(reply) : reply[k].code \in Code \cup {0}
    /\ served \in 0..MaxRequests
    /\ changes \in 0..MaxChanges

Init ==
    /\ config \in Configs
    /\ disk \in Disks
    /\ pc = "idle"
    /\ req \in Requests /\ req = CHOOSE r \in Requests : TRUE   \* none has come
    /\ loc = 0 /\ i = 1
    /\ filePath = <<>> /\ st = "none"
    /\ canon = <<>>
    /\ accum = <<>> /\ todo = <<>>
    /\ code = 200
    /\ reply = <<>>
    /\ seen = {disk}
    /\ served = 0 /\ changes = 0

-----------------------------------------------------------------------------
(* The location and the method: handleClientData()                         *)

Arrive(r) ==
    /\ pc = "idle" /\ served < MaxRequests
    /\ served' = served + 1
    /\ pc' = "match"
    /\ req' = r
    /\ loc' = 0 /\ i' = 1
    /\ filePath' = <<>> /\ st' = "none"
    /\ canon' = <<>>
    /\ accum' = <<>> /\ todo' = <<>>
    /\ code' = 200
    /\ reply' = <<>>
    /\ seen' = {disk} /\ changes' = 0
    /\ UNCHANGED <<config, disk>>

\* What steps of the server leave alone: all of them, those of the choice of
\* a location, those for a page, for a DELETE and for an upload
Steady == UNCHANGED <<config, req, seen, served, changes>>
NoDelete == UNCHANGED canon
NoUpload == UNCHANGED <<accum, todo>>
NoPage == UNCHANGED <<filePath, st>>

\* A request is answered with an error, from the error page if there is one
Fail(c) == pc' = "error" /\ code' = c /\ UNCHANGED reply

\* A request is answered
Reply(answers) == pc' = "idle" /\ reply' = answers /\ UNCHANGED code

GoOn(there) == pc' = there /\ UNCHANGED <<code, reply>>

\* bestMatchLen
MatchLen == IF loc = 0 THEN 0 ELSE Len(L.path)

\* Variant: the last match wins
MatchLast ==
    /\ pc = "match" /\ i <= N
    /\ loc' = IF IsPrefix(config.locations[i].path, req.uri) THEN i ELSE loc
    /\ i' = i + 1
    /\ GoOn("match") /\ Steady /\ NoPage /\ NoDelete /\ NoUpload /\ UNCHANGED disk

MatchLocation ==
    /\ pc = "match" /\ i <= N
    /\ LET path == config.locations[i].path
       IN loc' = IF IsPrefix(path, req.uri) /\ Len(path) > MatchLen THEN i ELSE loc
    /\ i' = i + 1
    /\ GoOn("match") /\ Steady /\ NoPage /\ NoDelete /\ NoUpload /\ UNCHANGED disk

\* Variants: the first location without looking whether there is one, and
\* without looking whether another matched
FallBackAnyhow ==
    /\ pc = "match" /\ i > N
    /\ loc' = IF loc = 0 THEN 1 ELSE loc
    /\ i' = 1
    /\ GoOn("method") /\ Steady /\ NoPage /\ NoDelete /\ NoUpload /\ UNCHANGED disk

FirstLocation ==
    /\ pc = "match" /\ i > N
    /\ loc' = IF N > 0 THEN 1 ELSE loc
    /\ i' = 1
    /\ GoOn("method") /\ Steady /\ NoPage /\ NoDelete /\ NoUpload /\ UNCHANGED disk

\* The loop is over: the first location stands in when none matched
FallBack ==
    /\ pc = "match" /\ i > N
    /\ loc' = IF loc = 0 /\ N > 0 THEN 1 ELSE loc
    /\ i' = 1
    /\ GoOn("method") /\ Steady /\ NoPage /\ NoDelete /\ NoUpload /\ UNCHANGED disk

\* Variant: the methods of the location are not looked at
AllMethods == IF loc = 0 THEN {} ELSE Method

Allowed == IF loc = 0 THEN {} ELSE L.methods

RefuseMethod ==
    /\ pc = "method"
    /\ \/ req.method \notin Method /\ Fail(400)
       \/ req.method \in Method \ Allowed /\ Fail(405)
    /\ Steady /\ NoPage /\ NoDelete /\ NoUpload /\ UNCHANGED <<disk, loc, i>>

\* Further on the method is allowed, so there is a location
Dispatched == pc = "method" /\ req.method \in Allowed

Root == IF L.root # <<>> THEN L.root ELSE config.root
Rest == Relative(req.uri, L.path)

IsUpload == req.method = "POST" /\ req.multipart

\* isCgiRequest(), asked when handleSpecialMethods() has not answered
IsCgi ==
    /\ ~IsUpload /\ req.method # "DELETE"
    /\ L.cgiExtension # <<>> /\ IsSuffix(L.cgiExtension, req.uri)

Chars(text) == FoldLeft(LAMBDA n, token : n + Width[token], 0, text)

\* isCgiRequest() drops as many characters of the uri as the location's path
\* has: with fewer there substr() throws, out of handleClientData() and run()
ThrowOnCgi ==
    /\ Dispatched /\ IsCgi /\ Chars(L.path) > Chars(req.uri)
    /\ GoOn("dead")
    /\ Steady /\ NoPage /\ NoDelete /\ NoUpload /\ UNCHANGED <<disk, loc, i>>

StartCgi ==
    /\ Dispatched /\ IsCgi /\ Chars(L.path) <= Chars(req.uri)
    /\ Reply(<<Handed>>) \/ Fail(500)
    /\ Steady /\ NoPage /\ NoDelete /\ NoUpload /\ UNCHANGED <<disk, loc, i>>

-----------------------------------------------------------------------------
(* Pages: buildResponse()                                                  *)

IsPage == ~IsUpload /\ req.method # "DELETE" /\ ~IsCgi

Redirect ==
    /\ Dispatched /\ IsPage /\ L.redirect
    /\ Reply(<<Empty(303)>>)
    /\ Steady /\ NoPage /\ NoDelete /\ NoUpload /\ UNCHANGED <<disk, loc, i>>

\* relativePath, with the first index file for a bare location
RelativePath ==
    LET indexes == L.indexFiles \o config.indexFiles
    IN IF Rest \in {<<>>, <<"/">>} /\ indexes # <<>> THEN Head(indexes) ELSE Rest

Resolve ==
    /\ Dispatched /\ IsPage /\ ~L.redirect
    /\ filePath' = Root \o <<"/">> \o RelativePath
    /\ GoOn("stat")
    /\ Steady /\ NoDelete /\ NoUpload /\ UNCHANGED <<disk, st, loc, i>>

\* stat(): a failed call leaves st as it was
StatPage ==
    /\ pc = "stat"
    /\ st' = Stat(disk, filePath)
    /\ GoOn(IF st' = "none" THEN "alt" ELSE "exists")
    /\ Steady /\ NoDelete /\ NoUpload /\ UNCHANGED <<disk, filePath, loc, i>>

\* Variant: filePath stays when altPath exists
StatWholeUriOnly ==
    /\ pc = "alt"
    /\ st' = Stat(disk, Root \o <<"/">> \o Relative(req.uri, <<>>))
    /\ GoOn("exists")
    /\ Steady /\ NoDelete /\ NoUpload /\ UNCHANGED <<disk, filePath, loc, i>>

\* altPath: the whole uri below the root
StatWholeUri ==
    /\ pc = "alt"
    /\ LET altPath == Root \o <<"/">> \o Relative(req.uri, <<>>)
       IN /\ st' = Stat(disk, altPath)
          /\ filePath' = IF st' = "none" THEN filePath ELSE altPath
    /\ GoOn("exists")
    /\ Steady /\ NoDelete /\ NoUpload /\ UNCHANGED <<disk, loc, i>>

\* file_exists(), and what st says of the file.  If both calls of stat() failed
\* and the file has come since, st is uninitialised and may say anything
FileExists ==
    /\ pc = "exists"
    /\ \/ Stat(disk, filePath) = "none" /\ Fail(404)
       \/ /\ Stat(disk, filePath) # "none"
          /\ \E kind \in IF st = "none" THEN {"dir", "file", "other"} ELSE {st} :
               \/ kind = "dir" /\ GoOn("index")
               \/ kind = "file" /\ GoOn("access")
               \/ kind = "other" /\ Fail(500)
    /\ Steady /\ NoPage /\ NoDelete /\ NoUpload /\ UNCHANGED <<disk, loc, i>>

\* The index files of the location, then those of the server
IndexFiles == L.indexFiles \o config.indexFiles

FindIndex ==
    /\ pc = "index" /\ i <= Len(IndexFiles)
    /\ LET idxPath == filePath \o <<"/">> \o IndexFiles[i]
       IN IF Stat(disk, idxPath) = "none"
          THEN i' = i + 1 /\ GoOn("index") /\ UNCHANGED filePath
          ELSE filePath' = idxPath /\ GoOn("read") /\ UNCHANGED i
    /\ Steady /\ NoDelete /\ NoUpload /\ UNCHANGED <<disk, st, loc>>

NoIndex ==
    /\ pc = "index" /\ i > Len(IndexFiles)
    /\ IF L.autoindex THEN GoOn("list") ELSE Fail(403)
    /\ Steady /\ NoPage /\ NoDelete /\ NoUpload /\ UNCHANGED <<disk, loc, i>>

NamesIn(d, path) == {Last(p) : p \in {q \in DOMAIN d : q # <<>> /\ Front(q) = path}}

\* generateAutoindexHTML(): an empty page when opendir() fails
ListDirectory ==
    /\ pc = "list"
    /\ LET dir == Walk(disk, filePath)
       IN Reply(<<IF IsDir(disk, dir) /\ Access(disk, dir, "r")
                  THEN Listing(NamesIn(disk, dir)) ELSE Page(<<>>)>>)
    /\ Steady /\ NoPage /\ NoDelete /\ NoUpload /\ UNCHANGED <<disk, loc, i>>

MayRead ==
    /\ pc = "access"
    /\ IF Access(disk, Walk(disk, filePath), "r") THEN GoOn("read") ELSE Fail(403)
    /\ Steady /\ NoPage /\ NoDelete /\ NoUpload /\ UNCHANGED <<disk, loc, i>>

\* ftReadFile(): throws when it cannot open, and a directory reads as empty
ReadFile ==
    /\ pc = "read"
    /\ LET path == Walk(disk, filePath)
       IN IF Access(disk, path, "r") THEN Reply(<<Page(disk[path].body)>>) ELSE Fail(404)
    /\ Steady /\ NoPage /\ NoDelete /\ NoUpload /\ UNCHANGED <<disk, loc, i>>

\* generateErrorResponse(): the error page of the server, or a line of its own
ErrorText(c) == config.root \o <<"/">> \o Relative(config.errorPages[c], <<>>)

Error(d, c) ==
    LET path == Walk(d, ErrorText(c))
    IN Answer(c, IF config.errorPages[c] # <<>> /\ Access(d, path, "r") THEN d[path].body ELSE <<>>, {})

ReplyError ==
    /\ pc = "error"
    /\ Reply(<<Error(disk, code)>>)
    /\ Steady /\ NoPage /\ NoDelete /\ NoUpload /\ UNCHANGED <<disk, loc, i>>

-----------------------------------------------------------------------------
(* DELETE: handleSpecialMethods()                                          *)

DeleteNothing ==
    /\ Dispatched /\ req.method = "DELETE" /\ Rest = <<>>
    /\ Fail(403)
    /\ Steady /\ NoPage /\ NoDelete /\ NoUpload /\ UNCHANGED <<disk, loc, i>>

\* Variant: the rest of the uri as it came
RawTarget ==
    Root \o (IF L.path \in {<<>>, <<"/">>} THEN <<>> ELSE <<"/">> \o Relative(L.path, <<>>))
         \o <<"/">> \o Rest

\* targetPath has the location's path between the root and the rest of the uri
TargetText ==
    Root \o (IF L.path \in {<<>>, <<"/">>} THEN <<>> ELSE <<"/">> \o Relative(L.path, <<>>))
         \o (IF NormalPath(Rest) = <<>> THEN <<"/">> ELSE TextOf(NormalPath(Rest)))

\* isPathInsideRoot(): realpath(root)
CanonicalRoot ==
    /\ Dispatched /\ req.method = "DELETE" /\ Rest # <<>>
    /\ filePath' = TargetText
    /\ IF Stat(disk, Root) = "none" THEN Fail(403) /\ UNCHANGED canon
       ELSE canon' = Walk(disk, Root) /\ GoOn("target")
    /\ Steady /\ NoUpload /\ UNCHANGED <<disk, st, loc, i>>

\* isPathInsideRoot(): realpath(target).  A target that does not exist is
\* normalised, root and all, below the canonical root
CanonicalTarget ==
    /\ pc = "target"
    /\ \E target \in {IF Stat(disk, filePath) # "none" THEN Walk(disk, filePath)
                      ELSE canon \o NormalPath(filePath)} :
          /\ canon' = target
          /\ IF IsPrefix(TextOf(canon), TextOf(target)) THEN GoOn("examine") ELSE Fail(403)
    /\ Steady /\ NoPage /\ NoUpload /\ UNCHANGED <<disk, loc, i>>

ExamineTarget ==
    /\ pc = "examine"
    /\ CASE canon \notin DOMAIN disk -> Fail(404)
         [] IsDir(disk, canon)       -> Fail(403)
         [] OTHER                    -> GoOn("writable")
    /\ Steady /\ NoPage /\ NoDelete /\ NoUpload /\ UNCHANGED <<disk, loc, i>>

MayWrite ==
    /\ pc = "writable"
    /\ IF Access(disk, canon, "w") THEN GoOn("unlink") ELSE Fail(403)
    /\ Steady /\ NoPage /\ NoDelete /\ NoUpload /\ UNCHANGED <<disk, loc, i>>

\* Variant: the result of unlink() is not looked at
UnlinkUnseen ==
    /\ pc = "unlink"
    /\ disk' = IF canon \in DOMAIN disk /\ ~IsDir(disk, canon) /\ MayChange(disk, canon)
               THEN Without(disk, canon) ELSE disk
    /\ Reply(<<Empty(204)>>)
    /\ Steady /\ NoPage /\ NoDelete /\ NoUpload /\ UNCHANGED <<loc, i>>

Unlink ==
    /\ pc = "unlink"
    /\ IF canon \in DOMAIN disk /\ ~IsDir(disk, canon) /\ MayChange(disk, canon)
       THEN disk' = Without(disk, canon) /\ Reply(<<Empty(204)>>)
       ELSE Fail(500) /\ UNCHANGED disk
    /\ Steady /\ NoPage /\ NoDelete /\ NoUpload /\ UNCHANGED <<loc, i>>

-----------------------------------------------------------------------------
(* Uploads: handleSpecialMethods(), handleMultipartUpload()                *)

UploadRoot == IF L.uploadDir # <<>> THEN L.uploadDir ELSE Root
UploadDir ==
    UploadRoot \o (IF Last(UploadRoot) = "/" THEN <<>> ELSE <<"/">>) \o <<"uploads">>

\* The start of both loops that make directories
MakeDirs(text) ==
    /\ accum' = IF Head(text) = "/" THEN <<"/">> ELSE <<>>
    /\ todo' = Names(text)

MakeUploads ==
    /\ Dispatched /\ IsUpload
    /\ IF Stat(disk, UploadDir) = "none" THEN MakeDirs(UploadDir) /\ GoOn("mkdir")
       ELSE NoUpload /\ GoOn("part")
    /\ Steady /\ NoPage /\ NoDelete /\ UNCHANGED <<disk, loc, i>>

\* accum with one more name: a slash goes between if accum is longer than one
\* character and does not end in one
NextDir ==
    accum \o (IF Chars(accum) > 1 /\ Last(accum) # "/" THEN <<"/">> ELSE <<>>) \o Head(todo)

NewDir == [kind |-> "dir", body |-> <<>>, mode |-> {"r", "w"}]

\* stat() and mkdir() of one more directory: EEXIST is as good as success, so
\* the two act as one step.  A failure ends the first loop, and in the second
\* it ends saveUploadedFile()
MakeDir ==
    /\ pc \in {"mkdir", "mkdirFor"}
    /\ \E next \in {NextDir} : \E path \in {Walk(disk, next)} :
       LET fails == path \notin DOMAIN disk /\ ~MayChange(disk, path)
           over == fails \/ Len(todo) = 1
       IN /\ disk' = IF fails \/ path \in DOMAIN disk THEN disk ELSE Put(disk, path, NewDir)
          /\ accum' = next
          /\ todo' = IF fails THEN <<>> ELSE Tail(todo)
          /\ i' = IF pc = "mkdirFor" /\ fails THEN i + 1 ELSE i
          /\ GoOn(CASE ~over                          -> pc
                    [] over /\ pc = "mkdirFor" /\ ~fails -> "write"
                    [] OTHER                          -> "part")
    /\ Steady /\ NoPage /\ NoDelete /\ UNCHANGED loc

FullPath == UploadDir \o <<"/">> \o req.parts[i].filename

\* dir, up to the last slash of fullPath
DirOf(text) ==
    SubSeq(text, 1, (CHOOSE k \in DOMAIN text :
                         /\ text[k] = "/"
                         /\ \A j \in DOMAIN text : text[j] = "/" => j <= k) - 1)

\* saveUploadedFile() of the next part, as far as its loop
NextPart ==
    /\ pc = "part" /\ req.boundary /\ i <= Len(req.parts)
    /\ filePath' = FullPath
    /\ \E dir \in {DirOf(FullPath)} :
          IF Stat(disk, dir) = "none" THEN MakeDirs(dir) /\ GoOn("mkdirFor")
          ELSE NoUpload /\ GoOn("write")
    /\ Steady /\ NoDelete /\ UNCHANGED <<disk, st, loc, i>>

\* Whether open() for writing succeeds, O_CREAT included
MayOpen(d, path) ==
    IF path \in DOMAIN d THEN ~IsDir(d, path) /\ Access(d, path, "w") ELSE MayChange(d, path)

FileOf(body) == [kind |-> "file", body |-> body, mode |-> {"r", "w"}]
Write(d, path, body) ==
    Put(d, path, IF path \in DOMAIN d THEN [d[path] EXCEPT !.body = body] ELSE FileOf(body))

\* Variant: the file is opened to append to it
AppendToFile ==
    /\ pc = "write"
    /\ \E path \in {Walk(disk, filePath)} :
          disk' = IF ~MayOpen(disk, path) THEN disk
                  ELSE Write(disk, path, (IF path \in DOMAIN disk THEN disk[path].body ELSE <<>>)
                                         \o <<req.parts[i].data>>)
    /\ i' = i + 1
    /\ GoOn("part") /\ Steady /\ NoPage /\ NoDelete /\ NoUpload /\ UNCHANGED loc

\* saveUploadedFile(): the ofstream.  A file that does not open is passed over
SaveFile ==
    /\ pc = "write"
    /\ \E path \in {Walk(disk, filePath)} :
          disk' = IF MayOpen(disk, path) THEN Write(disk, path, <<req.parts[i].data>>) ELSE disk
    /\ i' = i + 1
    /\ GoOn("part") /\ Steady /\ NoPage /\ NoDelete /\ NoUpload /\ UNCHANGED loc

CsvPath(d) == Walk(d, UploadDir \o <<"/", "contacts.csv">>)

\* appendToCSV(), a module of its own, as a row more
AppendRow ==
    /\ pc = "part" /\ req.boundary /\ i > Len(req.parts)
    /\ \E path \in {CsvPath(disk)} :
       LET before == IF path \in DOMAIN disk THEN disk[path].body ELSE <<>>
           header == IF before = <<>> THEN <<"header">> ELSE <<>>
       IN disk' = IF MayOpen(disk, path)
                  THEN Write(disk, path, before \o header \o <<"row">>) ELSE disk
    /\ GoOn("redirect") /\ Steady /\ NoPage /\ NoDelete /\ NoUpload /\ UNCHANGED <<loc, i>>

\* The 303 is sent at once; the 201 that handleMultipartUpload() queued comes
\* after it.  Without a boundary handleMultipartUpload() returned at once
SeeOther ==
    /\ \/ pc = "redirect" /\ Reply(<<Empty(303), Empty(201)>>)
       \/ pc = "part" /\ ~req.boundary /\ Reply(<<Empty(303)>>)
    /\ Steady /\ NoPage /\ NoDelete /\ NoUpload /\ UNCHANGED <<disk, loc, i>>

-----------------------------------------------------------------------------

\* Another process replaces, makes or removes a file.  Before the first request
\* that would be another start
Change(c) ==
    /\ served > 0 /\ changes < MaxChanges
    /\ changes' = changes + 1
    /\ IF c.entry = Gone
       THEN /\ c.path \in DOMAIN disk
            /\ \A p \in DOMAIN disk : IsPrefix(c.path, p) => p = c.path
            /\ disk' = Without(disk, c.path)
       ELSE /\ IsDir(disk, Front(c.path)) /\ ~IsDir(disk, c.path)
            /\ disk' = Put(disk, c.path, c.entry)
    /\ seen' = seen \cup {disk'}
    /\ UNCHANGED <<config, pc, req, loc, i, filePath, st, canon, accum, todo, code, reply,
                   served>>

Serve ==
    \/ MatchLocation \/ FallBack \/ RefuseMethod \/ ThrowOnCgi \/ StartCgi
    \/ Redirect \/ Resolve \/ StatPage \/ StatWholeUri \/ FileExists \/ FindIndex \/ NoIndex
    \/ ListDirectory \/ MayRead \/ ReadFile \/ ReplyError
    \/ DeleteNothing \/ CanonicalRoot \/ CanonicalTarget \/ ExamineTarget \/ MayWrite \/ Unlink
    \/ MakeUploads \/ MakeDir \/ NextPart \/ SaveFile \/ AppendRow \/ SeeOther

Next == Serve \/ (\E r \in Requests : Arrive(r)) \/ (\E c \in Changes : Change(c))

Spec == Init /\ [][Next]_vars

\* Weak fairness of Serve, with the states in which Serve is enabled written out
Served == []<>(pc \in {"idle", "dead"}) \/ []<><<Serve>>_vars
FairSpec == Spec /\ Served

-----------------------------------------------------------------------------
(* Correctness                                                             *)

Matches(n) == config.locations[n].path # <<>> /\ IsPrefix(config.locations[n].path, req.uri)

Longest(n) ==
    /\ n \in 1..N /\ Matches(n)
    /\ \A m \in 1..N : Matches(m) => Len(config.locations[m].path) <= Len(config.locations[n].path)

\* The location that serves a request is one with the longest path that its uri
\* starts with, or the first when there is none: handleClientData()'s loop
\* (server.cpp:543-555) finds the maximum whatever the order of the blocks.
LongestMatch ==
    pc \notin {"idle", "match"} =>
        \/ Longest(loc)
        \/ (\A n \in 1..N : ~Matches(n)) /\ loc = IF N = 0 THEN 0 ELSE 1

\* The answer to a request for a page if nothing but it happened: the file below
\* the root or else the one the whole uri names; the first index file of a
\* directory; its names if it may be listed
PageTexts == <<Root \o <<"/">> \o RelativePath, Root \o <<"/">> \o Relative(req.uri, <<>>)>>
PageText(d) == IF Stat(d, PageTexts[1]) # "none" THEN PageTexts[1] ELSE PageTexts[2]
IndexText(text, k) == text \o <<"/">> \o IndexFiles[k]
Indexes(d) == {k \in DOMAIN IndexFiles : Stat(d, IndexText(PageText(d), k)) # "none"}

ExpectedPage(d) ==
    LET text == PageText(d)
        index == Walk(d, IndexText(text, Min(Indexes(d))))
        path == Walk(d, text)
        readable == Access(d, path, "r")
    IN CASE Stat(d, text) = "none" -> Error(d, 404)
         [] Stat(d, text) = "other" -> Error(d, 500)
         [] Stat(d, text) = "file" -> IF readable THEN Page(d[path].body) ELSE Error(d, 403)
         [] Stat(d, text) = "dir" /\ Indexes(d) # {} ->
                IF Access(d, index, "r") THEN Page(d[index].body) ELSE Error(d, 404)
         [] OTHER -> IF ~L.autoindex THEN Error(d, 403)
                     ELSE IF readable THEN Listing(NamesIn(d, path)) ELSE Page(<<>>)

\* What isPathInsideRoot() makes of the target: for one that does not exist it
\* has the root twice (httpUtils.cpp:52)
CanonTarget(d) ==
    IF Stat(d, TargetText) # "none" THEN Walk(d, TargetText)
    ELSE Walk(d, Root) \o NormalPath(TargetText)

\* The answer to a DELETE: what is there is no directory, and may be removed
ExpectedDelete(d) ==
    LET path == CanonTarget(d)
    IN IF Rest = <<>> \/ Stat(d, Root) = "none" \/ ~IsPrefix(TextOf(Walk(d, Root)), TextOf(path))
       THEN Error(d, 403)
       ELSE CASE path \notin DOMAIN d -> Error(d, 404)
              [] IsDir(d, path) -> Error(d, 403)
              [] path \in DOMAIN d /\ ~IsDir(d, path) ->
                     IF ~Access(d, path, "w") THEN Error(d, 403)
                     ELSE IF MayChange(d, path) THEN Empty(204) ELSE Error(d, 500)

\* The answers there may be when the files are d
Expected(d) ==
    CASE req.method \notin Method -> {Error(d, 400)}
      [] req.method \in Method \ Allowed -> {Error(d, 405)}
      [] req.method \in Allowed /\ req.method = "DELETE" -> {ExpectedDelete(d)}
      [] req.method \in Allowed /\ IsCgi -> {Handed, Error(d, 500)}
      [] OTHER -> {IF L.redirect THEN Empty(303) ELSE ExpectedPage(d)}

Answered == pc = "idle" /\ served > 0

\* Whether the calls made for the request find the same in the files d and e: at
\* a path, at a text, and at the texts and paths that this request is about
SameFile(d, e, path) ==
    /\ path \in DOMAIN d <=> path \in DOMAIN e
    /\ path \in DOMAIN d => d[path] = e[path]
SameAt(d, e, text) == Walk(d, text) = Walk(e, text) /\ SameFile(d, e, Walk(d, text))

SamePage(d, e) ==
    \A n \in 1..2 :
        LET text == PageTexts[n]
        IN /\ SameAt(d, e, text)
           /\ NamesIn(d, Walk(d, text)) = NamesIn(e, Walk(d, text))
           /\ \A k \in DOMAIN IndexFiles : SameAt(d, e, IndexText(text, k))

SameTarget(d, e) ==
    LET path == CanonTarget(d)
    IN /\ Walk(d, Root) = Walk(e, Root) /\ Stat(d, Root) = Stat(e, Root)
       /\ CanonTarget(e) = path
       /\ SameFile(d, e, path) /\ MayChange(d, path) = MayChange(e, path)

Alike(d, e) ==
    /\ \A c \in Code : config.errorPages[c] # <<>> => SameAt(d, e, ErrorText(c))
    /\ loc > 0 => IF req.method = "DELETE" THEN SameTarget(d, e) ELSE SamePage(d, e)

Unaffected == \A d, e \in seen : Alike(d, e)

Uploading == req.method \in Allowed /\ IsUpload

\* A request is answered as the files say, system call by system call, unless
\* what its calls may look at changed while it was served: changes elsewhere make
\* no difference to what handleClientData(), handleSpecialMethods() and
\* buildResponse() put together from several calls.
StableAnswer ==
    Answered /\ Unaffected /\ ~Uploading
        => \A d \in seen : \E answer \in Expected(d) : reply = <<answer>>

Undisturbed == Answered /\ changes = 0

\* What was done to the disk is what was answered: 204 to a DELETE if the file that
\* isPathInsideRoot() found, and nothing else, is gone (server.cpp:480-489); any
\* other answer to anything but an upload, and the disk is untouched.
DoneAsAnswered ==
    Undisturbed /\ ~Uploading
        => \A d \in seen :
               IF reply[1].code = 204
               THEN CanonTarget(d) \in DOMAIN d /\ disk = Without(d, CanonTarget(d))
               ELSE disk = d

\* The path of a location does not lead up.  The parser takes any token for one
\* (configParser.cpp:362-370)
LocationsStay ==
    \A c \in Configs : \A n \in DOMAIN c.locations :
        \A k \in DOMAIN Parts(c.locations[n].path) : Parts(c.locations[n].path)[k] # <<"..">>

\* normalizeRelativePath() leaves no way up: what a DELETE is about to look at,
\* or to remove, is below the location's root, also if it does not exist.
TargetInsideRoot ==
    pc \in {"examine", "writable", "unlink"} => IsPrefix(NormalPath(Root), canon)

\* Only a DELETE that its location allows removes anything, and then a file, never
\* a directory, whatever became of the target since stat() (server.cpp:464-483).
OnlyDeleteRemoves ==
    [][changes' = changes =>
          \A path \in DOMAIN disk \ DOMAIN disk' :
              /\ req.method = "DELETE" /\ loc > 0 /\ "DELETE" \in L.methods
              /\ disk[path].kind # "dir"]_vars

\* The place of a part's file and of contacts.csv, and the directories that the
\* file's name leads through
FileText(k) == UploadDir \o <<"/">> \o req.parts[k].filename
Place(k) == Below(Parts(FileText(k)))
CsvPlace == Below(Parts(UploadDir \o <<"/", "contacts.csv">>))
Through(k) ==
    LET parts == Parts(FileText(k)) IN {Below(SubSeq(parts, 1, n)) : n \in 1..Len(parts) - 1}

\* The files of an upload that can be saved, and that no other is in the way of:
\* the last of each place
Kept(d) ==
    {k \in DOMAIN req.parts :
        /\ Place(k) # CsvPlace /\ CsvPlace \notin Through(k)
        /\ \A j \in DOMAIN req.parts :
               /\ Place(j) = Place(k) => j <= k
               /\ Place(j) \notin Through(k) /\ Place(k) \notin Through(j)
        /\ Place(k) \in DOMAIN d => MayOpen(d, Place(k))
        /\ \A path \in Through(k) \cap DOMAIN d : IsDir(d, path) /\ Access(d, path, "w")}

UploadsTo(d) ==
    Undisturbed /\ Uploading /\ d \in seen
        /\ LET root == Walk(d, UploadRoot) IN IsDir(d, root) /\ Access(d, root, "w")

\* The name of a directory that the loops of server.cpp:389-404 and 219-234 can
\* follow by a slash
Sound(text) == Chars(Head(Names(text))) > 1

\* An upload is on disk when it is answered: every file that no other part is in
\* the way of has the data of its part, whatever directories its name needs, and
\* no other file is touched but contacts.csv (server.cpp:177-247, 385-419).
UploadIsKept ==
    \A d \in seen : UploadsTo(d) /\ req.boundary /\ Sound(UploadRoot) =>
        /\ \A k \in Kept(d) :
               Place(k) \in DOMAIN disk /\ disk[Place(k)].body = <<req.parts[k].data>>
        /\ \A path \in DOMAIN d :
               \/ path \in {Place(k) : k \in DOMAIN req.parts} \cup {CsvPlace}
               \/ path \in DOMAIN disk /\ disk[path] = d[path]

\* A request whose uri some location's path is a prefix of is answered: no
\* exception takes the server down, and every loop ends.  Without such a
\* location the first one stands in, and isCgiRequest() may throw
\* (httpUtils.cpp:107).
MatchedIsAnswered ==
    (pc = "match" /\ \E n \in 1..N : Matches(n)) ~> pc = "idle"
=============================================================================
