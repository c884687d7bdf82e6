----------------------------- MODULE SiteProofs -----------------------------
(***************************************************************************)
(* Theorems about Site: types, the choice of the location, who removes     *)
(* files and where; what the calls made for a request put together, and    *)
(* what was done when it is answered, to the files of an upload too.       *)
(***************************************************************************)
EXTENDS Site, PathsProofs

\* The search for the location: loc is the longest match below i
Searching ==
    pc = "match" =>
        /\ i \in 1..N + 1
        /\ \/ loc = 0 /\ \A m \in 1..i - 1 : ~Matches(m)
           \/ /\ loc \in 1..i - 1 /\ Matches(loc)
              /\ \A m \in 1..i - 1 : Matches(m) =>
                     Len(config.locations[m].path) <= Len(config.locations[loc].path)

\* Past the method check a DELETE is one that its location allows
Deleting ==
    pc \in {"target", "examine", "writable", "unlink"} =>
        req.method = "DELETE" /\ loc > 0 /\ "DELETE" \in L.methods

\* While a part is being saved, there is one
Saving == pc \in {"mkdirFor", "write"} => i \in 1..Len(req.parts)

IInv == TypeOK /\ Searching /\ LongestMatch /\ Deleting /\ Saving

USE SiteAssumption DEF SiteAssumption

LEMMA ConfigType ==
    ASSUME config \in Configs
    PROVE  /\ config.root \in Seq(Token)
           /\ config.indexFiles \in Seq(Text)
           /\ config.errorPages \in [Code -> Text]
           /\ config.locations \in Seq(Location)
           /\ N \in Nat
           /\ \A n \in 1..N : config.locations[n] \in Location
<1>1. config \in Config
  OBVIOUS
<1>2. config.locations \in Seq(Location)
  BY <1>1 DEF Config
<1> QED
  BY <1>1, <1>2 DEF Config, N, Text

LEMMA PathLength ==
    ASSUME config \in Configs, NEW n \in 1..N
    PROVE  Len(config.locations[n].path) \in Nat
<1>1. config.locations[n].path \in Seq(Token)
  BY ConfigType DEF Location, Text
<1> QED
  BY <1>1

-----------------------------------------------------------------------------

LEMMA InitInv == Init => IInv
<1> SUFFICES ASSUME Init PROVE IInv
  OBVIOUS
<1>1. TypeOK
  <2>1. disk \in [DOMAIN disk -> Entry]
    BY DEF Init
  <2>2. loc \in 0..N
    BY ConfigType DEF Init
  <2> QED
    BY <2>1, <2>2 DEF Init, TypeOK, Code
<1> QED
  BY <1>1 DEF Init, IInv, Searching, LongestMatch, Deleting, Saving

LEMMA MatchLocationInv == IInv /\ MatchLocation => Searching'
<1> SUFFICES ASSUME IInv, MatchLocation PROVE Searching'
  OBVIOUS
<1> DEFINE path(n) == config.locations[n].path
<1>1. /\ config \in Configs /\ pc = "match" /\ i \in 1..N /\ i' = i + 1 /\ config' = config
      /\ req' = req /\ N' = N /\ N \in Nat
  BY ConfigType DEF IInv, TypeOK, Searching, MatchLocation, Steady, N
<1>2. \A n \in 1..N : Len(path(n)) \in Nat
  BY <1>1, PathLength
<1>3. \A n : Matches(n)' <=> Matches(n)
  BY <1>1 DEF Matches
<1>4. loc' = IF IsPrefix(path(i), req.uri) /\ Len(path(i)) > MatchLen THEN i ELSE loc
  BY DEF MatchLocation
<1>5. path(i) \in Seq(Token)
  BY <1>1, ConfigType DEF Location, Text
<1>6. Matches(i) <=> IsPrefix(path(i), req.uri) /\ Len(path(i)) > 0
  BY <1>5, EmptySeq DEF Matches
<1>7. CASE loc = 0
  <2> HIDE DEF path
  <2>1. MatchLen = 0 /\ \A m \in 1..i - 1 : ~Matches(m)
    BY <1>1, <1>7 DEF IInv, Searching, MatchLen
  <2>2. loc' = IF Matches(i) THEN i ELSE 0
    BY <1>4, <1>6, <1>7, <2>1
  <2>3. \A m \in 1..i' - 1 : m = i \/ m \in 1..i - 1
    BY <1>1
  <2>4. CASE Matches(i)
    <3>1. \A m \in 1..i' - 1 : Matches(m) => Len(path(m)) <= Len(path(i))
      <4>1. Len(path(i)) <= Len(path(i))
        BY <1>1, <1>2
      <4> QED
        BY <2>1, <2>3, <4>1
    <3> QED
      BY <1>1, <1>3, <2>2, <2>4, <3>1 DEF Searching, path
  <2>5. CASE ~Matches(i)
    BY <1>1, <1>3, <2>1, <2>2, <2>3, <2>5 DEF Searching
  <2> QED
    BY <2>4, <2>5
<1>8. CASE loc # 0
  <2>1. loc \in 1..i - 1 /\ Matches(loc) /\ MatchLen = Len(path(loc))
    BY <1>1, <1>8 DEF IInv, Searching, MatchLen, L
  <2>2. \A m \in 1..i - 1 : Matches(m) => Len(path(m)) <= Len(path(loc))
    BY <1>1, <1>8 DEF IInv, Searching
  <2>3. CASE IsPrefix(path(i), req.uri) /\ Len(path(i)) > MatchLen
    <3>1. loc' = i /\ Matches(i)
      <4> HIDE DEF path
      <4>1. Len(path(i)) \in Nat /\ Len(path(loc)) \in Nat
        <5>1. i \in 1..N /\ loc \in 1..N
          BY <1>1, <2>1
        <5> QED
          BY <1>2, <5>1
      <4>2. Len(path(i)) > Len(path(loc))
        BY <2>1, <2>3
      <4>3. Len(path(i)) > 0
        BY <4>1, <4>2
      <4> QED
        BY <1>4, <1>6, <2>3, <4>3
    <3>2. ASSUME NEW m \in 1..i' - 1, Matches(m) PROVE Len(path(m)) <= Len(path(i))
      <4>1. CASE m = i
        BY <4>1, <1>1, <1>2
      <4>2. CASE m # i
        <5>1. m \in 1..i - 1 /\ m \in 1..N /\ loc \in 1..N
          BY <1>1, <2>1, <4>2
        <5>2. Len(path(m)) <= Len(path(loc)) /\ Len(path(i)) > Len(path(loc))
          BY <2>1, <2>2, <2>3, <3>2, <5>1
        <5> HIDE DEF path
        <5> QED
          BY <1>1, <1>2, <5>1, <5>2
      <4> QED
        BY <4>1, <4>2
    <3> QED
      BY <1>1, <1>3, <3>1, <3>2 DEF Searching
  <2>4. CASE ~(IsPrefix(path(i), req.uri) /\ Len(path(i)) > MatchLen)
    <3>1. loc' = loc
      BY <1>4, <2>4
    <3>2. ASSUME NEW m \in 1..i' - 1, Matches(m) PROVE Len(path(m)) <= Len(path(loc))
      <4>1. CASE m = i
        <5>1. IsPrefix(path(i), req.uri) /\ loc \in 1..N
          BY <1>1, <1>6, <2>1, <3>2, <4>1
        <5>2. ~(Len(path(i)) > Len(path(loc)))
          BY <2>1, <2>4, <5>1
        <5> HIDE DEF path
        <5> QED
          BY <1>1, <1>2, <4>1, <5>1, <5>2
      <4>2. CASE m # i
        BY <1>1, <2>2, <3>2, <4>2
      <4> QED
        BY <4>1, <4>2
    <3> QED
      BY <1>1, <1>3, <2>1, <3>1, <3>2 DEF Searching
  <2> QED
    BY <2>3, <2>4
<1> QED
  BY <1>7, <1>8

LEMMA FallBackInv == IInv /\ FallBack => LongestMatch'
<1> SUFFICES ASSUME IInv, FallBack PROVE LongestMatch'
  OBVIOUS
<1>1. /\ config \in Configs /\ pc = "match" /\ i = N + 1 /\ config' = config
      /\ req' = req /\ N' = N /\ N \in Nat
  BY ConfigType DEF IInv, TypeOK, Searching, FallBack, Steady, N
<1>2. \A n : Matches(n)' <=> Matches(n)
  BY <1>1 DEF Matches
<1>3. loc' = IF loc = 0 /\ N > 0 THEN 1 ELSE loc
  BY DEF FallBack
<1>4. CASE loc = 0
  BY <1>1, <1>2, <1>3, <1>4 DEF IInv, Searching, LongestMatch
<1>5. CASE loc # 0
  BY <1>1, <1>2, <1>3, <1>5 DEF IInv, Searching, LongestMatch, Longest
<1> QED
  BY <1>4, <1>5

-----------------------------------------------------------------------------
(* Types                                                                   *)

LEMMA PutType ==
    ASSUME NEW d, d \in [DOMAIN d -> Entry], NEW path, NEW entry \in Entry
    PROVE  Put(d, path, entry) \in [DOMAIN Put(d, path, entry) -> Entry]
  BY DEF Put

LEMMA WriteType ==
    ASSUME NEW d, d \in [DOMAIN d -> Entry], NEW path, NEW body \in Seq(Piece)
    PROVE  Write(d, path, body) \in [DOMAIN Write(d, path, body) -> Entry]
<1>1. FileOf(body) \in Entry
  BY DEF FileOf, Entry
<1>2. ASSUME path \in DOMAIN d PROVE [d[path] EXCEPT !.body = body] \in Entry
  BY <1>2, ZenonT(30) DEF Entry
<1> QED
  BY <1>1, <1>2, PutType DEF Write

LEMMA StatType ==
    ASSUME NEW d, d \in [DOMAIN d -> Entry], NEW text
    PROVE  Stat(d, text) \in {"none", "dir", "file", "other"}
  BY DEF Stat, Entry

\* The steps that change neither the files nor the location
LEMMA QuietTypes ==
    ASSUME TypeOK, UNCHANGED <<config, disk, req, loc, served, changes>>,
           pc' \in {"idle", "match", "method", "stat", "alt", "exists", "index", "access",
               "read", "list", "error", "root", "target", "examine", "writable", "unlink",
               "uploads", "mkdir", "part", "mkdirFor", "write", "csv", "redirect", "dead"},
           i' \in Nat \ {0}, st' \in {"none", "dir", "file", "other"}, code' \in Code,
           Len(reply') \in 0..2, \A k \in 1..Len(reply') : reply'[k].code \in Code \cup {0}
    PROVE  TypeOK'
<1>1. disk' \in [DOMAIN disk' -> Entry] /\ loc' \in 0..N'
  BY DEF TypeOK, N
<1> QED
  BY <1>1 DEF TypeOK

LEMMA FirstStepsTypes ==
    ASSUME TypeOK, \/ RefuseMethod \/ ThrowOnCgi \/ StartCgi \/ Redirect \/ Resolve
                   \/ StatPage \/ StatWholeUri \/ FileExists \/ FindIndex \/ NoIndex
    PROVE  TypeOK'
<1>1. CASE RefuseMethod
  BY <1>1, QuietTypes, SMTT(30) DEF TypeOK, RefuseMethod, Steady, NoPage, Fail, Code
<1>2. CASE ThrowOnCgi
  BY <1>2, QuietTypes, SMTT(30) DEF TypeOK, ThrowOnCgi, Steady, NoPage, GoOn
<1>3. CASE StartCgi
  BY <1>3, QuietTypes, SMTT(30) DEF TypeOK, StartCgi, Steady, NoPage, Reply, Fail, Handed, Answer, Code
<1>4. CASE Redirect
  BY <1>4, QuietTypes, SMTT(30) DEF TypeOK, Redirect, Steady, NoPage, Reply, Empty, Answer, Code
<1>5. CASE Resolve
  BY <1>5, QuietTypes, SMTT(30) DEF TypeOK, Resolve, Steady, GoOn
<1>6. CASE StatPage
  BY <1>6, QuietTypes, StatType, SMTT(30) DEF TypeOK, StatPage, Steady, GoOn
<1>7. CASE StatWholeUri
  BY <1>7, QuietTypes, StatType, SMTT(30) DEF TypeOK, StatWholeUri, Steady, GoOn
<1>8. CASE FileExists
  BY <1>8, QuietTypes, SMTT(30) DEF TypeOK, FileExists, Steady, NoPage, GoOn, Fail, Code
<1>9. CASE FindIndex
  <2> DEFINE idxPath == filePath \o <<"/">> \o IndexFiles[i]
  <2>0. i \in Nat \ {0}
    BY DEF TypeOK
  <2>1. i' \in Nat \ {0} /\ pc' \in {"index", "read"} /\ code' = code /\ reply' = reply
    <3>1. CASE Stat(disk, idxPath) = "none"
      <4>1. i' = i + 1 /\ GoOn("index")
        BY <1>9, <3>1 DEF FindIndex
      <4> QED
        BY <2>0, <4>1 DEF GoOn
    <3>2. CASE Stat(disk, idxPath) # "none"
      <4>1. i' = i /\ GoOn("read")
        BY <1>9, <3>2 DEF FindIndex
      <4> QED
        BY <2>0, <4>1 DEF GoOn
    <3> QED
      BY <3>1, <3>2
  <2>2. UNCHANGED <<config, disk, req, loc, served, changes, st>>
    BY <1>9 DEF FindIndex, Steady
  <2> QED
    BY <2>1, <2>2, QuietTypes DEF TypeOK
<1>10. CASE NoIndex
  BY <1>10, QuietTypes, SMTT(30) DEF TypeOK, NoIndex, Steady, NoPage, GoOn, Fail, Code
<1> QED
  BY <1>1, <1>2, <1>3, <1>4, <1>5, <1>6, <1>7, <1>8, <1>9, <1>10

LEMMA LaterStepsTypes ==
    ASSUME TypeOK, \/ ListDirectory \/ MayRead \/ ReadFile \/ ReplyError \/ DeleteNothing
                   \/ CanonicalRoot \/ CanonicalTarget \/ ExamineTarget \/ MayWrite
                   \/ MakeUploads \/ NextPart \/ SeeOther
    PROVE  TypeOK'
<1>1. CASE ListDirectory
  <2> DEFINE dir == Walk(disk, filePath)
             names == NamesIn(disk, dir)
  <2>1. PICK answer : reply' = <<answer>> /\ answer.code = 200
    <3>1. reply' = <<Listing(names)>> \/ reply' = <<Page(<<>>)>>
      BY <1>1 DEF ListDirectory, Reply
    <3>2. Listing(names).code = 200 /\ Page(<<>>).code = 200
      BY DEF Listing, Page, Answer
    <3> QED
      BY <3>1, <3>2
  <2>2. pc' = "idle" /\ code' = code
        /\ UNCHANGED <<config, disk, req, loc, i, served, changes, st>>
    BY <1>1 DEF ListDirectory, Reply, Steady, NoPage
  <2> QED
    BY <2>1, <2>2, QuietTypes DEF TypeOK, Code
<1>2. CASE MayRead
  BY <1>2, QuietTypes, SMTT(30) DEF TypeOK, MayRead, Steady, NoPage, GoOn, Fail, Code
<1>3. CASE ReadFile
  BY <1>3, QuietTypes, SMTT(30) DEF TypeOK, ReadFile, Steady, NoPage, Reply, Page, Answer, Fail, Code
<1>4. CASE ReplyError
  BY <1>4, QuietTypes, SMTT(30) DEF TypeOK, ReplyError, Steady, NoPage, Reply, Error, Answer
<1>5. CASE DeleteNothing
  BY <1>5, QuietTypes, SMTT(30) DEF TypeOK, DeleteNothing, Steady, NoPage, Fail, Code
<1>6. CASE CanonicalRoot
  BY <1>6, QuietTypes, SMTT(30) DEF TypeOK, CanonicalRoot, Steady, GoOn, Fail, Code
<1>7. CASE CanonicalTarget
  BY <1>7, QuietTypes, SMTT(30) DEF TypeOK, CanonicalTarget, Steady, NoPage, GoOn, Fail, Code
<1>8. CASE ExamineTarget
  BY <1>8, QuietTypes, SMTT(30) DEF TypeOK, ExamineTarget, Steady, NoPage, GoOn, Fail, Code
<1>9. CASE MayWrite
  BY <1>9, QuietTypes, SMTT(30) DEF TypeOK, MayWrite, Steady, NoPage, GoOn, Fail, Code
<1>10. CASE MakeUploads
  BY <1>10, QuietTypes, SMTT(30) DEF TypeOK, MakeUploads, Steady, NoPage, GoOn
<1>11. CASE NextPart
  BY <1>11, QuietTypes, SMTT(30) DEF TypeOK, NextPart, Steady, GoOn
<1>12. CASE SeeOther
  <2>1. \A k \in 1..Len(reply') : reply'[k].code \in {201, 303}
    BY <1>12 DEF SeeOther, Reply, Empty, Answer
  <2>2. Len(reply') \in 0..2 /\ pc' = "idle" /\ code' = code
    BY <1>12 DEF SeeOther, Reply
  <2> QED
    BY <1>12, <2>1, <2>2, QuietTypes DEF TypeOK, SeeOther, Steady, NoPage, Code
<1> QED
  BY <1>1, <1>2, <1>3, <1>4, <1>5, <1>6, <1>7, <1>8, <1>9, <1>10, <1>11, <1>12

\* The steps that change files, and those that begin and end the search
LEMMA OtherStepsTypes ==
    ASSUME TypeOK, Searching, Saving,
           \/ Unlink \/ MakeDir \/ SaveFile \/ AppendRow \/ MatchLocation \/ FallBack
           \/ (\E r \in Requests : Arrive(r)) \/ (\E c \in Changes : Change(c))
    PROVE  TypeOK'
<1>0. /\ disk \in [DOMAIN disk -> Entry] /\ req \in Request /\ req.parts \in Seq([filename : Text, data : STRING])
      /\ config.locations \in Seq(Location) /\ N \in Nat
  BY ConfigType DEF TypeOK, Request
<1>1. CASE Unlink
  <2>1. disk' \in [DOMAIN disk' -> Entry]
    BY <1>0, <1>1 DEF Unlink, Without
  <2> QED
    BY <1>1, <2>1, SMTT(30) DEF TypeOK, N, Unlink, Steady, NoPage, Reply, Fail, Empty, Answer, Code
<1>2. CASE MakeDir
  <2>1. NewDir \in Entry
    BY EmptySeq DEF NewDir, Entry
  <2>2. disk' \in [DOMAIN disk' -> Entry] /\ i' \in Nat \ {0}
    BY <1>0, <1>2, <2>1, PutType, SMTT(30) DEF TypeOK, MakeDir
  <2>3. pc' \in {"mkdir", "part", "mkdirFor", "write"} /\ code' = code /\ reply' = reply
    BY <1>2 DEF MakeDir, GoOn
  <2> QED
    BY <1>2, <2>2, <2>3 DEF TypeOK, N, MakeDir, Steady, NoPage
<1>3. CASE SaveFile
  <2>1. <<req.parts[i].data>> \in Seq(Piece)
    <3>1. pc = "write" /\ i \in 1..Len(req.parts)
      BY <1>3 DEF Saving, SaveFile
    <3> DEFINE parts == req.parts
    <3>2. parts[i] \in [filename : Text, data : STRING]
      <4>1. parts \in Seq([filename : Text, data : STRING]) /\ i \in 1..Len(parts)
        BY <1>0, <3>1
      <4> HIDE DEF parts
      <4> QED
        BY <4>1, ElementOfSeq
    <3> QED
      BY <3>2 DEF Piece
  <2>2. disk' \in [DOMAIN disk' -> Entry]
    <3> DEFINE data == <<req.parts[i].data>>
    <3>1. PICK path : disk' = IF MayOpen(disk, path) THEN Write(disk, path, data) ELSE disk
      BY <1>3 DEF SaveFile
    <3>2. data \in Seq(Piece)
      BY <2>1
    <3> HIDE DEF data
    <3> QED
      BY <1>0, <3>1, <3>2, WriteType
  <2> QED
    BY <1>3, <2>2 DEF TypeOK, N, SaveFile, Steady, NoPage, GoOn
<1>4. CASE AppendRow
  <2>1. PICK path :
           LET before == IF path \in DOMAIN disk THEN disk[path].body ELSE <<>>
               header == IF before = <<>> THEN <<"header">> ELSE <<>>
           IN disk' = IF MayOpen(disk, path)
                      THEN Write(disk, path, before \o header \o <<"row">>) ELSE disk
    BY <1>4 DEF AppendRow
  <2> DEFINE before == IF path \in DOMAIN disk THEN disk[path].body ELSE <<>>
             header == IF before = <<>> THEN <<"header">> ELSE <<>>
  <2>2. before \in Seq(Piece)
    BY <1>0, EmptySeq DEF Entry
  <2>3. header \in Seq(Piece)
    <3>1. <<"header">> \in Seq(Piece) /\ <<>> \in Seq(Piece)
      BY EmptySeq DEF Piece
    <3> HIDE DEF before
    <3> QED
      BY <3>1
  <2>4. before \o header \o <<"row">> \in Seq(Piece)
    <3> HIDE DEF before, header
    <3>1. <<"row">> \in Seq(Piece)
      BY DEF Piece
    <3> QED
      BY <2>2, <2>3, <3>1, ConcatProperties
  <2>5. disk' \in [DOMAIN disk' -> Entry]
    BY <1>0, <2>1, <2>4, WriteType
  <2> QED
    BY <1>4, <2>5 DEF TypeOK, N, AppendRow, Steady, NoPage, GoOn
<1>5. CASE MatchLocation
  <2>1. loc' \in 0..N' /\ i' \in Nat \ {0}
    BY <1>0, <1>5 DEF TypeOK, MatchLocation, Steady, N
  <2> QED
    BY <1>5, <2>1 DEF TypeOK, MatchLocation, Steady, NoPage, GoOn
<1>6. CASE FallBack
  <2>1. loc' \in 0..N' /\ i' \in Nat \ {0}
    BY <1>0, <1>6 DEF TypeOK, FallBack, Steady, N
  <2> QED
    BY <1>6, <2>1 DEF TypeOK, FallBack, Steady, NoPage, GoOn
<1>7. ASSUME NEW r \in Requests, Arrive(r) PROVE TypeOK'
  BY <1>0, <1>7 DEF TypeOK, Arrive, N, Code
<1>8. ASSUME NEW c \in Changes, Change(c) PROVE TypeOK'
  <2>1. disk' \in [DOMAIN disk' -> Entry]
    BY <1>0, <1>8, PutType DEF Change, Without
  <2> QED
    BY <1>8, <2>1 DEF TypeOK, Change, N
<1> QED
  BY <1>1, <1>2, <1>3, <1>4, <1>5, <1>6, <1>7, <1>8

-----------------------------------------------------------------------------
(* The other conjuncts                                                     *)

\* Once it is chosen, the location stays for the rest of the request
LEMMA LocationStays ==
    ASSUME IInv, Serve, ~MatchLocation, ~FallBack
    PROVE  /\ pc \notin {"idle", "match"} /\ pc' # "match"
           /\ UNCHANGED <<config, req, loc, served, changes>>
<1>2. CASE RefuseMethod \/ ThrowOnCgi \/ StartCgi \/ Redirect \/ Resolve
  BY <1>2 DEF RefuseMethod, ThrowOnCgi, StartCgi, Redirect, Resolve, Dispatched, Steady,
              Fail, Reply, GoOn
<1>3. CASE StatPage \/ StatWholeUri \/ FileExists
  BY <1>3 DEF StatPage, StatWholeUri, FileExists, Steady, Fail, GoOn
<1>4. CASE FindIndex
  BY <1>4 DEF FindIndex, Steady, GoOn
<1>5. CASE NoIndex \/ ListDirectory \/ MayRead \/ ReadFile \/ ReplyError
  BY <1>5 DEF NoIndex, ListDirectory, MayRead, ReadFile, ReplyError, Steady, Fail, Reply, GoOn
<1>6. CASE DeleteNothing \/ CanonicalRoot \/ CanonicalTarget
  BY <1>6 DEF DeleteNothing, CanonicalRoot, CanonicalTarget, Dispatched, Steady, Fail, GoOn
<1>7. CASE ExamineTarget \/ MayWrite \/ Unlink
  BY <1>7 DEF ExamineTarget, MayWrite, Unlink, Steady, Fail, Reply, GoOn
<1>8. CASE MakeUploads \/ NextPart \/ SaveFile \/ AppendRow \/ SeeOther
  BY <1>8 DEF MakeUploads, NextPart, SaveFile, AppendRow, SeeOther, Dispatched, Steady,
              Reply, GoOn
<1>9. CASE MakeDir
  BY <1>9 DEF MakeDir, Steady, GoOn
<1> QED
  BY <1>2, <1>3, <1>4, <1>5, <1>6, <1>7, <1>8, <1>9 DEF Serve

\* A DELETE goes through CanonicalRoot
LEMMA DeletingInv ==
    ASSUME IInv, Serve, ~MatchLocation, ~FallBack
    PROVE  Deleting'
<1> DEFINE Steps == {"target", "examine", "writable", "unlink"}
<1>1. UNCHANGED <<config, req, loc>>
  BY LocationStays
<1>2. CASE pc \in Steps
  BY <1>1, <1>2 DEF IInv, Deleting, L
<1>3. CASE CanonicalRoot
  <2>1. req.method = "DELETE" /\ req.method \in Allowed
    BY <1>3 DEF CanonicalRoot, Dispatched
  <2>2. loc > 0 /\ "DELETE" \in L.methods
    BY <2>1 DEF Allowed, IInv, TypeOK, N
  <2> QED
    BY <1>1, <2>1, <2>2 DEF Deleting, L
<1>4. CASE pc \notin Steps /\ ~CanonicalRoot
  <2> SUFFICES pc' \notin Steps
    BY DEF Deleting
  <2>1. CASE RefuseMethod \/ ThrowOnCgi \/ StartCgi \/ Redirect \/ Resolve
    BY <2>1 DEF RefuseMethod, ThrowOnCgi, StartCgi, Redirect, Resolve, Fail, Reply, GoOn
  <2>2. CASE StatPage \/ StatWholeUri \/ FileExists
    BY <2>2 DEF StatPage, StatWholeUri, FileExists, Fail, GoOn
  <2>3. CASE FindIndex
    BY <2>3 DEF FindIndex, GoOn
  <2>4. CASE NoIndex \/ ListDirectory \/ MayRead \/ ReadFile \/ ReplyError
    BY <2>4 DEF NoIndex, ListDirectory, MayRead, ReadFile, ReplyError, Fail, Reply, GoOn
  <2>5. CASE DeleteNothing \/ CanonicalTarget \/ ExamineTarget \/ MayWrite \/ Unlink
    BY <1>4, <2>5 DEF DeleteNothing, CanonicalTarget, ExamineTarget, MayWrite, Unlink, Fail
  <2>6. CASE MakeUploads \/ NextPart \/ SaveFile \/ AppendRow \/ SeeOther
    BY <2>6 DEF MakeUploads, NextPart, SaveFile, AppendRow, SeeOther, Reply, GoOn
  <2>7. CASE MakeDir
    BY <2>7 DEF MakeDir, GoOn
  <2> QED
    BY <1>4, <2>1, <2>2, <2>3, <2>4, <2>5, <2>6, <2>7 DEF Serve
<1> QED
  BY <1>2, <1>3, <1>4

LEMMA SavingInv ==
    ASSUME IInv, Serve, ~MatchLocation, ~FallBack
    PROVE  Saving'
<1>1. req' = req
  BY LocationStays
<1>2. CASE NextPart
  <2>1. i \in 1..Len(req.parts) /\ i' = i
    BY <1>2 DEF NextPart, IInv, TypeOK, Saving
  <2> QED
    BY <1>1, <2>1 DEF Saving
<1>3. CASE MakeDir
  <2>1. pc' \in {"mkdirFor", "write"} => pc = "mkdirFor" /\ i' = i
    BY <1>3 DEF MakeDir, GoOn
  <2> QED
    BY <1>1, <2>1 DEF IInv, Saving
<1>4. CASE ~NextPart /\ ~MakeDir
  <2> SUFFICES pc' \notin {"mkdirFor", "write"}
    BY DEF Saving
  <2>1. CASE RefuseMethod \/ ThrowOnCgi \/ StartCgi \/ Redirect \/ Resolve
    BY <2>1 DEF RefuseMethod, ThrowOnCgi, StartCgi, Redirect, Resolve, Fail, Reply, GoOn
  <2>2. CASE StatPage \/ StatWholeUri \/ FileExists
    BY <2>2 DEF StatPage, StatWholeUri, FileExists, Fail, GoOn
  <2>3. CASE FindIndex
    BY <2>3 DEF FindIndex, GoOn
  <2>4. CASE NoIndex \/ ListDirectory \/ MayRead \/ ReadFile \/ ReplyError
    BY <2>4 DEF NoIndex, ListDirectory, MayRead, ReadFile, ReplyError, Fail, Reply, GoOn
  <2>5. CASE DeleteNothing \/ CanonicalRoot \/ CanonicalTarget
    BY <2>5 DEF DeleteNothing, CanonicalRoot, CanonicalTarget, Fail, GoOn
  <2>6. CASE ExamineTarget \/ MayWrite \/ Unlink
    BY <2>6 DEF ExamineTarget, MayWrite, Unlink, Fail, Reply, GoOn
  <2>7. CASE MakeUploads \/ SaveFile \/ AppendRow \/ SeeOther
    BY <2>7 DEF MakeUploads, SaveFile, AppendRow, SeeOther, Reply, GoOn
  <2> QED
    BY <1>4, <2>1, <2>2, <2>3, <2>4, <2>5, <2>6, <2>7 DEF Serve
<1> QED
  BY <1>2, <1>3, <1>4

LEMMA NextTypes == IInv /\ Next => TypeOK'
  BY FirstStepsTypes, LaterStepsTypes, OtherStepsTypes DEF IInv, Next, Serve

LEMMA NextInv == IInv /\ [Next]_vars => IInv'
<1> SUFFICES ASSUME IInv, [Next]_vars PROVE IInv'
  OBVIOUS
<1>1. CASE MatchLocation
  <2>1. TypeOK' /\ Searching'
    BY <1>1, MatchLocationInv, NextTypes DEF Next, Serve
  <2>2. pc' = "match"
    BY <1>1 DEF MatchLocation, GoOn
  <2> QED
    BY <2>1, <2>2 DEF IInv, LongestMatch, Deleting, Saving
<1>2. CASE FallBack
  <2>1. TypeOK' /\ LongestMatch'
    BY <1>2, FallBackInv, NextTypes DEF Next, Serve
  <2>2. pc' = "method"
    BY <1>2 DEF FallBack, GoOn
  <2> QED
    BY <2>1, <2>2 DEF IInv, Searching, Deleting, Saving
<1>3. CASE Serve /\ ~MatchLocation /\ ~FallBack
  <2>1. TypeOK' /\ Deleting' /\ Saving'
    BY <1>3, NextTypes, DeletingInv, SavingInv DEF Next
  <2>2. pc \notin {"idle", "match"} /\ pc' # "match" /\ UNCHANGED <<config, req, loc>>
    BY <1>3, LocationStays
  <2>3. LongestMatch'
    BY <2>2 DEF IInv, LongestMatch, Longest, Matches, N
  <2> QED
    BY <2>1, <2>2, <2>3 DEF IInv, Searching
<1>4. ASSUME NEW r \in Requests, Arrive(r) PROVE IInv'
  <2>1. TypeOK'
    BY <1>4, NextTypes DEF Next
  <2>2. pc' = "match" /\ loc' = 0 /\ i' = 1 /\ config' = config
    BY <1>4 DEF Arrive
  <2>3. N' \in Nat
    BY <2>2, ConfigType DEF IInv, TypeOK, N
  <2>4. Searching'
    BY <2>2, <2>3 DEF Searching
  <2> QED
    BY <2>1, <2>2, <2>4 DEF IInv, LongestMatch, Deleting, Saving
<1>5. ASSUME NEW c \in Changes, Change(c) PROVE IInv'
  <2>1. TypeOK'
    BY <1>5, NextTypes DEF Next
  <2>2. UNCHANGED <<config, pc, req, loc, i>>
    BY <1>5 DEF Change
  <2> QED
    BY <2>1, <2>2 DEF IInv, Searching, LongestMatch, Longest, Matches, Deleting, Saving, L, N
<1>6. CASE UNCHANGED vars
  BY <1>6 DEF vars, IInv, TypeOK, Searching, LongestMatch, Longest, Matches, Deleting, Saving,
              L, N
<1> QED
  BY <1>1, <1>2, <1>3, <1>4, <1>5, <1>6 DEF Next

LEMMA Invariant == Spec => []IInv
  BY InitInv, NextInv, PTL DEF Spec

-----------------------------------------------------------------------------

\* Every variable but the texts and paths under construction stays in its set,
\* whatever the blocks, the files, the requests and the changes elsewhere:
\* handleClientData() to buildResponse(), with all their early returns.
THEOREM TypeCorrect == Spec => []TypeOK
  BY Invariant, PTL DEF IInv

\* The location a request is served by has the longest path that the uri starts
\* with, however many locations there are and in whatever order
\* (server.cpp:543-555).
THEOREM LocationIsLongest == Spec => []LongestMatch
  BY Invariant, PTL DEF IInv

\* One step: the writes of uploads only add to the disk
LEMMA RemovalStep == IInv /\ [Next]_vars =>
    [changes' = changes =>
          \A path \in DOMAIN disk \ DOMAIN disk' :
              /\ req.method = "DELETE" /\ loc > 0 /\ "DELETE" \in L.methods
              /\ disk[path].kind # "dir"]_vars
<1> SUFFICES ASSUME IInv, Next, changes' = changes, NEW path \in DOMAIN disk \ DOMAIN disk'
             PROVE  /\ req.method = "DELETE" /\ loc > 0 /\ "DELETE" \in L.methods
                    /\ disk[path].kind # "dir"
  BY DEF vars
<1>0. disk' # disk
  OBVIOUS
<1>1. CASE Unlink
  <2>1. pc = "unlink" /\ disk' = Without(disk, canon) /\ canon \in DOMAIN disk /\ ~IsDir(disk, canon)
    BY <1>0, <1>1 DEF Unlink
  <2>2. path = canon
    BY <2>1 DEF Without
  <2> QED
    BY <2>1, <2>2 DEF IInv, Deleting, IsDir
<1>2. ASSUME NEW p, NEW e, disk' = Put(disk, p, e) PROVE FALSE
  BY <1>2 DEF Put
<1>3. CASE MakeDir
  BY <1>0, <1>2, <1>3 DEF MakeDir
<1>4. CASE SaveFile \/ AppendRow
  BY <1>0, <1>2, <1>4 DEF SaveFile, AppendRow, Write
<1>5. CASE RefuseMethod \/ ThrowOnCgi \/ StartCgi \/ Redirect \/ Resolve \/ MatchLocation \/ FallBack
  BY <1>0, <1>5 DEF RefuseMethod, ThrowOnCgi, StartCgi, Redirect, Resolve, MatchLocation, FallBack
<1>6. CASE StatPage \/ StatWholeUri \/ FileExists \/ FindIndex \/ NoIndex \/ ListDirectory
  BY <1>0, <1>6 DEF StatPage, StatWholeUri, FileExists, FindIndex, NoIndex, ListDirectory
<1>7. CASE MayRead \/ ReadFile \/ ReplyError \/ DeleteNothing \/ CanonicalRoot
  BY <1>0, <1>7 DEF MayRead, ReadFile, ReplyError, DeleteNothing, CanonicalRoot
<1>8. CASE CanonicalTarget \/ ExamineTarget \/ MayWrite \/ MakeUploads \/ NextPart \/ SeeOther
  BY <1>0, <1>8 DEF CanonicalTarget, ExamineTarget, MayWrite, MakeUploads, NextPart, SeeOther
<1>9. CASE \E r \in Requests : Arrive(r)
  BY <1>0, <1>9 DEF Arrive
<1>10. ASSUME NEW c \in Changes, Change(c) PROVE FALSE
  <2>1. changes' = changes + 1 /\ changes \in Nat
    BY <1>10 DEF Change, IInv, TypeOK
  <2> QED
    BY <2>1
<1> QED
  BY <1>1, <1>3, <1>4, <1>5, <1>6, <1>7, <1>8, <1>9, <1>10 DEF Next, Serve

\* The server removes nothing but the file a DELETE names (server.cpp:464-489):
\* no interleaving with other processes makes it remove a directory, or a file
\* for another method.
THEOREM RemovalsAreDeletes == Spec => OnlyDeleteRemoves
  BY Invariant, RemovalStep, PTL DEF Spec, OnlyDeleteRemoves

-----------------------------------------------------------------------------
(* The answers: what the calls made for a request put together             *)
HIDE SiteAssumption DEF SiteAssumption

\* The steps of a page and those of a DELETE
PageSteps == {"stat", "alt", "exists", "index", "list", "access", "read"}
DeleteSteps == {"target", "examine", "writable", "unlink"}

\* How far a page is when the files are d, if nothing it looks at changes
Found(d) == Stat(d, PageText(d))
Passed(d) == \A k \in 1..i - 1 : Stat(d, IndexText(PageText(d), k)) = "none"

PageProgress(d) ==
    /\ req.method \in Allowed /\ IsPage /\ ~L.redirect
    /\ pc = "stat" => filePath = PageTexts[1]
    /\ pc \in {"stat", "alt", "exists"} => i = 1
    /\ pc \in {"index", "list"} => i <= Len(IndexFiles) + 1
    /\ pc = "alt" => filePath = PageTexts[1] /\ Stat(d, PageTexts[1]) = "none"
    /\ pc = "exists" =>
           /\ st = Found(d)
           /\ filePath = IF Found(d) = "none" THEN PageTexts[1] ELSE PageText(d)
    /\ pc = "index" => Found(d) = "dir" /\ filePath = PageText(d) /\ Passed(d)
    /\ pc = "list" =>
           /\ Found(d) = "dir" /\ filePath = PageText(d) /\ Passed(d)
           /\ i > Len(IndexFiles) /\ L.autoindex
    /\ pc = "access" => Found(d) = "file" /\ filePath = PageText(d)
    /\ pc = "read" =>
           \/ Found(d) = "file" /\ filePath = PageText(d) /\ Access(d, Walk(d, filePath), "r")
           \/ /\ Found(d) = "dir" /\ Passed(d) /\ i \in DOMAIN IndexFiles
              /\ filePath = IndexText(PageText(d), i) /\ Stat(d, filePath) # "none"

DeleteProgress(d) ==
    /\ req.method \in Allowed /\ req.method = "DELETE"
    /\ Rest # <<>> /\ Stat(d, Root) # "none"
    /\ pc = "target" => filePath = TargetText /\ canon = Walk(d, Root)
    /\ pc # "target" =>
           /\ canon = CanonTarget(d)
           /\ IsPrefix(TextOf(Walk(d, Root)), TextOf(canon))
    /\ pc \in {"writable", "unlink"} => canon \in DOMAIN d /\ ~IsDir(d, canon)
    /\ pc = "unlink" => Access(d, canon, "w")

Progress(d) ==
    /\ pc = "method" => i = 1
    /\ pc \in PageSteps => PageProgress(d)
    /\ pc \in DeleteSteps => DeleteProgress(d)
    /\ pc = "error" => \E c \in Code : c = code /\ Error(d, c) \in Expected(d)
    /\ pc = "idle" => \E answer \in Expected(d) : reply = <<answer>>

\* The files are among those seen, until a DELETE is done
SeenNow ==
    /\ seen # {}
    /\ pc \in {"match", "method"} \/ (pc # "idle" /\ ~Uploading) => disk \in seen

\* Only an upload takes the steps of one
UploadSteps == {"mkdir", "part", "mkdirFor", "write", "redirect"}
OnlyUploads == pc \in UploadSteps => Uploading

Progressing == served > 0 /\ Unaffected /\ ~Uploading => \A d \in seen : Progress(d)

SInv == IInv /\ SeenNow /\ OnlyUploads /\ Progressing

-----------------------------------------------------------------------------
(* Operators that depend on the request, its location and the server block *)

LEMMA Frame ==
    ASSUME UNCHANGED <<config, req, loc>>
    PROVE  /\ (Uploading' <=> Uploading) /\ (IsPage' <=> IsPage) /\ Allowed' = Allowed /\ L' = L
           /\ Root' = Root /\ Rest' = Rest /\ IndexFiles' = IndexFiles
           /\ PageTexts' = PageTexts /\ TargetText' = TargetText
           /\ \A text, k : IndexText(text, k)' = IndexText(text, k)
           /\ \A d : PageText(d)' = PageText(d) /\ CanonTarget(d)' = CanonTarget(d)
           /\ \A d : Expected(d)' = Expected(d)
           /\ \A d, c : Error(d, c)' = Error(d, c)
           /\ \A d, e : Alike(d, e)' <=> Alike(d, e)
<1>1. L' = L /\ Allowed' = Allowed
  BY DEF L, Allowed
<1>2. Root' = Root /\ Rest' = Rest /\ IndexFiles' = IndexFiles
  BY <1>1 DEF Root, Rest, IndexFiles
<1>3. (IsUpload' <=> IsUpload) /\ (IsCgi' <=> IsCgi)
  BY <1>1 DEF IsUpload, IsCgi
<1>4. (Uploading' <=> Uploading) /\ (IsPage' <=> IsPage)
  BY <1>1, <1>3 DEF IsPage, Uploading
<1>5. RelativePath' = RelativePath
  BY <1>1, <1>2 DEF RelativePath
<1>6. PageTexts' = PageTexts
  BY <1>2, <1>5 DEF PageTexts
<1>7. TargetText' = TargetText
  BY <1>1, <1>2 DEF TargetText
<1>8. \A text, k : IndexText(text, k)' = IndexText(text, k)
  BY <1>2 DEF IndexText
<1>9. \A d : PageText(d)' = PageText(d)
  BY <1>6 DEF PageText
<1>10. \A d : CanonTarget(d)' = CanonTarget(d)
  BY <1>2, <1>7 DEF CanonTarget
<1>11. \A c : ErrorText(c)' = ErrorText(c)
  BY DEF ErrorText
<1>12. \A d, c : Error(d, c)' = Error(d, c)
  BY <1>11 DEF Error
<1>13. \A d : Indexes(d)' = Indexes(d)
  BY <1>2, <1>8, <1>9 DEF Indexes
<1>14. \A d : ExpectedPage(d)' = ExpectedPage(d)
  BY <1>1, <1>8, <1>9, <1>12, <1>13 DEF ExpectedPage
<1>15. \A d : ExpectedDelete(d)' = ExpectedDelete(d)
  BY <1>2, <1>10, <1>12 DEF ExpectedDelete
<1>16. \A d : Expected(d)' = Expected(d)
  BY <1>1, <1>3, <1>12, <1>14, <1>15 DEF Expected
<1>17. \A d, e : SamePage(d, e)' <=> SamePage(d, e)
  BY <1>2, <1>6, <1>8 DEF SamePage
<1>18. \A d, e : SameTarget(d, e)' <=> SameTarget(d, e)
  BY <1>2, <1>10 DEF SameTarget
<1>19. \A d, e : Alike(d, e)' <=> Alike(d, e)
  BY <1>11, <1>17, <1>18 DEF Alike
<1> QED
  BY <1>1, <1>2, <1>4, <1>6, <1>7, <1>8, <1>9, <1>10, <1>12, <1>16, <1>19

LEMMA IndexFilesType == ASSUME TypeOK, loc > 0 PROVE Len(IndexFiles) \in Nat /\ DOMAIN IndexFiles = 1..Len(IndexFiles)
<1>1. L \in Location /\ config.indexFiles \in Seq(Text)
  BY ConfigType DEF TypeOK, L, N
<1>2. IndexFiles \in Seq(Text)
  BY <1>1, ConcatProperties DEF IndexFiles, Location
<1> QED
  BY <1>2, LenProperties

\* A method that is allowed is one of a location
LEMMA AllowedLocation == ASSUME TypeOK, req.method \in Allowed PROVE loc > 0 /\ req.method \in Method
<1>1. loc > 0
  BY DEF TypeOK, Allowed, N
<1>2. L.methods \in SUBSET Method
  <2>1. config \in Configs /\ loc \in 1..N
    BY <1>1, ConfigType DEF TypeOK
  <2>2. L \in Location
    BY <2>1, ConfigType DEF L
  <2> QED
    BY <2>2 DEF Location
<1> QED
  BY <1>1, <1>2 DEF Allowed

-----------------------------------------------------------------------------
(* Files that are alike give the same answers                              *)

LEMMA SameAtFacts ==
    ASSUME NEW d, NEW e, NEW text, SameAt(d, e, text)
    PROVE  /\ Walk(e, text) = Walk(d, text) /\ Stat(e, text) = Stat(d, text)
           /\ \A right : Access(e, Walk(d, text), right) <=> Access(d, Walk(d, text), right)
           /\ IsDir(e, Walk(d, text)) <=> IsDir(d, Walk(d, text))
           /\ Walk(d, text) \in DOMAIN d => Walk(d, text) \in DOMAIN e /\ e[Walk(d, text)] = d[Walk(d, text)]
  BY DEF SameAt, SameFile, Stat, Access, IsDir

\* A text that is found leads to a path that exists, and a readable one is found
LEMMA StatAccess ==
    ASSUME NEW d, NEW text
    PROVE  /\ Access(d, Walk(d, text), "r") => Walk(d, text) \in DOMAIN d
           /\ Stat(d, text) = "dir" => IsDir(d, Walk(d, text))
           /\ Stat(d, text) = "none" \/ Walk(d, text) \in DOMAIN d
  BY DEF Stat, Access, IsDir

LEMMA ErrorSame ==
    ASSUME NEW d, NEW e, Alike(d, e), NEW c \in Code
    PROVE  Error(d, c) = Error(e, c)
<1>1. CASE config.errorPages[c] # <<>>
  <2>1. SameAt(d, e, ErrorText(c))
    BY <1>1 DEF Alike
  <2> QED
    BY <2>1, SameAtFacts, StatAccess DEF Error
<1>2. CASE config.errorPages[c] = <<>>
  BY <1>2 DEF Error
<1> QED
  BY <1>1, <1>2

LEMMA PageSame ==
    ASSUME NEW d, NEW e, Alike(d, e), loc > 0, req.method # "DELETE"
    PROVE  /\ PageText(e) = PageText(d) /\ Found(e) = Found(d)
           /\ \A n \in 1..2 : SameAt(d, e, PageTexts[n])
           /\ SameAt(d, e, PageText(d))
           /\ NamesIn(d, Walk(d, PageText(d))) = NamesIn(e, Walk(d, PageText(d)))
           /\ \A k \in DOMAIN IndexFiles : SameAt(d, e, IndexText(PageText(d), k))
           /\ Indexes(e) = Indexes(d)
<1>1. SamePage(d, e)
  BY DEF Alike
<1>2. \A n \in 1..2 : SameAt(d, e, PageTexts[n])
  BY <1>1 DEF SamePage
<1>3. Stat(e, PageTexts[1]) = Stat(d, PageTexts[1])
  BY <1>2, SameAtFacts
<1>4. PageText(e) = PageText(d)
  BY <1>3 DEF PageText
<1>5. \E n \in 1..2 : PageText(d) = PageTexts[n]
  BY DEF PageText
<1>6. SameAt(d, e, PageText(d))
  BY <1>2, <1>5
<1>7. /\ NamesIn(d, Walk(d, PageText(d))) = NamesIn(e, Walk(d, PageText(d)))
      /\ \A k \in DOMAIN IndexFiles : SameAt(d, e, IndexText(PageText(d), k))
  BY <1>1, <1>5 DEF SamePage
<1>8. \A k \in DOMAIN IndexFiles :
          Stat(e, IndexText(PageText(d), k)) = Stat(d, IndexText(PageText(d), k))
  BY <1>7, SameAtFacts
<1>9. Indexes(e) = Indexes(d)
  BY <1>4, <1>8 DEF Indexes
<1>10. Found(e) = Found(d)
  BY <1>4, <1>6, SameAtFacts DEF Found
<1> QED
  BY <1>2, <1>4, <1>6, <1>7, <1>9, <1>10

LEMMA IndexesType ==
    ASSUME TypeOK, loc > 0, NEW d
    PROVE  Indexes(d) \subseteq Nat /\ Indexes(d) \subseteq DOMAIN IndexFiles
  BY IndexFilesType DEF Indexes

LEMMA ExpectedPageSame ==
    ASSUME NEW d, NEW e, TypeOK, Alike(d, e), loc > 0, req.method # "DELETE"
    PROVE  ExpectedPage(d) = ExpectedPage(e)
<1> DEFINE text == PageText(d)
           indexText == IndexText(text, Min(Indexes(d)))
           index == Walk(d, indexText)
           path == Walk(d, text)
<1>1. PageText(e) = text /\ Indexes(e) = Indexes(d)
  BY PageSame
<1>2. SameAt(d, e, text) /\ NamesIn(d, path) = NamesIn(e, path)
  BY PageSame
<1>3. /\ Walk(e, text) = path /\ Stat(e, text) = Stat(d, text)
      /\ Access(e, path, "r") <=> Access(d, path, "r")
      /\ Access(d, path, "r") => e[path] = d[path]
  BY <1>2, SameAtFacts, StatAccess
<1>4. Error(d, 403) = Error(e, 403) /\ Error(d, 404) = Error(e, 404) /\ Error(d, 500) = Error(e, 500)
  BY ErrorSame DEF Code
<1>5. ASSUME Indexes(d) # {}
      PROVE  /\ Walk(e, indexText) = index
             /\ Access(e, index, "r") <=> Access(d, index, "r")
             /\ Access(d, index, "r") => e[index] = d[index]
  <2>1. Min(Indexes(d)) \in DOMAIN IndexFiles
    BY <1>5, IndexesType, MinIn
  <2>2. SameAt(d, e, indexText)
    BY <2>1, PageSame
  <2> QED
    BY <2>2, SameAtFacts, StatAccess
<1> HIDE DEF text, indexText, index, path
<1>6. ExpectedPage(d) = CASE Stat(d, text) = "none" -> Error(d, 404)
         [] Stat(d, text) = "other" -> Error(d, 500)
         [] Stat(d, text) = "file" -> IF Access(d, path, "r") THEN Page(d[path].body) ELSE Error(d, 403)
         [] Stat(d, text) = "dir" /\ Indexes(d) # {} ->
                IF Access(d, index, "r") THEN Page(d[index].body) ELSE Error(d, 404)
         [] OTHER -> IF ~L.autoindex THEN Error(d, 403)
                     ELSE IF Access(d, path, "r") THEN Listing(NamesIn(d, path)) ELSE Page(<<>>)
  BY DEF ExpectedPage, text, indexText, index, path
<1>7. ExpectedPage(e) = CASE Stat(e, text) = "none" -> Error(e, 404)
         [] Stat(e, text) = "other" -> Error(e, 500)
         [] Stat(e, text) = "file" -> IF Access(e, path, "r") THEN Page(e[path].body) ELSE Error(e, 403)
         [] Stat(e, text) = "dir" /\ Indexes(d) # {} ->
                IF Access(e, Walk(e, indexText), "r") THEN Page(e[Walk(e, indexText)].body) ELSE Error(e, 404)
         [] OTHER -> IF ~L.autoindex THEN Error(e, 403)
                     ELSE IF Access(e, path, "r") THEN Listing(NamesIn(e, path)) ELSE Page(<<>>)
  BY <1>1, <1>3 DEF ExpectedPage, indexText
<1>8. CASE Indexes(d) = {}
  BY <1>2, <1>3, <1>4, <1>6, <1>7, <1>8
<1>9. CASE Indexes(d) # {}
  BY <1>2, <1>3, <1>4, <1>5, <1>6, <1>7, <1>9
<1> QED
  BY <1>8, <1>9

LEMMA TargetSame ==
    ASSUME NEW d, NEW e, Alike(d, e), loc > 0, req.method = "DELETE"
    PROVE  /\ Walk(e, Root) = Walk(d, Root) /\ Stat(e, Root) = Stat(d, Root)
           /\ CanonTarget(e) = CanonTarget(d)
           /\ CanonTarget(d) \in DOMAIN e <=> CanonTarget(d) \in DOMAIN d
           /\ IsDir(e, CanonTarget(d)) <=> IsDir(d, CanonTarget(d))
           /\ \A right : Access(e, CanonTarget(d), right) <=> Access(d, CanonTarget(d), right)
           /\ MayChange(e, CanonTarget(d)) <=> MayChange(d, CanonTarget(d))
<1>1. SameTarget(d, e)
  BY DEF Alike
<1> DEFINE path == CanonTarget(d)
<1>2. /\ Walk(e, Root) = Walk(d, Root) /\ Stat(e, Root) = Stat(d, Root)
      /\ CanonTarget(e) = path /\ SameFile(d, e, path)
      /\ MayChange(e, path) = MayChange(d, path)
  BY <1>1 DEF SameTarget
<1> HIDE DEF path
<1>3. /\ path \in DOMAIN e <=> path \in DOMAIN d
      /\ IsDir(e, path) <=> IsDir(d, path)
      /\ \A right : Access(e, path, right) <=> Access(d, path, right)
  BY <1>2 DEF SameFile, IsDir, Access
<1> QED
  BY <1>2, <1>3 DEF path

LEMMA ExpectedDeleteSame ==
    ASSUME NEW d, NEW e, Alike(d, e), loc > 0, req.method = "DELETE"
    PROVE  ExpectedDelete(d) = ExpectedDelete(e)
<1> DEFINE path == CanonTarget(d)
<1>1. /\ Walk(e, Root) = Walk(d, Root) /\ Stat(e, Root) = Stat(d, Root)
      /\ CanonTarget(e) = path
      /\ path \in DOMAIN e <=> path \in DOMAIN d
      /\ IsDir(e, path) <=> IsDir(d, path)
      /\ Access(e, path, "w") <=> Access(d, path, "w")
      /\ MayChange(e, path) <=> MayChange(d, path)
  BY TargetSame
<1>2. Error(d, 403) = Error(e, 403) /\ Error(d, 404) = Error(e, 404) /\ Error(d, 500) = Error(e, 500)
  BY ErrorSame DEF Code
<1>3. path = CanonTarget(d)
  OBVIOUS
<1> HIDE DEF path
<1> QED
  BY <1>1, <1>2, <1>3 DEF ExpectedDelete

\* What the answer to a request is expected to be, case by case
LEMMA ExpectedCases ==
    ASSUME TypeOK, NEW d
    PROVE  /\ req.method \notin Method => Expected(d) = {Error(d, 400)}
           /\ req.method \in Method \ Allowed => Expected(d) = {Error(d, 405)}
           /\ req.method \in Allowed /\ req.method = "DELETE" => Expected(d) = {ExpectedDelete(d)}
           /\ req.method \in Allowed /\ IsCgi => Expected(d) = {Handed, Error(d, 500)}
           /\ req.method \in Allowed /\ IsPage =>
                  Expected(d) = {IF L.redirect THEN Empty(303) ELSE ExpectedPage(d)}
<1>1. req.method \in Allowed => req.method \in Method
  BY AllowedLocation
<1>2. CASE req.method \notin Allowed
  BY <1>2 DEF Expected
<1>3. CASE req.method \in Allowed /\ req.method = "DELETE"
  <2>1. ~IsCgi /\ ~IsPage
    BY <1>3 DEF IsCgi, IsPage
  <2> QED
    BY <1>1, <1>3, <2>1 DEF Expected
<1>4. CASE req.method \in Allowed /\ req.method # "DELETE" /\ IsCgi
  <2>1. ~IsPage
    BY <1>4 DEF IsPage
  <2> QED
    BY <1>1, <1>4, <2>1 DEF Expected
<1>5. CASE req.method \in Allowed /\ req.method # "DELETE" /\ ~IsCgi
  BY <1>1, <1>5 DEF Expected
<1> QED
  BY <1>2, <1>3, <1>4, <1>5

LEMMA ExpectedSame ==
    ASSUME NEW d, NEW e, TypeOK, Alike(d, e), ~Uploading
    PROVE  Expected(d) = Expected(e)
<1>1. Error(d, 400) = Error(e, 400) /\ Error(d, 405) = Error(e, 405) /\ Error(d, 500) = Error(e, 500)
  BY ErrorSame DEF Code
<1>2. CASE req.method \notin Allowed
  <2>1. req.method \notin Method \/ req.method \in Method \ Allowed
    BY <1>2
  <2> QED
    BY <1>1, <2>1, ExpectedCases
<1>3. CASE req.method \in Allowed /\ req.method = "DELETE"
  <2>1. ExpectedDelete(d) = ExpectedDelete(e)
    BY <1>3, AllowedLocation, ExpectedDeleteSame
  <2> QED
    BY <1>3, <2>1, ExpectedCases
<1>4. CASE req.method \in Allowed /\ req.method # "DELETE" /\ IsCgi
  BY <1>1, <1>4, ExpectedCases
<1>5. CASE req.method \in Allowed /\ req.method # "DELETE" /\ ~IsCgi
  <2>1. ExpectedPage(d) = ExpectedPage(e)
    BY <1>5, AllowedLocation, ExpectedPageSame
  <2>2. IsPage
    BY <1>5 DEF IsPage, Uploading
  <2> QED
    BY <1>5, <2>1, <2>2, ExpectedCases
<1> QED
  BY <1>2, <1>3, <1>4, <1>5

\* Where a request stands does not depend on the other of two files alike
LEMMA ProgressSame ==
    ASSUME NEW d, NEW e, TypeOK, Alike(d, e), ~Uploading, Progress(d)
    PROVE  Progress(e)
<1>1. Expected(e) = Expected(d)
  BY ExpectedSame
<1>2. pc = "error" => \E c \in Code : c = code /\ Error(e, c) \in Expected(e)
  <2>1. \A c \in Code : Error(d, c) = Error(e, c)
    BY ErrorSame
  <2> QED
    BY <1>1, <2>1 DEF Progress
<1>3. ASSUME pc \in PageSteps PROVE PageProgress(e)
  <2>1. PageProgress(d) /\ loc > 0 /\ req.method # "DELETE" /\ i \in Nat
    BY <1>3, AllowedLocation DEF Progress, PageProgress, IsPage, TypeOK
  <2>2. /\ PageText(e) = PageText(d) /\ Found(e) = Found(d)
        /\ Stat(e, PageTexts[1]) = Stat(d, PageTexts[1])
    BY <2>1, PageSame, SameAtFacts
  <2>3. \A k \in DOMAIN IndexFiles :
            Stat(e, IndexText(PageText(d), k)) = Stat(d, IndexText(PageText(d), k))
    BY <2>1, PageSame, SameAtFacts
  <2>4. Walk(e, PageText(d)) = Walk(d, PageText(d))
        /\ (Access(e, Walk(d, PageText(d)), "r") <=> Access(d, Walk(d, PageText(d)), "r"))
    BY <2>1, PageSame, SameAtFacts
  <2>5. ASSUME i <= Len(IndexFiles) + 1 PROVE Passed(e) <=> Passed(d)
    <3>1. \A k \in 1..i - 1 : k \in DOMAIN IndexFiles
      BY <2>1, <2>5, IndexFilesType
    <3> QED
      BY <2>2, <2>3, <3>1 DEF Passed
  <2>6. CASE pc \in {"stat", "alt", "exists", "access"}
    BY <2>1, <2>2, <2>6 DEF PageProgress
  <2>7. CASE pc \in {"index", "list"}
    BY <2>1, <2>2, <2>5, <2>7 DEF PageProgress
  <2>8. CASE pc = "read"
    <3>1. CASE Found(d) = "file" /\ filePath = PageText(d) /\ Access(d, Walk(d, filePath), "r")
      BY <2>1, <2>2, <2>4, <2>8, <3>1 DEF PageProgress
    <3>2. CASE /\ Found(d) = "dir" /\ Passed(d) /\ i \in DOMAIN IndexFiles
               /\ filePath = IndexText(PageText(d), i) /\ Stat(d, filePath) # "none"
      <4>1. i <= Len(IndexFiles) + 1
        BY <2>1, <3>2, IndexFilesType
      <4> QED
        BY <2>1, <2>2, <2>3, <2>5, <2>8, <3>2, <4>1 DEF PageProgress
    <3> QED
      BY <2>1, <2>8, <3>1, <3>2 DEF PageProgress
  <2> QED
    BY <1>3, <2>6, <2>7, <2>8 DEF PageSteps
<1>4. ASSUME pc \in DeleteSteps PROVE DeleteProgress(e)
  <2>1. DeleteProgress(d) /\ loc > 0 /\ req.method = "DELETE"
    BY <1>4, AllowedLocation DEF Progress, DeleteProgress
  <2> QED
    BY <2>1, TargetSame DEF DeleteProgress
<1> QED
  BY <1>1, <1>2, <1>3, <1>4 DEF Progress

LEMMA ProgressFrame ==
    ASSUME UNCHANGED <<config, pc, req, loc, i, filePath, st, canon, code, reply>>, NEW d
    PROVE  Progress(d)' <=> Progress(d)
<1>1. /\ (IsPage' <=> IsPage) /\ Allowed' = Allowed /\ L' = L
      /\ Root' = Root /\ Rest' = Rest /\ IndexFiles' = IndexFiles
      /\ PageTexts' = PageTexts /\ TargetText' = TargetText
      /\ PageText(d)' = PageText(d) /\ CanonTarget(d)' = CanonTarget(d)
      /\ Expected(d)' = Expected(d) /\ \A c : Error(d, c)' = Error(d, c)
  BY Frame
<1>2. Found(d)' = Found(d) /\ (Passed(d)' <=> Passed(d))
  BY <1>1 DEF Found, Passed, IndexText
<1>3. PageProgress(d)' <=> PageProgress(d)
  BY <1>1, <1>2 DEF PageProgress, IndexText
<1>4. DeleteProgress(d)' <=> DeleteProgress(d)
  BY <1>1 DEF DeleteProgress
<1> QED
  BY <1>1, <1>3, <1>4 DEF Progress

-----------------------------------------------------------------------------
(* Every step of the server goes on with the answer that is expected       *)

\* The three ways to go on: an error, an answer, one more call for the page or
\* for the DELETE
LEMMA Failing ==
    ASSUME UNCHANGED <<config, req, loc>>, NEW d, NEW c \in Code, Error(d, c) \in Expected(d),
           Fail(c)
    PROVE  Progress(d)'
<1>1. Error(d, c)' = Error(d, c) /\ Expected(d)' = Expected(d)
  BY Frame
<1>2. pc' = "error" /\ code' = c
  BY DEF Fail
<1> QED
  BY <1>1, <1>2 DEF Progress, PageSteps, DeleteSteps

LEMMA Answering ==
    ASSUME UNCHANGED <<config, req, loc>>, NEW d, NEW answer \in Expected(d), Reply(<<answer>>)
    PROVE  Progress(d)'
<1>1. Expected(d)' = Expected(d)
  BY Frame
<1>2. pc' = "idle" /\ reply' = <<answer>>
  BY DEF Reply
<1> QED
  BY <1>1, <1>2 DEF Progress, PageSteps, DeleteSteps

LEMMA Paging ==
    ASSUME NEW d, pc' \in PageSteps, PageProgress(d)'
    PROVE  Progress(d)'
  BY DEF Progress, PageSteps, DeleteSteps

LEMMA Removing ==
    ASSUME NEW d, pc' \in DeleteSteps, DeleteProgress(d)'
    PROVE  Progress(d)'
  BY DEF Progress, PageSteps, DeleteSteps

LEMMA MethodProgress ==
    ASSUME TypeOK, NEW d, d = disk, ~Uploading, Progress(d),
           \/ RefuseMethod \/ ThrowOnCgi \/ StartCgi \/ Redirect \/ Resolve
           \/ DeleteNothing \/ CanonicalRoot \/ MakeUploads
    PROVE  Progress(d)'
<1>1. CASE RefuseMethod
  <2>1. UNCHANGED <<config, req, loc>>
    BY <1>1 DEF RefuseMethod, Steady
  <2>2. CASE req.method \notin Method /\ Fail(400)
    BY <2>1, <2>2, ExpectedCases, Failing DEF Code
  <2>3. CASE req.method \in Method \ Allowed /\ Fail(405)
    BY <2>1, <2>3, ExpectedCases, Failing DEF Code
  <2> QED
    BY <1>1, <2>2, <2>3 DEF RefuseMethod
<1>2. CASE ThrowOnCgi
  BY <1>2 DEF ThrowOnCgi, GoOn, Progress, PageSteps, DeleteSteps
<1>3. CASE StartCgi
  <2>1. UNCHANGED <<config, req, loc>> /\ Expected(d) = {Handed, Error(d, 500)}
    BY <1>3, ExpectedCases DEF StartCgi, Steady, Dispatched
  <2>2. CASE Reply(<<Handed>>)
    BY <2>1, <2>2, Answering
  <2>3. CASE Fail(500)
    BY <2>1, <2>3, Failing DEF Code
  <2> QED
    BY <1>3, <2>2, <2>3 DEF StartCgi
<1>4. CASE Redirect
  <2>1. UNCHANGED <<config, req, loc>> /\ Expected(d) = {Empty(303)} /\ Reply(<<Empty(303)>>)
    BY <1>4, ExpectedCases DEF Redirect, Steady, Dispatched
  <2> QED
    BY <2>1, Answering
<1>5. CASE Resolve
  <2>1. /\ UNCHANGED <<config, req, loc>> /\ pc' = "stat" /\ i' = i /\ i = 1
        /\ filePath' = PageTexts[1] /\ req.method \in Allowed /\ IsPage /\ ~L.redirect
    BY <1>5 DEF Resolve, Steady, Dispatched, GoOn, Progress, PageTexts
  <2>2. PageTexts' = PageTexts /\ Allowed' = Allowed /\ (IsPage' <=> IsPage) /\ L' = L
    BY <2>1, Frame
  <2>3. PageProgress(d)'
    BY <2>1, <2>2 DEF PageProgress
  <2> QED
    BY <2>1, <2>3, Paging DEF PageSteps
<1>6. CASE DeleteNothing
  <2>1. UNCHANGED <<config, req, loc>> /\ Fail(403) /\ Expected(d) = {ExpectedDelete(d)}
    BY <1>6, ExpectedCases DEF DeleteNothing, Steady, Dispatched
  <2>2. ExpectedDelete(d) = Error(d, 403)
    BY <1>6 DEF DeleteNothing, ExpectedDelete
  <2> QED
    BY <2>1, <2>2, Failing DEF Code
<1>7. CASE CanonicalRoot
  <2>1. /\ UNCHANGED <<config, req, loc>> /\ Expected(d) = {ExpectedDelete(d)}
        /\ req.method \in Allowed /\ req.method = "DELETE" /\ Rest # <<>>
    BY <1>7, ExpectedCases DEF CanonicalRoot, Steady, Dispatched
  <2>2. CASE Stat(d, Root) = "none"
    <3>1. Fail(403) /\ ExpectedDelete(d) = Error(d, 403)
      BY <1>7, <2>2 DEF CanonicalRoot, ExpectedDelete
    <3> QED
      BY <2>1, <3>1, Failing DEF Code
  <2>3. CASE Stat(d, Root) # "none"
    <3>1. filePath' = TargetText /\ canon' = Walk(d, Root) /\ pc' = "target"
      BY <1>7, <2>3 DEF CanonicalRoot, GoOn
    <3>2. Root' = Root /\ Rest' = Rest /\ TargetText' = TargetText /\ Allowed' = Allowed
      BY <2>1, Frame
    <3>3. DeleteProgress(d)'
      BY <2>1, <2>3, <3>1, <3>2 DEF DeleteProgress
    <3> QED
      BY <3>1, <3>3, Removing DEF DeleteSteps
  <2> QED
    BY <2>2, <2>3
<1>8. CASE MakeUploads
  BY <1>8 DEF MakeUploads, Dispatched, Uploading
<1> QED
  BY <1>1, <1>2, <1>3, <1>4, <1>5, <1>6, <1>7, <1>8

\* What the answer to a request for a page is expected to be, case by case
LEMMA PageCases ==
    ASSUME NEW d, d \in [DOMAIN d -> Entry]
    PROVE  /\ Found(d) = "none" => ExpectedPage(d) = Error(d, 404)
           /\ Found(d) = "other" => ExpectedPage(d) = Error(d, 500)
           /\ Found(d) = "file" =>
                  ExpectedPage(d) = IF Access(d, Walk(d, PageText(d)), "r")
                                    THEN Page(d[Walk(d, PageText(d))].body) ELSE Error(d, 403)
           /\ Found(d) = "dir" /\ Indexes(d) = {} =>
                  ExpectedPage(d) =
                      IF ~L.autoindex THEN Error(d, 403)
                      ELSE IF Access(d, Walk(d, PageText(d)), "r")
                           THEN Listing(NamesIn(d, Walk(d, PageText(d)))) ELSE Page(<<>>)
           /\ \A index : Found(d) = "dir" /\ Indexes(d) # {}
                         /\ index = Walk(d, IndexText(PageText(d), Min(Indexes(d)))) =>
                  ExpectedPage(d) = IF Access(d, index, "r")
                                    THEN Page(d[index].body) ELSE Error(d, 404)
<1>1. CASE Found(d) = "none"
  BY <1>1 DEF Found, ExpectedPage
<1>2. CASE Found(d) = "other"
  BY <1>2 DEF Found, ExpectedPage
<1>3. CASE Found(d) = "file"
  BY <1>3 DEF Found, ExpectedPage
<1>4. CASE Found(d) = "dir" /\ Indexes(d) = {}
  BY <1>4 DEF Found, ExpectedPage
<1>5. CASE Found(d) = "dir" /\ Indexes(d) # {}
  BY <1>5 DEF Found, ExpectedPage
<1>6. Found(d) \in {"none", "other", "file", "dir"}
  BY StatType DEF Found
<1> QED
  BY <1>1, <1>2, <1>3, <1>4, <1>5, <1>6

\* A page being looked for
LEMMA PageStays ==
    ASSUME UNCHANGED <<config, req, loc>>, NEW d, PageProgress(d)
    PROVE  /\ Found(d)' = Found(d) /\ PageText(d)' = PageText(d) /\ PageTexts' = PageTexts
           /\ IndexFiles' = IndexFiles /\ L' = L
           /\ \A text, k : IndexText(text, k)' = IndexText(text, k)
           /\ (req.method \in Allowed /\ IsPage /\ ~L.redirect)'
<1>1. PageText(d)' = PageText(d) /\ PageTexts' = PageTexts /\ Allowed' = Allowed
      /\ (IsPage' <=> IsPage) /\ L' = L /\ IndexFiles' = IndexFiles
      /\ \A text, k : IndexText(text, k)' = IndexText(text, k)
  BY Frame
<1>2. Found(d)' = Found(d)
  BY <1>1 DEF Found
<1> QED
  BY <1>1, <1>2 DEF PageProgress

LEMMA StatProgress ==
    ASSUME TypeOK, NEW d, d = disk, ~Uploading, Progress(d), StatPage \/ StatWholeUri
    PROVE  Progress(d)'
<1>1. pc \in PageSteps /\ UNCHANGED <<config, req, loc, i>> /\ PageProgress(d) /\ i = 1
  BY DEF StatPage, StatWholeUri, Steady, Progress, PageProgress, PageSteps
<1>2. /\ Found(d)' = Found(d) /\ PageText(d)' = PageText(d) /\ PageTexts' = PageTexts
      /\ (req.method \in Allowed /\ IsPage /\ ~L.redirect)'
  BY <1>1, PageStays
<1>3. CASE StatPage
  <2>1. filePath = PageTexts[1] /\ filePath' = filePath /\ st' = Stat(d, PageTexts[1])
        /\ pc' = IF st' = "none" THEN "alt" ELSE "exists"
    BY <1>1, <1>3 DEF StatPage, GoOn, PageProgress
  <2>2. CASE st' = "none"
    <3>1. PageProgress(d)'
      BY <1>1, <1>2, <2>1, <2>2 DEF PageProgress
    <3> QED
      BY <2>1, <2>2, <3>1, Paging DEF PageSteps
  <2>3. CASE st' # "none"
    <3>1. PageText(d) = PageTexts[1] /\ Found(d) = st'
      BY <2>1, <2>3 DEF PageText, Found
    <3>2. PageProgress(d)'
      BY <1>1, <1>2, <2>1, <2>3, <3>1 DEF PageProgress
    <3> QED
      BY <2>1, <2>3, <3>2, Paging DEF PageSteps
  <2> QED
    BY <2>2, <2>3
<1>4. CASE StatWholeUri
  <2>1. /\ filePath = PageTexts[1] /\ Stat(d, PageTexts[1]) = "none" /\ pc' = "exists"
        /\ st' = Stat(d, PageTexts[2])
        /\ filePath' = IF st' = "none" THEN filePath ELSE PageTexts[2]
    BY <1>1, <1>4 DEF StatWholeUri, GoOn, PageProgress, PageTexts
  <2>2. PageText(d) = PageTexts[2] /\ Found(d) = st'
    BY <2>1 DEF PageText, Found
  <2>3. PageProgress(d)'
    BY <1>1, <1>2, <2>1, <2>2 DEF PageProgress
  <2> QED
    BY <2>1, <2>3, Paging DEF PageSteps
<1> QED
  BY <1>3, <1>4

LEMMA ExistsProgress ==
    ASSUME TypeOK, NEW d, d = disk, ~Uploading, Progress(d), FileExists
    PROVE  Progress(d)'
<1>1. /\ pc = "exists" /\ UNCHANGED <<config, req, loc, i, filePath, st>> /\ PageProgress(d)
      /\ i = 1 /\ st = Found(d)
      /\ filePath = IF Found(d) = "none" THEN PageTexts[1] ELSE PageText(d)
  BY DEF FileExists, Steady, NoPage, Progress, PageProgress, PageSteps
<1>2. /\ Found(d)' = Found(d) /\ PageText(d)' = PageText(d) /\ PageTexts' = PageTexts
      /\ IndexFiles' = IndexFiles
      /\ (req.method \in Allowed /\ IsPage /\ ~L.redirect)'
  BY <1>1, PageStays
<1>3. Expected(d) = {ExpectedPage(d)} /\ d \in [DOMAIN d -> Entry]
  BY <1>1, ExpectedCases DEF PageProgress, TypeOK
<1>4. Stat(d, filePath) = Found(d)
  BY <1>1 DEF Found, PageText
<1>5. CASE Found(d) = "none"
  <2>1. Fail(404)
    BY <1>4, <1>5 DEF FileExists
  <2>2. ExpectedPage(d) = Error(d, 404)
    BY <1>3, <1>5, PageCases
  <2>3. Error(d, 404) \in Expected(d)
    BY <1>3, <2>2
  <2> QED
    BY <1>1, <2>1, <2>3, Failing DEF Code
<1>6. CASE Found(d) # "none"
  <2>1. \/ st = "dir" /\ GoOn("index")
        \/ st = "file" /\ GoOn("access")
        \/ st = "other" /\ Fail(500)
    <3>1. Stat(disk, filePath) # "none" /\ st # "none"
      BY <1>1, <1>4, <1>6
    <3> QED
      BY <3>1, Zenon DEF FileExists
  <2>2. CASE st = "dir" /\ GoOn("index")
    <3>1. pc' = "index" /\ filePath' = PageText(d)
      BY <1>1, <1>6, <2>2 DEF GoOn
    <3>2. Passed(d)' /\ i' <= Len(IndexFiles') + 1
      <4>1. Len(IndexFiles) \in Nat
        BY <1>1, AllowedLocation, IndexFilesType DEF PageProgress
      <4> QED
        BY <1>1, <1>2, <4>1 DEF Passed
    <3>3. PageProgress(d)'
      BY <1>1, <1>2, <2>2, <3>1, <3>2 DEF PageProgress
    <3> QED
      BY <3>1, <3>3, Paging DEF PageSteps
  <2>3. CASE st = "file" /\ GoOn("access")
    <3>1. pc' = "access" /\ filePath' = PageText(d)
      BY <1>1, <1>6, <2>3 DEF GoOn
    <3>2. PageProgress(d)'
      BY <1>1, <1>2, <2>3, <3>1 DEF PageProgress
    <3> QED
      BY <3>1, <3>2, Paging DEF PageSteps
  <2>4. CASE st = "other" /\ Fail(500)
    <3>0. Found(d) = "other"
      BY <1>1, <2>4
    <3>1. ExpectedPage(d) = Error(d, 500)
      BY <1>3, <3>0, PageCases
    <3>2. Error(d, 500) \in Expected(d)
      BY <1>3, <3>1
    <3> QED
      BY <1>1, <2>4, <3>2, Failing DEF Code
  <2> QED
    BY <2>1, <2>2, <2>3, <2>4
<1> QED
  BY <1>5, <1>6

LEMMA IndexProgress ==
    ASSUME TypeOK, NEW d, d = disk, ~Uploading, Progress(d), FindIndex
    PROVE  Progress(d)'
<1>1. /\ pc = "index" /\ UNCHANGED <<config, req, loc>> /\ PageProgress(d)
      /\ i \in Nat \ {0} /\ i <= Len(IndexFiles)
      /\ Found(d) = "dir" /\ filePath = PageText(d) /\ Passed(d)
  BY DEF FindIndex, Steady, Progress, PageProgress, PageSteps, TypeOK
<1>2. /\ Found(d)' = Found(d) /\ PageText(d)' = PageText(d) /\ PageTexts' = PageTexts
      /\ IndexFiles' = IndexFiles
      /\ (req.method \in Allowed /\ IsPage /\ ~L.redirect)'
  BY <1>1, PageStays
<1>3. Len(IndexFiles) \in Nat /\ DOMAIN IndexFiles = 1..Len(IndexFiles)
  BY <1>1, AllowedLocation, IndexFilesType DEF PageProgress
<1> DEFINE idxPath == IndexText(PageText(d), i)
<1>4. CASE Stat(d, idxPath) = "none"
  <2>1. i' = i + 1 /\ pc' = "index" /\ filePath' = PageText(d)'
    BY <1>1, <1>2, <1>4 DEF FindIndex, IndexText, GoOn
  <2>2. i' <= Len(IndexFiles') + 1
    BY <1>1, <1>2, <1>3, <2>1
  <2>3. Passed(d)'
    <3>1. \A k \in 1..i' - 1 : k = i \/ k \in 1..i - 1
      BY <1>1, <2>1
    <3> QED
      BY <1>1, <1>2, <1>4, <3>1 DEF Passed, IndexText
  <2>4. PageProgress(d)'
    BY <1>1, <1>2, <2>1, <2>2, <2>3 DEF PageProgress
  <2> QED
    BY <2>1, <2>4, Paging DEF PageSteps
<1>5. CASE Stat(d, idxPath) # "none"
  <2>1. i' = i /\ pc' = "read" /\ filePath' = idxPath
    BY <1>1, <1>5 DEF FindIndex, IndexText, GoOn
  <2>2. Passed(d)' /\ i' \in DOMAIN IndexFiles'
    BY <1>1, <1>2, <1>3, <2>1 DEF Passed, IndexText
  <2>3. filePath' = IndexText(PageText(d), i)' /\ Stat(d, filePath)' # "none"
    BY <1>2, <1>5, <2>1 DEF IndexText
  <2>4. PageProgress(d)'
    BY <1>1, <1>2, <2>1, <2>2, <2>3 DEF PageProgress
  <2> QED
    BY <2>1, <2>4, Paging DEF PageSteps
<1> QED
  BY <1>4, <1>5

LEMMA NoIndexProgress ==
    ASSUME TypeOK, NEW d, d = disk, ~Uploading, Progress(d), NoIndex
    PROVE  Progress(d)'
<1>1. /\ pc = "index" /\ UNCHANGED <<config, req, loc, i, filePath>> /\ PageProgress(d)
      /\ i \in Nat \ {0} /\ i > Len(IndexFiles) /\ i <= Len(IndexFiles) + 1
      /\ Found(d) = "dir" /\ filePath = PageText(d) /\ Passed(d)
  BY DEF NoIndex, Steady, NoPage, Progress, PageProgress, PageSteps, TypeOK
<1>2. /\ Found(d)' = Found(d) /\ PageText(d)' = PageText(d) /\ PageTexts' = PageTexts
      /\ IndexFiles' = IndexFiles /\ L' = L
      /\ (req.method \in Allowed /\ IsPage /\ ~L.redirect)'
  BY <1>1, PageStays
<1>3. Len(IndexFiles) \in Nat /\ DOMAIN IndexFiles = 1..Len(IndexFiles)
  BY <1>1, AllowedLocation, IndexFilesType DEF PageProgress
<1>4. CASE L.autoindex
  <2>1. pc' = "list"
    BY <1>4, <1>1 DEF NoIndex, GoOn
  <2>2. Passed(d)'
    BY <1>1, <1>2 DEF Passed, IndexText
  <2>3. PageProgress(d)'
    BY <1>1, <1>2, <1>4, <2>1, <2>2 DEF PageProgress
  <2> QED
    BY <2>1, <2>3, Paging DEF PageSteps
<1>5. CASE ~L.autoindex
  <2>1. Fail(403)
    BY <1>1, <1>5 DEF NoIndex
  <2>2. Indexes(d) = {}
    <3>1. \A k \in DOMAIN IndexFiles : k \in 1..i - 1
      BY <1>1, <1>3
    <3> QED
      BY <1>1, <3>1 DEF Passed, Indexes
  <2>3. Expected(d) = {ExpectedPage(d)} /\ d \in [DOMAIN d -> Entry]
    BY <1>1, ExpectedCases DEF PageProgress, TypeOK
  <2>4. ExpectedPage(d) = Error(d, 403)
    BY <1>1, <1>5, <2>2, <2>3, PageCases
  <2>5. Error(d, 403) \in Expected(d)
    BY <2>3, <2>4
  <2> QED
    BY <1>1, <2>1, <2>5, Failing DEF Code
<1> QED
  BY <1>4, <1>5

LEMMA ListProgress ==
    ASSUME TypeOK, NEW d, d = disk, ~Uploading, Progress(d), ListDirectory
    PROVE  Progress(d)'
<1> DEFINE dir == Walk(d, PageText(d))
           answer == IF Access(d, dir, "r") THEN Listing(NamesIn(d, dir)) ELSE Page(<<>>)
<1>1. /\ pc = "list" /\ UNCHANGED <<config, req, loc>> /\ PageProgress(d)
      /\ i \in Nat \ {0} /\ i > Len(IndexFiles) /\ L.autoindex
      /\ Found(d) = "dir" /\ filePath = PageText(d) /\ Passed(d)
  BY DEF ListDirectory, Steady, Progress, PageProgress, PageSteps, TypeOK
<1>2. Len(IndexFiles) \in Nat /\ DOMAIN IndexFiles = 1..Len(IndexFiles)
  BY <1>1, AllowedLocation, IndexFilesType DEF PageProgress
<1>3. Indexes(d) = {}
  <2>1. \A k \in DOMAIN IndexFiles : k \in 1..i - 1
    BY <1>1, <1>2
  <2> QED
    BY <1>1, <2>1 DEF Passed, Indexes
<1>4. Expected(d) = {ExpectedPage(d)} /\ d \in [DOMAIN d -> Entry]
  BY <1>1, ExpectedCases DEF PageProgress, TypeOK
<1>5. ExpectedPage(d) = answer
  BY <1>1, <1>3, <1>4, PageCases
<1>6. Reply(<<answer>>)
  <2>1. IsDir(d, dir)
    BY <1>1, StatAccess DEF Found
  <2> QED
    BY <1>1, <2>1 DEF ListDirectory
<1> HIDE DEF answer
<1>7. answer \in Expected(d)
  BY <1>4, <1>5
<1> QED
  BY <1>1, <1>6, <1>7, Answering

LEMMA ReadProgress ==
    ASSUME TypeOK, NEW d, d = disk, ~Uploading, Progress(d), MayRead \/ ReadFile
    PROVE  Progress(d)'
<1>1. pc \in PageSteps /\ UNCHANGED <<config, req, loc, i, filePath>> /\ PageProgress(d)
  BY DEF MayRead, ReadFile, Steady, NoPage, Progress, PageSteps
<1>2. Expected(d) = {ExpectedPage(d)} /\ d \in [DOMAIN d -> Entry]
  BY <1>1, ExpectedCases DEF PageProgress, TypeOK
<1> DEFINE path == Walk(d, PageText(d))
<1>3. CASE MayRead
  <2>1. Found(d) = "file" /\ filePath = PageText(d)
    BY <1>1, <1>3 DEF MayRead, PageProgress
  <2>2. CASE Access(d, path, "r")
    <3>1. pc' = "read" /\ filePath' = filePath
      BY <1>1, <1>3, <2>1, <2>2 DEF MayRead, GoOn
    <3>2. /\ Found(d)' = Found(d) /\ PageText(d)' = PageText(d) /\ PageTexts' = PageTexts
          /\ (req.method \in Allowed /\ IsPage /\ ~L.redirect)'
      BY <1>1, PageStays
    <3>3. PageProgress(d)'
      BY <2>1, <2>2, <3>1, <3>2 DEF PageProgress
    <3> QED
      BY <3>1, <3>3, Paging DEF PageSteps
  <2>3. CASE ~Access(d, path, "r")
    <3>1. Fail(403)
      BY <1>3, <2>1, <2>3 DEF MayRead
    <3>2. ExpectedPage(d) = Error(d, 403)
      BY <1>2, <2>1, <2>3, PageCases
    <3>3. Error(d, 403) \in Expected(d)
      BY <1>2, <3>2
    <3> QED
      BY <1>1, <3>1, <3>3, Failing DEF Code
  <2> QED
    BY <2>2, <2>3
<1>4. ASSUME ReadFile, Found(d) = "file", filePath = PageText(d), Access(d, path, "r")
      PROVE  Progress(d)'
  <2>1. Reply(<<Page(d[path].body)>>)
    BY <1>4 DEF ReadFile
  <2>2. ExpectedPage(d) = Page(d[path].body)
    BY <1>2, <1>4, PageCases
  <2>3. Page(d[path].body) \in Expected(d)
    BY <1>2, <2>2
  <2> QED
    BY <1>1, <2>1, <2>3, Answering
<1>5. ASSUME ReadFile, Found(d) = "dir", Passed(d), i \in DOMAIN IndexFiles,
             filePath = IndexText(PageText(d), i), Stat(d, filePath) # "none"
      PROVE  Progress(d)'
  <2> DEFINE index == Walk(d, filePath)
  <2>1. loc > 0 /\ i \in Nat \ {0}
    BY <1>1, AllowedLocation DEF PageProgress, TypeOK
  <2>2. i \in Indexes(d) /\ Indexes(d) \subseteq Nat
    BY <1>5, <2>1, IndexesType DEF Indexes
  <2>3. \A k \in Indexes(d) : i <= k
    <3>1. ASSUME NEW k \in Indexes(d) PROVE k \notin 1..i - 1
      BY <1>5 DEF Passed, Indexes
    <3>2. ASSUME NEW k \in Indexes(d) PROVE k \in Nat \ {0}
      <4>1. DOMAIN IndexFiles = 1..Len(IndexFiles) /\ Len(IndexFiles) \in Nat
        BY <2>1, IndexFilesType
      <4> QED
        BY <4>1 DEF Indexes
    <3> QED
      BY <2>1, <3>1, <3>2
  <2>4. Min(Indexes(d)) = i
    <3>1. Min(Indexes(d)) \in Indexes(d) /\ \A k \in Indexes(d) : Min(Indexes(d)) <= k
      BY <2>2, <2>3 DEF Min
    <3> QED
      BY <2>2, <2>3, <3>1
  <2>5. ExpectedPage(d) = IF Access(d, index, "r") THEN Page(d[index].body) ELSE Error(d, 404)
    BY <1>2, <1>5, <2>2, <2>4, PageCases
  <2>6. CASE Access(d, index, "r")
    <3>1. Reply(<<Page(d[index].body)>>)
      BY <1>5, <2>6 DEF ReadFile
    <3>2. Page(d[index].body) \in Expected(d)
      BY <1>2, <2>5, <2>6
    <3> QED
      BY <1>1, <3>1, <3>2, Answering
  <2>7. CASE ~Access(d, index, "r")
    <3>1. Fail(404)
      BY <1>5, <2>7 DEF ReadFile
    <3>2. Error(d, 404) \in Expected(d)
      BY <1>2, <2>5, <2>7
    <3> QED
      BY <1>1, <3>1, <3>2, Failing DEF Code
  <2> QED
    BY <2>6, <2>7
<1>6. ReadFile => \/ Found(d) = "file" /\ filePath = PageText(d) /\ Access(d, path, "r")
                  \/ /\ Found(d) = "dir" /\ Passed(d) /\ i \in DOMAIN IndexFiles
                     /\ filePath = IndexText(PageText(d), i) /\ Stat(d, filePath) # "none"
  BY <1>1 DEF ReadFile, PageProgress
<1> QED
  BY <1>3, <1>4, <1>5, <1>6

LEMMA ErrorProgress ==
    ASSUME TypeOK, NEW d, d = disk, Progress(d), ReplyError
    PROVE  Progress(d)'
<1>1. UNCHANGED <<config, req, loc>> /\ pc = "error"
  BY DEF ReplyError, Steady
<1>2. PICK c \in Code : c = code /\ Error(d, c) \in Expected(d)
  BY <1>1 DEF Progress
<1>3. Reply(<<Error(d, c)>>)
  BY <1>2 DEF ReplyError
<1> QED
  BY <1>1, <1>2, <1>3, Answering

\* A target being looked at
LEMMA DeleteStays ==
    ASSUME TypeOK, UNCHANGED <<config, req, loc>>, NEW d, DeleteProgress(d)
    PROVE  /\ Expected(d) = {ExpectedDelete(d)}
           /\ CanonTarget(d)' = CanonTarget(d) /\ Root' = Root
           /\ (req.method \in Allowed /\ req.method = "DELETE" /\ Rest # <<>>)'
           /\ (Stat(d, Root) # "none")'
<1>1. CanonTarget(d)' = CanonTarget(d) /\ Root' = Root /\ Rest' = Rest /\ Allowed' = Allowed
  BY Frame
<1> QED
  BY <1>1, ExpectedCases DEF DeleteProgress

LEMMA TargetProgress ==
    ASSUME TypeOK, NEW d, d = disk, Progress(d), CanonicalTarget
    PROVE  Progress(d)'
<1>1. /\ pc = "target" /\ UNCHANGED <<config, req, loc>> /\ DeleteProgress(d)
      /\ filePath = TargetText /\ canon = Walk(d, Root)
  BY DEF CanonicalTarget, Steady, Progress, DeleteProgress, DeleteSteps
<1>2. /\ Expected(d) = {ExpectedDelete(d)}
      /\ CanonTarget(d)' = CanonTarget(d) /\ Root' = Root
      /\ (req.method \in Allowed /\ req.method = "DELETE" /\ Rest # <<>>)'
      /\ (Stat(d, Root) # "none")'
  BY <1>1, DeleteStays
<1>3. /\ canon' = CanonTarget(d)
      /\ IF IsPrefix(TextOf(Walk(d, Root)), TextOf(CanonTarget(d))) THEN GoOn("examine") ELSE Fail(403)
  BY <1>1 DEF CanonicalTarget, CanonTarget
<1>4. CASE IsPrefix(TextOf(Walk(d, Root)), TextOf(CanonTarget(d)))
  <2>1. pc' = "examine"
    BY <1>3, <1>4 DEF GoOn
  <2>2. DeleteProgress(d)'
    BY <1>2, <1>3, <1>4, <2>1 DEF DeleteProgress
  <2> QED
    BY <2>1, <2>2, Removing DEF DeleteSteps
<1>5. CASE ~IsPrefix(TextOf(Walk(d, Root)), TextOf(CanonTarget(d)))
  <2>1. Fail(403) /\ ExpectedDelete(d) = Error(d, 403)
    BY <1>3, <1>5 DEF ExpectedDelete
  <2>2. Error(d, 403) \in Expected(d)
    BY <1>2, <2>1
  <2> QED
    BY <1>1, <2>1, <2>2, Failing DEF Code
<1> QED
  BY <1>4, <1>5

\* What the answer to a DELETE within the root is expected to be, case by case
LEMMA DeleteCases ==
    ASSUME NEW d, DeleteProgress(d), pc # "target", NEW path, path = canon
    PROVE  /\ path = CanonTarget(d)
           /\ path \notin DOMAIN d => ExpectedDelete(d) = Error(d, 404)
           /\ path \in DOMAIN d /\ IsDir(d, path) => ExpectedDelete(d) = Error(d, 403)
           /\ path \in DOMAIN d /\ ~IsDir(d, path) =>
                  ExpectedDelete(d) = IF ~Access(d, path, "w") THEN Error(d, 403)
                                      ELSE IF MayChange(d, path) THEN Empty(204) ELSE Error(d, 500)
<1>1. /\ path = CanonTarget(d) /\ Rest # <<>> /\ Stat(d, Root) # "none"
      /\ IsPrefix(TextOf(Walk(d, Root)), TextOf(path))
  BY DEF DeleteProgress
<1>2. IsDir(d, path) => path \in DOMAIN d
  BY DEF IsDir
<1> QED
  BY <1>1, <1>2 DEF ExpectedDelete

LEMMA DeleteStepProgress ==
    ASSUME TypeOK, NEW d, d = disk, Progress(d), ExamineTarget \/ MayWrite \/ Unlink
    PROVE  Progress(d)'
<1>1. /\ pc \in {"examine", "writable", "unlink"} /\ UNCHANGED <<config, req, loc, canon>>
      /\ DeleteProgress(d)
  BY DEF ExamineTarget, MayWrite, Unlink, Steady, NoDelete, Progress, DeleteSteps
<1>2. /\ Expected(d) = {ExpectedDelete(d)}
      /\ CanonTarget(d)' = CanonTarget(d) /\ Root' = Root
      /\ (req.method \in Allowed /\ req.method = "DELETE" /\ Rest # <<>>)'
      /\ (Stat(d, Root) # "none")'
  BY <1>1, DeleteStays
<1>3. PICK path : path = canon
  OBVIOUS
<1>4. /\ path = CanonTarget(d)
      /\ path \notin DOMAIN d => ExpectedDelete(d) = Error(d, 404)
      /\ path \in DOMAIN d /\ IsDir(d, path) => ExpectedDelete(d) = Error(d, 403)
      /\ path \in DOMAIN d /\ ~IsDir(d, path) =>
             ExpectedDelete(d) = IF ~Access(d, path, "w") THEN Error(d, 403)
                                 ELSE IF MayChange(d, path) THEN Empty(204) ELSE Error(d, 500)
  BY <1>1, <1>3, DeleteCases
<1>5. \A c \in Code : Fail(c) /\ ExpectedDelete(d) = Error(d, c) => Progress(d)'
  BY <1>1, <1>2, Failing
<1>6. ASSUME pc' \in {"writable", "unlink"}, path \in DOMAIN d, ~IsDir(d, path),
             pc' = "unlink" => Access(d, path, "w")
      PROVE  Progress(d)'
  <2>1. canon' = path /\ IsPrefix(TextOf(Walk(d, Root)), TextOf(path))
    BY <1>1, <1>3 DEF DeleteProgress
  <2>2. DeleteProgress(d)'
    BY <1>2, <1>4, <1>6, <2>1 DEF DeleteProgress
  <2> QED
    BY <1>6, <2>2, Removing DEF DeleteSteps
<1>7. CASE ExamineTarget
  <2>1. CASE path \notin DOMAIN d
    <3>1. Fail(404)
      BY <1>3, <1>7, <2>1 DEF ExamineTarget, IsDir
    <3> QED
      BY <1>4, <1>5, <2>1, <3>1 DEF Code
  <2>2. CASE path \in DOMAIN d /\ IsDir(d, path)
    <3>1. Fail(403)
      BY <1>3, <1>7, <2>2 DEF ExamineTarget
    <3> QED
      BY <1>4, <1>5, <2>2, <3>1 DEF Code
  <2>3. CASE path \in DOMAIN d /\ ~IsDir(d, path)
    <3>1. pc' = "writable"
      BY <1>3, <1>7, <2>3 DEF ExamineTarget, GoOn
    <3> QED
      BY <1>6, <2>3, <3>1
  <2> QED
    BY <2>1, <2>2, <2>3
<1>8. CASE MayWrite
  <2>1. path \in DOMAIN d /\ ~IsDir(d, path)
    BY <1>1, <1>3, <1>8 DEF MayWrite, DeleteProgress
  <2>2. CASE Access(d, path, "w")
    <3>1. pc' = "unlink"
      BY <1>3, <1>8, <2>2 DEF MayWrite, GoOn
    <3> QED
      BY <1>6, <2>1, <2>2, <3>1
  <2>3. CASE ~Access(d, path, "w")
    <3>1. Fail(403)
      BY <1>3, <1>8, <2>3 DEF MayWrite
    <3> QED
      BY <1>4, <1>5, <2>1, <2>3, <3>1 DEF Code
  <2> QED
    BY <2>2, <2>3
<1>9. CASE Unlink
  <2>1. path \in DOMAIN d /\ ~IsDir(d, path) /\ Access(d, path, "w")
    BY <1>1, <1>3, <1>9 DEF Unlink, DeleteProgress
  <2>2. CASE MayChange(d, path)
    <3>1. Reply(<<Empty(204)>>)
      BY <1>3, <1>9, <2>1, <2>2 DEF Unlink
    <3>2. Empty(204) \in Expected(d)
      BY <1>2, <1>4, <2>1, <2>2
    <3> QED
      BY <1>1, <3>1, <3>2, Answering
  <2>3. CASE ~MayChange(d, path)
    <3>1. Fail(500)
      BY <1>3, <1>9, <2>1, <2>3 DEF Unlink
    <3> QED
      BY <1>4, <1>5, <2>1, <2>3, <3>1 DEF Code
  <2> QED
    BY <2>2, <2>3
<1> QED
  BY <1>7, <1>8, <1>9

-----------------------------------------------------------------------------
(* The invariant                                                           *)

\* Which steps of the server change the files
LEMMA ServeStays ==
    ASSUME Serve, ~MatchLocation, ~FallBack
    PROVE  /\ seen' = seen /\ pc' # "method" /\ (pc' \in UploadSteps => pc \in UploadSteps \/ MakeUploads)
           /\ disk' = disk \/ pc \in UploadSteps \/ Unlink
<1>1. CASE RefuseMethod \/ ThrowOnCgi \/ StartCgi \/ Redirect \/ Resolve
  BY <1>1 DEF RefuseMethod, ThrowOnCgi, StartCgi, Redirect, Resolve, Steady, Fail, Reply, GoOn,
              UploadSteps
<1>2. CASE StatPage \/ StatWholeUri \/ FileExists
  BY <1>2 DEF StatPage, StatWholeUri, FileExists, Steady, Fail, GoOn, UploadSteps
<1>3. CASE FindIndex
  BY <1>3 DEF FindIndex, Steady, GoOn, UploadSteps
<1>4. CASE NoIndex \/ ListDirectory \/ MayRead \/ ReadFile \/ ReplyError
  BY <1>4 DEF NoIndex, ListDirectory, MayRead, ReadFile, ReplyError, Steady, Fail, Reply, GoOn,
              UploadSteps
<1>5. CASE DeleteNothing \/ CanonicalRoot \/ CanonicalTarget
  BY <1>5 DEF DeleteNothing, CanonicalRoot, CanonicalTarget, Steady, Fail, GoOn, UploadSteps
<1>6. CASE ExamineTarget \/ MayWrite \/ Unlink
  BY <1>6 DEF ExamineTarget, MayWrite, Unlink, Steady, Fail, Reply, GoOn, UploadSteps
<1>7. CASE MakeUploads \/ NextPart \/ SaveFile \/ AppendRow \/ SeeOther
  BY <1>7 DEF MakeUploads, NextPart, SaveFile, AppendRow, SeeOther, Steady, Reply, GoOn,
              UploadSteps
<1>8. CASE MakeDir
  BY <1>8 DEF MakeDir, Steady, GoOn, UploadSteps
<1> QED
  BY <1>1, <1>2, <1>3, <1>4, <1>5, <1>6, <1>7, <1>8 DEF Serve

\* One step of the server on files that are those seen
LEMMA ServeProgress ==
    ASSUME TypeOK, OnlyUploads, NEW d, d = disk, ~Uploading, Progress(d),
           Serve, ~MatchLocation, ~FallBack
    PROVE  Progress(d)'
<1>1. pc \notin UploadSteps
  BY DEF OnlyUploads
<1>2. ~MakeDir /\ ~NextPart /\ ~SaveFile /\ ~AppendRow /\ ~SeeOther
  BY <1>1 DEF MakeDir, NextPart, SaveFile, AppendRow, SeeOther, UploadSteps
<1>3. CASE \/ RefuseMethod \/ ThrowOnCgi \/ StartCgi \/ Redirect \/ Resolve
           \/ DeleteNothing \/ CanonicalRoot \/ MakeUploads
  BY <1>3, MethodProgress
<1>4. CASE StatPage \/ StatWholeUri \/ FileExists \/ FindIndex \/ NoIndex
  BY <1>4, StatProgress, ExistsProgress, IndexProgress, NoIndexProgress
<1>5. CASE ListDirectory \/ MayRead \/ ReadFile \/ ReplyError
  BY <1>5, ListProgress, ReadProgress, ErrorProgress
<1>6. CASE CanonicalTarget \/ ExamineTarget \/ MayWrite \/ Unlink
  BY <1>6, TargetProgress, DeleteStepProgress
<1> QED
  BY <1>2, <1>3, <1>4, <1>5, <1>6 DEF Serve

\* ProgressSame as a formula, which holds of the next state too
Shared == \A d, e : TypeOK /\ Alike(d, e) /\ ~Uploading /\ Progress(d) => Progress(e)

LEMMA ProgressAlike == Shared
  BY ProgressSame DEF Shared

LEMMA ServeInv == SInv /\ Serve /\ ~MatchLocation /\ ~FallBack
                  => SeenNow' /\ OnlyUploads' /\ Progressing'
<1> SUFFICES ASSUME SInv, Serve, ~MatchLocation, ~FallBack
             PROVE  SeenNow' /\ OnlyUploads' /\ Progressing'
  OBVIOUS
<1>1. pc \notin {"idle", "match"} /\ pc' # "match" /\ UNCHANGED <<config, req, loc, served>>
  BY LocationStays DEF SInv
<1>2. seen' = seen /\ pc' # "method" /\ (pc' \in UploadSteps => pc \in UploadSteps \/ MakeUploads)
      /\ (disk' = disk \/ pc \in UploadSteps \/ Unlink)
  BY ServeStays
<1>3. /\ Uploading' <=> Uploading
      /\ \A d, e : Alike(d, e)' <=> Alike(d, e)
  BY <1>1, Frame
<1>4. Unaffected' <=> Unaffected
  BY <1>2, <1>3 DEF Unaffected
<1>5. OnlyUploads'
  BY <1>2, <1>3 DEF SInv, OnlyUploads, MakeUploads, Dispatched, Uploading
<1>6. SeenNow'
  <2>1. Unlink => disk' = disk \/ pc' = "idle"
    BY DEF Unlink, Reply
  <2> QED
    BY <1>1, <1>2, <1>3, <2>1 DEF SInv, SeenNow, OnlyUploads
<1>7. Progressing'
  <2> SUFFICES ASSUME served' > 0, Unaffected', ~Uploading', NEW d \in seen PROVE Progress(d)'
    BY <1>2 DEF Progressing
  <2>1. PICK e \in seen : e = disk
    BY <1>1, <1>3 DEF SInv, SeenNow
  <2>2. Progress(e)
    BY <1>1, <1>3, <1>4 DEF SInv, Progressing
  <2>3. Progress(e)'
    BY <1>3, <2>1, <2>2, ServeProgress DEF SInv, IInv
  <2>4. TypeOK' /\ Alike(e, d)'
    <3>1. TypeOK'
      BY NextTypes DEF SInv, Next
    <3>2. Alike(e, d)
      BY <1>4 DEF Unaffected
    <3> QED
      BY <1>3, <3>1, <3>2
  <2>5. Shared'
    BY ProgressAlike, PTL
  <2> QED
    BY <2>3, <2>4, <2>5 DEF Shared
<1> QED
  BY <1>5, <1>6, <1>7

LEMMA InitAnswers == Init => SInv
<1> SUFFICES ASSUME Init PROVE SInv
  OBVIOUS
<1>1. IInv
  BY InitInv
<1>2. seen = {disk} /\ pc = "idle" /\ served = 0
  BY DEF Init
<1> QED
  BY <1>1, <1>2 DEF SInv, SeenNow, OnlyUploads, UploadSteps, Progressing

LEMMA NextAnswers == SInv /\ [Next]_vars => SInv'
<1> SUFFICES ASSUME SInv, [Next]_vars PROVE SInv'
  OBVIOUS
<1>1. IInv'
  BY NextInv DEF SInv
<1> SUFFICES SeenNow' /\ OnlyUploads' /\ Progressing'
  BY <1>1 DEF SInv
<1>2. (pc' = "method" /\ i' = 1) \/ pc' = "match" => \A d : Progress(d)'
  BY DEF Progress, PageSteps, DeleteSteps
<1>3. CASE MatchLocation \/ FallBack
  <2>1. UNCHANGED <<seen, disk>> /\ pc = "match"
    BY <1>3 DEF MatchLocation, FallBack, Steady
  <2>2. (pc' = "method" /\ i' = 1) \/ pc' = "match"
    BY <1>3 DEF MatchLocation, FallBack, GoOn
  <2> QED
    BY <1>2, <2>1, <2>2 DEF SInv, SeenNow, OnlyUploads, UploadSteps, Progressing
<1>4. CASE Serve /\ ~MatchLocation /\ ~FallBack
  BY <1>4, ServeInv
<1>5. ASSUME NEW r \in Requests, Arrive(r) PROVE SeenNow' /\ OnlyUploads' /\ Progressing'
  <2>1. seen' = {disk} /\ disk' = disk /\ pc' = "match"
    BY <1>5 DEF Arrive
  <2> QED
    BY <1>2, <2>1 DEF SeenNow, OnlyUploads, UploadSteps, Progressing
<1>6. ASSUME NEW c \in Changes, Change(c) PROVE SeenNow' /\ OnlyUploads' /\ Progressing'
  <2>1. /\ UNCHANGED <<config, pc, req, loc, i, filePath, st, canon, code, reply, served>>
        /\ seen' = seen \cup {disk'} /\ served > 0
    BY <1>6 DEF Change
  <2>2. /\ Uploading' <=> Uploading
        /\ \A d, e : Alike(d, e)' <=> Alike(d, e)
    BY <2>1, Frame
  <2>3. SeenNow' /\ OnlyUploads'
    BY <2>1, <2>2 DEF SInv, SeenNow, OnlyUploads
  <2>4. Progressing'
    <3> SUFFICES ASSUME Unaffected', ~Uploading', NEW d \in seen' PROVE Progress(d)'
      BY DEF Progressing
    <3>1. \A e, f \in seen' : Alike(e, f)
      BY <2>2 DEF Unaffected
    <3>2. \A e \in seen : Progress(e)
      BY <2>1, <2>2, <3>1 DEF SInv, Progressing, Unaffected
    <3>3. PICK e \in seen : TRUE
      BY DEF SInv, SeenNow
    <3>4. Progress(d)
      BY <2>1, <2>2, <3>1, <3>2, <3>3, ProgressSame DEF SInv, IInv
    <3> QED
      BY <2>1, <3>4, ProgressFrame
  <2> QED
    BY <2>3, <2>4
<1>7. CASE UNCHANGED vars
  <2>1. /\ UNCHANGED <<config, pc, req, loc, i, filePath, st, canon, code, reply>>
        /\ UNCHANGED <<seen, disk, served>>
    BY <1>7 DEF vars
  <2>2. /\ Uploading' <=> Uploading
        /\ \A d, e : Alike(d, e)' <=> Alike(d, e)
    BY <2>1, Frame
  <2>3. \A d : Progress(d)' <=> Progress(d)
    BY <2>1, ProgressFrame
  <2> QED
    BY <2>1, <2>2, <2>3 DEF SInv, SeenNow, OnlyUploads, Progressing, Unaffected
<1> QED
  BY <1>3, <1>4, <1>5, <1>6, <1>7 DEF Next

LEMMA AnswersInvariant == Spec => []SInv
  BY InitAnswers, NextAnswers, PTL DEF Spec

-----------------------------------------------------------------------------

\* Whatever the blocks, the files, the requests, and the changes that other
\* processes make to files a request has nothing to do with, its answer is what
\* the files say: the calls of handleClientData(), handleSpecialMethods() and
\* buildResponse() put together one picture.
THEOREM AnswersAreStable == Spec => []StableAnswer
<1>1. SInv => StableAnswer
  BY DEF SInv, Progressing, StableAnswer, Answered, Progress
<1> QED
  BY <1>1, AnswersInvariant, PTL

-----------------------------------------------------------------------------
(* What is done when a request is answered                                 *)

\* While nobody else changes a file the files are those the request found, until
\* the answer is 204
Untouched(d) == disk = d /\ (pc = "idle" => reply[1].code # 204)
Removed(d) ==
    /\ pc = "idle" /\ reply[1].code = 204
    /\ CanonTarget(d) \in DOMAIN d /\ disk = Without(d, CanonTarget(d))

Doing ==
    served > 0 /\ changes = 0 =>
        \E d : /\ seen = {d}
               /\ pc \in {"match", "method"} \/ ~Uploading => Untouched(d) \/ Removed(d)

\* No error is a success
Fails == pc = "error" => code # 204

DInv == SInv /\ Fails /\ Doing

LEMMA AlikeSelf == ASSUME NEW d PROVE Alike(d, d)
<1>1. \A path : SameFile(d, d, path)
  BY DEF SameFile
<1>2. \A text : SameAt(d, d, text)
  BY <1>1 DEF SameAt
<1>3. SamePage(d, d)
  BY <1>2 DEF SamePage
<1>4. SameTarget(d, d)
  BY <1>1 DEF SameTarget
<1> QED
  BY <1>2, <1>3, <1>4 DEF Alike

LEMMA FailsInv == Fails /\ [Next]_vars => Fails'
<1> SUFFICES ASSUME Fails, [Next]_vars PROVE Fails'
  OBVIOUS
<1>1. CASE MatchLocation \/ FallBack \/ RefuseMethod \/ ThrowOnCgi \/ StartCgi \/ Redirect \/ Resolve
  BY <1>1 DEF MatchLocation, FallBack, RefuseMethod, ThrowOnCgi, StartCgi, Redirect, Resolve,
              Fails, Fail, Reply, GoOn
<1>2. CASE StatPage \/ StatWholeUri \/ FileExists
  BY <1>2 DEF StatPage, StatWholeUri, FileExists, Fails, Fail, GoOn
<1>3. CASE FindIndex
  BY <1>3 DEF FindIndex, Fails, GoOn
<1>4. CASE NoIndex \/ ListDirectory \/ MayRead \/ ReadFile \/ ReplyError
  BY <1>4 DEF NoIndex, ListDirectory, MayRead, ReadFile, ReplyError, Fails, Fail, Reply, GoOn
<1>5. CASE DeleteNothing \/ CanonicalRoot \/ CanonicalTarget
  BY <1>5 DEF DeleteNothing, CanonicalRoot, CanonicalTarget, Fails, Fail, GoOn
<1>6. CASE ExamineTarget \/ MayWrite \/ Unlink
  BY <1>6 DEF ExamineTarget, MayWrite, Unlink, Fails, Fail, Reply, GoOn
<1>7. CASE MakeUploads \/ NextPart \/ SaveFile \/ AppendRow \/ SeeOther
  BY <1>7 DEF MakeUploads, NextPart, SaveFile, AppendRow, SeeOther, Fails, Reply, GoOn
<1>8. CASE MakeDir
  BY <1>8 DEF MakeDir, Fails, GoOn
<1>9. CASE (\E r \in Requests : Arrive(r)) \/ (\E c \in Changes : Change(c))
  BY <1>9 DEF Arrive, Change, Fails
<1>10. CASE UNCHANGED vars
  BY <1>10 DEF vars, Fails
<1> QED
  BY <1>1, <1>2, <1>3, <1>4, <1>5, <1>6, <1>7, <1>8, <1>9, <1>10 DEF Next, Serve

\* An answer other than that to an unlink() does not say 204
LEMMA OtherAnswers ==
    ASSUME TypeOK, Fails, Serve, pc \notin UploadSteps, ~Unlink, ~MatchLocation, ~FallBack,
           pc' = "idle"
    PROVE  reply'[1].code # 204
<1>1. /\ Handed.code = 0 /\ Empty(303).code = 303 /\ Page(<<>>).code = 200
      /\ \A body : Page(body).code = 200
      /\ \A names : Listing(names).code = 200
      /\ \A d, c : Error(d, c).code = c
  BY DEF Handed, Empty, Page, Listing, Error, Answer
<1>2. PICK answer : reply' = <<answer>> /\ answer.code # 204
  <2>1. CASE StartCgi \/ Redirect
    BY <1>1, <2>1 DEF StartCgi, Redirect, Reply, Fail
  <2>2. CASE ListDirectory
    BY <1>1, <2>2 DEF ListDirectory, Reply
  <2>3. CASE ReadFile
    BY <1>1, <2>3 DEF ReadFile, Reply, Fail
  <2>4. CASE ReplyError
    BY <1>1, <2>4 DEF ReplyError, Reply, Fails
  <2>5. CASE RefuseMethod \/ ThrowOnCgi \/ Resolve \/ StatPage \/ StatWholeUri \/ FileExists
    BY <2>5 DEF RefuseMethod, ThrowOnCgi, Resolve, StatPage, StatWholeUri, FileExists, Fail, GoOn
  <2>6. CASE FindIndex \/ NoIndex \/ MayRead
    BY <2>6 DEF FindIndex, NoIndex, MayRead, Fail, GoOn
  <2>7. CASE DeleteNothing \/ CanonicalRoot \/ CanonicalTarget \/ ExamineTarget \/ MayWrite
    BY <2>7 DEF DeleteNothing, CanonicalRoot, CanonicalTarget, ExamineTarget, MayWrite, Fail, GoOn
  <2>8. CASE MakeUploads
    BY <2>8 DEF MakeUploads, GoOn
  <2>9. ~MakeDir /\ ~NextPart /\ ~SaveFile /\ ~AppendRow /\ ~SeeOther
    BY DEF MakeDir, NextPart, SaveFile, AppendRow, SeeOther, UploadSteps
  <2> QED
    BY <2>1, <2>2, <2>3, <2>4, <2>5, <2>6, <2>7, <2>8, <2>9 DEF Serve
<1> QED
  BY <1>2

LEMMA ServeDone == DInv /\ Serve /\ ~MatchLocation /\ ~FallBack => Doing'
<1> SUFFICES ASSUME DInv, Serve, ~MatchLocation, ~FallBack, served' > 0, changes' = 0
             PROVE  \E d : /\ seen' = {d}
                           /\ pc' \in {"match", "method"} \/ ~Uploading' => (Untouched(d) \/ Removed(d))'
  BY DEF Doing
<1>1. pc \notin {"idle", "match"} /\ pc' # "match" /\ UNCHANGED <<config, req, loc, served, changes>>
  BY LocationStays DEF DInv, SInv
<1>2. seen' = seen /\ pc' # "method" /\ (disk' = disk \/ pc \in UploadSteps \/ Unlink)
  BY ServeStays
<1>3. (Uploading' <=> Uploading) /\ \A d : CanonTarget(d)' = CanonTarget(d)
  BY <1>1, Frame
<1>4. PICK d : seen = {d} /\ (~Uploading => Untouched(d) \/ Removed(d))
  BY <1>1 DEF DInv, Doing
<1> SUFFICES ASSUME ~Uploading PROVE (Untouched(d) \/ Removed(d))'
  BY <1>1, <1>2, <1>3, <1>4
<1>5. disk = d /\ pc \notin UploadSteps
  BY <1>1, <1>4 DEF Untouched, Removed, DInv, SInv, OnlyUploads
<1>6. CASE Unlink
  <2>1. CASE canon \in DOMAIN disk /\ ~IsDir(disk, canon) /\ MayChange(disk, canon)
    <3>1. /\ disk' = Without(disk, canon) /\ pc' = "idle" /\ reply' = <<Empty(204)>>
          /\ canon \in DOMAIN d
      BY <1>5, <1>6, <2>1 DEF Unlink, Reply
    <3>2. Unaffected
      BY <1>4, AlikeSelf DEF Unaffected
    <3>3. DeleteProgress(d)
      BY <1>1, <1>4, <1>6, <3>2 DEF DInv, SInv, Progressing, Progress, DeleteSteps, Unlink
    <3>4. canon = CanonTarget(d)
      BY <1>6, <3>3 DEF Unlink, DeleteProgress
    <3>5. Empty(204).code = 204
      BY DEF Empty, Answer
    <3>6. Removed(d)'
      BY <1>3, <1>5, <3>1, <3>4, <3>5 DEF Removed
    <3> QED
      BY <3>6
  <2>2. CASE ~(canon \in DOMAIN disk /\ ~IsDir(disk, canon) /\ MayChange(disk, canon))
    <3>1. disk' = disk /\ pc' = "error"
      BY <1>6, <2>2 DEF Unlink, Fail
    <3> QED
      BY <1>5, <3>1 DEF Untouched
  <2> QED
    BY <2>1, <2>2
<1>7. CASE ~Unlink
  <2>1. disk' = disk
    BY <1>2, <1>5, <1>7
  <2>2. pc' = "idle" => reply'[1].code # 204
    BY <1>5, <1>7, OtherAnswers DEF DInv, SInv, IInv
  <2> QED
    BY <1>5, <2>1, <2>2 DEF Untouched
<1> QED
  BY <1>6, <1>7

LEMMA NextDone == DInv /\ [Next]_vars => DInv'
<1> SUFFICES ASSUME DInv, [Next]_vars PROVE DInv'
  OBVIOUS
<1>1. SInv' /\ Fails'
  BY NextAnswers, FailsInv DEF DInv
<1> SUFFICES Doing'
  BY <1>1 DEF DInv
<1>2. CASE MatchLocation \/ FallBack
  <2>1. UNCHANGED <<seen, disk, served, changes>> /\ pc = "match" /\ pc' \in {"match", "method"}
    BY <1>2 DEF MatchLocation, FallBack, Steady, GoOn
  <2> QED
    BY <2>1 DEF DInv, Doing, Untouched, Removed
<1>3. CASE Serve /\ ~MatchLocation /\ ~FallBack
  BY <1>3, ServeDone
<1>4. ASSUME NEW r \in Requests, Arrive(r) PROVE Doing'
  <2>1. seen' = {disk} /\ disk' = disk /\ pc' = "match"
    BY <1>4 DEF Arrive
  <2> QED
    BY <2>1 DEF Doing, Untouched
<1>5. ASSUME NEW c \in Changes, Change(c) PROVE Doing'
  <2>1. changes' = changes + 1 /\ changes \in Nat
    BY <1>5 DEF Change, DInv, SInv, IInv, TypeOK
  <2> QED
    BY <2>1 DEF Doing
<1>6. CASE UNCHANGED vars
  <2>1. UNCHANGED <<config, req, loc, pc, reply, disk, seen, served, changes>>
    BY <1>6 DEF vars
  <2>2. (Uploading' <=> Uploading) /\ \A d : CanonTarget(d)' = CanonTarget(d)
    BY <2>1, Frame
  <2> QED
    BY <2>1, <2>2 DEF DInv, Doing, Untouched, Removed
<1> QED
  BY <1>2, <1>3, <1>4, <1>5, <1>6 DEF Next

\* While nobody else changes a file, whatever the blocks, the files and the
\* requests: a DELETE answered with 204 removed the file that isPathInsideRoot()
\* found and nothing else, and a request answered otherwise removed nothing.
THEOREM DoneIsAnswered == Spec => []DoneAsAnswered
<1>1. Init => DInv
  BY InitAnswers DEF Init, DInv, Fails, Doing
<1>2. DInv => DoneAsAnswered
  BY DEF DInv, Doing, Untouched, Removed, DoneAsAnswered, Undisturbed, Answered
<1> QED
  BY <1>1, <1>2, NextDone, PTL DEF Spec

-----------------------------------------------------------------------------
(* Where a DELETE leads                                                    *)

\* Parts that do not lead up
Down == {parts \in Seq(Text) : \A k \in DOMAIN parts : parts[k] # <<"..">>}

LEMMA DownTogether == ASSUME NEW a \in Down, NEW b \in Down PROVE a \o b \in Down
<1>1. a \in Seq(Text) /\ b \in Seq(Text)
  BY DEF Down
<1>2. /\ a \o b \in Seq(Text) /\ DOMAIN (a \o b) = 1..Len(a) + Len(b)
      /\ Len(a) \in Nat /\ Len(b) \in Nat /\ DOMAIN a = 1..Len(a) /\ DOMAIN b = 1..Len(b)
      /\ \A k \in 1..Len(a) + Len(b) : (a \o b)[k] = IF k <= Len(a) THEN a[k] ELSE b[k - Len(a)]
  BY <1>1, ConcatProperties, LenProperties
<1>3. ASSUME NEW k \in 1..Len(a) + Len(b) PROVE (a \o b)[k] # <<"..">>
  <2>1. CASE k <= Len(a)
    <3>1. k \in DOMAIN a
      BY <1>2, <2>1
    <3> QED
      BY <1>2, <2>1, <3>1 DEF Down
  <2>2. CASE ~(k <= Len(a))
    <3>1. k - Len(a) \in DOMAIN b
      BY <1>2, <2>2
    <3> QED
      BY <1>2, <2>2, <3>1 DEF Down
  <2> QED
    BY <2>1, <2>2
<1> QED
  BY <1>2, <1>3 DEF Down

LEMMA OneMore == ASSUME NEW X, NEW s \in Seq(X), NEW t \in Seq(X) PROVE IsPrefix(s, s \o t)
<1>1. Len(s) \in Nat /\ Len(t) \in Nat /\ s \o t \in Seq(X) /\ Len(s \o t) = Len(s) + Len(t)
      /\ \A k \in 1..Len(s) : (s \o t)[k] = s[k]
  BY ConcatProperties, LenProperties
<1>2. SubSeq(s \o t, 0 + 1, 0 + Len(s)) = SubSeq(s, 1, Len(s))
  <2>1. \A k \in 1..Len(s) : k \in 1..Len(s) /\ 0 + k \in 1..Len(s \o t) /\ (s \o t)[0 + k] = s[k]
    BY <1>1
  <2> QED
    BY <1>1, <2>1, SubSeqSame
<1> QED
  BY <1>1, <1>2 DEF IsPrefix

\* What PathsProofs says of texts
LEMMA TextParts ==
    ASSUME NEW x \in Text
    PROVE  /\ Parts(x) \in Seq(Text)
           /\ \A y \in Text : /\ x \o <<"/">> \o y \in Text
                             /\ Parts(x \o <<"/">> \o y) = Parts(x) \o Parts(y)
           /\ \A path \in Seq(NoSlash(Token)) : /\ x \o TextOf(path) \in Text
                                                /\ Parts(x \o TextOf(path)) = Parts(x) \o path
<1>1. x \in Seq(Token) /\ "/" \in Token /\ <<"/">> \in Seq(Token)
  <2>1. "/" \in Token
    BY WidthAssumption
  <2> QED
    BY <2>1 DEF Text
<1>2. Parts(x) \in Seq(Text)
  BY <1>1, PartsAre DEF Text
<1>3. ASSUME NEW y \in Text
      PROVE  x \o <<"/">> \o y \in Text /\ Parts(x \o <<"/">> \o y) = Parts(x) \o Parts(y)
  <2>1. y \in Seq(Token)
    BY DEF Text
  <2>2. x \o <<"/">> \in Seq(Token)
    BY <1>1, ConcatProperties
  <2>3. x \o <<"/">> \o y \in Seq(Token)
    BY <2>1, <2>2, ConcatProperties
  <2>4. Parts(x \o <<"/">> \o y) = Parts(x) \o Parts(y)
    BY <1>1, <2>1, PartsAcrossSlash
  <2> QED
    BY <2>3, <2>4 DEF Text
<1>4. ASSUME NEW path \in Seq(NoSlash(Token))
      PROVE  x \o TextOf(path) \in Text /\ Parts(x \o TextOf(path)) = Parts(x) \o path
  <2>1. path \in Seq(Seq(Token))
    <3>1. NoSlash(Token) \subseteq Seq(Token)
      BY DEF NoSlash
    <3> QED
      BY <3>1, SeqMonotonic
  <2>2. TextOf(path) \in Seq(Token)
    BY <1>1, <2>1, TextOfPath
  <2>3. x \o TextOf(path) \in Seq(Token)
    BY <1>1, <2>2, ConcatProperties
  <2>4. Parts(x \o TextOf(path)) = Parts(x) \o path
    BY <1>1, PartsOfPath
  <2> QED
    BY <2>3, <2>4 DEF Text
<1> QED
  BY <1>2, <1>3, <1>4

\* The parts of a text that has none are one empty name
LEMMA PartsOfNothing == Parts(<<>>) = <<(<<>>)>> /\ <<(<<>>)>> \in Down
<1>1. <<>> \in Text
  BY EmptySeq DEF Text
<1>2. Parts(<<>>) = <<(<<>>)>>
  <2>1. <<>> \in Seq(Token) /\ \A k \in DOMAIN <<>> : <<>>[k] # "/"
    BY EmptySeq
  <2> QED
    BY <2>1, PartsOfName
<1>3. <<(<<>>)>> \in Seq(Text)
  BY <1>1
<1>4. <<(<<>>)>>[1] # <<"..">>
  OBVIOUS
<1>5. <<(<<>>)>> \in Down
  <2>1. \A k \in DOMAIN <<(<<>>)>> : k = 1
    OBVIOUS
  <2> QED
    BY <1>3, <1>4, <2>1 DEF Down
<1> QED
  BY <1>2, <1>5

\* Below() leaves no .. in a path, and no slash in a name
LEMMA NormalPathType ==
    ASSUME NEW text \in Text
    PROVE  NormalPath(text) \in Seq(NoSlash(Token)) /\ NormalPath(text) \in Down
<1>1. Parts(text) \in Seq(Text)
  BY PartsAre DEF Text
<1>2. Parts(text) \in Seq(NoSlash(Token))
  <2>1. \A n \in 1..Len(Parts(text)) : Parts(text)[n] \in NoSlash(Token)
    <3> SUFFICES ASSUME NEW n \in 1..Len(Parts(text)) PROVE Parts(text)[n] \in NoSlash(Token)
      OBVIOUS
    <3>1. Parts(text)[n] \in Seq(Token)
      BY <1>1, ElementOfSeq DEF Text
    <3>2. \A k \in DOMAIN Parts(text)[n] : Parts(text)[n][k] # "/"
      BY PartsHaveNoSlash DEF Text
    <3> QED
      BY <3>1, <3>2 DEF NoSlash
  <2>2. Len(Parts(text)) \in Nat /\ Parts(text) \in [1..Len(Parts(text)) -> NoSlash(Token)]
    BY <1>1, <2>1, LenProperties
  <2> QED
    BY <2>2
<1>3. NormalPath(text) \in Seq(ProperNames(NoSlash(Token)))
  BY <1>2, BelowNames DEF NormalPath
<1>4. ProperNames(NoSlash(Token)) \subseteq NoSlash(Token) /\ NoSlash(Token) \subseteq Text
  BY DEF ProperNames, NoSlash, Text
<1>5. NormalPath(text) \in Seq(NoSlash(Token)) /\ NormalPath(text) \in Seq(Text)
  BY <1>3, <1>4, SeqMonotonic
<1>6. \A k \in DOMAIN NormalPath(text) : NormalPath(text)[k] # <<"..">>
  BY <1>3, LenProperties, ElementOfSeq DEF ProperNames
<1> QED
  BY <1>5, <1>6 DEF Down

LEMMA LocationText ==
    ASSUME TypeOK, loc > 0
    PROVE  L \in Location /\ L.path \in Text /\ Root \in Text /\ Rest \in Text
<1>1. L \in Location /\ config.root \in Seq(Token) /\ req \in Request
  <2>1. config \in Configs /\ loc \in 1..N /\ req \in Requests
    BY ConfigType DEF TypeOK
  <2> QED
    BY <2>1, ConfigType, SiteAssumption DEF L, SiteAssumption
<1>2. L.path \in Text /\ L.root \in Text /\ req.uri \in Seq(Token) /\ req.uri # <<>>
  BY <1>1 DEF Location, Request, Text
<1>3. Root \in Text
  BY <1>1, <1>2 DEF Root, Text
<1>4. Rest \in Text
  <2>1. Tail(req.uri) \in Seq(Token)
    <3>1. Len(req.uri) # 0 /\ Len(req.uri) \in Nat
      BY <1>2, EmptySeq
    <3>2. Tail(req.uri) = SubSeq(req.uri, 2, Len(req.uri))
      BY <1>2, HeadTailProperties
    <3> QED
      BY <1>2, <3>1, <3>2, HeadTailProperties
  <2>2. SubSeq(req.uri, Len(L.path) + 1, Len(req.uri)) \in Seq(Token)
    <3>1. Len(L.path) \in Nat /\ Len(req.uri) \in Nat /\ \A k \in 1..Len(req.uri) : req.uri[k] \in Token
      BY <1>2, LenProperties, ElementOfSeq DEF Text
    <3>2. \A k \in Len(L.path) + 1..Len(req.uri) : k \in 1..Len(req.uri)
      BY <3>1
    <3> QED
      BY <3>1, <3>2, SubSeqProperties
  <2> QED
    BY <1>2, <2>1, <2>2 DEF Rest, Relative, Text
<1> QED
  BY <1>1, <1>2, <1>3, <1>4

\* The path of the location, as TargetText has it, does not lead up
LEMMA LocationParts ==
    ASSUME TypeOK, loc > 0, LocationsStay, L.path # <<>>
    PROVE  Relative(L.path, <<>>) \in Text /\ Parts(Relative(L.path, <<>>)) \in Down
<1>1. L.path \in Seq(Token)
  BY LocationText DEF Text
<1>2. Parts(L.path) \in Down
  <2>1. Parts(L.path) \in Seq(Text)
    BY <1>1, PartsAre DEF Text
  <2>2. loc \in DOMAIN config.locations /\ config \in Configs
    BY ConfigType, LenProperties DEF TypeOK, N
  <2> QED
    BY <2>1, <2>2 DEF LocationsStay, L, Down
<1>3. CASE Head(L.path) = "/"
  <2> DEFINE rest == Tail(L.path)
  <2>1. rest \in Seq(Token)
    BY <1>1, HeadTailProperties
  <2>2. Relative(L.path, <<>>) = rest
    BY <1>3 DEF Relative
  <2>3. L.path = <<>> \o <<"/">> \o rest
    BY <1>1, <1>3
  <2> HIDE DEF rest
  <2>4. Parts(L.path) = Parts(<<>>) \o Parts(rest)
    <3>1. <<>> \in Text /\ rest \in Text
      BY <2>1, EmptySeq DEF Text
    <3> QED
      BY <2>3, <3>1, TextParts
  <2>5. Parts(rest) \in Seq(Text) /\ Len(Parts(<<>>)) = 1 /\ Parts(<<>>) \in Seq(Text)
    <3>1. rest \in Text
      BY <2>1 DEF Text
    <3>2. Parts(<<>>) = <<(<<>>)>> /\ Parts(<<>>) \in Seq(Text)
      BY PartsOfNothing DEF Down
    <3>3. Len(<<(<<>>)>>) = 1
      OBVIOUS
    <3> QED
      BY <3>1, <3>2, <3>3, TextParts
  <2>6. ASSUME NEW k \in DOMAIN Parts(rest) PROVE Parts(rest)[k] # <<"..">>
    <3>1. k \in 1..Len(Parts(rest)) /\ Len(Parts(rest)) \in Nat
      BY <2>5, <2>6, LenProperties
    <3>2. Parts(L.path)[1 + k] = Parts(rest)[k] /\ 1 + k \in DOMAIN Parts(L.path)
      <4> DEFINE x == Parts(<<>>)
                 y == Parts(rest)
      <4>1. x \in Seq(Text) /\ y \in Seq(Text) /\ Len(x) = 1 /\ k \in 1..Len(y) /\ Len(y) \in Nat
        BY <2>5, <3>1
      <4> HIDE DEF x, y
      <4>2. /\ x \o y \in Seq(Text) /\ Len(x \o y) = Len(x) + Len(y)
            /\ \A j \in 1..Len(x) + Len(y) :
                   (x \o y)[j] = IF j <= Len(x) THEN x[j] ELSE y[j - Len(x)]
        BY <4>1, ConcatProperties
      <4>3. 1 + k \in 1..Len(x) + Len(y) /\ ~(1 + k <= Len(x)) /\ (1 + k) - Len(x) = k
        BY <4>1
      <4>4. (x \o y)[1 + k] = y[k] /\ 1 + k \in DOMAIN (x \o y)
        BY <4>2, <4>3, LenProperties
      <4> QED
        BY <2>4, <4>4 DEF x, y
    <3> QED
      BY <1>2, <3>2 DEF Down
  <2> QED
    BY <2>1, <2>2, <2>5, <2>6 DEF Down, Text
<1>4. CASE Head(L.path) # "/"
  BY <1>1, <1>2, <1>4 DEF Relative, Text
<1> QED
  BY <1>3, <1>4

\* The target leads from the root down
LEMMA TargetParts ==
    ASSUME TypeOK, loc > 0, LocationsStay
    PROVE  TargetText \in Text /\ \E down \in Down : Parts(TargetText) = Parts(Root) \o down
<1>0. Root \in Text /\ Rest \in Text /\ <<"/">> \in Text /\ Parts(Root) \in Seq(Text)
  <2>1. "/" \in Token
    BY WidthAssumption
  <2>2. <<"/">> \in Text
    BY <2>1 DEF Text
  <2> QED
    BY <2>2, LocationText, TextParts
<1> DEFINE base == Root \o (IF L.path \in {<<>>, <<"/">>} THEN <<>>
                            ELSE <<"/">> \o Relative(L.path, <<>>))
           path == NormalPath(Rest)
<1>1. PICK above \in Down : base \in Text /\ Parts(base) = Parts(Root) \o above
  <2>1. CASE L.path \in {<<>>, <<"/">>}
    <3>1. base = Root /\ Parts(Root) \o <<>> = Parts(Root)
      BY <1>0, <2>1, ConcatEmptySeq DEF Text
    <3>2. <<>> \in Down
      BY EmptySeq DEF Down
    <3> QED
      BY <1>0, <3>1, <3>2
  <2>2. CASE L.path \notin {<<>>, <<"/">>}
    <3> DEFINE relative == Relative(L.path, <<>>)
    <3>1. relative \in Text /\ Parts(relative) \in Down
      BY <2>2, LocationParts
    <3>2. base = Root \o <<"/">> \o relative
      BY <2>2
    <3> HIDE DEF relative, base
    <3>3. base = (Root \o <<"/">>) \o relative
      BY <1>0, <3>1, <3>2, ConcatAssociative DEF Text
    <3> QED
      BY <1>0, <3>1, <3>3, TextParts
  <2> QED
    BY <2>1, <2>2
<1>2. TargetText = base \o (IF path = <<>> THEN <<"/">> ELSE TextOf(path))
  <2> DEFINE x == IF L.path \in {<<>>, <<"/">>} THEN <<>> ELSE <<"/">> \o Relative(L.path, <<>>)
             y == IF path = <<>> THEN <<"/">> ELSE TextOf(path)
  <2> QED
    BY DEF TargetText
<1> HIDE DEF base
<1>3. path \in Seq(NoSlash(Token)) /\ path \in Down
  BY <1>0, NormalPathType
<1> HIDE DEF path
<1>4. PICK below \in Down : TargetText \in Text /\ Parts(TargetText) = Parts(base) \o below
  <2>1. CASE path = <<>>
    <3>1. TargetText = base \o <<"/">> /\ base \o <<"/">> \in Seq(Token)
      BY <1>0, <1>1, <1>2, <2>1, ConcatProperties DEF Text
    <3>2. TargetText = base \o <<"/">> \o <<>> /\ <<>> \in Text
      BY <3>1, ConcatEmptySeq, EmptySeq DEF Text
    <3>3. TargetText \in Text /\ Parts(TargetText) = Parts(base) \o Parts(<<>>)
      BY <1>1, <3>2, TextParts
    <3> QED
      BY <3>3, PartsOfNothing
  <2>2. CASE path # <<>>
    <3>1. TargetText = base \o TextOf(path)
      BY <1>2, <2>2
    <3> QED
      BY <1>1, <1>3, <3>1, TextParts
  <2> QED
    BY <2>1, <2>2
<1>5. Parts(TargetText) = Parts(Root) \o (above \o below)
  <2>1. above \in Seq(Text) /\ below \in Seq(Text) /\ Parts(Root) \in Seq(Text)
    BY <1>0 DEF Down
  <2>2. (Parts(Root) \o above) \o below = Parts(Root) \o (above \o below)
    <3> DEFINE x == Parts(Root)
    <3>1. x \in Seq(Text)
      BY <2>1
    <3> HIDE DEF x
    <3> QED
      BY <2>1, <3>1, ConcatAssociative DEF x
  <2> QED
    BY <1>1, <1>4, <2>2
<1> QED
  BY <1>4, <1>5, DownTogether

LEMMA TargetBelow ==
    ASSUME TypeOK, loc > 0, LocationsStay
    PROVE  IsPrefix(NormalPath(Root), Below(Parts(TargetText)))
<1>1. PICK down \in Down : Parts(TargetText) = Parts(Root) \o down
  BY TargetParts
<1>2. Root \in Text /\ Parts(Root) \in Seq(Text)
  BY LocationText, PartsAre DEF Text
<1>3. PICK u \in Seq(Text) : Below(Parts(TargetText)) = NormalPath(Root) \o u
  <2> DEFINE x == Parts(Root)
  <2>1. x \in Seq(Text) /\ down \in Seq(Text) /\ \A k \in DOMAIN down : down[k] # <<"..">>
    BY <1>2 DEF Down
  <2> HIDE DEF x
  <2>2. \E u \in Seq(Text) : Below(x \o down) = Below(x) \o u
    BY <2>1, BelowGrows
  <2> QED
    BY <1>1, <2>2 DEF x, NormalPath
<1>4. NormalPath(Root) \in Seq(Text)
  BY <1>2, NormalPathType DEF Down
<1> QED
  BY <1>3, <1>4, OneMore

\* No file has an empty name.  A DELETE that has found the root looks for its
\* target there, and goes on with one that is inside
Inside ==
    /\ Nowhere \notin DOMAIN disk
    /\ pc = "target" => filePath = TargetText /\ canon = NormalPath(Root)
    /\ TargetInsideRoot

\* Where a text leads, if there is a file
LEMMA WalkFound ==
    ASSUME NEW d, NEW text, Nowhere \notin DOMAIN d, Stat(d, text) # "none"
    PROVE  Walk(d, text) = Below(Parts(text))
<1>1. Walk(d, text) \in DOMAIN d
  BY DEF Stat
<1>2. Walk(d, text) \in {Below(Parts(text)), Nowhere}
  BY DEF Walk
<1> QED
  BY <1>1, <1>2

LEMMA NoNewNowhere == ASSUME Nowhere \notin DOMAIN disk, Serve PROVE Nowhere \notin DOMAIN disk'
<1>1. \A path : ~MayChange(disk, Nowhere) /\ (MayOpen(disk, path) => path # Nowhere)
  BY DEF MayChange, MayOpen
<1>2. CASE MakeDir
  <2>1. PICK path : \/ disk' = disk
                    \/ MayChange(disk, path) /\ disk' = Put(disk, path, NewDir)
    BY <1>2 DEF MakeDir
  <2> QED
    BY <1>1, <2>1 DEF Put
<1>3. CASE SaveFile \/ AppendRow
  <2>1. \/ disk' = disk
        \/ \E path, body : MayOpen(disk, path) /\ disk' = Write(disk, path, body)
    BY <1>3 DEF SaveFile, AppendRow
  <2> QED
    BY <1>1, <2>1 DEF Write, Put
<1>4. CASE Unlink
  BY <1>4 DEF Unlink, Without
<1>5. CASE MatchLocation \/ FallBack \/ RefuseMethod \/ ThrowOnCgi \/ StartCgi \/ Redirect \/ Resolve
  BY <1>5 DEF MatchLocation, FallBack, RefuseMethod, ThrowOnCgi, StartCgi, Redirect, Resolve
<1>6. CASE StatPage \/ StatWholeUri \/ FileExists \/ FindIndex \/ NoIndex \/ ListDirectory
  BY <1>6 DEF StatPage, StatWholeUri, FileExists, FindIndex, NoIndex, ListDirectory
<1>7. CASE MayRead \/ ReadFile \/ ReplyError \/ DeleteNothing \/ CanonicalRoot
  BY <1>7 DEF MayRead, ReadFile, ReplyError, DeleteNothing, CanonicalRoot
<1>8. CASE CanonicalTarget \/ ExamineTarget \/ MayWrite \/ MakeUploads \/ NextPart \/ SeeOther
  BY <1>8 DEF CanonicalTarget, ExamineTarget, MayWrite, MakeUploads, NextPart, SeeOther
<1> QED
  BY <1>2, <1>3, <1>4, <1>5, <1>6, <1>7, <1>8 DEF Serve

\* The steps of a DELETE that find the root and the target
LEMMA RootFound == ASSUME TypeOK, Inside, CanonicalRoot PROVE Inside'
<1>1. UNCHANGED <<config, req, loc, disk>>
  BY DEF CanonicalRoot, Steady
<1>2. TargetText' = TargetText /\ Root' = Root
  BY <1>1, Frame
<1>3. CASE Stat(disk, Root) = "none"
  BY <1>1, <1>3 DEF CanonicalRoot, Fail, Inside, TargetInsideRoot
<1>4. CASE Stat(disk, Root) # "none"
  <2>1. filePath' = TargetText /\ canon' = Walk(disk, Root) /\ pc' = "target"
    BY <1>4 DEF CanonicalRoot, GoOn
  <2>2. Walk(disk, Root) = NormalPath(Root)
    BY <1>4, WalkFound DEF Inside, NormalPath
  <2> QED
    BY <1>1, <1>2, <2>1, <2>2 DEF Inside, TargetInsideRoot
<1> QED
  BY <1>3, <1>4

LEMMA TargetFound ==
    ASSUME TypeOK, Deleting, LocationsStay, Inside, CanonicalTarget
    PROVE  Inside'
<1>1. UNCHANGED <<config, req, loc, disk>> /\ pc = "target" /\ pc' \in {"examine", "error"}
  BY DEF CanonicalTarget, Steady, GoOn, Fail
<1>2. Root' = Root
  BY <1>1, Frame
<1>3. filePath = TargetText /\ canon = NormalPath(Root) /\ loc > 0
  BY <1>1 DEF Inside, Deleting
<1>4. IsPrefix(NormalPath(Root), canon')
  <2>1. CASE Stat(disk, filePath) # "none"
    <3>1. canon' = Walk(disk, TargetText)
      BY <1>3, <2>1 DEF CanonicalTarget
    <3>2. Walk(disk, TargetText) = Below(Parts(TargetText))
      BY <1>3, <2>1, WalkFound DEF Inside
    <3> QED
      BY <1>3, <3>1, <3>2, TargetBelow
  <2>2. CASE Stat(disk, filePath) = "none"
    <3>1. canon' = NormalPath(Root) \o NormalPath(TargetText)
      BY <1>3, <2>2 DEF CanonicalTarget
    <3>2. Root \in Text /\ TargetText \in Text
      BY <1>3, LocationText, TargetParts
    <3>3. NormalPath(Root) \in Seq(Text) /\ NormalPath(TargetText) \in Seq(Text)
      BY <3>2, NormalPathType DEF Down
    <3> QED
      BY <3>1, <3>3, OneMore
  <2> QED
    BY <2>1, <2>2
<1>5. NormalPath(Root') = NormalPath(Root)
  BY <1>2
<1> QED
  BY <1>1, <1>2, <1>4 DEF Inside, TargetInsideRoot

LEMMA InsideStep ==
    ASSUME IInv, LocationsStay, Inside, Serve, ~MatchLocation, ~FallBack
    PROVE  Inside'
<1>1. UNCHANGED <<config, req, loc>> /\ Nowhere \notin DOMAIN disk'
  BY LocationStays, NoNewNowhere DEF Inside
<1>2. Root' = Root
  BY <1>1, Frame
<1>3. CASE CanonicalRoot
  BY <1>3, RootFound DEF IInv
<1>4. CASE CanonicalTarget
  BY <1>4, TargetFound DEF IInv
<1>5. CASE ExamineTarget \/ MayWrite \/ Unlink
  <2>1. pc \in {"examine", "writable", "unlink"} /\ pc' # "target" /\ canon' = canon
    BY <1>5 DEF ExamineTarget, MayWrite, Unlink, NoDelete, GoOn, Fail, Reply
  <2> QED
    BY <1>1, <1>2, <2>1 DEF Inside, TargetInsideRoot
<1>6. CASE ~CanonicalRoot /\ ~CanonicalTarget /\ ~ExamineTarget /\ ~MayWrite /\ ~Unlink
  <2> SUFFICES pc' \notin {"target", "examine", "writable", "unlink"}
    BY <1>1 DEF Inside, TargetInsideRoot
  <2>1. CASE RefuseMethod \/ ThrowOnCgi \/ StartCgi \/ Redirect \/ Resolve
    BY <2>1 DEF RefuseMethod, ThrowOnCgi, StartCgi, Redirect, Resolve, Fail, Reply, GoOn
  <2>2. CASE StatPage \/ StatWholeUri \/ FileExists
    BY <2>2 DEF StatPage, StatWholeUri, FileExists, Fail, GoOn
  <2>3. CASE FindIndex
    BY <2>3 DEF FindIndex, GoOn
  <2>4. CASE NoIndex \/ ListDirectory \/ MayRead \/ ReadFile \/ ReplyError \/ DeleteNothing
    BY <2>4 DEF NoIndex, ListDirectory, MayRead, ReadFile, ReplyError, DeleteNothing, Fail, Reply,
                GoOn
  <2>5. CASE MakeUploads \/ NextPart \/ SaveFile \/ AppendRow \/ SeeOther
    BY <2>5 DEF MakeUploads, NextPart, SaveFile, AppendRow, SeeOther, Reply, GoOn
  <2>6. CASE MakeDir
    BY <2>6 DEF MakeDir, GoOn
  <2> QED
    BY <1>6, <2>1, <2>2, <2>3, <2>4, <2>5, <2>6 DEF Serve
<1> QED
  BY <1>3, <1>4, <1>5, <1>6

LEMMA NextInside == ASSUME LocationsStay PROVE IInv /\ Inside /\ [Next]_vars => Inside'
<1> SUFFICES ASSUME IInv, Inside, [Next]_vars PROVE Inside'
  OBVIOUS
<1>1. CASE MatchLocation \/ FallBack
  <2>1. disk' = disk /\ pc' \in {"match", "method"}
    BY <1>1 DEF MatchLocation, FallBack, GoOn
  <2> QED
    BY <2>1 DEF Inside, TargetInsideRoot
<1>2. CASE Serve /\ ~MatchLocation /\ ~FallBack
  BY <1>2, InsideStep
<1>3. ASSUME NEW r \in Requests, Arrive(r) PROVE Inside'
  <2>1. disk' = disk /\ pc' = "match"
    BY <1>3 DEF Arrive
  <2> QED
    BY <2>1 DEF Inside, TargetInsideRoot
<1>4. ASSUME NEW c \in Changes, Change(c) PROVE Inside'
  <2>1. UNCHANGED <<config, pc, req, loc, filePath, canon>>
    BY <1>4 DEF Change
  <2>2. Nowhere \notin DOMAIN disk'
    <3>1. c.path # Nowhere /\ (disk' = Without(disk, c.path) \/ disk' = Put(disk, c.path, c.entry))
      BY <1>4, SiteAssumption DEF SiteAssumption, Change
    <3> QED
      BY <3>1 DEF Inside, Without, Put
  <2>3. TargetText' = TargetText /\ Root' = Root
    BY <2>1, Frame
  <2> QED
    BY <2>1, <2>2, <2>3 DEF Inside, TargetInsideRoot
<1>5. CASE UNCHANGED vars
  <2>1. UNCHANGED <<config, disk, pc, req, loc, filePath, canon>>
    BY <1>5 DEF vars
  <2>2. TargetText' = TargetText /\ Root' = Root
    BY <2>1, Frame
  <2> QED
    BY <2>1, <2>2 DEF Inside, TargetInsideRoot
<1> QED
  BY <1>1, <1>2, <1>3, <1>4, <1>5 DEF Next

\* A DELETE looks at and removes only what is below the root of its location,
\* whatever the uri and the files, and whatever happens to them between its
\* calls, if no location's path leads up itself: normalizeRelativePath() and
\* isPathInsideRoot() (server.cpp:437-460) leave no way out of the root.
THEOREM TargetsStayInside == ASSUME LocationsStay PROVE Spec => []TargetInsideRoot
<1>1. Init => Inside
  BY SiteAssumption DEF SiteAssumption, Init, Inside, TargetInsideRoot
<1>2. Inside => TargetInsideRoot
  BY DEF Inside
<1>3. IInv /\ Inside /\ [Next]_vars => Inside'
  BY NextInside
<1> QED
  BY <1>1, <1>2, <1>3, Invariant, PTL DEF Spec

-----------------------------------------------------------------------------
(* How long a text is                                                      *)

\* A token more
MoreChars(n, token) == n + Width[token]

\* Chars() as a fold over the tokens
CharsFold(parts, n, g) ==
    g = [s \in SUBSET (1..n) |->
            IF s = {} THEN 0 ELSE MoreChars(g[s \ {Max(s)}], parts[Max(s)])]

\* The function that the fold defines exists
LEMMA CharsFolds == ASSUME NEW parts PROVE \A n \in Nat : \E g : CharsFold(parts, n, g)
<1> DEFINE S == {n \in Nat : \E g : CharsFold(parts, n, g)}
<1>1. 0 \in S
  <2>1. \A s \in SUBSET (1..0) : s = {}
    OBVIOUS
  <2>2. CharsFold(parts, 0, [s \in SUBSET (1..0) |-> 0])
    BY <2>1 DEF CharsFold
  <2> QED
    BY <2>2
<1>2. ASSUME NEW n \in Nat, n \in S PROVE n + 1 \in S
  <2>1. PICK g : CharsFold(parts, n, g)
    BY <1>2
  <2> DEFINE h == [s \in SUBSET (1..n + 1) |->
                      IF n + 1 \in s THEN MoreChars(g[s \ {n + 1}], parts[n + 1]) ELSE g[s]]
             H(s) == IF s = {} THEN 0 ELSE MoreChars(h[s \ {Max(s)}], parts[Max(s)])
  <2>2. ASSUME NEW s \in SUBSET (1..n + 1) PROVE h[s] = H(s)
    <3>1. CASE n + 1 \in s
      <4>1. Max(s) = n + 1
        BY <3>1, MaxOfUpTo
      <4>2. s \ {n + 1} \in SUBSET (1..n + 1) /\ n + 1 \notin s \ {n + 1}
        OBVIOUS
      <4>3. h[s \ {n + 1}] = g[s \ {n + 1}]
        BY <4>2
      <4>4. h[s] = MoreChars(g[s \ {n + 1}], parts[n + 1])
        BY <3>1
      <4>5. s # {}
        BY <3>1
      <4> HIDE DEF h
      <4> QED
        BY <4>1, <4>3, <4>4, <4>5
    <3>2. CASE n + 1 \notin s
      <4>1. s \in SUBSET (1..n)
        BY <3>2
      <4>2. h[s] = g[s]
        BY <3>2
      <4>3. g[s] = IF s = {} THEN 0 ELSE MoreChars(g[s \ {Max(s)}], parts[Max(s)])
        BY <2>1, <4>1 DEF CharsFold
      <4>4. s \ {Max(s)} \in SUBSET (1..n + 1) /\ n + 1 \notin s \ {Max(s)}
        BY <3>2
      <4>5. h[s \ {Max(s)}] = g[s \ {Max(s)}]
        BY <4>4
      <4> HIDE DEF h
      <4> QED
        BY <4>2, <4>3, <4>5
    <3> QED
      BY <3>1, <3>2
  <2>3. h = [s \in SUBSET (1..n + 1) |-> H(s)]
    BY <2>2
  <2>4. CharsFold(parts, n + 1, h)
    BY <2>3 DEF CharsFold
  <2> QED
    BY <2>4
<1> HIDE DEF S
<1>3. \A n \in Nat : n \in S
  BY <1>1, <1>2, AllNumbers
<1> QED
  BY <1>3 DEF S

\* One step of it
LEMMA CharsFoldStep ==
    ASSUME NEW parts, NEW n \in Nat, NEW g, CharsFold(parts, n, g)
    PROVE  /\ g[1..0] = 0
           /\ \A k \in 0..n - 1 : g[1..k + 1] = MoreChars(g[1..k], parts[k + 1])
<1>1. g[1..0] = 0
  BY DEF CharsFold
<1>2. ASSUME NEW k \in 0..n - 1 PROVE g[1..k + 1] = MoreChars(g[1..k], parts[k + 1])
  <2>1. 1..k + 1 \in SUBSET (1..n) /\ 1..k + 1 # {}
    <3>1. 1 \in 1..k + 1 /\ \A x \in 1..k + 1 : x \in 1..n
      OBVIOUS
    <3> QED
      BY <3>1
  <2>2. Max(1..k + 1) = k + 1
    BY MaxOfUpTo
  <2>3. (1..k + 1) \ {k + 1} = 1..k
    OBVIOUS
  <2> QED
    BY <2>1, <2>2, <2>3 DEF CharsFold
<1> QED
  BY <1>1, <1>2

\* Chars() is its value at all the parts
LEMMA CharsIsFold ==
    ASSUME NEW X, NEW parts \in Seq(X)
    PROVE  \E g : CharsFold(parts, Len(parts), g) /\ Chars(parts) = g[1..Len(parts)]
<1>1. Len(parts) \in Nat /\ DOMAIN parts = 1..Len(parts)
  BY LenProperties
<1>2. \E g : CharsFold(parts, Len(parts), g)
  BY <1>1, CharsFolds
<1>3. Chars(parts) = (CHOOSE g : CharsFold(parts, Len(parts), g))[1..Len(parts)]
  BY <1>1 DEF Chars, MoreChars, FoldLeft, MapThenFoldSet, CharsFold
<1> QED
  BY <1>2, <1>3

\* Nothing, and a token more
LEMMA CharsEmpty == Chars(<<>>) = 0
<1>1. PICK g : CharsFold(<<>>, Len(<<>>), g) /\ Chars(<<>>) = g[1..Len(<<>>)]
  BY CharsIsFold, <<>> \in Seq({})
<1> QED
  BY <1>1, CharsFoldStep

LEMMA CharsAppend ==
    ASSUME NEW X, NEW parts \in Seq(X), NEW part \in X
    PROVE  Chars(Append(parts, part)) = MoreChars(Chars(parts), part)
<1> DEFINE n == Len(parts)
           longer == Append(parts, part)
<1>1. n \in Nat /\ longer \in Seq(X) /\ Len(longer) = n + 1
  BY LenProperties
<1>2. \A k \in 1..n : longer[k] = parts[k]
  OBVIOUS
<1>3. longer[n + 1] = part
  OBVIOUS
<1> HIDE DEF longer
<1>4. PICK g : CharsFold(parts, n, g) /\ Chars(parts) = g[1..n]
  BY CharsIsFold
<1>5. PICK h : CharsFold(longer, n + 1, h) /\ Chars(longer) = h[1..n + 1]
  BY <1>1, CharsIsFold
<1>6. /\ g[1..0] = 0
      /\ \A k \in 0..n - 1 : g[1..k + 1] = MoreChars(g[1..k], parts[k + 1])
  BY <1>1, <1>4, CharsFoldStep
<1>7. /\ h[1..0] = 0
      /\ \A k \in 0..n : h[1..k + 1] = MoreChars(h[1..k], longer[k + 1])
  <2>1. (n + 1) - 1 = n /\ n + 1 \in Nat
    BY <1>1
  <2>2. CharsFold(longer, n + 1, h)
    BY <1>5
  <2> HIDE DEF n
  <2> DEFINE m == n + 1
  <2>3. m \in Nat /\ m - 1 = n /\ CharsFold(longer, m, h)
    BY <2>1, <2>2
  <2> HIDE DEF m
  <2>4. /\ h[1..0] = 0
        /\ \A k \in 0..m - 1 : h[1..k + 1] = MoreChars(h[1..k], longer[k + 1])
    BY <2>3, CharsFoldStep
  <2> QED
    BY <2>3, <2>4
<1> HIDE DEF n
<1> DEFINE S == {k \in Nat : k =< n => h[1..k] = g[1..k]}
<1>8. 0 \in S
  BY <1>6, <1>7
<1>9. ASSUME NEW k \in Nat, k \in S PROVE k + 1 \in S
  <2> SUFFICES ASSUME k + 1 =< n PROVE h[1..k + 1] = g[1..k + 1]
    OBVIOUS
  <2>1. k \in 0..n - 1 /\ k \in 0..n /\ k + 1 \in 1..n /\ k =< n
    BY <1>1
  <2> QED
    BY <1>2, <1>6, <1>7, <1>9, <2>1 DEF n
<1> HIDE DEF S
<1>10. n \in S
  BY <1>1, <1>8, <1>9, AllNumbers
<1>11. h[1..n] = g[1..n]
  BY <1>1, <1>10 DEF S
<1>12. h[1..n + 1] = MoreChars(h[1..n], longer[n + 1])
  BY <1>1, <1>7
<1> QED
  BY <1>3, <1>4, <1>5, <1>11, <1>12 DEF longer, n

\* The characters of two texts, and of a text that is not empty
LEMMA CharsConcat ==
    ASSUME NEW x \in Text
    PROVE  \A y \in Text : x \o y \in Text /\ Chars(x \o y) = Chars(x) + Chars(y) /\ Chars(y) \in Nat
<1> DEFINE Good(y) == x \o y \in Text /\ Chars(x \o y) = Chars(x) + Chars(y) /\ Chars(y) \in Nat
           S == {y \in Seq(Token) : Good(y)}
<1>0. x \in Seq(Token)
  BY DEF Text
<1>1. ASSUME NEW s \in Seq(Token), NEW t \in Token
      PROVE  Chars(Append(s, t)) = Chars(s) + Width[t] /\ Width[t] \in Nat
  BY CharsAppend, WidthAssumption DEF MoreChars
<1>2. \A s \in Seq(Token) : Chars(s) \in Nat
  <2> DEFINE T == {s \in Seq(Token) : Chars(s) \in Nat}
  <2>1. <<>> \in T
    BY CharsEmpty, EmptySeq
  <2>2. ASSUME NEW s \in Seq(Token), NEW t \in Token, s \in T PROVE Append(s, t) \in T
    <3>1. Append(s, t) \in Seq(Token)
      OBVIOUS
    <3> QED
      BY <1>1, <2>2, <3>1
  <2> HIDE DEF T
  <2>3. \A s \in Seq(Token) : s \in T
    BY <2>1, <2>2, AllSequences
  <2> QED
    BY <2>3 DEF T
<1>3. <<>> \in S
  <2>1. x \o <<>> = x
    BY <1>0, ConcatEmptySeq
  <2>2. <<>> \in Seq(Token) /\ Chars(<<>>) = 0 /\ Chars(x) \in Nat
    BY <1>0, <1>2, CharsEmpty, EmptySeq
  <2> QED
    BY <2>1, <2>2
<1>4. ASSUME NEW y \in Seq(Token), NEW t \in Token, y \in S PROVE Append(y, t) \in S
  <2>1. x \o Append(y, t) = Append(x \o y, t)
    BY <1>0, ConcatAppend
  <2>2. x \o y \in Seq(Token) /\ Append(y, t) \in Seq(Token)
    BY <1>0, ConcatProperties
  <2>3. Chars(Append(x \o y, t)) = Chars(x \o y) + Width[t]
    BY <1>1, <2>2
  <2>4. Chars(Append(y, t)) = Chars(y) + Width[t]
    BY <1>1
  <2>5. Chars(x \o y) = Chars(x) + Chars(y)
    BY <1>4
  <2>6. Chars(x) \in Nat /\ Chars(y) \in Nat /\ Width[t] \in Nat
    BY <1>0, <1>1, <1>2
  <2>7. Append(x \o y, t) \in Text
    BY <2>2 DEF Text
  <2>8. Good(Append(y, t))
    BY <2>1, <2>3, <2>4, <2>5, <2>6, <2>7
  <2> HIDE DEF Good
  <2> QED
    BY <2>2, <2>8
<1> HIDE DEF S
<1>5. \A y \in Seq(Token) : y \in S
  BY <1>3, <1>4, AllSequences
<1> QED
  BY <1>5 DEF S, Text

LEMMA CharsAreMany == ASSUME NEW y \in Text PROVE Chars(y) \in Nat /\ Chars(<<>>) = 0
<1>1. <<>> \in Text
  BY EmptySeq DEF Text
<1> QED
  BY <1>1, CharsConcat, CharsEmpty

LEMMA CharsOfSlash == Chars(<<"/">>) = 1 /\ <<"/">> \in Text
<1>1. <<>> \in Seq(Token) /\ "/" \in Token /\ Append(<<>>, "/") = <<"/">>
  BY EmptySeq, WidthAssumption
<1>2. Chars(<<"/">>) = MoreChars(Chars(<<>>), "/")
  BY <1>1, CharsAppend
<1>3. <<"/">> \in Text
  BY <1>1 DEF Text
<1> QED
  BY <1>2, <1>3, CharsEmpty, WidthAssumption DEF MoreChars

LEMMA CharsOfUploads == <<"uploads">> \in NoSlash(Token) /\ Chars(<<"uploads">>) > 1
<1>1. <<>> \in Seq(Token) /\ "uploads" \in Token /\ Append(<<>>, "uploads") = <<"uploads">>
  BY EmptySeq, WidthAssumption
<1>2. Chars(<<"uploads">>) = MoreChars(Chars(<<>>), "uploads")
  BY <1>1, CharsAppend
<1>3. <<"uploads">> \in NoSlash(Token)
  <2>1. \A k \in DOMAIN <<"uploads">> : <<"uploads">>[k] # "/"
    BY WidthAssumption
  <2> QED
    BY <1>1, <2>1 DEF NoSlash
<1> QED
  BY <1>2, <1>3, CharsEmpty, WidthAssumption DEF MoreChars

-----------------------------------------------------------------------------
(* One more directory                                                      *)

Name == NoSlash(Token)

\* NextDir, of any text and name
After(text, name) ==
    text \o (IF Chars(text) > 1 /\ Last(text) # "/" THEN <<"/">> ELSE <<>>) \o name

\* Whether the loops can go on with name after text, and with any after text
Follows(text, name) == text \in {<<>>, <<"/">>} /\ Chars(name) > 1
Leads(text) == text # <<>> /\ Last(text) # "/" /\ Chars(text) > 1

LEMMA NameFacts ==
    ASSUME NEW name \in Name
    PROVE  /\ name \in Text /\ name \in Seq(Token) /\ Parts(name) = <<name>>
           /\ name # <<>> => Last(name) # "/"
<1>1. name \in Seq(Token) /\ \A k \in DOMAIN name : name[k] # "/"
  BY DEF Name, NoSlash
<1>2. Parts(name) = <<name>>
  BY <1>1, PartsOfName
<1>3. name # <<>> => Last(name) # "/"
  <2>1. name # <<>> => Len(name) \in DOMAIN name
    BY <1>1, EmptySeq
  <2> QED
    BY <1>1, <2>1 DEF Last
<1> QED
  BY <1>1, <1>2, <1>3 DEF Text

LEMMA NamesFacts ==
    ASSUME NEW text \in Text
    PROVE  Parts(text) \in Seq(Name) /\ Parts(text) \in Seq(Text) /\ Parts(text) # <<>>
<1>1. Parts(text) \in Seq(Name) /\ Parts(text) # <<>>
  BY PartsAreNames, WidthAssumption DEF Text, Name
<1>2. Parts(text) \in Seq(Text)
  BY PartsAre DEF Text
<1> QED
  BY <1>1, <1>2

\* The last token of two texts
LEMMA LastOfTwo ==
    ASSUME NEW X, NEW s \in Seq(X), NEW t \in Seq(X), t # <<>>
    PROVE  s \o t # <<>> /\ Last(s \o t) = Last(t)
<1>1. Len(s) \in Nat /\ Len(t) \in Nat \ {0} /\ s \o t \in Seq(X) /\ Len(s \o t) = Len(s) + Len(t)
      /\ \A k \in Len(s) + 1..Len(s) + Len(t) : (s \o t)[k] = t[k - Len(s)]
  BY JoinIs, LenProperties, EmptySeq
<1>2. Len(s) + Len(t) \in Len(s) + 1..Len(s) + Len(t) /\ (Len(s) + Len(t)) - Len(s) = Len(t)
  BY <1>1
<1>3. (s \o t)[Len(s) + Len(t)] = t[Len(t)]
  BY <1>1, <1>2
<1> QED
  BY <1>1, <1>3, EmptySeq DEF Last

\* What the text with one more name is
Onward(text, name, next) ==
    /\ next \in Text /\ Leads(next)
    /\ \E q \in Seq(Text) : Parts(next) = Append(q, name) /\ Same(q, Parts(text))

LEMMA AfterFollows ==
    ASSUME NEW text, NEW name \in Name, name # <<>>, Follows(text, name)
    PROVE  Onward(text, name, After(text, name))
<1>0. name \in Text /\ name \in Seq(Token) /\ Parts(name) = <<name>> /\ Last(name) # "/"
  BY NameFacts
<1>1. text \in Text /\ Chars(text) \in {0, 1}
  BY CharsEmpty, CharsOfSlash, EmptySeq DEF Follows, Text
<1>2. After(text, name) = text \o name
  <2>1. ~(Chars(text) > 1)
    BY <1>1
  <2>2. After(text, name) = text \o <<>> \o name
    BY <2>1 DEF After
  <2>3. text \o <<>> = text
    BY <1>1, ConcatEmptySeq DEF Text
  <2> QED
    BY <2>2, <2>3
<1>3. text \o name \in Text /\ Chars(text \o name) = Chars(text) + Chars(name) /\ Chars(name) \in Nat
  BY <1>0, <1>1, CharsConcat
<1>4. Leads(text \o name)
  <2>1. text \o name # <<>> /\ Last(text \o name) = Last(name)
    BY <1>0, <1>1, LastOfTwo DEF Text
  <2>2. Chars(text \o name) > 1
    BY <1>1, <1>3 DEF Follows
  <2> QED
    BY <1>0, <2>1, <2>2 DEF Leads
<1>5. <<>> \in Text /\ <<>> \in Seq(Text) /\ Parts(<<>>) = <<(<<>>)>>
  BY EmptySeq, PartsOfNothing DEF Text
<1>6. \E q \in Seq(Text) : Parts(text \o name) = Append(q, name) /\ Same(q, Parts(text))
  <2>1. CASE text = <<>>
    <3>1. text \o name = name /\ Append(<<>>, name) = <<name>>
      BY <1>0, <2>1
    <3>2. Same(<<>>, <<(<<>>)>>)
      <4>1. Append(<<>>, <<>>) = <<(<<>>)>>
        OBVIOUS
      <4>2. Below(<<(<<>>)>>) = Normalise(<<>>, <<>>)
        BY <1>5, <4>1, BelowAppend, BelowEmpty
      <4>3. Normalise(<<>>, <<>>) = <<>>
        <5>1. <<>> # <<"..">>
          OBVIOUS
        <5> QED
          BY <5>1 DEF Normalise
      <4>4. \A d : Dirs(d, <<(<<>>)>>) => Dirs(d, <<>>)
        BY <1>5, <4>1, DirsAppend
      <4> QED
        BY <4>2, <4>3, <4>4, BelowEmpty DEF Same
    <3> QED
      BY <1>0, <1>5, <2>1, <3>1, <3>2
  <2>2. CASE text = <<"/">>
    <3>1. text \o name = <<>> \o <<"/">> \o name
      BY <2>2
    <3>2. Parts(text \o name) = Parts(<<>>) \o Parts(name)
      BY <1>0, <1>5, <3>1, TextParts
    <3>3. Parts(text \o name) = Append(<<(<<>>)>>, name)
      BY <1>0, <1>5, <3>2
    <3>4. Parts(text) = Append(<<(<<>>)>>, <<>>)
      <4>1. text = <<>> \o <<"/">> \o <<>>
        BY <2>2
      <4>2. Parts(text) = Parts(<<>>) \o Parts(<<>>)
        BY <1>5, <4>1, TextParts
      <4> QED
        BY <1>5, <4>2
    <3> DEFINE q == <<(<<>>)>>
    <3>5. q \in Seq(Text)
      BY <1>5
    <3> HIDE DEF q
    <3>6. Same(q, Append(q, <<>>))
      <4>1. Below(Append(q, <<>>)) = Below(q)
        <5>1. Below(Append(q, <<>>)) = Normalise(Below(q), <<>>)
          BY <1>5, <3>5, BelowAppend
        <5>2. \A names : Normalise(names, <<>>) = names
          BY DEF Normalise
        <5> QED
          BY <5>1, <5>2
      <4>2. \A d : Dirs(d, Append(q, <<>>)) => Dirs(d, q)
        BY <1>5, <3>5, DirsAppend
      <4> QED
        BY <4>1, <4>2 DEF Same
    <3> QED
      BY <3>3, <3>4, <3>5, <3>6 DEF q
  <2> QED
    BY <2>1, <2>2 DEF Follows
<1> QED
  BY <1>2, <1>3, <1>4, <1>6 DEF Onward

LEMMA AfterLeads ==
    ASSUME NEW text \in Text, NEW name \in Name, name # <<>>, Leads(text)
    PROVE  Onward(text, name, After(text, name))
<1>0. name \in Text /\ name \in Seq(Token) /\ Parts(name) = <<name>> /\ Last(name) # "/"
  BY NameFacts
<1>1. After(text, name) = text \o <<"/">> \o name
  BY DEF After, Leads
<1> DEFINE slashed == text \o <<"/">>
<1>2. slashed \in Text /\ Chars(slashed) = Chars(text) + 1 /\ Chars(text) \in Nat
  BY CharsConcat, CharsOfSlash, CharsAreMany
<1> HIDE DEF slashed
<1>3. /\ slashed \o name \in Text /\ Chars(slashed \o name) = Chars(slashed) + Chars(name)
      /\ Chars(name) \in Nat
  BY <1>0, <1>2, CharsConcat
<1>4. Leads(slashed \o name)
  <2>1. slashed \o name # <<>> /\ Last(slashed \o name) = Last(name)
    BY <1>0, <1>2, LastOfTwo DEF Text
  <2>2. Chars(slashed \o name) > 1
    BY <1>2, <1>3 DEF Leads
  <2> QED
    BY <1>0, <2>1, <2>2 DEF Leads
<1>5. Parts(slashed \o name) = Append(Parts(text), name)
  <2>1. Parts(slashed \o name) = Parts(text) \o Parts(name)
    BY <1>0, TextParts DEF slashed
  <2> DEFINE p == Parts(text)
  <2>2. p \in Seq(Text)
    BY NamesFacts
  <2> HIDE DEF p
  <2>3. p \o <<name>> = Append(p, name)
    BY <1>0, <2>2
  <2> QED
    BY <1>0, <2>1, <2>3 DEF p
<1>6. Parts(text) \in Seq(Text) /\ Same(Parts(text), Parts(text))
  BY NamesFacts DEF Same
<1> QED
  BY <1>1, <1>3, <1>4, <1>5, <1>6 DEF Onward, slashed
-----------------------------------------------------------------------------
(* The loops that make directories                                         *)

\* A loop that has made the directories of the parts done, of all the parts
Underway(parts, done, text, names) ==
    \E rest \in Seq(Name) :
        /\ parts = done \o rest
        /\ names = Filled(rest) /\ names # <<>>
        /\ text \in Text /\ Same(Parts(text), done)
        /\ Follows(text, Head(names)) \/ Leads(text)

\* Its next round: the directory after before is that of name
Round(parts, done, text, names, before, name) ==
    /\ name = Head(names) /\ name # <<>>
    /\ Same(before, done)
    /\ \E rest \in Seq(Name) : parts = Append(before, name) \o rest /\ Filled(rest) = Tail(names)
    /\ \E q \in Seq(Text) : Parts(After(text, name)) = Append(q, name) /\ Same(q, before)
    /\ After(text, name) \in Text /\ Leads(After(text, name))

LEMMA NamesAreTexts == Name \subseteq Text /\ Seq(Name) \subseteq Seq(Text) /\ <<>> \in Name
<1>1. Name \subseteq Text
  BY DEF Name, NoSlash, Text
<1>2. <<>> \in Name
  BY EmptySeq DEF Name, NoSlash
<1> QED
  BY <1>1, <1>2, SeqMonotonic

LEMMA NextRound ==
    ASSUME NEW parts, NEW done \in Seq(Name), NEW text, NEW names, Underway(parts, done, text, names)
    PROVE  \E before \in Seq(Name), name \in Name : Round(parts, done, text, names, before, name)
<1>1. PICK rest \in Seq(Name) :
          /\ parts = done \o rest
          /\ names = Filled(rest) /\ names # <<>>
          /\ text \in Text /\ Same(Parts(text), done)
          /\ Follows(text, Head(names)) \/ Leads(text)
  BY DEF Underway
<1>2. PICK a \in Seq({<<>>}), name \in Name, b \in Seq(Name) : FirstFilled(rest, a, name, b)
  BY <1>1, FilledSplit, OnlyEmpty
<1>3. /\ rest = (a \o <<name>>) \o b /\ name # <<>> /\ name = Head(names)
      /\ Filled(b) = Tail(names)
  BY <1>1, <1>2 DEF FirstFilled
<1> DEFINE before == done \o a
<1>4. a \in Seq(Name) /\ <<name>> \in Seq(Name) /\ Append(a, name) \in Seq(Name)
      /\ a \o <<name>> = Append(a, name)
  <2>1. a \in Seq(Name)
    BY NamesAreTexts, SeqMonotonic
  <2> QED
    BY <2>1
<1>5. /\ before \in Seq(Name) /\ Below(before) = Below(done)
      /\ \A d : Dirs(d, done) => Dirs(d, before)
  BY NamesAreTexts, EmptyParts
<1>6. \A d : Dirs(d, before) => Dirs(d, done)
  BY <1>4, DirsBefore
<1>7. done \o Append(a, name) = Append(before, name)
  BY <1>4, ConcatAppend
<1>8. done \o rest = (done \o Append(a, name)) \o b
  <2> DEFINE c == Append(a, name)
  <2>1. c \in Seq(Name) /\ rest = c \o b
    BY <1>3, <1>4
  <2> HIDE DEF c
  <2>2. (done \o c) \o b = done \o (c \o b)
    BY <2>1, ConcatAssociative, SMTT(60)
  <2> QED
    BY <2>1, <2>2 DEF c
<1>9. parts = Append(before, name) \o b
  BY <1>1, <1>7, <1>8
<1> HIDE DEF before
<1>10. Onward(text, name, After(text, name))
  BY <1>1, <1>3, AfterFollows, AfterLeads
<1>11. PICK q \in Seq(Text) : Parts(After(text, name)) = Append(q, name) /\ Same(q, Parts(text))
  BY <1>10 DEF Onward
<1>12. Same(q, before)
  BY <1>1, <1>5, <1>6, <1>11 DEF Same
<1>13. Same(before, done)
  BY <1>5 DEF Same
<1>14. Round(parts, done, text, names, before, name)
  BY <1>3, <1>9, <1>10, <1>11, <1>12, <1>13 DEF Round, Onward
<1> QED
  BY <1>5, <1>14

\* After the round
LEMMA RoundDone ==
    ASSUME NEW parts, NEW done, NEW text, NEW names, NEW before \in Seq(Name), NEW name \in Name,
           Round(parts, done, text, names, before, name)
    PROVE  /\ Tail(names) # <<>> =>
                  Underway(parts, Append(before, name), After(text, name), Tail(names))
           /\ Tail(names) = <<>> => \A d : Dirs(d, Append(before, name)) => Dirs(d, parts)
<1> DEFINE done2 == Append(before, name)
<1>1. done2 \in Seq(Name)
  OBVIOUS
<1>2. PICK rest \in Seq(Name) : parts = done2 \o rest /\ Filled(rest) = Tail(names)
  BY DEF Round
<1>3. PICK q \in Seq(Text) : Parts(After(text, name)) = Append(q, name) /\ Same(q, before)
  BY DEF Round
<1>4. Same(Append(q, name), done2)
  <2>1. before \in Seq(Text) /\ name \in Text
    BY NamesAreTexts
  <2> QED
    BY <1>3, <2>1, SameAppend
<1> HIDE DEF done2
<1>5. Tail(names) # <<>> => Underway(parts, done2, After(text, name), Tail(names))
  BY <1>2, <1>3, <1>4 DEF Round, Underway
<1>6. ASSUME Tail(names) = <<>>, NEW d, Dirs(d, done2) PROVE Dirs(d, parts)
  <2>1. rest \in Seq({<<>>})
    <3> SUFFICES ASSUME rest \notin Seq({<<>>}) PROVE FALSE
      OBVIOUS
    <3>1. PICK a \in Seq({<<>>}), x \in Name, b \in Seq(Name) : FirstFilled(rest, a, x, b)
      BY FilledSplit
    <3> DEFINE s == a \o <<x>>
    <3>2. rest = s \o b /\ x # <<>> /\ Filled(s \o b) = Filled(s) \o Filled(b)
      <4>1. a \in Seq(Name) /\ <<x>> \in Seq(Name)
        BY NamesAreTexts, SeqMonotonic
      <4>2. s \in Seq(Name)
        BY <4>1, ConcatProperties
      <4> HIDE DEF s
      <4>3. Filled(s \o b) = Filled(s) \o Filled(b)
        BY <4>2, FilledConcat
      <4> QED
        BY <3>1, <4>3 DEF FirstFilled, s
    <3>3. Filled(s) # <<>>
      <4>1. a \in Seq(Name) /\ s = Append(a, x)
        BY NamesAreTexts, SeqMonotonic
      <4>2. Filled(Append(a, x)) = Append(Filled(a), x)
        BY <3>2, <4>1, FilledAppend, FillIs
      <4>3. Filled(a) = <<>> /\ Append(<<>>, x) # <<>>
        BY OnlyEmpty
      <4> QED
        BY <4>1, <4>2, <4>3
    <3> HIDE DEF s
    <3>4. Filled(s) \o Filled(b) # <<>>
      <4> DEFINE Y == Name \ {<<>>}
                 u == Filled(s)
                 v == Filled(b)
      <4>1. v \in Seq(Y)
        BY FilledType
      <4>2. u \in Seq(Y)
        <5>1. s \in Seq(Name)
          <6>1. a \in Seq(Name) /\ <<x>> \in Seq(Name)
            BY NamesAreTexts, SeqMonotonic
          <6> QED
            BY <6>1, ConcatProperties DEF s
        <5> QED
          BY <5>1, FilledType
      <4>3. u # <<>>
        BY <3>3
      <4> HIDE DEF Y, u, v
      <4>4. Len(u) \in Nat \ {0} /\ Len(v) \in Nat /\ Len(u \o v) = Len(u) + Len(v)
        BY <4>1, <4>2, <4>3, JoinIs, LenProperties, EmptySeq
      <4>5. u \o v # <<>>
        BY <4>4
      <4> QED
        BY <4>5 DEF u, v
    <3> QED
      BY <1>2, <1>6, <3>2, <3>4
  <2> QED
    BY <1>1, <1>2, <1>6, <2>1, NamesAreTexts, EmptyParts
<1> QED
  BY <1>5, <1>6 DEF done2

\* Where the round leads
Leading(parts, text, before, name, d) ==
    /\ Walk(d, After(text, name)) \in {Nowhere} \cup Ways(parts)
    /\ Dirs(d, before) => Walk(d, After(text, name)) = Below(Append(before, name))
    /\ Below(Append(before, name)) \in Ways(parts)

LEMMA RoundLeads ==
    ASSUME NEW parts, NEW done, NEW text, NEW names, NEW before \in Seq(Name), NEW name \in Name,
           Round(parts, done, text, names, before, name), NEW d
    PROVE  Leading(parts, text, before, name, d)
<1>1. PICK q \in Seq(Text) : Parts(After(text, name)) = Append(q, name) /\ Same(q, before)
  BY DEF Round
<1>2. PICK rest \in Seq(Name) : parts = Append(before, name) \o rest
  BY DEF Round
<1>3. before \in Seq(Text) /\ name \in Text
  BY NamesAreTexts
<1>4. Walk(d, After(text, name)) = IF Dirs(d, q) THEN Below(Append(q, name)) ELSE Nowhere
  BY <1>1, <1>3, WalkIs
<1>5. Below(Append(q, name)) = Below(Append(before, name))
  BY <1>1, <1>3, SameAppend DEF Same
<1> DEFINE s == Append(before, name)
<1>6. s \in Seq(Name) /\ s # <<>>
  OBVIOUS
<1> HIDE DEF s
<1>7. Below(s) \in Ways(s \o rest)
  BY <1>6, WaysOfBeginning
<1>8. Dirs(d, before) => Dirs(d, q)
  BY <1>1 DEF Same
<1> QED
  BY <1>2, <1>4, <1>5, <1>7, <1>8 DEF s, Leading

\* A loop starts before the first name
LEMMA Starting ==
    ASSUME NEW text \in Text, Names(text) # <<>>, Chars(Head(Names(text))) > 1
    PROVE  Underway(Parts(text), <<>>, IF Head(text) = "/" THEN <<"/">> ELSE <<>>, Names(text))
<1> DEFINE p == Parts(text)
           first == IF Head(text) = "/" THEN <<"/">> ELSE <<>>
<1>1. p \in Seq(Name) /\ Names(text) = Filled(p)
  BY NamesFacts DEF Names
<1> HIDE DEF p
<1>2. p = <<>> \o p
  BY <1>1, ConcatEmptySeq
<1>3. first \in {<<>>, <<"/">>} /\ first \in Text
  BY CharsOfSlash, EmptySeq DEF Text
<1> HIDE DEF first
<1>4. Parts(<<>>) = <<(<<>>)>> /\ <<>> \in Text /\ <<>> \in Seq(Text)
  BY PartsOfNothing, EmptySeq DEF Text
<1>5. Parts(first) \in Seq({<<>>})
  <2>1. Parts(<<>>) \in Seq({<<>>})
    <3>1. \A X : \A y \in X : <<y>> \in Seq(X)
      OBVIOUS
    <3> QED
      BY <1>4, <3>1
  <2>2. Parts(<<"/">>) \in Seq({<<>>})
    <3>1. <<"/">> = <<>> \o <<"/">> \o <<>>
      OBVIOUS
    <3>2. Parts(<<"/">>) = Parts(<<>>) \o Parts(<<>>)
      BY <1>4, <3>1, TextParts
    <3> DEFINE e == Parts(<<>>)
               Y == {<<>>}
    <3>3. e \in Seq(Y)
      BY <2>1
    <3> HIDE DEF e, Y
    <3>4. e \o e \in Seq(Y)
      BY <3>3, ConcatProperties
    <3> QED
      BY <3>2, <3>4 DEF e, Y
  <2> QED
    BY <1>3, <2>1, <2>2
<1>6. Same(Parts(first), <<>>)
  <2> DEFINE e == Parts(first)
  <2>1. e \in Seq({<<>>})
    BY <1>5
  <2> HIDE DEF e
  <2>2. <<>> \o e = e
    BY <2>1, ConcatEmptySeq
  <2>3. Below(<<>> \o e) = Below(<<>>) /\ \A d : Dirs(d, <<>>) => Dirs(d, <<>> \o e)
    BY <1>4, <2>1, EmptyParts
  <2> QED
    BY <2>2, <2>3 DEF Same, e
<1>7. Follows(first, Head(Names(text)))
  BY <1>3 DEF Follows
<1> QED
  BY <1>1, <1>2, <1>3, <1>6, <1>7 DEF Underway, p, first
-----------------------------------------------------------------------------
(* The texts of an upload                                                  *)

LEMMA DirOfText ==
    ASSUME NEW X, "/" \in X, NEW before \in Seq(X), NEW name \in NoSlash(X), NEW text,
           text = before \o <<"/">> \o name
    PROVE  DirOf(text) = before
<1> DEFINE slashed == before \o <<"/">>
           m == Len(before)
           n == Len(name)
<1>1. name \in Seq(X) /\ n \in Nat /\ \A k \in 1..n : name[k] # "/"
  BY LenProperties DEF NoSlash
<1>2. /\ slashed \in Seq(X) /\ Len(slashed) = m + 1 /\ m \in Nat
      /\ slashed[m + 1] = "/" /\ SubSeq(slashed, 1, m) = before
  <2>1. <<"/">> \in Seq(X) /\ slashed = Append(before, "/") /\ m \in Nat
    BY LenProperties
  <2>2. slashed[m + 1] = "/" /\ Len(slashed) = m + 1
    BY <2>1
  <2>3. SubSeq(slashed, 1, m) = before
    BY <2>1, BeginningIs
  <2> QED
    BY <2>1, <2>2, <2>3, ConcatProperties
<1> HIDE DEF slashed
<1>3. /\ text = slashed \o name /\ text \in Seq(X) /\ Len(text) = (m + 1) + n
      /\ \A k \in 1..m + 1 : text[k] = slashed[k]
      /\ \A k \in (m + 1) + 1..(m + 1) + n : text[k] = name[k - (m + 1)]
  <2>1. /\ slashed \o name \in Seq(X) /\ Len(slashed \o name) = Len(slashed) + Len(name)
        /\ \A k \in 1..Len(slashed) : (slashed \o name)[k] = slashed[k]
        /\ \A k \in Len(slashed) + 1..Len(slashed) + Len(name) :
               (slashed \o name)[k] = name[k - Len(slashed)]
    BY <1>1, <1>2, JoinIs
  <2> QED
    BY <1>2, <2>1 DEF slashed
<1> HIDE DEF m, n
<1>4. DOMAIN text = 1..(m + 1) + n
  BY <1>3, LenProperties
<1> DEFINE Slash(k) == k \in DOMAIN text /\ text[k] = "/" /\ \A j \in DOMAIN text : text[j] = "/" => j <= k
<1>5. ASSUME NEW j \in DOMAIN text, text[j] = "/" PROVE j <= m + 1
  <2> SUFFICES ASSUME ~(j <= m + 1) PROVE FALSE
    OBVIOUS
  <2>1. j \in (m + 1) + 1..(m + 1) + n /\ j - (m + 1) \in 1..n
    BY <1>1, <1>2, <1>4
  <2> QED
    BY <1>1, <1>3, <1>5, <2>1
<1>6. m + 1 \in DOMAIN text /\ text[m + 1] = "/"
  <2>1. m + 1 \in 1..m + 1 /\ m + 1 \in 1..(m + 1) + n
    BY <1>1, <1>2
  <2> QED
    BY <1>2, <1>3, <1>4, <2>1
<1>7. Slash(m + 1)
  BY <1>5, <1>6
<1>8. ASSUME NEW k, Slash(k) PROVE k = m + 1
  <2>0. k \in DOMAIN text /\ text[k] = "/" /\ m + 1 <= k
    BY <1>6, <1>8
  <2>1. k <= m + 1 /\ m + 1 <= k /\ k \in Nat
    BY <1>1, <1>2, <1>4, <1>5, <2>0
  <2> HIDE DEF Slash
  <2> QED
    BY <1>2, <2>1
<1> DEFINE last == CHOOSE k \in DOMAIN text : /\ text[k] = "/"
                                             /\ \A j \in DOMAIN text : text[j] = "/" => j <= k
<1>9. last = m + 1
  <2>1. Slash(last)
    BY <1>7
  <2> HIDE DEF last, Slash
  <2> QED
    BY <1>8, <2>1
<1>10. DirOf(text) = SubSeq(text, 1, last - 1)
  BY DEF DirOf
<1> HIDE DEF last
<1>11. DirOf(text) = SubSeq(text, 1, m)
  <2>1. last - 1 = m
    BY <1>2, <1>9
  <2> QED
    BY <1>10, <2>1
<1>12. SubSeq(text, 1, m) = SubSeq(slashed, 1, m)
  <2>1. m \in 0..Len(slashed)
    BY <1>2
  <2> QED
    BY <1>1, <1>2, <1>3, <2>1, Beginning
<1> QED
  BY <1>2, <1>11, <1>12

\* base are the parts above uploads
Based(base) ==
    /\ UploadDir \in Text /\ base # <<>>
    /\ Parts(UploadDir) = Append(base, <<"uploads">>)
    /\ Filled(base) = Names(UploadRoot)
    /\ \A d : Nowhere \notin DOMAIN d /\ IsDir(d, Walk(d, UploadRoot)) => Dirs(d, base)

LEMMA UploadRootType == ASSUME TypeOK, loc > 0 PROVE UploadRoot \in Text /\ UploadRoot # <<>>
<1>1. L \in Location /\ config.root \in Text \ {<<>>}
  <2>1. config \in Configs
    BY DEF TypeOK
  <2> QED
    BY <2>1, LocationText, SiteAssumption DEF SiteAssumption, Config
<1>2. L.uploadDir \in Text /\ L.root \in Text
  BY <1>1 DEF Location
<1> QED
  BY <1>1, <1>2 DEF UploadRoot, Root

LEMMA UploadDirParts == ASSUME TypeOK, loc > 0 PROVE \E base \in Seq(Name) : Based(base)
<1> DEFINE root == UploadRoot
           up == <<"uploads">>
<1>1. root \in Text /\ root # <<>> /\ root \in Seq(Token)
  BY UploadRootType DEF Text
<1>2. up \in Name /\ up \in Text /\ Parts(up) = <<up>>
  BY CharsOfUploads, NameFacts DEF Name
<1>3. UploadDir = root \o (IF Last(root) = "/" THEN <<>> ELSE <<"/">>) \o up
  BY DEF UploadDir
<1> HIDE DEF root, up
<1>4. Parts(root) \in Seq(Name) /\ Parts(root) \in Seq(Text) /\ Parts(root) # <<>>
      /\ Names(root) = Filled(Parts(root))
  BY <1>1, NamesFacts DEF Names
<1>5. ASSUME NEW d, Nowhere \notin DOMAIN d, IsDir(d, Walk(d, root)) PROVE Dirs(d, Parts(root))
  BY <1>4, <1>5, WalkedDirs
<1>6. CASE Last(root) = "/"
  <2>1. PICK u \in Seq(Token) : root = Append(u, "/")
    <3>1. PICK u \in Seq(Token), t \in Token : root = Append(u, t)
      BY <1>1, AppendOrEmpty
    <3>2. Last(Append(u, t)) = t
      BY DEF Last
    <3> QED
      BY <1>6, <3>1, <3>2
  <2>2. u \in Text /\ root = u \o <<"/">> \o <<>> /\ <<>> \in Text /\ root \o <<>> = root
    <3>1. "/" \in Token /\ <<>> \in Text
      BY WidthAssumption, EmptySeq DEF Text
    <3>2. root \o <<>> = root
      BY <1>1, ConcatEmptySeq
    <3>3. root = u \o <<"/">>
      BY <2>1, <3>1
    <3>4. root = u \o <<"/">> \o <<>>
      BY <3>2, <3>3
    <3> QED
      BY <3>1, <3>2, <3>4 DEF Text
  <2>3. UploadDir = u \o <<"/">> \o up
    <3>1. root = u \o <<"/">>
      <4>1. "/" \in Token
        BY WidthAssumption
      <4> QED
        BY <2>1, <4>1
    <3> QED
      BY <1>3, <1>6, <2>2, <3>1
  <2> DEFINE base == Parts(u)
  <2>4. base \in Seq(Name) /\ base \in Seq(Text) /\ base # <<>>
    BY <2>2, NamesFacts
  <2>5. UploadDir \in Text /\ Parts(UploadDir) = base \o <<up>>
    <3>1. u \in Text /\ up \in Text
      BY <1>2, <2>2
    <3>2. (u \o <<"/">> \o up) \in Text /\ Parts(u \o <<"/">> \o up) = Parts(u) \o Parts(up)
      BY <3>1, TextParts
    <3> QED
      BY <1>2, <2>3, <3>2
  <2>6. Parts(root) = base \o Parts(<<>>)
    BY <2>2, TextParts
  <2>7. Parts(<<>>) = <<(<<>>)>>
    BY PartsOfNothing
  <2> HIDE DEF base
  <2>8. base \o <<up>> = Append(base, up) /\ base \o <<(<<>>)>> = Append(base, <<>>)
    BY <1>2, <2>2, <2>4
  <2>9. Parts(root) = Append(base, <<>>) /\ <<>> \in Text
    BY <2>2, <2>6, <2>7, <2>8
  <2>12. Filled(base) = Names(root)
    <3>1. Filled(Append(base, <<>>)) = Fill(Filled(base), <<>>)
      BY <2>4, <2>9, FilledAppend
    <3> QED
      BY <1>4, <2>9, <3>1, FillIs
  <2>10. ASSUME NEW d, Nowhere \notin DOMAIN d, IsDir(d, Walk(d, root)) PROVE Dirs(d, base)
    <3>1. Dirs(d, Append(base, <<>>))
      BY <1>5, <2>9, <2>10
    <3> QED
      BY <2>4, <2>9, <3>1, DirsAppend
  <2>11. Based(base)
    BY <2>4, <2>5, <2>8, <2>10, <2>12 DEF Based, root, up
  <2> QED
    BY <2>4, <2>11
<1>7. CASE Last(root) # "/"
  <2>1. UploadDir = root \o <<"/">> \o up
    BY <1>3, <1>7
  <2>2. UploadDir \in Text /\ Parts(UploadDir) = Parts(root) \o <<up>>
    BY <1>1, <1>2, <2>1, TextParts
  <2> DEFINE base == Parts(root)
  <2>3. base \in Seq(Name) /\ base \in Seq(Text) /\ base # <<>> /\ Filled(base) = Names(root)
        /\ \A d : Nowhere \notin DOMAIN d /\ IsDir(d, Walk(d, root)) => Dirs(d, base)
    BY <1>4, <1>5
  <2>4. Parts(UploadDir) = base \o <<up>>
    BY <2>2
  <2> HIDE DEF base
  <2>5. base \o <<up>> = Append(base, up)
    BY <1>2, <2>3
  <2>6. Based(base)
    BY <2>2, <2>3, <2>4, <2>5 DEF Based, root, up
  <2> QED
    BY <2>3, <2>6
<1> QED
  BY <1>6, <1>7

\* A path below the directory for uploads begins with a name that can be followed
LEMMA SoundParts ==
    ASSUME NEW base \in Seq(Name), Based(base), Sound(UploadRoot), NEW more \in Seq(Name)
    PROVE  LET names == Filled(Parts(UploadDir) \o more)
           IN names # <<>> /\ Chars(Head(names)) > 1
<1> DEFINE up == <<"uploads">>
           Y == Name \ {<<>>}
           f == Filled(base)
           m == Filled(more)
           above == Append(base, up)
<1>1. up \in Name /\ Chars(up) > 1 /\ up # <<>>
  BY CharsOfUploads DEF Name
<1>2. above \in Seq(Name) /\ Parts(UploadDir) = above
  BY <1>1 DEF Based
<1>3. Filled(above) = Append(f, up)
  BY <1>1, FilledAppend, FillIs
<1> HIDE DEF above
<1>4. Filled(above \o more) = Append(f, up) \o m
  BY <1>2, <1>3, FilledConcat
<1>5. f \in Seq(Y) /\ m \in Seq(Y) /\ up \in Y
  BY <1>1, FilledType
<1>6. f # <<>> => Chars(Head(f)) > 1
  BY DEF Sound, Based
<1> HIDE DEF up, Y, f, m
<1> DEFINE g == Append(f, up)
           h == g \o m
<1>7. g \in Seq(Y) /\ Len(g) = Len(f) + 1 /\ Len(f) \in Nat /\ Len(m) \in Nat
      /\ g[Len(f) + 1] = up /\ \A k \in 1..Len(f) : g[k] = f[k]
  BY <1>5
<1> HIDE DEF g
<1>8. h \in Seq(Y) /\ Len(h) = Len(g) + Len(m) /\ \A k \in 1..Len(g) : h[k] = g[k]
  BY <1>5, <1>7, JoinIs
<1> HIDE DEF h
<1>9. h # <<>> /\ Head(h) = h[1] /\ h[1] = g[1]
  <2>1. 1 \in 1..Len(g) /\ Len(h) # 0
    BY <1>7, <1>8
  <2>2. h # <<>>
    BY <2>1
  <2> QED
    BY <1>8, <2>1, <2>2
<1>10. Chars(g[1]) > 1
  <2>1. CASE f = <<>>
    <3>1. Len(f) = 0
      BY <2>1
    <3> QED
      BY <1>1, <1>7, <3>1 DEF up
  <2>2. CASE f # <<>>
    <3>1. 1 \in 1..Len(f)
      BY <1>5, <1>7, <2>2, EmptySeq
    <3>2. Head(f) = f[1]
      BY <1>5, <2>2
    <3> QED
      BY <1>6, <1>7, <2>2, <3>1, <3>2
  <2> QED
    BY <2>1, <2>2
<1> QED
  BY <1>2, <1>4, <1>9, <1>10 DEF g, h

\* The directory and the name of a part's file
Way(k) == Parts(DirOf(FileText(k)))
Filed(k, more, name) ==
    /\ FileText(k) \in Text /\ DirOf(FileText(k)) \in Text
    /\ Way(k) = Parts(UploadDir) \o more
    /\ Parts(FileText(k)) = Append(Way(k), name)

LEMMA FileParts ==
    ASSUME TypeOK, loc > 0, NEW k \in DOMAIN req.parts
    PROVE  \E more \in Seq(Name), name \in Name : Filed(k, more, name)
<1> DEFINE f == req.parts[k].filename
           dir == UploadDir
           text == FileText(k)
<1>1. f \in Text /\ f \in Seq(Token)
  <2>1. req \in Request
    BY SiteAssumption DEF SiteAssumption, TypeOK
  <2>2. req.parts \in Seq([filename : Text, data : STRING])
    BY <2>1 DEF Request
  <2>3. req.parts[k] \in [filename : Text, data : STRING]
    BY <2>2, LenProperties, ElementOfSeq
  <2> QED
    BY <2>3 DEF Text
<1>2. dir \in Text /\ dir \in Seq(Token)
  BY UploadDirParts DEF Based, Text
<1>3. text = dir \o <<"/">> \o f
  BY DEF FileText
<1> HIDE DEF f, dir, text
<1>4. text \in Text /\ Parts(text) = Parts(dir) \o Parts(f) /\ Parts(dir) \in Seq(Name)
  BY <1>1, <1>2, <1>3, TextParts, NamesFacts
<1>5. "/" \in Token
  BY WidthAssumption
<1>6. CASE f \in NoSlash(Token)
  <2>1. f \in Name /\ Parts(f) = <<f>>
    BY <1>6, NameFacts DEF Name
  <2>2. DirOf(text) = dir
    BY <1>2, <1>3, <1>5, <1>6, DirOfText
  <2> DEFINE p == Parts(dir)
  <2>3. p \in Seq(Name) /\ Parts(text) = p \o <<f>>
    BY <1>4, <2>1
  <2> HIDE DEF p
  <2>4. p \o <<f>> = Append(p, f) /\ p = p \o <<>> /\ <<>> \in Seq(Name)
    BY <2>1, <2>3, ConcatEmptySeq, EmptySeq
  <2>5. Filed(k, <<>>, f)
    BY <1>2, <1>4, <2>2, <2>3, <2>4 DEF Filed, Way, p, dir, text
  <2> QED
    BY <2>1, <2>4, <2>5
<1>7. CASE f \notin NoSlash(Token)
  <2>1. PICK a \in Seq(Token), b \in NoSlash(Token) : Ends(f, a, b)
    BY <1>1, <1>5, <1>7, LastPart
  <2>2. a \in Text /\ b \in Name /\ b \in Text /\ b \in Seq(Token) /\ Parts(b) = <<b>>
    BY NameFacts DEF Text, Name
  <2> DEFINE slashed == dir \o <<"/">>
             begun == slashed \o a
  <2>3. /\ begun \in Text /\ Parts(begun) = Parts(dir) \o Parts(a)
        /\ slashed \in Seq(Token) /\ begun \in Seq(Token) /\ <<"/">> \in Seq(Token)
    <3>1. begun \in Text /\ Parts(begun) = Parts(dir) \o Parts(a)
      BY <1>2, <2>2, TextParts
    <3>2. <<"/">> \in Seq(Token)
      BY <1>5
    <3> QED
      BY <1>2, <3>1, <3>2, ConcatProperties DEF Text
  <2>4. text = slashed \o (a \o <<"/">> \o b)
    BY <1>3, <2>1 DEF Ends
  <2> DEFINE s == <<"/">>
  <2>5. s \in Seq(Token)
    BY <2>3
  <2> HIDE DEF slashed, s
  <2>6. text = (slashed \o a) \o s \o b
    <3>1. a \o s \in Seq(Token)
      BY <2>5, ConcatProperties
    <3>2. slashed \o ((a \o s) \o b) = (slashed \o (a \o s)) \o b
      <4> DEFINE c == a \o s
      <4>1. c \in Seq(Token)
        BY <3>1
      <4> HIDE DEF c
      <4>2. (slashed \o c) \o b = slashed \o (c \o b)
        BY <2>2, <2>3, <4>1, ConcatAssociative, SMTT(30)
      <4> QED
        BY <4>2 DEF c
    <3>3. slashed \o (a \o s) = (slashed \o a) \o s
      BY <2>3, <2>5, ConcatAssociative, SMTT(30)
    <3> QED
      BY <2>4, <3>2, <3>3 DEF s
  <2>7. text = begun \o <<"/">> \o b
    BY <2>6 DEF s
  <2> HIDE DEF begun
  <2>8. DirOf(text) = begun
    BY <1>5, <2>2, <2>3, <2>7, DirOfText
  <2>9. Parts(text) = Parts(begun) \o <<b>>
    BY <2>2, <2>3, <2>7, TextParts
  <2> DEFINE p == Parts(begun)
  <2>10. p \in Seq(Name)
    BY <2>3, NamesFacts
  <2> HIDE DEF p
  <2>11. p \o <<b>> = Append(p, b)
    BY <2>2, <2>10
  <2>12. Filed(k, Parts(a), b)
    BY <1>4, <2>3, <2>8, <2>9, <2>11 DEF Filed, Way, p, dir, text
  <2>13. Parts(a) \in Seq(Name)
    BY <2>2, NamesFacts
  <2> QED
    BY <2>2, <2>12, <2>13
<1> QED
  BY <1>6, <1>7

\* The directories a file's name leads through
LEMMA ThroughIs ==
    ASSUME TypeOK, loc > 0, NEW k \in DOMAIN req.parts
    PROVE  /\ Through(k) = Ways(Way(k)) /\ Way(k) \in Seq(Name)
           /\ Ways(Parts(UploadDir)) \subseteq Through(k)
           /\ \A d : Dirs(d, Way(k)) => Walk(d, FileText(k)) = Place(k)
<1>1. PICK more \in Seq(Name), name \in Name : Filed(k, more, name)
  BY FileParts
<1> DEFINE p == Way(k)
           t == Append(p, name)
<1>2. p \in Seq(Name) /\ p = Parts(UploadDir) \o more /\ Parts(FileText(k)) = t
  BY <1>1, NamesFacts DEF Filed, Way
<1>3. Parts(UploadDir) \in Seq(Name)
  BY UploadDirParts, NamesFacts DEF Based
<1> HIDE DEF p
<1>4. Len(t) = Len(p) + 1 /\ Len(p) \in Nat
      /\ \A n \in 0..Len(p) : SubSeq(t, 1, n) = SubSeq(p, 1, n)
  BY <1>2, BeginningOfAppend
<1>5. Through(k) = Ways(p)
  <2>1. Through(k) = {Below(SubSeq(t, 1, n)) : n \in 1..Len(t) - 1}
    BY <1>2 DEF Through
  <2>2. Len(t) - 1 = Len(p) /\ \A n \in 1..Len(p) : SubSeq(t, 1, n) = SubSeq(p, 1, n)
    BY <1>4
  <2> HIDE DEF t
  <2>3. Through(k) = {Below(SubSeq(t, 1, n)) : n \in 1..Len(p)}
    BY <2>1, <2>2
  <2> QED
    BY <2>2, <2>3 DEF Ways
<1>6. Ways(Parts(UploadDir)) \subseteq Ways(p)
  BY <1>2, <1>3, WaysOfBeginning
<1>7. \A d : Dirs(d, p) => Walk(d, FileText(k)) = Below(t)
  BY <1>2, WalkIs
<1> QED
  BY <1>2, <1>5, <1>6, <1>7 DEF p, Place
-----------------------------------------------------------------------------
(* The files while an upload goes on                                       *)

\* mkdir(), and open() and write(), with their failures
Mkdir(e, path) == IF path \in DOMAIN e \/ ~MayChange(e, path) THEN e ELSE Put(e, path, NewDir)
Written(e, path, body) == IF MayOpen(e, path) THEN Write(e, path, body) ELSE e

\* The files d have become the files e: the files at places may be written, and
\* files come there and directories at made
Grown(d, e, places, made) ==
    /\ Nowhere \notin DOMAIN e
    /\ \A path \in DOMAIN d :
           /\ path \in DOMAIN e /\ e[path].kind = d[path].kind /\ e[path].mode = d[path].mode
           /\ path \in places \/ e[path] = d[path]
    /\ \A path \in DOMAIN e \ DOMAIN d :
           \/ path \in made /\ e[path] = NewDir
           \/ path \in places /\ e[path].kind = "file" /\ e[path].mode = {"r", "w"}

\* What is there on the way are directories that may be changed
Clear(e, ways) == \A path \in ways \cap DOMAIN e : IsDir(e, path) /\ Access(e, path, "w")

LEMMA MkdirFacts ==
    ASSUME NEW e, NEW path
    PROVE  /\ \A p \in DOMAIN e : p \in DOMAIN Mkdir(e, path) /\ Mkdir(e, path)[p] = e[p]
           /\ path \in DOMAIN e \/ MayChange(e, path) =>
                  /\ path \in DOMAIN Mkdir(e, path)
                  /\ path \notin DOMAIN e => Mkdir(e, path)[path] = NewDir
           /\ \A p \in DOMAIN Mkdir(e, path) \ DOMAIN e :
                  p = path /\ path # Nowhere /\ Mkdir(e, path)[p] = NewDir
  BY DEF Mkdir, Put, MayChange

LEMMA MkdirGrown ==
    ASSUME NEW d, NEW e, NEW places, NEW made, Grown(d, e, places, made),
           NEW path, path \in {Nowhere} \cup made
    PROVE  Grown(d, Mkdir(e, path), places, made)
<1> DEFINE f == Mkdir(e, path)
<1>1. /\ \A p \in DOMAIN e : p \in DOMAIN f /\ f[p] = e[p]
      /\ \A p \in DOMAIN f \ DOMAIN e : p = path /\ path # Nowhere /\ f[p] = NewDir
  BY MkdirFacts
<1> HIDE DEF f
<1>2. Nowhere \notin DOMAIN f
  BY <1>1 DEF Grown
<1>3. ASSUME NEW p \in DOMAIN d
      PROVE  /\ p \in DOMAIN f /\ f[p].kind = d[p].kind /\ f[p].mode = d[p].mode
             /\ p \in places \/ f[p] = d[p]
  BY <1>1 DEF Grown
<1>4. ASSUME NEW p \in DOMAIN f \ DOMAIN d
      PROVE  \/ p \in made /\ f[p] = NewDir
             \/ p \in places /\ f[p].kind = "file" /\ f[p].mode = {"r", "w"}
  <2>1. CASE p \in DOMAIN e
    BY <1>1, <2>1 DEF Grown
  <2>2. CASE p \notin DOMAIN e
    BY <1>1, <2>2
  <2> QED
    BY <2>1, <2>2
<1>5. Grown(d, f, places, made)
  BY <1>2, <1>3, <1>4 DEF Grown
<1> QED
  BY <1>5 DEF f

LEMMA WrittenFacts ==
    ASSUME NEW e, e \in [DOMAIN e -> Entry], NEW path, NEW body
    PROVE  /\ \A p \in DOMAIN e \ {path} :
                  p \in DOMAIN Written(e, path, body) /\ Written(e, path, body)[p] = e[p]
           /\ path \in DOMAIN e =>
                  /\ path \in DOMAIN Written(e, path, body)
                  /\ Written(e, path, body)[path].kind = e[path].kind
                  /\ Written(e, path, body)[path].mode = e[path].mode
           /\ IsDir(e, path) => Written(e, path, body) = e
           /\ MayOpen(e, path) =>
                  /\ path \in DOMAIN Written(e, path, body)
                  /\ Written(e, path, body)[path].body = body
           /\ \A p \in DOMAIN Written(e, path, body) \ DOMAIN e :
                  /\ p = path /\ path # Nowhere
                  /\ Written(e, path, body)[p].kind = "file"
                  /\ Written(e, path, body)[p].mode = {"r", "w"}
<1> DEFINE f == Written(e, path, body)
           new == IF path \in DOMAIN e THEN [e[path] EXCEPT !.body = body] ELSE FileOf(body)
<1>0. IsDir(e, path) => f = e
  BY DEF Written, MayOpen, IsDir
<1>1. CASE ~MayOpen(e, path)
  BY <1>1 DEF Written
<1>2. CASE MayOpen(e, path)
  <2>1. f = [p \in DOMAIN e \cup {path} |-> IF p = path THEN new ELSE e[p]]
    BY <1>2 DEF Written, Write, Put
  <2>2. path \in DOMAIN e => e[path] \in Entry
    OBVIOUS
  <2>3. /\ new.body = body
        /\ path \in DOMAIN e => new.kind = e[path].kind /\ new.mode = e[path].mode
        /\ path \notin DOMAIN e => new.kind = "file" /\ new.mode = {"r", "w"}
    BY <2>2 DEF Entry, FileOf
  <2>4. path \notin DOMAIN e => path # Nowhere
    BY <1>2 DEF MayOpen, MayChange
  <2> HIDE DEF f, new
  <2>5. /\ DOMAIN f = DOMAIN e \cup {path} /\ f[path] = new
        /\ \A p \in DOMAIN e \ {path} : f[p] = e[p]
    BY <2>1
  <2>6. \A p \in DOMAIN f \ DOMAIN e : p = path /\ path \notin DOMAIN e
    BY <2>5
  <2>7. /\ \A p \in DOMAIN e \ {path} : p \in DOMAIN f /\ f[p] = e[p]
        /\ path \in DOMAIN e =>
               path \in DOMAIN f /\ f[path].kind = e[path].kind /\ f[path].mode = e[path].mode
        /\ path \in DOMAIN f /\ f[path].body = body
    BY <2>3, <2>5
  <2>8. \A p \in DOMAIN f \ DOMAIN e :
            p = path /\ path # Nowhere /\ f[p].kind = "file" /\ f[p].mode = {"r", "w"}
    BY <2>3, <2>4, <2>5, <2>6
  <2> QED
    BY <1>0, <2>7, <2>8 DEF f
<1> QED
  BY <1>1, <1>2

LEMMA WrittenGrown ==
    ASSUME NEW d, NEW e, e \in [DOMAIN e -> Entry], NEW places, NEW made, Grown(d, e, places, made),
           NEW path, path \in {Nowhere} \cup places, NEW body
    PROVE  Grown(d, Written(e, path, body), places, made)
<1> DEFINE f == Written(e, path, body)
<1>1. /\ \A p \in DOMAIN e \ {path} : p \in DOMAIN f /\ f[p] = e[p]
      /\ path \in DOMAIN e =>
             path \in DOMAIN f /\ f[path].kind = e[path].kind /\ f[path].mode = e[path].mode
      /\ IsDir(e, path) => f = e
      /\ \A p \in DOMAIN f \ DOMAIN e :
             p = path /\ path # Nowhere /\ f[p].kind = "file" /\ f[p].mode = {"r", "w"}
  BY WrittenFacts
<1> HIDE DEF f
<1>2. Nowhere \notin DOMAIN f /\ Nowhere \notin DOMAIN e
  BY <1>1 DEF Grown
<1>3. ASSUME NEW p \in DOMAIN d
      PROVE  /\ p \in DOMAIN f /\ f[p].kind = d[p].kind /\ f[p].mode = d[p].mode
             /\ p \in places \/ f[p] = d[p]
  <2>1. /\ p \in DOMAIN e /\ e[p].kind = d[p].kind /\ e[p].mode = d[p].mode
        /\ p \in places \/ e[p] = d[p]
    BY DEF Grown
  <2>2. p = path => p \in places
    BY <1>2, <2>1
  <2>3. CASE p = path
    BY <1>1, <2>1, <2>2, <2>3
  <2>4. CASE p # path
    BY <1>1, <2>1, <2>4
  <2> QED
    BY <2>3, <2>4
<1>4. ASSUME NEW p \in DOMAIN f \ DOMAIN d
      PROVE  \/ p \in made /\ f[p] = NewDir
             \/ p \in places /\ f[p].kind = "file" /\ f[p].mode = {"r", "w"}
  <2>1. CASE p \notin DOMAIN e
    BY <1>1, <2>1
  <2>2. CASE p \in DOMAIN e
    <3>1. \/ p \in made /\ e[p] = NewDir
          \/ p \in places /\ e[p].kind = "file" /\ e[p].mode = {"r", "w"}
      BY <2>2 DEF Grown
    <3>2. CASE p # path
      BY <1>1, <2>2, <3>1, <3>2
    <3>3. CASE p = path
      <4>1. p \in places
        BY <1>2, <2>2, <3>3
      <4>2. CASE e[p] = NewDir
        <5>1. f = e
          BY <1>1, <2>2, <3>3, <4>2 DEF IsDir, NewDir
        <5> QED
          BY <3>1, <5>1
      <4>3. CASE e[p].kind = "file" /\ e[p].mode = {"r", "w"}
        BY <1>1, <2>2, <3>3, <4>1, <4>3
      <4> QED
        BY <3>1, <4>2, <4>3
    <3> QED
      BY <3>2, <3>3
  <2> QED
    BY <2>1, <2>2
<1>5. Grown(d, f, places, made)
  BY <1>2, <1>3, <1>4 DEF Grown
<1> QED
  BY <1>5 DEF f

\* What was clear stays clear, and what could be opened can still be
LEMMA StaysClear ==
    ASSUME NEW d, NEW e, NEW places, NEW made, Grown(d, e, places, made),
           NEW ways, ways \cap places = {}, Clear(d, ways)
    PROVE  Clear(e, ways)
<1> SUFFICES ASSUME NEW path \in ways, path \in DOMAIN e
             PROVE  IsDir(e, path) /\ Access(e, path, "w")
  BY DEF Clear
<1>1. CASE path \in DOMAIN d
  BY <1>1 DEF Clear, Grown, IsDir, Access
<1>2. CASE path \notin DOMAIN d
  <2>1. e[path] = NewDir
    BY <1>2 DEF Grown
  <2> QED
    BY <2>1 DEF NewDir, IsDir, Access
<1> QED
  BY <1>1, <1>2

LEMMA StaysOpen ==
    ASSUME NEW d, NEW e, NEW places, NEW made, Grown(d, e, places, made),
           NEW path \in DOMAIN e, path \notin made, path \in DOMAIN d => MayOpen(d, path)
    PROVE  MayOpen(e, path)
<1>1. CASE path \in DOMAIN d
  BY <1>1 DEF Grown, MayOpen, IsDir, Access
<1>2. CASE path \notin DOMAIN d
  BY <1>2 DEF Grown, MayOpen, IsDir, Access
<1> QED
  BY <1>1, <1>2

LEMMA StayDirs ==
    ASSUME NEW e, NEW f, \A p \in DOMAIN e : p \in DOMAIN f /\ f[p] = e[p],
           NEW parts, Dirs(e, parts)
    PROVE  Dirs(f, parts)
  BY DEF Dirs, IsDir

\* Behind directories something may be made in the last of them
LEMMA MayMake ==
    ASSUME NEW s \in Seq(Name), NEW name \in Name, NEW e, Dirs(e, s),
           Access(e, Below(s), "w"), Below(Append(s, name)) \notin DOMAIN e
    PROVE  MayChange(e, Below(Append(s, name)))
<1> DEFINE path == Below(Append(s, name))
           b == Below(s)
<1>1. name # <<>> /\ b \in Seq(Name) /\ path = Append(b, name)
  BY StepDown
<1>2. IsDir(e, b) /\ Access(e, b, "w")
  BY DirsEnds
<1> HIDE DEF b, path
<1>3. path # <<>> /\ path # Nowhere /\ Front(path) = b
  <2>1. Len(path) = Len(b) + 1 /\ Len(b) \in Nat /\ path[Len(b) + 1] = name
        /\ SubSeq(path, 1, Len(b)) = b
    <3>1. Len(Append(b, name)) = Len(b) + 1 /\ Len(b) \in Nat
          /\ \A n \in 0..Len(b) : SubSeq(Append(b, name), 1, n) = SubSeq(b, 1, n)
      BY <1>1, BeginningOfAppend
    <3>2. SubSeq(b, 1, Len(b)) = b
      BY <1>1, Whole
    <3>3. Len(b) \in 0..Len(b)
      BY <3>1
    <3>4. Append(b, name)[Len(b) + 1] = name
      BY <1>1
    <3> QED
      BY <1>1, <3>1, <3>2, <3>3, <3>4
  <2>2. path # Nowhere
    <3>1. Len(Nowhere) = 1 /\ Nowhere[1] = <<>>
      BY DEF Nowhere
    <3>2. path = Nowhere => Len(b) + 1 = 1
      BY <2>1, <3>1
    <3> QED
      BY <1>1, <2>1, <3>1, <3>2
  <2>3. (Len(b) + 1) - 1 = Len(b)
    BY <2>1
  <2> QED
    BY <2>1, <2>2, <2>3 DEF Front
<1> QED
  BY <1>2, <1>3 DEF MayChange, path

\* A round makes its directory if the way is clear
LEMMA RoundMakes ==
    ASSUME NEW parts, NEW done \in Seq(Name), NEW text, NEW names,
           NEW before \in Seq(Name), NEW name \in Name,
           Round(parts, done, text, names, before, name),
           NEW e, Dirs(e, done), Clear(e, Ways(parts)), IsDir(e, Below(SubSeq(parts, 1, 1)))
    PROVE  LET path == Walk(e, After(text, name))
           IN /\ path \in DOMAIN e \/ MayChange(e, path)
              /\ Dirs(Mkdir(e, path), Append(before, name))
<1> DEFINE path == Walk(e, After(text, name))
           next == Append(before, name)
<1>1. Dirs(e, before)
  BY DEF Round, Same
<1>2. path = Below(next) /\ Below(next) \in Ways(parts)
  <2>1. Leading(parts, text, before, name, e)
    BY RoundLeads
  <2> QED
    BY <1>1, <2>1 DEF Leading
<1> HIDE DEF path
<1>3. PICK rest \in Seq(Name) : parts = next \o rest
  BY DEF Round
<1>4. ASSUME path \notin DOMAIN e PROVE MayChange(e, path)
  <2> DEFINE b == Below(before)
  <2>3. IsDir(e, b)
    BY <1>1, DirsEnds
  <2>4. before # <<>>
    <3> SUFFICES ASSUME before = <<>> PROVE FALSE
      OBVIOUS
    <3>1. next = <<name>> /\ <<name>> \in Seq(Name) /\ Len(<<name>>) = 1
      OBVIOUS
    <3> DEFINE one == <<name>>
    <3>2. one \in Seq(Name) /\ Len(one) = 1 /\ next = one
      BY <3>1
    <3> HIDE DEF one, next
    <3>3. SubSeq(one \o rest, 1, Len(one)) = one
      BY <3>2, BeginningIs
    <3>4. SubSeq(parts, 1, 1) = next
      BY <1>3, <3>2, <3>3
    <3> QED
      BY <1>2, <1>4, <3>4 DEF IsDir
  <2>5. b \in Ways(parts)
    <3>1. next \o rest = before \o (<<name>> \o rest)
      <4> DEFINE one == <<name>>
      <4>1. one \in Seq(Name) /\ next = before \o one
        OBVIOUS
      <4> HIDE DEF one, next
      <4>2. (before \o one) \o rest = before \o (one \o rest)
        BY <4>1, ConcatAssociative, SMTT(30)
      <4> QED
        BY <4>1, <4>2 DEF one
    <3>2. <<name>> \o rest \in Seq(Name)
      BY OneThenMore
    <3>3. Below(before) \in Ways(before \o (<<name>> \o rest))
      <4> DEFINE more == <<name>> \o rest
      <4>1. more \in Seq(Name)
        BY <3>2
      <4> HIDE DEF more
      <4>2. Below(before) \in Ways(before \o more)
        BY <2>4, <4>1, WaysOfBeginning
      <4> QED
        BY <4>2 DEF more
    <3> QED
      BY <1>3, <3>1, <3>3
  <2>6. Access(e, b, "w")
    BY <2>3, <2>5 DEF Clear, IsDir
  <2> QED
    BY <1>1, <1>2, <1>4, <2>6, MayMake
<1>5. Dirs(Mkdir(e, path), next)
  <2>1. Dirs(Mkdir(e, path), before)
    BY <1>1, MkdirFacts, StayDirs
  <2>2. path \in DOMAIN Mkdir(e, path)
    BY <1>4, MkdirFacts
  <2>3. IsDir(Mkdir(e, path), path)
    <3>1. CASE path \in DOMAIN e
      <4>1. IsDir(e, path)
        BY <1>2, <3>1 DEF Clear
      <4> QED
        BY <2>2, <3>1, <4>1, MkdirFacts DEF IsDir
    <3>2. CASE path \notin DOMAIN e
      BY <1>4, <2>2, <3>2, MkdirFacts DEF IsDir, NewDir
    <3> QED
      BY <3>1, <3>2
  <2> QED
    BY <1>2, <2>1, <2>3, DirsAppend
<1> QED
  BY <1>4, <1>5 DEF path

\* A file opens in a directory on a clear way
LEMMA PlaceOpens ==
    ASSUME NEW way \in Seq(Name), way # <<>>, NEW name \in Name, NEW e,
           Dirs(e, way), Clear(e, Ways(way)),
           Below(Append(way, name)) \in DOMAIN e => MayOpen(e, Below(Append(way, name)))
    PROVE  MayOpen(e, Below(Append(way, name)))
<1> DEFINE path == Below(Append(way, name))
           b == Below(way)
<1> SUFFICES ASSUME path \notin DOMAIN e PROVE MayChange(e, path)
  BY DEF MayOpen
<1>1. IsDir(e, b)
  BY DirsEnds
<1>2. b \in Ways(way)
  <2>1. Len(way) \in 1..Len(way) /\ SubSeq(way, 1, Len(way)) = way
    BY Whole, LenProperties, EmptySeq
  <2> QED
    BY <2>1 DEF Ways
<1>3. Access(e, b, "w")
  BY <1>1, <1>2 DEF Clear, IsDir
<1> QED
  BY <1>3, MayMake
-----------------------------------------------------------------------------
(* Uploads                                                                 *)

\* The places of the files of an upload, and of the directories for them
Places == {Place(k) : k \in DOMAIN req.parts} \cup {CsvPlace}
Made == Ways(Parts(UploadDir)) \cup UNION {Through(k) : k \in DOMAIN req.parts}

\* The request is an upload that the files have a directory for
Received(d) ==
    Uploading /\ req.boundary /\ Sound(UploadRoot) /\ IsDir(d, Walk(d, UploadRoot))

Saved(e, k) == Place(k) \in DOMAIN e /\ e[Place(k)].body = <<req.parts[k].data>>

\* How far an upload is that found the files d
Reached(d, at, e, n, text, made, names) ==
    /\ at \in {"method", "idle"} \cup UploadSteps
    /\ at = "method" => e = d /\ n = 1
    /\ Grown(d, e, Places, Made)
    /\ at \in {"redirect", "idle"} => n > Len(req.parts)
    /\ \A k \in Kept(d) : k < n => Saved(e, k)
    /\ at = "mkdir" => \E done \in Seq(Name) : Underway(Parts(UploadDir), done, made, names)
    /\ at = "mkdirFor" =>
           /\ text = FileText(n)
           /\ \E done \in Seq(Name) : /\ Underway(Way(n), done, made, names)
                                      /\ n \in Kept(d) => Dirs(e, done)
    /\ at = "write" => text = FileText(n) /\ (n \in Kept(d) => Dirs(e, Way(n)))

UploadProgress(d) == Reached(d, pc, disk, i, filePath, accum, todo)

\* No file has an empty name
Somewhere == Nowhere \notin DOMAIN disk /\ \A d \in seen : Nowhere \notin DOMAIN d

Uploaded ==
    served > 0 /\ changes = 0 /\ pc # "match" =>
        \A d \in seen : Received(d) => UploadProgress(d)

UInv == DInv /\ Somewhere /\ Uploaded

LEMMA UploadFrame ==
    ASSUME UNCHANGED <<config, req, loc>>
    PROVE  /\ UploadDir' = UploadDir /\ \A k : FileText(k)' = FileText(k) /\ Way(k)' = Way(k)
           /\ \A e, k : Saved(e, k)' <=> Saved(e, k)
           /\ Places' = Places /\ Made' = Made
           /\ \A d : Kept(d)' = Kept(d) /\ (Received(d)' <=> Received(d))
<1>1. L' = L /\ Root' = Root /\ (Uploading' <=> Uploading)
  BY Frame
<1>2. UploadRoot' = UploadRoot
  BY <1>1 DEF UploadRoot
<1>3. UploadDir' = UploadDir
  BY <1>2 DEF UploadDir
<1>4. \A k : FileText(k)' = FileText(k)
  BY <1>3 DEF FileText
<1>5. \A k : Place(k)' = Place(k) /\ Through(k)' = Through(k) /\ Way(k)' = Way(k)
  BY <1>4 DEF Place, Through, Way
<1>6. CsvPlace' = CsvPlace
  BY <1>3 DEF CsvPlace
<1>7. Places' = Places /\ Made' = Made
  BY <1>3, <1>5, <1>6 DEF Places, Made
<1>8. \A d : Kept(d)' = Kept(d)
  BY <1>5, <1>6 DEF Kept
<1>9. \A d : Received(d)' <=> Received(d)
  BY <1>1, <1>2 DEF Received
<1>10. \A e, k : Saved(e, k)' <=> Saved(e, k)
  BY <1>5 DEF Saved
<1> QED
  BY <1>3, <1>4, <1>5, <1>7, <1>8, <1>9, <1>10

LEMMA PartNumbers ==
    ASSUME TypeOK
    PROVE  Len(req.parts) \in Nat /\ DOMAIN req.parts = 1..Len(req.parts)
<1>1. req \in Request
  BY SiteAssumption DEF SiteAssumption, TypeOK
<1>2. req.parts \in Seq([filename : Text, data : STRING])
  BY <1>1 DEF Request
<1> QED
  BY <1>2, LenProperties

\* The way of a part's file that can be kept is clear, and the file may be opened
Ready(k, e) ==
    /\ Clear(e, Ways(Way(k)))
    /\ Place(k) \in DOMAIN e => MayOpen(e, Place(k))

LEMMA KeptIsReady ==
    ASSUME TypeOK, loc > 0, NEW d, NEW e, Grown(d, e, Places, Made), NEW k \in Kept(d)
    PROVE  Ready(k, e)
<1>1. /\ k \in DOMAIN req.parts
      /\ Place(k) # CsvPlace /\ CsvPlace \notin Through(k)
      /\ \A j \in DOMAIN req.parts : Place(j) \notin Through(k) /\ Place(k) \notin Through(j)
      /\ Place(k) \in DOMAIN d => MayOpen(d, Place(k))
      /\ \A path \in Through(k) \cap DOMAIN d : IsDir(d, path) /\ Access(d, path, "w")
  BY DEF Kept
<1>2. Through(k) = Ways(Way(k)) /\ Ways(Parts(UploadDir)) \subseteq Through(k)
  BY <1>1, ThroughIs
<1>3. Through(k) \cap Places = {}
  BY <1>1 DEF Places
<1>4. Clear(d, Through(k))
  BY <1>1 DEF Clear
<1>5. Clear(e, Ways(Way(k)))
  BY <1>2, <1>3, <1>4, StaysClear
<1>6. Place(k) \notin Made
  <2>1. Place(k) \notin Through(k)
    BY <1>1
  <2> QED
    BY <1>1, <1>2, <2>1 DEF Made
<1>7. Place(k) \in DOMAIN e => MayOpen(e, Place(k))
  BY <1>1, <1>6, StaysOpen
<1> QED
  BY <1>5, <1>7 DEF Ready

\* The first directory on the way is there
LEMMA WayBegins ==
    ASSUME TypeOK, loc > 0, NEW d, NEW e, Grown(d, e, Places, Made), Received(d),
           Nowhere \notin DOMAIN d, NEW k \in DOMAIN req.parts
    PROVE  Dirs(e, <<>>) /\ IsDir(e, Below(SubSeq(Way(k), 1, 1)))
<1>1. PICK base \in Seq(Name) : Based(base)
  BY UploadDirParts
<1>2. PICK more \in Seq(Name), name \in Name : Filed(k, more, name)
  BY FileParts
<1>3. Dirs(d, base)
  BY <1>1 DEF Based, Received
<1>4. Dirs(e, base)
  BY <1>3 DEF Dirs, IsDir, Grown
<1>5. Dirs(e, <<>>)
  BY <1>4, DirsEnds, DirsEmpty
<1> DEFINE up == <<"uploads">>
           above == Append(base, up)
<1>6. up \in Name
  BY CharsOfUploads DEF Name
<1>7. Way(k) = above \o more
  BY <1>1, <1>2 DEF Based, Filed
<1>8. above \in Seq(Name) /\ Len(above) = Len(base) + 1 /\ Len(base) \in Nat
      /\ \A n \in 0..Len(base) : SubSeq(above, 1, n) = SubSeq(base, 1, n)
  BY <1>6, BeginningOfAppend
<1> HIDE DEF above
<1>9. 1 \in 0..Len(base) /\ 1 \in 0..Len(above)
  <2>1. Len(base) # 0
    BY <1>1, EmptySeq DEF Based
  <2> QED
    BY <1>8, <2>1
<1>10. SubSeq(above \o more, 1, 1) = SubSeq(above, 1, 1)
  BY <1>8, <1>9, Beginning
<1>11. SubSeq(above, 1, 1) = SubSeq(base, 1, 1)
  BY <1>8, <1>9
<1>12. IsDir(e, Below(SubSeq(base, 1, 1)))
  BY <1>4, <1>9 DEF Dirs
<1> QED
  BY <1>5, <1>7, <1>10, <1>11, <1>12

\* Both loops can start
LEMMA LoopStarts ==
    ASSUME TypeOK, loc > 0, Sound(UploadRoot)
    PROVE  /\ Underway(Parts(UploadDir), <<>>,
                       IF Head(UploadDir) = "/" THEN <<"/">> ELSE <<>>, Names(UploadDir))
           /\ \A k \in DOMAIN req.parts :
                  LET dir == DirOf(FileText(k))
                  IN Underway(Way(k), <<>>, IF Head(dir) = "/" THEN <<"/">> ELSE <<>>, Names(dir))
<1>1. PICK base \in Seq(Name) : Based(base)
  BY UploadDirParts
<1>2. ASSUME NEW text \in Text, NEW more \in Seq(Name), Parts(text) = Parts(UploadDir) \o more
      PROVE  Underway(Parts(text), <<>>, IF Head(text) = "/" THEN <<"/">> ELSE <<>>, Names(text))
  <2>1. Names(text) = Filled(Parts(UploadDir) \o more)
    BY <1>2 DEF Names
  <2>2. Names(text) # <<>> /\ Chars(Head(Names(text))) > 1
    BY <1>1, <2>1, SoundParts
  <2> QED
    BY <2>2, Starting
<1>3. UploadDir \in Text /\ Parts(UploadDir) = Parts(UploadDir) \o <<>> /\ <<>> \in Seq(Name)
  <2> DEFINE p == Parts(UploadDir)
  <2>1. UploadDir \in Text /\ p \in Seq(Name)
    BY <1>1, NamesFacts DEF Based
  <2> HIDE DEF p
  <2>2. p = p \o <<>> /\ <<>> \in Seq(Name)
    BY <2>1, ConcatEmptySeq, EmptySeq
  <2> QED
    BY <2>1, <2>2 DEF p
<1>4. ASSUME NEW k \in DOMAIN req.parts
      PROVE  LET dir == DirOf(FileText(k))
             IN Underway(Way(k), <<>>, IF Head(dir) = "/" THEN <<"/">> ELSE <<>>, Names(dir))
  <2>1. PICK more \in Seq(Name), name \in Name : Filed(k, more, name)
    BY FileParts
  <2> DEFINE dir == DirOf(FileText(k))
  <2>2. dir \in Text /\ Parts(dir) = Parts(UploadDir) \o more /\ Way(k) = Parts(dir)
    BY <2>1 DEF Filed, Way
  <2> HIDE DEF dir
  <2>3. Underway(Parts(dir), <<>>, IF Head(dir) = "/" THEN <<"/">> ELSE <<>>, Names(dir))
    BY <1>2, <2>2
  <2> QED
    BY <2>2, <2>3 DEF dir
<1>5. Underway(Parts(UploadDir), <<>>,
               IF Head(UploadDir) = "/" THEN <<"/">> ELSE <<>>, Names(UploadDir))
  <2> DEFINE text == UploadDir
  <2>1. text \in Text /\ Parts(text) = Parts(UploadDir) \o <<>> /\ <<>> \in Seq(Name)
    BY <1>3
  <2> HIDE DEF text
  <2>2. Underway(Parts(text), <<>>, IF Head(text) = "/" THEN <<"/">> ELSE <<>>, Names(text))
    BY <1>2, <2>1
  <2> QED
    BY <2>2 DEF text
<1> QED
  BY <1>4, <1>5

LEMMA ReachedNext ==
    ASSUME UNCHANGED <<config, req, loc>>, NEW d,
           Reached(d, pc', disk', i', filePath', accum', todo')
    PROVE  UploadProgress(d)'
<1>1. /\ UploadDir' = UploadDir /\ \A k : FileText(k)' = FileText(k) /\ Way(k)' = Way(k)
      /\ \A e, k : Saved(e, k)' <=> Saved(e, k)
      /\ Places' = Places /\ Made' = Made
      /\ Kept(d)' = Kept(d)
  BY UploadFrame
<1> QED
  BY <1>1 DEF UploadProgress, Reached

-----------------------------------------------------------------------------
(* The steps of an upload                                                  *)

\* The server is about to do a step for an upload that found the files d
Working(d) ==
    /\ IInv /\ loc > 0 /\ disk \in [DOMAIN disk -> Entry]
    /\ Received(d) /\ Nowhere \notin DOMAIN d
    /\ Reached(d, pc, disk, i, filePath, accum, todo)

LEMMA KeptParts ==
    ASSUME TypeOK, NEW d
    PROVE  /\ \A k \in Kept(d) : k \in DOMAIN req.parts /\ k \in Nat \ {0}
           /\ i \in Nat \ {0} /\ Len(req.parts) \in Nat /\ DOMAIN req.parts = 1..Len(req.parts)
<1>1. Len(req.parts) \in Nat /\ DOMAIN req.parts = 1..Len(req.parts)
  BY PartNumbers
<1>2. \A k \in Kept(d) : k \in DOMAIN req.parts
  BY DEF Kept
<1> QED
  BY <1>1, <1>2 DEF TypeOK

LEMMA MakeUploadsStep == ASSUME NEW d, Working(d), MakeUploads PROVE UploadProgress(d)'
<1>1. /\ UNCHANGED <<config, req, loc, disk, i, filePath>> /\ pc = "method"
      /\ IF Stat(disk, UploadDir) = "none" THEN MakeDirs(UploadDir) /\ pc' = "mkdir"
         ELSE pc' = "part" /\ UNCHANGED <<accum, todo>>
  BY DEF MakeUploads, Dispatched, Steady, NoPage, NoUpload, GoOn
<1>2. i = 1 /\ Grown(d, disk, Places, Made) /\ pc' \in UploadSteps
  BY <1>1 DEF Working, Reached, UploadSteps
<1>3. \A k \in Kept(d) : ~(k < i)
  BY <1>2, KeptParts DEF Working, IInv
<1>4. pc' = "mkdir" => \E done \in Seq(Name) : Underway(Parts(UploadDir), done, accum', todo')
  <2>1. Underway(Parts(UploadDir), <<>>,
                 IF Head(UploadDir) = "/" THEN <<"/">> ELSE <<>>, Names(UploadDir))
    BY LoopStarts DEF Working, IInv, Received
  <2>2. <<>> \in Seq(Name)
    BY EmptySeq
  <2>3. pc' = "mkdir" => MakeDirs(UploadDir)
    BY <1>1
  <2> QED
    BY <2>1, <2>2, <2>3 DEF MakeDirs
<1>5. Reached(d, pc', disk', i', filePath', accum', todo')
  BY <1>1, <1>2, <1>3, <1>4 DEF Reached
<1> QED
  BY <1>1, <1>5, ReachedNext

\* One round of either loop, with what it makes
LEMMA MakeDirIs ==
    ASSUME MakeDir
    PROVE  LET next == After(accum, Head(todo))
               path == Walk(disk, next)
               fails == path \notin DOMAIN disk /\ ~MayChange(disk, path)
           IN /\ disk' = Mkdir(disk, path)
              /\ accum' = next
              /\ todo' = IF fails THEN <<>> ELSE Tail(todo)
              /\ i' = IF pc = "mkdirFor" /\ fails THEN i + 1 ELSE i
              /\ pc' = CASE ~(fails \/ Len(todo) = 1) -> pc
                         [] (fails \/ Len(todo) = 1) /\ pc = "mkdirFor" /\ ~fails -> "write"
                         [] OTHER -> "part"
              /\ UNCHANGED <<config, req, loc, filePath>>
<1>1. NextDir = After(accum, Head(todo))
  BY DEF NextDir, After
<1> DEFINE next == After(accum, Head(todo))
           path == Walk(disk, next)
           fails == path \notin DOMAIN disk /\ ~MayChange(disk, path)
<1>2. disk' = IF fails \/ path \in DOMAIN disk THEN disk ELSE Put(disk, path, NewDir)
  BY <1>1 DEF MakeDir
<1>3. disk' = Mkdir(disk, path)
  BY <1>2 DEF Mkdir
<1>4. /\ accum' = next /\ todo' = IF fails THEN <<>> ELSE Tail(todo)
      /\ i' = IF pc = "mkdirFor" /\ fails THEN i + 1 ELSE i
  BY <1>1 DEF MakeDir
<1>5. pc' = CASE ~(fails \/ Len(todo) = 1) -> pc
              [] (fails \/ Len(todo) = 1) /\ pc = "mkdirFor" /\ ~fails -> "write"
              [] OTHER -> "part"
  BY <1>1 DEF MakeDir, GoOn
<1>6. UNCHANGED <<config, req, loc, filePath>>
  BY DEF MakeDir, Steady, NoPage
<1> QED
  BY <1>3, <1>4, <1>5, <1>6

\* A round, and what is left after it
Rounded(parts, done, text, names, before, name) ==
    /\ Round(parts, done, text, names, before, name) /\ name = Head(names)
    /\ Append(before, name) \in Seq(Name)
    /\ Len(names) # 1 => Underway(parts, Append(before, name), After(text, name), Tail(names))
    /\ Len(names) = 1 => \A e : Dirs(e, Append(before, name)) => Dirs(e, parts)

LEMMA OneRound ==
    ASSUME NEW parts, NEW done \in Seq(Name), NEW text, NEW names, Underway(parts, done, text, names)
    PROVE  \E before \in Seq(Name), name \in Name : Rounded(parts, done, text, names, before, name)
<1>1. PICK before \in Seq(Name), name \in Name : Round(parts, done, text, names, before, name)
  BY NextRound
<1>2. /\ Tail(names) # <<>> =>
             Underway(parts, Append(before, name), After(text, name), Tail(names))
      /\ Tail(names) = <<>> => \A e : Dirs(e, Append(before, name)) => Dirs(e, parts)
  BY <1>1, RoundDone
<1>3. Len(names) = 1 <=> Tail(names) = <<>>
  <2> DEFINE Y == Name \ {<<>>}
  <2>1. names \in Seq(Y) /\ names # <<>>
    <3>1. PICK rest \in Seq(Name) : names = Filled(rest) /\ names # <<>>
      BY DEF Underway
    <3> QED
      BY <3>1, FilledType
  <2> HIDE DEF Y
  <2>2. Len(names) \in Nat \ {0}
    BY <2>1, EmptySeq, LenProperties
  <2> DEFINE t == Tail(names)
  <2>3. t \in Seq(Y) /\ Len(t) = Len(names) - 1
    BY <2>1
  <2> HIDE DEF t
  <2>4. Len(t) = 0 <=> t = <<>>
    BY <2>3, EmptySeq
  <2>5. Len(names) = 1 <=> t = <<>>
    BY <2>2, <2>3, <2>4
  <2> QED
    BY <2>5 DEF t
<1>4. Append(before, name) \in Seq(Name) /\ name = Head(names)
  BY <1>1 DEF Round
<1>5. Rounded(parts, done, text, names, before, name)
  BY <1>1, <1>2, <1>3, <1>4 DEF Rounded
<1> QED
  BY <1>5

\* A new directory on the way of a loop leaves everything saved as it is
Undamaged(d, path) ==
    /\ Grown(d, Mkdir(disk, path), Places, Made)
    /\ \A k : Saved(disk, k) => Saved(Mkdir(disk, path), k)
    /\ \A p \in DOMAIN disk : p \in DOMAIN Mkdir(disk, path) /\ Mkdir(disk, path)[p] = disk[p]

LEMMA RoundGrows ==
    ASSUME NEW d, Grown(d, disk, Places, Made), NEW parts, Ways(parts) \subseteq Made,
           NEW done \in Seq(Name), NEW text, NEW names, NEW before \in Seq(Name), NEW name \in Name,
           Round(parts, done, text, names, before, name)
    PROVE  Undamaged(d, Walk(disk, After(text, name)))
<1> DEFINE path == Walk(disk, After(text, name))
<1>1. Leading(parts, text, before, name, disk)
  BY RoundLeads
<1>2. path \in {Nowhere} \cup Made
  BY <1>1 DEF Leading
<1> HIDE DEF path
<1>3. Grown(d, Mkdir(disk, path), Places, Made)
  BY <1>2, MkdirGrown
<1>4. \A p \in DOMAIN disk : p \in DOMAIN Mkdir(disk, path) /\ Mkdir(disk, path)[p] = disk[p]
  BY MkdirFacts
<1>5. \A k : Saved(disk, k) => Saved(Mkdir(disk, path), k)
  BY <1>4 DEF Saved
<1>6. Undamaged(d, path)
  BY <1>3, <1>4, <1>5 DEF Undamaged
<1> QED
  BY <1>6 DEF path

LEMMA MadeWays == ASSUME TypeOK, loc > 0 PROVE
    /\ Ways(Parts(UploadDir)) \subseteq Made
    /\ \A k \in DOMAIN req.parts : Ways(Way(k)) \subseteq Made
  BY ThroughIs DEF Made

\* The loop that makes the directory for uploads
LEMMA MkdirStep == ASSUME NEW d, Working(d), MakeDir, pc = "mkdir" PROVE UploadProgress(d)'
<1> DEFINE dir == Parts(UploadDir)
           next == After(accum, Head(todo))
           path == Walk(disk, next)
           fails == path \notin DOMAIN disk /\ ~MayChange(disk, path)
<1>1. PICK done \in Seq(Name) : Underway(dir, done, accum, todo)
  BY DEF Working, Reached
<1>2. PICK before \in Seq(Name), name \in Name : Rounded(dir, done, accum, todo, before, name)
  BY <1>1, OneRound
<1>3. next = After(accum, name)
  BY <1>2 DEF Rounded
<1>4. Undamaged(d, path)
  BY <1>2, <1>3, MadeWays, RoundGrows DEF Rounded, Working, IInv, Reached
<1>5. /\ disk' = Mkdir(disk, path) /\ accum' = next
      /\ todo' = IF fails THEN <<>> ELSE Tail(todo)
      /\ i' = i /\ UNCHANGED <<config, req, loc, filePath>>
      /\ pc' = IF fails \/ Len(todo) = 1 THEN "part" ELSE "mkdir"
  BY MakeDirIs
<1> HIDE DEF path
<1>6. pc' = "mkdir" => \E more \in Seq(Name) : Underway(dir, more, accum', todo')
  BY <1>2, <1>3, <1>5 DEF Rounded
<1>7. \A k \in Kept(d) : k < i' => Saved(disk', k)
  BY <1>4, <1>5 DEF Working, Reached, Undamaged
<1>8. Grown(d, disk', Places, Made) /\ pc' \in UploadSteps
  BY <1>4, <1>5 DEF Undamaged, UploadSteps
<1>9. Reached(d, pc', disk', i', filePath', accum', todo')
  BY <1>5, <1>6, <1>7, <1>8 DEF Reached
<1> QED
  BY <1>5, <1>9, ReachedNext

\* The loop that makes the directories of a part's file
LEMMA MkdirForStep == ASSUME NEW d, Working(d), MakeDir, pc = "mkdirFor" PROVE UploadProgress(d)'
<1> DEFINE way == Way(i)
           next == After(accum, Head(todo))
           path == Walk(disk, next)
           fails == path \notin DOMAIN disk /\ ~MayChange(disk, path)
<1>0. TypeOK /\ loc > 0 /\ i \in DOMAIN req.parts
  <2>1. i \in 1..Len(req.parts)
    BY DEF Working, IInv, Saving
  <2> QED
    BY <2>1, PartNumbers DEF Working, IInv
<1>1. PICK done \in Seq(Name) :
          Underway(way, done, accum, todo) /\ (i \in Kept(d) => Dirs(disk, done))
  BY DEF Working, Reached
<1>2. PICK before \in Seq(Name), name \in Name : Rounded(way, done, accum, todo, before, name)
  BY <1>1, OneRound
<1>3. next = After(accum, name)
  BY <1>2 DEF Rounded
<1>4. Undamaged(d, path)
  BY <1>0, <1>2, <1>3, MadeWays, RoundGrows DEF Rounded, Working, Reached
<1>5. /\ disk' = Mkdir(disk, path) /\ accum' = next
      /\ todo' = IF fails THEN <<>> ELSE Tail(todo)
      /\ i' = IF fails THEN i + 1 ELSE i
      /\ UNCHANGED <<config, req, loc, filePath>>
      /\ pc' = IF fails THEN "part" ELSE IF Len(todo) = 1 THEN "write" ELSE "mkdirFor"
  BY MakeDirIs
<1>6. filePath = FileText(i)
  BY DEF Working, Reached
<1>7. i \in Kept(d) => ~fails /\ Dirs(Mkdir(disk, path), Append(before, name))
  <2> SUFFICES ASSUME i \in Kept(d) PROVE ~fails /\ Dirs(Mkdir(disk, path), Append(before, name))
    OBVIOUS
  <2>1. Ready(i, disk)
    BY <1>0, KeptIsReady DEF Working, Reached
  <2>2. IsDir(disk, Below(SubSeq(way, 1, 1)))
    BY <1>0, WayBegins DEF Working, Reached
  <2>3. Dirs(disk, done) /\ Clear(disk, Ways(way)) /\ Round(way, done, accum, todo, before, name)
    BY <1>1, <1>2, <2>1 DEF Ready, Rounded
  <2> HIDE DEF way
  <2>4. LET there == Walk(disk, After(accum, name))
        IN /\ there \in DOMAIN disk \/ MayChange(disk, there)
           /\ Dirs(Mkdir(disk, there), Append(before, name))
    BY <2>2, <2>3, RoundMakes
  <2> QED
    BY <1>3, <2>4
<1> HIDE DEF path
<1>8. Grown(d, disk', Places, Made) /\ pc' \in UploadSteps
  BY <1>4, <1>5 DEF Undamaged, UploadSteps
<1>9. \A k \in Kept(d) : k < i' => Saved(disk', k)
  <2> SUFFICES ASSUME NEW k \in Kept(d), k < i' PROVE Saved(disk', k)
    OBVIOUS
  <2>1. k \in Nat /\ i \in Nat
    BY <1>0, KeptParts
  <2>2. k < i
    BY <1>5, <1>7, <2>1
  <2> QED
    BY <1>4, <1>5, <2>2 DEF Working, Reached, Undamaged
<1>10. pc' = "mkdirFor" =>
           /\ filePath' = FileText(i')
           /\ \E more \in Seq(Name) : /\ Underway(Way(i'), more, accum', todo')
                                      /\ i' \in Kept(d) => Dirs(disk', more)
  <2> SUFFICES ASSUME pc' = "mkdirFor"
               PROVE  /\ filePath' = FileText(i')
                      /\ \E more \in Seq(Name) : /\ Underway(Way(i'), more, accum', todo')
                                                 /\ i' \in Kept(d) => Dirs(disk', more)
    OBVIOUS
  <2>1. i' = i /\ todo' = Tail(todo) /\ Len(todo) # 1 /\ filePath' = filePath
    BY <1>5
  <2>2. Underway(way, Append(before, name), accum', todo') /\ Append(before, name) \in Seq(Name)
    BY <1>2, <1>3, <1>5, <2>1 DEF Rounded
  <2> QED
    BY <1>5, <1>6, <1>7, <2>1, <2>2
<1>11. pc' = "write" => filePath' = FileText(i') /\ (i' \in Kept(d) => Dirs(disk', Way(i')))
  <2>1. pc' = "write" => i' = i /\ Len(todo) = 1 /\ filePath' = filePath
    BY <1>5
  <2> QED
    BY <1>2, <1>5, <1>6, <1>7, <2>1 DEF Rounded
<1>12. Reached(d, pc', disk', i', filePath', accum', todo')
  <2>1. pc' \notin {"method", "mkdir", "redirect", "idle"}
    BY <1>5
  <2> QED
    BY <1>8, <1>9, <1>10, <1>11, <2>1 DEF Reached
<1> QED
  BY <1>5, <1>12, ReachedNext

\* The start of a part
LEMMA NextPartStep == ASSUME NEW d, Working(d), NextPart PROVE UploadProgress(d)'
<1> DEFINE text == FileText(i)
           dir == DirOf(text)
           way == Way(i)
<1>0. TypeOK /\ loc > 0 /\ i \in DOMAIN req.parts
  <2>1. i \in 1..Len(req.parts)
    BY KeptParts DEF NextPart, Working, IInv
  <2> QED
    BY <2>1, PartNumbers DEF Working, IInv
<1>1. FullPath = text
  BY DEF FullPath, FileText
<1>2. /\ UNCHANGED <<config, req, loc, disk, i>> /\ pc = "part" /\ filePath' = text
      /\ IF Stat(disk, dir) = "none" THEN MakeDirs(dir) /\ pc' = "mkdirFor"
         ELSE pc' = "write" /\ UNCHANGED <<accum, todo>>
  BY <1>1 DEF NextPart, Steady, NoUpload, GoOn
<1>3. /\ Grown(d, disk', Places, Made) /\ pc' \in UploadSteps
      /\ \A k \in Kept(d) : k < i' => Saved(disk', k)
  BY <1>2 DEF Working, Reached, UploadSteps
<1>4. pc' = "mkdirFor" => \E done \in Seq(Name) : /\ Underway(way, done, accum', todo')
                                                  /\ i \in Kept(d) => Dirs(disk, done)
  <2>1. Underway(way, <<>>, IF Head(dir) = "/" THEN <<"/">> ELSE <<>>, Names(dir))
    BY <1>0, LoopStarts DEF Working, Received
  <2>2. <<>> \in Seq(Name)
    BY EmptySeq
  <2>3. pc' = "mkdirFor" => MakeDirs(dir)
    BY <1>2
  <2>4. Dirs(disk, <<>>)
    BY <1>0, WayBegins DEF Working, Reached
  <2> QED
    BY <2>1, <2>2, <2>3, <2>4 DEF MakeDirs
<1>5. pc' = "write" /\ i \in Kept(d) => Dirs(disk, way)
  <2> SUFFICES ASSUME pc' = "write", i \in Kept(d) PROVE Dirs(disk, way)
    OBVIOUS
  <2>1. Stat(disk, dir) # "none"
    BY <1>2
  <2>2. way = Parts(dir) /\ way \in Seq(Name) /\ way # <<>>
    <3>1. PICK more \in Seq(Name), name \in Name : Filed(i, more, name)
      BY <1>0, FileParts
    <3>2. dir \in Text
      BY <3>1 DEF Filed
    <3> QED
      BY <3>2, NamesFacts DEF Way
  <2>3. Nowhere \notin DOMAIN disk /\ Grown(d, disk, Places, Made)
    BY DEF Working, Reached, Grown
  <2>4. Walk(disk, dir) \in DOMAIN disk /\ Walk(disk, dir) = Below(way)
    BY <2>1, <2>2, <2>3, WalkFound DEF Stat
  <2>5. Below(way) \in Ways(way)
    <3> HIDE DEF way
    <3>1. Len(way) \in 1..Len(way) /\ SubSeq(way, 1, Len(way)) = way
      BY <2>2, Whole, LenProperties, EmptySeq
    <3> QED
      BY <3>1 DEF Ways
  <2>6. IsDir(disk, Walk(disk, dir))
    <3>1. Ready(i, disk)
      BY <1>0, <2>3, KeptIsReady DEF Working
    <3> QED
      BY <2>4, <2>5, <3>1 DEF Ready, Clear
  <2> HIDE DEF dir, way
  <2> QED
    BY <2>2, <2>3, <2>6, WalkedDirs
<1>6. Reached(d, pc', disk', i', filePath', accum', todo')
  <2>1. pc' \in {"mkdirFor", "write"}
    BY <1>2
  <2> QED
    BY <1>2, <1>3, <1>4, <1>5, <2>1 DEF Reached
<1> QED
  BY <1>2, <1>6, ReachedNext

\* Where a text of parts leads, if anywhere
LEMMA WalksThere == ASSUME NEW d, NEW text PROVE Walk(d, text) \in {Nowhere, Below(Parts(text))}
  BY DEF Walk

\* The write of a part's file
LEMMA SaveFileStep == ASSUME NEW d, Working(d), SaveFile PROVE UploadProgress(d)'
<1> DEFINE path == Walk(disk, FileText(i))
           body == <<req.parts[i].data>>
           way == Way(i)
<1>0. TypeOK /\ loc > 0 /\ i \in DOMAIN req.parts
  <2>1. i \in 1..Len(req.parts)
    BY DEF SaveFile, Working, IInv, Saving
  <2> QED
    BY <2>1, PartNumbers DEF Working, IInv
<1>1. /\ UNCHANGED <<config, req, loc, filePath, accum, todo>> /\ pc = "write" /\ pc' = "part"
      /\ i' = i + 1
  BY DEF SaveFile, Steady, NoPage, NoUpload, GoOn
<1>2. filePath = FileText(i) /\ (i \in Kept(d) => Dirs(disk, way)) /\ Grown(d, disk, Places, Made)
  BY <1>1 DEF Working, Reached
<1>3. disk' = Written(disk, path, body)
  BY <1>2 DEF SaveFile, Written
<1>4. path \in {Nowhere, Place(i)} /\ Place(i) \in Places
  BY <1>0, WalksThere DEF Place, Places
<1>5. i \in Kept(d) => path = Place(i) /\ MayOpen(disk, path)
  <2> SUFFICES ASSUME i \in Kept(d) PROVE path = Place(i) /\ MayOpen(disk, path)
    OBVIOUS
  <2>1. Dirs(disk, way) /\ path = Place(i)
    BY <1>0, <1>2, ThroughIs
  <2>2. PICK more \in Seq(Name), name \in Name : Filed(i, more, name)
    BY <1>0, FileParts
  <2>3. Place(i) = Below(Append(way, name))
    BY <2>2 DEF Filed, Place
  <2>4. Ready(i, disk)
    BY <1>0, <1>2, KeptIsReady DEF Working
  <2>5. way \in Seq(Name) /\ way # <<>>
    <3>1. DirOf(FileText(i)) \in Text
      BY <2>2 DEF Filed
    <3> QED
      BY <3>1, NamesFacts DEF Way
  <2>6. Clear(disk, Ways(way)) /\ (Place(i) \in DOMAIN disk => MayOpen(disk, Place(i)))
    BY <2>4 DEF Ready
  <2> HIDE DEF way, path
  <2> QED
    BY <2>1, <2>3, <2>5, <2>6, PlaceOpens
<1> HIDE DEF path, body
<1>6. /\ \A p \in DOMAIN disk \ {path} : p \in DOMAIN disk' /\ disk'[p] = disk[p]
      /\ MayOpen(disk, path) => path \in DOMAIN disk' /\ disk'[path].body = body
  BY <1>3, WrittenFacts DEF Working
<1>7. Grown(d, disk', Places, Made)
  BY <1>2, <1>3, <1>4, WrittenGrown DEF Working
<1>8. ASSUME NEW k \in Kept(d), k < i' PROVE Saved(disk', k)
  <2>1. k \in Nat /\ i \in Nat /\ k \in DOMAIN req.parts
    BY <1>0, KeptParts
  <2>2. CASE k = i
    BY <1>5, <1>6, <2>2 DEF Saved, body
  <2>3. CASE k < i
    <3>1. Saved(disk, k)
      BY <1>8, <2>3 DEF Working, Reached
    <3>2. Place(k) # Place(i)
      BY <1>0, <1>8, <2>1, <2>3 DEF Kept
    <3>3. Place(k) # Nowhere
      BY <1>2, <3>1 DEF Saved, Grown
    <3> QED
      BY <1>4, <1>6, <3>1, <3>2, <3>3 DEF Saved
  <2> QED
    BY <1>1, <1>8, <2>1, <2>2, <2>3
<1>9. Reached(d, pc', disk', i', filePath', accum', todo')
  BY <1>1, <1>7, <1>8 DEF Reached, UploadSteps
<1> QED
  BY <1>1, <1>9, ReachedNext

\* The row of contacts.csv
LEMMA AppendRowStep == ASSUME NEW d, Working(d), AppendRow PROVE UploadProgress(d)'
<1> DEFINE path == CsvPath(disk)
<1>1. /\ UNCHANGED <<config, req, loc, filePath, accum, todo, i>> /\ pc = "part"
      /\ pc' = "redirect" /\ i > Len(req.parts)
  BY DEF AppendRow, Steady, NoPage, NoUpload, GoOn
<1>2. path \in {Nowhere, CsvPlace} /\ CsvPlace \in Places
  BY WalksThere DEF CsvPath, CsvPlace, Places
<1>3. Grown(d, disk, Places, Made)
  BY DEF Working, Reached
<1> HIDE DEF path
<1>4. PICK body : disk' = Written(disk, path, body)
  <2>1. PICK body : disk' = IF MayOpen(disk, path) THEN Write(disk, path, body) ELSE disk
    BY DEF AppendRow, path
  <2> QED
    BY <2>1 DEF Written
<1>5. \A p \in DOMAIN disk \ {path} : p \in DOMAIN disk' /\ disk'[p] = disk[p]
  BY <1>4, WrittenFacts DEF Working
<1>6. Grown(d, disk', Places, Made)
  BY <1>2, <1>3, <1>4, WrittenGrown DEF Working
<1>7. ASSUME NEW k \in Kept(d), k < i' PROVE Saved(disk', k)
  <2>1. Saved(disk, k)
    BY <1>1, <1>7 DEF Working, Reached
  <2>2. Place(k) # CsvPlace
    BY DEF Kept
  <2>3. Place(k) # Nowhere
    BY <1>3, <2>1 DEF Saved, Grown
  <2> QED
    BY <1>2, <1>5, <2>1, <2>2, <2>3 DEF Saved
<1>8. Reached(d, pc', disk', i', filePath', accum', todo')
  BY <1>1, <1>6, <1>7 DEF Reached, UploadSteps
<1> QED
  BY <1>1, <1>8, ReachedNext

\* The answer
LEMMA SeeOtherStep == ASSUME NEW d, Working(d), SeeOther PROVE UploadProgress(d)'
<1>1. /\ UNCHANGED <<config, req, loc, disk, i, filePath, accum, todo>>
      /\ pc = "redirect" /\ pc' = "idle"
  BY DEF SeeOther, Working, Received, Steady, NoPage, NoUpload, Reply
<1>2. Reached(d, pc', disk', i', filePath', accum', todo')
  BY <1>1 DEF Working, Reached
<1> QED
  BY <1>1, <1>2, ReachedNext

\* An upload takes no other steps
LEMMA UploadServes ==
    ASSUME NEW d, Working(d), Serve, ~MatchLocation, ~FallBack
    PROVE  UploadProgress(d)'
<1>1. pc \in {"method", "idle"} \cup UploadSteps
  BY DEF Working, Reached
<1>2. req.method \in Allowed /\ IsUpload /\ req.method = "POST"
  BY DEF Working, Received, Uploading, IsUpload
<1>3. ~RefuseMethod /\ ~ThrowOnCgi /\ ~StartCgi /\ ~Redirect /\ ~Resolve
  <2>1. req.method \in Method
    BY <1>2, AllowedLocation DEF Working, IInv
  <2> QED
    BY <1>2, <2>1 DEF RefuseMethod, ThrowOnCgi, StartCgi, Redirect, Resolve, IsCgi, IsPage
<1>4. ~StatPage /\ ~StatWholeUri /\ ~FileExists /\ ~FindIndex /\ ~NoIndex /\ ~ListDirectory
      /\ ~MayRead /\ ~ReadFile /\ ~ReplyError
  BY <1>1 DEF StatPage, StatWholeUri, FileExists, FindIndex, NoIndex, ListDirectory, MayRead,
              ReadFile, ReplyError, UploadSteps
<1>5. ~DeleteNothing /\ ~CanonicalRoot
  BY <1>2 DEF DeleteNothing, CanonicalRoot
<1>6. ~CanonicalTarget /\ ~ExamineTarget /\ ~MayWrite /\ ~Unlink
  BY <1>1 DEF CanonicalTarget, ExamineTarget, MayWrite, Unlink, UploadSteps
<1>7. CASE MakeDir
  BY <1>7, MkdirStep, MkdirForStep DEF MakeDir
<1>8. CASE MakeUploads \/ NextPart \/ SaveFile \/ AppendRow \/ SeeOther
  BY <1>8, MakeUploadsStep, NextPartStep, SaveFileStep, AppendRowStep, SeeOtherStep
<1> QED
  BY <1>3, <1>4, <1>5, <1>6, <1>7, <1>8 DEF Serve

-----------------------------------------------------------------------------
(* What an upload has done when it is answered                             *)

\* An upload that has not begun, as a formula, which holds of the next state too
Unbegun == \A d : TypeOK /\ pc = "method" /\ disk = d /\ i = 1 /\ Nowhere \notin DOMAIN d
                     => UploadProgress(d)

LEMMA NotBegun == Unbegun
<1> SUFFICES ASSUME NEW d, TypeOK, pc = "method", disk = d, i = 1, Nowhere \notin DOMAIN d
             PROVE  UploadProgress(d)
  BY DEF Unbegun
<1>1. \A k \in Kept(d) : ~(k < i)
  BY KeptParts
<1>2. Grown(d, disk, Places, Made)
  BY DEF Grown
<1> QED
  BY <1>1, <1>2 DEF UploadProgress, Reached, UploadSteps

LEMMA NextSomewhere == ASSUME Somewhere, [Next]_vars PROVE Somewhere'
<1>1. CASE MatchLocation \/ FallBack
  BY <1>1 DEF MatchLocation, FallBack, Steady, Somewhere
<1>2. CASE Serve /\ ~MatchLocation /\ ~FallBack
  BY <1>2, NoNewNowhere, ServeStays DEF Somewhere
<1>3. ASSUME NEW r \in Requests, Arrive(r) PROVE Somewhere'
  BY <1>3 DEF Arrive, Somewhere
<1>4. ASSUME NEW c \in Changes, Change(c) PROVE Somewhere'
  <2>1. c.path # Nowhere /\ (disk' = Without(disk, c.path) \/ disk' = Put(disk, c.path, c.entry))
        /\ seen' = seen \cup {disk'}
    BY <1>4, SiteAssumption DEF SiteAssumption, Change
  <2>2. Nowhere \notin DOMAIN disk'
    BY <2>1 DEF Somewhere, Without, Put
  <2> QED
    BY <2>1, <2>2 DEF Somewhere
<1>5. CASE UNCHANGED vars
  BY <1>5 DEF vars, Somewhere
<1> QED
  BY <1>1, <1>2, <1>3, <1>4, <1>5 DEF Next

LEMMA NextUploaded == ASSUME UInv, [Next]_vars PROVE Uploaded'
<1>0. Somewhere' /\ TypeOK'
  BY NextSomewhere, NextInv DEF UInv, DInv, SInv, IInv
<1>1. CASE MatchLocation
  BY <1>1 DEF MatchLocation, GoOn, Uploaded
<1>2. CASE FallBack
  <2>1. UNCHANGED <<seen, disk, served, changes>> /\ pc = "match" /\ pc' = "method" /\ i' = 1
    BY <1>2 DEF FallBack, Steady, GoOn
  <2> SUFFICES ASSUME served' > 0, changes' = 0, NEW d \in seen' PROVE UploadProgress(d)'
    BY DEF Uploaded
  <2>2. disk = d
    BY <2>1 DEF UInv, DInv, Doing, Untouched, Removed
  <2>3. Nowhere \notin DOMAIN d
    BY <2>1 DEF UInv, Somewhere
  <2>4. Unbegun'
    BY NotBegun, PTL
  <2> QED
    BY <1>0, <2>1, <2>2, <2>3, <2>4 DEF Unbegun
<1>3. CASE Serve /\ ~MatchLocation /\ ~FallBack
  <2>1. /\ UNCHANGED <<config, req, loc, served, changes>> /\ pc # "match"
        /\ seen' = seen
    BY <1>3, LocationStays, ServeStays DEF UInv, DInv, SInv
  <2> SUFFICES ASSUME served' > 0, changes' = 0, NEW d \in seen', Received(d)'
               PROVE  UploadProgress(d)'
    BY DEF Uploaded
  <2>2. Received(d)
    BY <2>1, UploadFrame
  <2>3. UploadProgress(d)
    BY <2>1, <2>2 DEF UInv, Uploaded
  <2>4. loc > 0
    BY <2>2, AllowedLocation DEF UInv, DInv, SInv, IInv, Received, Uploading
  <2>5. Working(d)
    BY <2>1, <2>2, <2>3, <2>4 DEF UInv, DInv, SInv, IInv, TypeOK, Somewhere, Working, UploadProgress
  <2> QED
    BY <1>3, <2>5, UploadServes
<1>4. ASSUME NEW r \in Requests, Arrive(r) PROVE Uploaded'
  BY <1>4 DEF Arrive, Uploaded
<1>5. ASSUME NEW c \in Changes, Change(c) PROVE Uploaded'
  <2>1. changes' = changes + 1 /\ changes \in Nat
    BY <1>5 DEF Change, UInv, DInv, SInv, IInv, TypeOK
  <2> QED
    BY <2>1 DEF Uploaded
<1>6. CASE UNCHANGED vars
  <2>1. UNCHANGED <<config, req, loc, pc, disk, i, filePath, accum, todo, seen, served, changes>>
    BY <1>6 DEF vars
  <2> SUFFICES ASSUME served' > 0, changes' = 0, pc' # "match", NEW d \in seen', Received(d)'
               PROVE  UploadProgress(d)'
    BY DEF Uploaded
  <2>2. Received(d)
    BY <2>1, UploadFrame
  <2>3. Reached(d, pc', disk', i', filePath', accum', todo')
    BY <2>1, <2>2 DEF UInv, Uploaded, UploadProgress
  <2> QED
    BY <2>1, <2>3, ReachedNext
<1> QED
  BY <1>1, <1>2, <1>3, <1>4, <1>5, <1>6 DEF Next

LEMMA NextUploads == UInv /\ [Next]_vars => UInv'
  BY NextDone, NextSomewhere, NextUploaded DEF UInv

LEMMA InitUploads == Init => UInv
<1> SUFFICES ASSUME Init PROVE UInv
  OBVIOUS
<1>1. DInv
  BY InitAnswers DEF Init, DInv, Fails, Doing
<1>2. Somewhere
  BY SiteAssumption DEF SiteAssumption, Init, Somewhere
<1>3. Uploaded
  BY DEF Init, Uploaded
<1> QED
  BY <1>1, <1>2, <1>3 DEF UInv

\* Whatever the blocks, the files, the parts and their names: when an upload is
\* answered that nobody interfered with, each file that no other part is in the
\* way of has the data of its part, behind whatever directories its name needs,
\* and of the files there were only those of parts and contacts.csv are touched.
\* The loops that make directories go along the parts of a text as stat() and
\* open() do, whatever empty parts, dots or ways up there are among them.
THEOREM UploadsAreKept == Spec => []UploadIsKept
<1>1. UInv => UploadIsKept
  <2> SUFFICES ASSUME UInv, NEW d \in seen, UploadsTo(d), req.boundary, Sound(UploadRoot)
               PROVE  /\ \A k \in Kept(d) :
                             Place(k) \in DOMAIN disk /\ disk[Place(k)].body = <<req.parts[k].data>>
                      /\ \A path \in DOMAIN d :
                             \/ path \in {Place(k) : k \in DOMAIN req.parts} \cup {CsvPlace}
                             \/ path \in DOMAIN disk /\ disk[path] = d[path]
    BY DEF UploadIsKept
  <2>1. Received(d) /\ served > 0 /\ changes = 0 /\ pc = "idle"
    BY DEF UploadsTo, Undisturbed, Answered, Received
  <2>2. Reached(d, pc, disk, i, filePath, accum, todo)
    BY <2>1 DEF UInv, Uploaded, UploadProgress
  <2>3. i > Len(req.parts) /\ Grown(d, disk, Places, Made)
        /\ \A k \in Kept(d) : k < i => Saved(disk, k)
    BY <2>1, <2>2 DEF Reached
  <2>4. \A k \in Kept(d) : k < i
    <3>1. TypeOK
      BY DEF UInv, DInv, SInv, IInv
    <3>2. /\ \A k \in Kept(d) : k \in DOMAIN req.parts
          /\ DOMAIN req.parts = 1..Len(req.parts) /\ Len(req.parts) \in Nat /\ i \in Nat
      BY <3>1, KeptParts
    <3> QED
      BY <2>3, <3>2
  <2>5. \A k \in Kept(d) : Saved(disk, k)
    BY <2>3, <2>4
  <2> QED
    BY <2>3, <2>5 DEF Saved, Grown, Places
<1> QED
  BY <1>1, InitUploads, NextUploads, PTL DEF Spec
=============================================================================
