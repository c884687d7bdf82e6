------------------------------- MODULE Paths -------------------------------
(***************************************************************************)
(* Texts, the paths they name, and the files they lead to.                 *)
(*                                                                         *)
(* A text (a uri, a root, the path of a location) is a sequence of tokens: *)
(* "/", ".", ".." or a piece of a name.  Pieces next to each other belong  *)
(* to one name, so that <<"/", "img">> is a prefix of <<"/", "img", "s">>  *)
(* as "/img" is of "/imgs".  A path is a sequence of names, from the       *)
(* directory the server runs in, which is the top of the tree.             *)
(***************************************************************************)
EXTENDS Naturals, FiniteSets, SequencesExt

\* The pieces of a text between its slashes, as getline(ss, token, '/') finds them
Parts(text) ==
    LET cuts == {0, Len(text) + 1} \cup {k \in DOMAIN text : text[k] = "/"}
        Cut(n) == CHOOSE k \in cuts : Cardinality({c \in cuts : c < k}) = n
    IN [n \in 1..Cardinality(cuts) - 1 |-> SubSeq(text, Cut(n - 1) + 1, Cut(n) - 1)]

\* The pieces that are not empty
Fill(names, part) == IF part = <<>> THEN names ELSE Append(names, part)
Filled(parts) == FoldLeft(Fill, <<>>, parts)
Names(text) == Filled(Parts(text))

\* One round of normalizeRelativePath()
Normalise(names, part) ==
    CASE part \in {<<>>, <<".">>} -> names
      [] part = <<"..">>          -> IF names = <<>> THEN names ELSE Front(names)
      [] OTHER                    -> Append(names, part)

\* The path that pieces lead to, and normalizeRelativePath() as the path its
\* result names below the root
Below(parts) == FoldLeft(Normalise, <<>>, parts)
NormalPath(text) == Below(Parts(text))

\* The text of a canonical path, as realpath() returns it
TextOf(path) == FoldLeft(LAMBDA text, name : text \o <<"/">> \o name, <<>>, path)

\* The part of uri a location's root is put before.  find(path) == 0 is
\* IsPrefix, and a uri is never empty
Relative(uri, locationPath) ==
    CASE locationPath # <<>> /\ IsPrefix(locationPath, uri) ->
             SubSeq(uri, Len(locationPath) + 1, Len(uri))
      [] Head(uri) = "/" -> Tail(uri)
      [] OTHER -> uri

-----------------------------------------------------------------------------
(* The files on disk: a function from the paths that exist to what is      *)
(* there.  There are no links.                                             *)

\* Where no file is
Nowhere == << <<>> >>

IsDir(disk, path) == path \in DOMAIN disk /\ disk[path].kind = "dir"

\* Where a text leads: every piece but the last must bring to a directory, and
\* the last need not exist
Walk(disk, text) ==
    LET parts == Parts(text)
    IN IF \A k \in 1..Len(parts) : IsDir(disk, Below(SubSeq(parts, 1, k - 1)))
       THEN Below(parts) ELSE Nowhere

\* stat(): "none" when it fails
Stat(disk, text) ==
    LET path == Walk(disk, text)
    IN IF path \in DOMAIN disk THEN disk[path].kind ELSE "none"

\* access()
Access(disk, path, right) == path \in DOMAIN disk /\ right \in disk[path].mode

\* Whether an entry may be made or removed at a path: its directory is writable
MayChange(disk, path) ==
    /\ path \notin {<<>>, Nowhere}
    /\ IsDir(disk, Front(path)) /\ Access(disk, Front(path), "w")

Put(disk, path, entry) ==
    [p \in DOMAIN disk \cup {path} |-> IF p = path THEN entry ELSE disk[p]]

Without(disk, path) == [p \in DOMAIN disk \ {path} |-> disk[p]]
=============================================================================
