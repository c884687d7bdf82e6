-------------------------- MODULE MCRequestFraming --------------------------
(* Instances of RequestFraming for TLC: requests on both sides of the limit  *)
(* and of INT_MAX, and bodies with what the server searches for.             *)
EXTENDS RequestFraming

Xs(n) == [i \in 1..n |-> "x"]

\* Bodies that fit and that do not; one whose length atoi makes negative, and one
\* whose length it makes small
Lengths ==
    {<<>>, <<Xs(2)>>, <<Xs(6)>>, <<Xs(7)>>, <<Xs(9), Xs(4)>>, <<Xs(9), Xs(9), Xs(7)>>}

\* Bodies with a NUL, with another length, and with the head of a chunked request:
\* without a last chunk, with nothing before it, and with a chunk before it
Misleading ==
    {<<<<"x", "nul", "x">>>>, <<<<"length:", " ", "9">>>>, <<<<"chunked">>>>,
     <<<<"chunked", "cr", "lf", "0", "cr", "lf">>>>,
     <<<<"1", "cr", "lf", "x", "cr", "lf", "0", "cr", "lf">>, <<"chunked", "x">>>>}

\* No data, one and two chunks, data that looks like the last chunk, has a NUL, the
\* same header again, a small length, a large one, and one above LONG_MAX
Chunks ==
    {<<>>, <<Xs(1)>>, <<Xs(2), Xs(1)>>, <<<<"cr", "lf", "0", "cr", "lf", "x">>>>,
     <<Xs(3), Xs(4)>>, <<<<"x", "nul">>, <<"x">>>>, <<<<"chunked", "x">>>>,
     <<<<"length:", " ", "2", "cr", "lf">>>>, <<<<"length:", "1", "5">>>>,
     <<<<"length:", "9", "9", "9">>>>}

MCRequests ==
    [kind : {"none"}, chunks : {<<>>}]
    \cup [kind : {"length"}, chunks : Lengths \cup Misleading]
    \cup [kind : {"chunked"}, chunks : Chunks]
=============================================================================
