--------------------------- MODULE ChunkedCookies ---------------------------
(***************************************************************************)
(* setChunkedCookie, getChunkedCookie and deleteChunkedCookie on one cookie*)
(* name.  An encrypted value is abstracted to the write that made it, the  *)
(* login it is of and the number of cookies it needs; the part of it that  *)
(* sits under chunk index i is the value at i.  A response is a patch: for *)
(* each cookie the value it sets, Absent to delete it, or Keep.            *)
(***************************************************************************)
EXTENDS Integers, FiniteSets

CONSTANTS
    MaxChunks,         \* how many chunks a value may need
    NoWrite, NoLogin   \* of a cookie that is not there

ASSUME ChunksAssumption == MaxChunks \in Nat \ {0}

Base    == -1                         \* the cookie with the plain name
Indices == 0 .. MaxChunks - 1         \* the chunks name__0, name__1, ...
Names   == {Base} \cup Indices

Absent == [id |-> NoWrite, login |-> NoLogin, size |-> 0]
Keep   == [Absent EXCEPT !.size = -1]

EmptyCookie == [n \in Names |-> Absent]
NoPatch     == [n \in Names |-> Keep]

\* What the browser holds after a response with patch p.
Apply(c, p) == [n \in Names |-> IF p[n] = Keep THEN c[n] ELSE p[n]]

\* getAllChunkedCookies: the indices under which a chunk is present.
Present(c) == {i \in Indices : c[i] # Absent}

\* The value fits in one cookie: set it, delete the chunks the request has.
SetWhole(c, v) ==
    [n \in Names |-> IF n = Base THEN v
                     ELSE IF n \in Present(c) THEN Absent ELSE Keep]

\* Mutant: as many chunks are cleared as the request holds, less one.
SetPartsClearingTooFew(c, v) ==
    LET held == Cardinality(Present(c) \cup 0 .. v.size - 1) - 1
    IN  [n \in Names |-> CASE n = Base     -> Absent
                           [] n \in 0 .. v.size - 1    -> v
                           [] n \in v.size .. held - 1 -> Absent
                           [] OTHER        -> Keep]

\* The value needs several cookies: set them and delete the base.  As many
\* chunks as the request holds beyond those are deleted, counting upwards
\* from the first index not in use.
SetParts(c, v) ==
    LET held == Cardinality(Present(c) \cup 0 .. v.size - 1)
    IN  [n \in Names |-> CASE n = Base     -> Absent
                           [] n \in 0 .. v.size - 1    -> v
                           [] n \in v.size .. held - 1 -> Absent
                           [] OTHER        -> Keep]

setChunkedCookie(c, v) ==
    IF v.size = 1 THEN SetWhole(c, v) ELSE SetParts(c, v)

\* There is a value to read: the base cookie, or chunks with no index missing.
Complete(c) ==
    c[Base] # Absent \/ (Present(c) # {} /\ Present(c) = 0 .. Cardinality(Present(c)) - 1)

\* The value the cookies spell: the base cookie's, else that of the chunks
\* when no index is missing and the parts decrypt, that is, are all the
\* parts of one write; otherwise Absent.
getChunkedCookie(c) ==
    IF c[Base] # Absent THEN c[Base]
    ELSE IF Present(c) = 0 .. c[0].size - 1
              /\ \A i \in Present(c) : c[i] = c[0]
         THEN c[0] ELSE Absent

deleteChunkedCookie(c) ==
    [n \in Names |-> IF n = Base \/ n \in Present(c) THEN Absent ELSE Keep]
=============================================================================
