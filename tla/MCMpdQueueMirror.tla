-------------------------- MODULE MCMpdQueueMirror --------------------------
(***************************************************************************)
(* Model-checking instances of MpdQueueMirror: two songs, bodies of one    *)
(* song, a handful of inputs and faults.                                   *)
(***************************************************************************)
EXTENDS MpdQueueMirror, TLC

CONSTANTS a, b
BothSongs == {a, b}
OneSong   == {a}

\* Sound where both songs are playable: no definition tells them apart.
SongSymmetry == Permutations(BothSongs)

\* The poll thread, and a client that sends nothing but replace requests with a
\* malformed body.
MalformedSpec == Init /\ [][Poll \/ HttpReplace(<<>>, FALSE, FALSE)]_vars

\* A malformed body gets its 400 and the process lives (docs/FIXES.md:12,
\* docs/FEATURES.md:531): where only such requests are sent, nothing ends it.
MalformedSurvives == proc # "crashed"
=============================================================================
