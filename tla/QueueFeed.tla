----------------------------- MODULE QueueFeed -----------------------------
(***************************************************************************)
(* What the poll thread promises the browsers about versions of the queue: *)
(* the queue it serves is brought to the version mpd has at that moment,   *)
(* and a version is announced only after that.  It promises less once the  *)
(* connection is lost: then it may announce a version it only heard of.    *)
(***************************************************************************)
EXTENDS Naturals

VARIABLES
  version,    \* mpd's queue version
  taken,      \* the version at which the served queue was read from mpd since the
              \* last notice, 0 if it was not
  announced,  \* the version the browsers were last told of
  lost        \* the connection to mpd is lost, and that was noticed

vars == <<version, taken, announced, lost>>

Init == version = 1 /\ taken = 0 /\ announced = 0 /\ lost = FALSE

\* Somebody changes the queue; a list loaded at once is one change.
Change == version' = version + 1 /\ UNCHANGED <<taken, announced>>

Take ==
  /\ taken' = version /\ lost' = FALSE
  /\ UNCHANGED <<version, announced>>

Tell ==
  /\ announced' \in {announced} \cup announced..(IF lost THEN version ELSE taken)
  /\ taken' = 0
  /\ lost => lost'
  /\ UNCHANGED version

\* The process ends, by itself (clearing the queue) or not.
Forget ==
  /\ taken' = 0 /\ announced' = 0
  /\ version' \in {version, version + 1}

\* The connection is lost or replaced.
Relink == UNCHANGED <<version, taken, announced>>

Next == (Change \/ Take \/ Tell \/ Forget \/ Relink) /\ lost' \in BOOLEAN

Spec == Init /\ [][Next]_vars
=============================================================================
