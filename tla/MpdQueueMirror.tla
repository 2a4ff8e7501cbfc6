--------------------------- MODULE MpdQueueMirror ---------------------------
(***************************************************************************)
(* The shared play queue of aurmpd: the queue mpd keeps, the mirror of it  *)
(* that aurmpd serves to browsers (the global SQ), the one libmpdclient    *)
(* connection all threads share, and the 1 Hz poll thread that connects,   *)
(* detects queue changes and rebuilds the mirror.                          *)
(*                                                                         *)
(* Granularity.  Every request handler and every poll round holds mpd_lock *)
(* from its first to its last command, so at most one of them is under way *)
(* (variable job).  Each mpd command inside it is a step of its own: other *)
(* mpd clients, a dropped link and a restart of mpd fall between commands. *)
(* The platform is the non-Windows build (mpd_client.c:486-494), where     *)
(* audio_queue_restore does nothing and no restart is ever pending.        *)
(***************************************************************************)
EXTENDS Integers, Sequences, FiniteSets

CONSTANTS
  Songs,        \* the uris clients may ask for
  Playable,     \* those mpd accepts; it refuses the others with an ACK
  MaxBatch,     \* bound: songs in the body of one request
  MaxInputs,    \* bound: client requests and edits by other mpd clients
  MaxFaults,    \* bound: timeouts, dropped links, kills, restarts of mpd
  MpdRestarts   \* whether mpd itself may stop and start again

ASSUME MirrorAssumption ==
  /\ Playable \subseteq Songs
  /\ MaxBatch \in Nat /\ MaxInputs \in Nat /\ MaxFaults \in Nat
  /\ MpdRestarts \in BOOLEAN

VARIABLES
  \* mpd
  mpdUp,        \* mpd is running
  mpdQueue,     \* its queue: a sequence of [sid, song]
  mpdVersion,   \* its queue version, bumped by every change of the queue
  nextSid,      \* the id it gives to the next song queued
  \* aurmpd
  proc,         \* the aurmpd process: "running", "stopped", "crashed"
  connState,    \* mpd.conn_state
  conn,         \* mpd.conn: "null", "live", "lost" (peer gone, not noticed
                \* yet) or "stuck" (in the middle of an unread response)
  err,          \* the connection's sticky error: "none", "ack", "fatal"
  mirror,       \* SQ: a set of [sid, song, pos]
  synced,       \* s_queue_synced
  verSynced,    \* s_queue_version_synced
  queueVersion, \* mpd.queue_version
  announced,    \* thread_data.mpd_cs.queue_version
  listed,       \* history: mpd's version at this round's listing, 0 if it failed
                \* or there was none
  job,          \* the holder of mpd_lock and where it stands
  \* bounds
  inputs, faults

server == <<mpdQueue, mpdVersion, nextSid>>
link   == <<connState, conn, err>>
marks  == <<synced, verSynced, queueVersion, announced, listed>>
vars   == <<mpdUp, server, proc, link, mirror, marks, job, inputs, faults>>

Bodies == UNION {[1..n -> Songs] : n \in 0..MaxBatch}
Loads  == UNION {[1..n -> Playable] : n \in 1..MaxBatch}

IdleJob == [at |-> "idle", by |-> "none", body |-> <<>>,
            play |-> FALSE, first |-> 0]
Idle    == job.at = "idle"
Running == proc = "running"

-----------------------------------------------------------------------------
(***************************************************************************)
(* mpd's queue.                                                            *)
(***************************************************************************)

Queued == {mpdQueue[i].sid : i \in DOMAIN mpdQueue}

Bump == mpdVersion' = mpdVersion + 1

Load(list) ==
  /\ mpdQueue' = mpdQueue \o [i \in DOMAIN list |->
                                [sid |-> nextSid + i - 1, song |-> list[i]]]
  /\ nextSid' = nextSid + Len(list)
  /\ Bump

RemoveRange(from, to) ==
  /\ mpdQueue' = [i \in 1..(Len(mpdQueue) - (to - from + 1)) |->
                    mpdQueue[IF i < from THEN i ELSE i + (to - from + 1)]]
  /\ Bump /\ UNCHANGED nextSid

Clear == mpdQueue' = <<>> /\ Bump /\ UNCHANGED nextSid

Move(from, to) ==
  /\ mpdQueue' = [k \in DOMAIN mpdQueue |->
                    mpdQueue[IF k = to THEN from
                             ELSE IF from <= k /\ k < to THEN k + 1
                             ELSE IF to < k /\ k <= from THEN k - 1
                             ELSE k]]
  /\ Bump /\ UNCHANGED nextSid

\* Every way a client of mpd, aurmpd's WebSocket handler included, can change
\* the queue: add, addid, load; delete, deleteid; clear; move.
Edit ==
  \/ \E list \in Loads : Load(list)
  \/ \E i, j \in DOMAIN mpdQueue : i <= j /\ RemoveRange(i, j)
  \/ Clear
  \/ \E i, j \in DOMAIN mpdQueue : i # j /\ Move(i, j)

(***************************************************************************)
(* One libmpdclient command.  An error already on the connection makes it  *)
(* fail without being sent; mpd may refuse it; the link may be gone; the   *)
(* answer may not come in time, whether or not mpd executed the command.   *)
(***************************************************************************)
Result(e, ok, done, cost) == [err |-> e, ok |-> ok, done |-> done, cost |-> cost]

Results(refused) ==
  IF err # "none" THEN {Result(err, FALSE, FALSE, 0)}
  ELSE IF conn = "stuck" THEN {Result("ack", FALSE, FALSE, 0)}
  ELSE IF conn # "live" THEN {Result("fatal", FALSE, FALSE, 0)}
  ELSE {IF refused THEN Result("ack", FALSE, FALSE, 0)
                   ELSE Result("none", TRUE, TRUE, 0)}
       \cup IF faults = 0 THEN {}
            ELSE {Result("fatal", FALSE, d, 1) : d \in {FALSE, ~refused}}

Charge(r) == faults' = faults - r.cost

\* mpd_connection_clear_error: a closed connection cannot be recovered.
Cleared(e) == IF e = "fatal" THEN e ELSE "none"

-----------------------------------------------------------------------------
(***************************************************************************)
(* The mirror.  The order of its vector is left out (every entry carries   *)
(* its pos); entries are found by queue_sid.                               *)
(***************************************************************************)

\* What the mirror of queue q has to be.
Image(q) == {[sid |-> q[i].sid, song |-> q[i].song, pos |-> i - 1] :
               i \in DOMAIN q}

\* syncFromMpd keeps the known entry of a queue_sid and refreshes its pos.
KnownSong(m, x) ==
  IF \E e \in m : e.sid = x.sid
    THEN (CHOOSE e \in m : e.sid = x.sid).song
    ELSE x.song

\* Mutant: the known entry is kept as it is.
RebuiltStalePos(m, q) ==
  {IF \E e \in m : e.sid = q[i].sid
     THEN CHOOSE e \in m : e.sid = q[i].sid
     ELSE [sid |-> q[i].sid, song |-> q[i].song, pos |-> i - 1] : i \in DOMAIN q}

Rebuilt(m, q) == {[sid |-> q[i].sid, song |-> KnownSong(m, q[i]), pos |-> i - 1] :
                    i \in DOMAIN q}

\* makeupPos: the entries mpd lists get their position, the others keep theirs.
PosIn(e, q) ==
  IF \E i \in DOMAIN q : q[i].sid = e.sid
    THEN (CHOOSE i \in DOMAIN q : q[i].sid = e.sid) - 1
    ELSE e.pos

\* Mutant: updateSonge adds the new entry without erasing the old one.
PositionedTwice(m, q) == m \cup {[e EXCEPT !.pos = PosIn(e, q)] : e \in m}

Positioned(m, q) == {[e EXCEPT !.pos = PosIn(e, q)] : e \in m}

-----------------------------------------------------------------------------
(***************************************************************************)
(* The aurmpd process.                                                     *)
(***************************************************************************)

FreshProcess ==
  /\ connState = "DISCONNECTED" /\ conn = "null" /\ err = "none"
  /\ mirror = {}
  /\ synced = FALSE /\ verSynced = 0 /\ queueVersion = 0 /\ announced = 0
  /\ listed = 0
  /\ job = IdleJob

Init ==
  /\ mpdUp = TRUE /\ mpdQueue = <<>> /\ mpdVersion = 1 /\ nextSid = 1
  /\ proc = "running" /\ FreshProcess
  /\ inputs = MaxInputs /\ faults = MaxFaults

\* The process ends: its memory is gone.
Ends(how) ==
  /\ proc' = how
  /\ connState' = "DISCONNECTED" /\ conn' = "null" /\ err' = "none"
  /\ mirror' = {}
  /\ synced' = FALSE /\ verSynced' = 0 /\ queueVersion' = 0 /\ announced' = 0
  /\ listed' = 0
  /\ job' = IdleJob

\* A client request: handlers only start when mpd_lock is free.
Request ==
  /\ Running /\ Idle
  /\ inputs > 0 /\ inputs' = inputs - 1
  /\ UNCHANGED mpdUp

\* An HTTP handler has no test of mpd.conn: with no connection object the
\* first command dereferences a null pointer.
NullConn == conn = "null" /\ Ends("crashed") /\ UNCHANGED <<server, faults>>

-----------------------------------------------------------------------------
(***************************************************************************)
(* HTTP: POST /api/queue/add, /replace, /del and GET /api/library.         *)
(***************************************************************************)

Goto(label) == job' = [job EXCEPT !.at = label]

HttpAdd(body, play) ==
  /\ Request
  /\ \/ NullConn
     \/ /\ conn # "null"
        /\ job' = [at |-> "clear", by |-> "add", body |-> body,
                   play |-> play, first |-> 0]
        /\ UNCHANGED <<server, proc, link, mirror, marks, faults>>

\* SQ.clear() comes before the body is looked at; a malformed body then ends
\* the handler with 400.
HttpReplace(body, play, wellFormed) ==
  /\ Request
  /\ \/ NullConn
     \/ /\ conn # "null"
        /\ \E r \in Results(FALSE) :
             /\ IF r.done THEN Clear ELSE UNCHANGED server
             /\ err' = r.err /\ Charge(r)
        /\ mirror' = {}
        /\ job' = IF wellFormed
                    THEN [at |-> "clear", by |-> "replace", body |-> body,
                          play |-> play, first |-> 0]
                    ELSE IdleJob
        /\ UNCHANGED <<proc, connState, conn, marks>>

\* Mutant: clears without looking at the mirror.
ClearAnyway ==
  /\ job.at = "clear"
  /\ \E r \in Results(FALSE) :
       /\ IF r.done THEN Clear ELSE UNCHANGED server
       /\ err' = r.err /\ Charge(r)
  /\ Goto("add")
  /\ UNCHANGED <<mpdUp, proc, connState, conn, mirror, marks, inputs>>

\* addTrackTompd: an empty mirror makes mpd's queue be cleared first.
ClearIfEmpty ==
  /\ job.at = "clear"
  /\ IF mirror = {}
       THEN \E r \in Results(FALSE) :
              /\ IF r.done THEN Clear ELSE UNCHANGED server
              /\ err' = r.err /\ Charge(r)
       ELSE UNCHANGED <<server, err, faults>>
  /\ Goto("add")
  /\ UNCHANGED <<mpdUp, proc, connState, conn, mirror, marks, inputs>>

\* Mutants: the returned -1 is not looked at; the place in the queue is taken
\* for the id.
AddedUnchecked(r, song) ==
  {[sid |-> IF r.ok THEN nextSid ELSE -1, song |-> song, pos |-> -1]}
AddedByPlace(r, song) ==
  IF r.ok THEN {[sid |-> Len(mpdQueue) + 1, song |-> song, pos |-> -1]} ELSE {}

\* What Mpdqueue::addSong enters: the song under the id addid returned.
Added(r, song) ==
  IF r.ok THEN {[sid |-> nextSid, song |-> song, pos |-> -1]} ELSE {}

\* Mpdqueue::addSong for the next item; the first id is kept for the reply.
AddSong ==
  /\ job.at = "add" /\ job.body # <<>>
  /\ \E r \in Results(Head(job.body) \notin Playable) :
       /\ IF r.done THEN Load(<<Head(job.body)>>) ELSE UNCHANGED server
       /\ err' = r.err /\ Charge(r)
       /\ mirror' = mirror \cup Added(r, Head(job.body))
       /\ job' = [job EXCEPT !.body = Tail(@),
                             !.first = IF r.ok /\ @ = 0 THEN nextSid ELSE @]
  /\ UNCHANGED <<mpdUp, proc, connState, conn, marks, inputs>>

\* makeupPos; a listing cut off by a timeout has positioned a prefix.
MakeupPos ==
  /\ job.at = "add" /\ job.body = <<>>
  /\ \E r \in Results(FALSE) :
       /\ err' = r.err /\ Charge(r)
       /\ \E n \in (IF r.ok THEN {Len(mpdQueue)}
                     ELSE IF r.cost = 1 THEN 0..Len(mpdQueue) ELSE {0}) :
            mirror' = Positioned(mirror, SubSeq(mpdQueue, 1, n))
  /\ IF job.play THEN Goto("play") ELSE job' = IdleJob
  /\ UNCHANGED <<mpdUp, server, proc, connState, conn, marks, inputs>>

\* playSid(first) after add/play, playPos(0) after replace/play; nothing is
\* sent when the mirror has no such entry.
Play ==
  LET bySid  == job.by = "add"
      wanted == IF bySid THEN \E e \in mirror : e.sid = job.first
                         ELSE \E e \in mirror : e.pos = 0
      absent == IF bySid THEN job.first \notin Queued ELSE mpdQueue = <<>>
  IN /\ job.at = "play"
     /\ IF wanted THEN \E r \in Results(absent) : err' = r.err /\ Charge(r)
                  ELSE UNCHANGED <<err, faults>>
     /\ job' = IdleJob
     /\ UNCHANGED <<mpdUp, server, proc, connState, conn, mirror, marks, inputs>>

\* removeSongBySid: the local entry goes first, then mpd is told.
HttpDel(sid) ==
  /\ Request
  /\ \E e \in mirror : e.sid = sid
  /\ \/ NullConn
     \/ /\ conn # "null"
        /\ mirror' = {e \in mirror : e.sid # sid}
        /\ \E r \in Results(sid \notin Queued) :
             /\ IF r.done
                  THEN \E i \in DOMAIN mpdQueue :
                         mpdQueue[i].sid = sid /\ RemoveRange(i, i)
                  ELSE UNCHANGED server
             /\ err' = r.err /\ Charge(r)
        /\ UNCHANGED <<proc, connState, conn, marks, job>>

\* getMpdDB lists the library over the same connection and leaves an error
\* where it is.
HttpLibrary ==
  /\ Request
  /\ \/ NullConn
     \/ /\ conn # "null"
        /\ \E r \in Results(FALSE) : err' = r.err /\ Charge(r)
        /\ UNCHANGED <<server, proc, connState, conn, mirror, marks, job>>

-----------------------------------------------------------------------------
(***************************************************************************)
(* WebSocket: callback_mpd.  Commands need a connected state; an error left *)
(* on the connection afterwards is cleared, or the connection is failed.   *)
(***************************************************************************)

RecoverFrom(e) ==
  /\ err' = Cleared(e)
  /\ connState' = IF Cleared(e) # "none" THEN "FAILURE" ELSE connState

\* A listing of the library or of playlists that mpd refuses fails the connection
\* by itself, so the recovery leaves its error there.
RefusedListing ==
  /\ err = "none" /\ conn = "live"
  /\ err' = "ack" /\ connState' = "FAILURE"
  /\ UNCHANGED <<server, faults>>

\* A command that changes the queue, or one that leaves it alone.  GET_OUTPUTS also
\* runs mpd_notify_callback; it announces nothing, as between two poll rounds the
\* version was announced already.
WsCommand ==
  /\ Request /\ connState = "CONNECTED"
  /\ \/ \E r \in Results(FALSE) :
          /\ IF r.done THEN Edit \/ UNCHANGED server ELSE UNCHANGED server
          /\ RecoverFrom(r.err) /\ Charge(r)
     \/ RefusedListing
  /\ UNCHANGED <<proc, conn, mirror, marks, job>>

\* A search with more matches than are put in the reply stops reading in the
\* middle of mpd's answer.
WsSearchMany ==
  /\ Request /\ connState = "CONNECTED"
  /\ err = "none" /\ conn = "live" /\ conn' = "stuck"
  /\ UNCHANGED <<server, proc, connState, err, mirror, marks, job, faults>>

\* Mutant: drops the connection at once and leaves the state as it is.
WsReconnectAtOnce ==
  /\ Request
  /\ conn' = "null" /\ err' = "none"
  /\ UNCHANGED <<server, proc, connState, mirror, marks, job, faults>>

\* MPD_API_SET_MPDHOST and SET_MPDPASS, accepted in every state.
WsReconnect ==
  /\ Request
  /\ connState' = "RECONNECT"
  /\ UNCHANGED <<server, proc, conn, err, mirror, marks, job, faults>>

-----------------------------------------------------------------------------
(***************************************************************************)
(* mpd_poll, once a second.                                                *)
(***************************************************************************)

\* No answer, no memory, password refused; only the first needs no fault
\* when mpd is down.
ConnectFailures ==
  LET NoAnswer == [conn |-> "lost", err |-> "fatal"]
      NoMemory == [conn |-> "null", err |-> "none"]
      Refused  == [conn |-> "live", err |-> "ack"]
  IN IF ~mpdUp THEN {NoAnswer}
     ELSE IF faults > 0 THEN {NoAnswer, NoMemory, Refused} ELSE {}

PollConnect ==
  /\ Running /\ Idle /\ connState = "DISCONNECTED"
  /\ \/ /\ mpdUp
        /\ conn' = "live" /\ err' = "none" /\ connState' = "CONNECTED"
        /\ Goto("firstSync") /\ UNCHANGED faults
     \/ /\ \E f \in ConnectFailures : conn' = f.conn /\ err' = f.err
        /\ connState' = "FAILURE" /\ UNCHANGED job
        /\ faults' = IF mpdUp THEN faults - 1 ELSE faults
  /\ UNCHANGED <<mpdUp, server, proc, mirror, marks, inputs>>

\* Mutant: the case of a failed connection does not fall through.
PollDropReconnectOnly ==
  /\ Running /\ Idle /\ connState = "RECONNECT"
  /\ conn' = "null" /\ err' = "none" /\ connState' = "DISCONNECTED"
  /\ UNCHANGED <<mpdUp, server, proc, mirror, marks, job, inputs, faults>>

PollDrop ==
  /\ Running /\ Idle /\ connState \in {"FAILURE", "RECONNECT"}
  /\ conn' = "null" /\ err' = "none" /\ connState' = "DISCONNECTED"
  /\ UNCHANGED <<mpdUp, server, proc, mirror, marks, job, inputs, faults>>

\* syncFromMpd: a failed listing keeps the old mirror and clears the error.
SyncFromMpd ==
  \E r \in Results(FALSE) :
    /\ mirror' = IF r.ok THEN Rebuilt(mirror, mpdQueue) ELSE mirror
    /\ listed' = IF r.ok THEN mpdVersion ELSE listed
    /\ err' = IF r.ok THEN r.err ELSE Cleared(r.err)
    /\ Charge(r)

PollFirstSync ==
  /\ job.at = "firstSync"
  /\ SyncFromMpd
  /\ synced' = TRUE
  /\ Goto("publish")
  /\ UNCHANGED <<mpdUp, server, proc, connState, conn, verSynced, queueVersion,
                 announced, inputs>>

\* Mutant: the version is not compared.
MustRebuildOnce(version) == ~synced

MustRebuild(version) == ~synced \/ version # verSynced

\* mpd_put_state: a failed status fails the connection, whatever the error.
PollStatus ==
  /\ Running /\ Idle /\ connState = "CONNECTED"
  /\ \E r \in Results(FALSE) :
       /\ err' = r.err /\ Charge(r)
       /\ connState' = IF r.ok THEN connState ELSE "FAILURE"
       /\ queueVersion' = IF r.ok THEN mpdVersion ELSE queueVersion
       /\ Goto(IF r.ok /\ MustRebuild(mpdVersion)
                 THEN "sync" ELSE "publish")
  /\ UNCHANGED <<mpdUp, server, proc, conn, mirror, synced, verSynced, announced,
                 listed, inputs>>

\* The version is recorded as synced even if the listing failed.
PollSync ==
  /\ job.at = "sync"
  /\ SyncFromMpd
  /\ verSynced' = queueVersion /\ synced' = TRUE
  /\ Goto("publish")
  /\ UNCHANGED <<mpdUp, server, proc, connState, conn, queueVersion, announced,
                 inputs>>

\* Mutant: the version is read once more for the notice.
PollPublishReread ==
  /\ job.at = "publish"
  /\ announced' = IF connState = "CONNECTED" THEN mpdVersion ELSE announced
  /\ \E r \in Results(FALSE) : err' = Cleared(r.err) /\ Charge(r)
  /\ job' = IdleJob /\ listed' = 0
  /\ UNCHANGED <<mpdUp, server, proc, connState, conn, mirror, synced, verSynced,
                 queueVersion, inputs>>

\* mpd_notify_callback and mpd_put_outputs, which clears what error there is.
PollPublish ==
  /\ job.at = "publish"
  /\ announced' = IF connState = "CONNECTED" THEN queueVersion ELSE announced
  /\ \E r \in Results(FALSE) : err' = Cleared(r.err) /\ Charge(r)
  /\ job' = IdleJob /\ listed' = 0
  /\ UNCHANGED <<mpdUp, server, proc, connState, conn, mirror, synced, verSynced,
                 queueVersion, inputs>>

-----------------------------------------------------------------------------
(***************************************************************************)
(* Start and end of the process, other clients of mpd, mpd itself.         *)
(***************************************************************************)

\* Leaving main: mpd_clear_all stops and clears mpd, then drops the connection.
Exit ==
  /\ Running /\ Idle
  /\ inputs > 0 /\ inputs' = inputs - 1
  /\ IF conn = "null" THEN UNCHANGED <<server, faults>>
     ELSE \E r \in Results(FALSE) :
            /\ IF r.done THEN Clear ELSE UNCHANGED server
            /\ Charge(r)
  /\ Ends("stopped")
  /\ UNCHANGED mpdUp

Kill ==
  /\ Running
  /\ faults > 0 /\ faults' = faults - 1
  /\ Ends("stopped")
  /\ UNCHANGED <<mpdUp, server, inputs>>

Start ==
  /\ proc # "running" /\ proc' = "running"
  /\ UNCHANGED <<mpdUp, server, link, mirror, marks, job, inputs, faults>>

OtherClient ==
  /\ mpdUp
  /\ inputs > 0 /\ inputs' = inputs - 1
  /\ Edit
  /\ UNCHANGED <<mpdUp, proc, link, mirror, marks, job, faults>>

LinkDrops ==
  /\ faults > 0 /\ faults' = faults - 1
  /\ conn \in {"live", "stuck"} /\ conn' = "lost"
  /\ UNCHANGED <<mpdUp, server, proc, connState, err, mirror, marks, job, inputs>>

MpdStops ==
  /\ MpdRestarts /\ mpdUp /\ mpdUp' = FALSE
  /\ faults > 0 /\ faults' = faults - 1
  /\ conn' = IF conn = "null" THEN conn ELSE "lost"
  /\ UNCHANGED <<server, proc, connState, err, mirror, marks, job, inputs>>

\* A new mpd numbers songs and versions from the start; it has the songs of
\* its state file, or none.
MpdStarts ==
  /\ ~mpdUp /\ mpdUp' = TRUE
  /\ \/ /\ mpdQueue' = <<>> /\ nextSid' = 1 /\ mpdVersion' = 1
     \/ /\ mpdQueue' = [i \in DOMAIN mpdQueue |->
                           [sid |-> i, song |-> mpdQueue[i].song]]
        /\ nextSid' = Len(mpdQueue) + 1
        /\ mpdVersion' \in 1..(Len(mpdQueue) + 1)
  /\ UNCHANGED <<proc, link, mirror, marks, job, inputs, faults>>

-----------------------------------------------------------------------------
Poll == PollConnect \/ PollDrop \/ PollFirstSync \/ PollStatus \/ PollSync
        \/ PollPublish

HttpSteps == ClearIfEmpty \/ AddSong \/ MakeupPos \/ Play

Next ==
  \/ \E body \in Bodies, play \in BOOLEAN : HttpAdd(body, play)
  \/ \E body \in Bodies, play \in BOOLEAN : HttpReplace(body, play, TRUE)
  \/ HttpReplace(<<>>, FALSE, FALSE)
  \/ \E e \in mirror : HttpDel(e.sid)
  \/ HttpLibrary
  \/ HttpSteps
  \/ WsCommand
  \/ WsSearchMany
  \/ WsReconnect
  \/ Poll
  \/ Exit
  \/ Kill
  \/ Start
  \/ OtherClient
  \/ LinkDrops
  \/ MpdStops
  \/ MpdStarts

\* The poll thread never stops polling and the event thread finishes the
\* handler it is in; nobody has to send requests or to start a program.
Fairness == WF_vars(Poll) /\ WF_vars(HttpSteps)

Spec     == Init /\ [][Next]_vars
FairSpec == Spec /\ Fairness

-----------------------------------------------------------------------------
(***************************************************************************)
(* Properties.                                                             *)
(***************************************************************************)

Entries       == [sid : Nat \ {0}, song : Songs]
MirrorEntries == [sid : Nat \ {0}, song : Songs, pos : Nat \cup {-1}]
Jobs == [at : {"idle", "clear", "add", "play", "firstSync", "sync", "publish"},
         by : {"none", "add", "replace"}, body : Seq(Songs),
         play : BOOLEAN, first : Nat]

ServerType ==
  mpdQueue \in Seq(Entries) /\ mpdVersion \in Nat \ {0} /\ nextSid \in Nat \ {0}

TypeOK ==
  /\ mpdUp \in BOOLEAN /\ ServerType
  /\ proc \in {"running", "stopped", "crashed"}
  /\ connState \in {"DISCONNECTED", "FAILURE", "CONNECTED", "RECONNECT"}
  /\ conn \in {"null", "live", "lost", "stuck"}
  /\ err \in {"none", "ack", "fatal"}
  /\ mirror \in SUBSET MirrorEntries
  /\ synced \in BOOLEAN
  /\ verSynced \in Nat /\ queueVersion \in Nat /\ announced \in Nat /\ listed \in Nat
  /\ job \in Jobs
  /\ inputs \in 0..MaxInputs /\ faults \in 0..MaxFaults

Healthy == Running /\ connState = "CONNECTED" /\ conn = "live" /\ err = "none"

\* The poll thread believes the mirror current: it would not rebuild it.
BelievedCurrent ==
  Healthy /\ job.at # "firstSync" /\ synced /\ verSynced = mpdVersion

\* Whenever the poll thread, comparing its recorded queue version with mpd's,
\* would skip the rebuild of the mirror (mpd_client.c:1114-1119), the mirror
\* is exactly mpd's queue, whatever requests, failures of the link and edits
\* by other clients came before.
MirrorCurrent == BelievedCurrent => mirror = Image(mpdQueue)

\* A queue_sid names the same song in the mirror and in mpd, so that a delete
\* or play request of a browser reaches the song it was shown
\* (mpdqueue.cpp:115-117).
SidNamesSong ==
  Healthy /\ Idle =>
    \A e \in mirror, i \in DOMAIN mpdQueue :
      e.sid = mpdQueue[i].sid => e.song = mpdQueue[i].song

\* No queue_sid is in the mirror twice, so looking an entry up by its
\* queue_sid (queue.cpp:22-29) is well defined.
MirrorSidsUnique == \A e, f \in mirror : e.sid = f.sid => e = f

\* The connected state implies a connection object: neither a WebSocket
\* command nor a poll round can pass a null connection to libmpdclient.
ConnectedHasConn == connState = "CONNECTED" => conn # "null"

\* The clear that an add request sends when the mirror is empty
\* (http_server.cpp:81-86) drops songs only while a change of the queue has
\* not been seen by the poll thread yet.
AddDropsOnlyUnseen ==
  [][ job.at = "clear" /\ job.by = "add" /\ job'.at = "add"
        /\ mpdQueue # <<>> /\ mpdQueue' = <<>>
      => ~synced \/ verSynced # mpdVersion ]_vars

\* An update_queue broadcast announces a version only when the mirror was read from
\* mpd at that version or a later one, and is mpd's queue if that has not changed
\* since, so that the GET /api/queue it triggers does not read the queue of before.
\* The exception is a connection lost between the status and the listing: the round
\* records the version and announces it over the old mirror (mpd_client.c:1112-1120).
AnnouncedAfterSync ==
  [][ announced' # announced /\ Running'
      => \/ listed >= announced' /\ (listed = mpdVersion => mirror = Image(mpdQueue))
         \/ err = "fatal" ]_vars

\* The poll thread keeps what QueueFeed promises about versions: none is announced
\* unless a listing of the same round has brought the served queue to it or the
\* connection was lost, none ahead of mpd's, and none older than the last
\* (mpd_client.c:982-987, 1111-1120).
Feed == INSTANCE QueueFeed WITH version <- mpdVersion, taken <- listed,
                                announced <- announced, lost <- (err = "fatal")
ImplementsFeed == Feed!Spec

StaysUp == <>[](Running /\ mpdUp)

\* Once requests, edits and faults stop, the mirror comes to be mpd's queue
\* and its version is announced to the browsers, for good - as long as mpd was
\* not restarted (mirror_sid_reuse shows what a restart can leave behind).
Converges ==
  StaysUp /\ []mpdUp => <>[](mirror = Image(mpdQueue) /\ announced = mpdVersion)

\* Whatever broke the connection - a dropped link, a timeout, an unread
\* answer, an error left by an HTTP handler, a changed host or a restart of
\* mpd - the poll thread brings it back.
Recovers == StaysUp => []<>Healthy

=============================================================================
