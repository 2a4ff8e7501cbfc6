----------------------------- MODULE AudioSwitch -----------------------------
(***************************************************************************)
(* Switching the audio output (Windows build).  mpd reads its output from  *)
(* mpd.conf when it starts, and the launcher owns the mpd process.  So a   *)
(* switch goes through three processes and three files: aurmpd saves the   *)
(* queue, rewrites mpd.conf and leaves a request; the launcher, looking    *)
(* for the request once a second, terminates mpd and starts it again; the  *)
(* poll thread of aurmpd reconnects and puts the queue back, or reports    *)
(* after 25 seconds that mpd did not return.                               *)
(*                                                                         *)
(* The devices are numbered by the switches that ask for them, queues by   *)
(* the edits that make them.  Edits are those that go through aurmpd.  The *)
(* text the launcher leaves for the error message is left out.             *)
(***************************************************************************)
EXTENDS Integers

CONSTANTS
  MaxSwitches,  \* bound: requests to switch
  MaxEdits,     \* bound: edits of the queue
  MaxFaults,    \* bound: failed writes and starts, dropped links, crashes
  SlowRestarts  \* whether restarting mpd may take longer than the timeout

ASSUME AudioAssumption ==
  /\ MaxSwitches \in Nat /\ MaxEdits \in Nat /\ MaxFaults \in Nat
  /\ SlowRestarts \in BOOLEAN

VARIABLES
  \* mpd
  mpd,       \* the process: "down", "starting" or "up"
  device,    \* the switch whose device it plays on
  queue,     \* the edit that made its queue, 0 when it is empty
  \* files
  conf,      \* mpd.conf: the switch whose device it names
  saved,     \* .mpd/aurmpd-restart-queue: a queue, 0 without the file
  request,   \* .mpd/restart-request: a switch, 0 without the file
  \* launcher
  launcher,  \* where CheckMpdRestartRequest stands
  seen,      \* the request it found
  \* aurmpd
  connState, conn,    \* as in MpdQueueMirror; "failed": an error was noticed
  handler,   \* where mpd_api_set_audio_device stands; it holds mpd_lock
  poll,      \* where mpd_poll stands; "check" and "late" come before the lock
  pending,   \* s_audio_restart_pending
  deadline,  \* s_audio_restart_deadline: "passed" or "ahead"
  \* bounds
  switches, edits, faults,
  \* history
  wanted,    \* the queue as its users left it
  disturbed  \* a switch failed half way, or something happened during one

files   == <<conf, saved, request>>
player  == <<mpd, device, queue>>
link    == <<connState, conn>>
timer   == <<pending, deadline>>
bounds  == <<switches, edits, faults>>
history == <<wanted, disturbed>>
vars    == <<player, files, launcher, seen, link, handler, poll, timer, bounds,
             history>>

LockFree == handler = "idle" /\ poll \in {"check", "late", "round"}

\* No switch is under way, and the connection is up.
Settled ==
  /\ handler = "idle" /\ poll \in {"check", "round"} /\ ~pending
  /\ request = 0 /\ launcher = "watch"
  /\ mpd = "up" /\ connState = "CONNECTED" /\ conn = "live"

DisturbedIf(b) == disturbed' = (disturbed \/ b)

Fault == faults < MaxFaults /\ faults' = faults + 1

Init ==
  /\ mpd = "up" /\ device = 0 /\ queue = 1
  /\ conf = 0 /\ saved = 0 /\ request = 0
  /\ launcher = "watch" /\ seen = 0
  /\ connState = "CONNECTED" /\ conn = "live"
  /\ handler = "idle" /\ poll = "check"
  /\ pending = FALSE /\ deadline = "passed"
  /\ switches = 0 /\ edits = 0 /\ faults = 0
  /\ wanted = 1 /\ disturbed = FALSE

-----------------------------------------------------------------------------
(***************************************************************************)
(* MPD_API_SET_AUDIO_DEVICE, for a device that passed the trial opening.   *)
(***************************************************************************)

SetAudioDevice ==
  /\ LockFree
  /\ switches < MaxSwitches /\ switches' = switches + 1
  /\ handler' = "save"
  /\ DisturbedIf(~Settled)
  /\ UNCHANGED <<player, files, launcher, seen, link, poll, timer, edits, faults,
                 wanted>>

\* Mutant: the test of the connection state is the wrong way round.
SaveQueueInverted ==
  /\ handler = "save" /\ handler' = "conf"
  /\ saved' = IF connState # "CONNECTED" /\ queue # 0 THEN queue ELSE saved
  /\ UNCHANGED <<player, conf, request, launcher, seen, link, poll, timer, bounds,
                 history>>

\* audio_queue_save: an empty queue, no answer to status or a file that cannot
\* be opened leave the file as it is; a listing that breaks off removes it.  The
\* file is written at once: a crash that leaves a part of it is not in the model.
SaveQueue ==
  /\ handler = "save"
  /\ \/ /\ connState # "CONNECTED"
        /\ UNCHANGED <<saved, conn, faults, disturbed>>
     \/ /\ connState = "CONNECTED" /\ conn # "live"
        /\ conn' = "failed"
        /\ UNCHANGED <<saved, faults, disturbed>>
     \/ /\ connState = "CONNECTED" /\ conn = "live"
        /\ saved' = IF queue # 0 THEN queue ELSE saved
        /\ UNCHANGED <<conn, faults, disturbed>>
     \/ /\ connState = "CONNECTED" /\ conn = "live" /\ queue # 0
        /\ \/ saved' = 0 /\ conn' = "failed"
           \/ UNCHANGED <<saved, conn>>
        /\ Fault /\ disturbed' = TRUE
  /\ handler' = "conf"
  /\ UNCHANGED <<player, conf, request, launcher, seen, connState, poll, timer,
                 switches, edits, wanted>>

\* Every return goes through the end of callback_mpd, where an error on the
\* connection that cannot be cleared fails it.
Return ==
  /\ handler' = "idle"
  /\ connState' = IF connState = "CONNECTED" /\ conn = "failed" THEN "FAILURE"
                  ELSE connState

\* Mutants: the new file never takes the place of the old one; the device after
\* the one that was found is written.
SetConfNotReplaced ==
  /\ handler = "conf" /\ handler' = "request"
  /\ UNCHANGED <<player, files, launcher, seen, link, poll, timer, bounds, history>>
SetConfNextDevice ==
  /\ handler = "conf" /\ handler' = "request"
  /\ conf' = switches + 1
  /\ UNCHANGED <<player, saved, request, launcher, seen, link, poll, timer, bounds,
                 history>>

\* audio_conf_set_device replaces the file as a whole or leaves it.
SetConf ==
  /\ handler = "conf"
  /\ \/ /\ conf' = switches /\ handler' = "request"
        /\ UNCHANGED <<connState, faults, disturbed>>
     \/ /\ Fault /\ disturbed' = TRUE /\ Return /\ UNCHANGED conf
  /\ UNCHANGED <<player, saved, request, launcher, seen, conn, poll, timer,
                 switches, edits, wanted>>

WriteRequest ==
  /\ handler = "request"
  /\ \/ /\ request' = switches /\ handler' = "pending"
        /\ UNCHANGED <<connState, faults, disturbed>>
     \/ /\ Fault /\ disturbed' = TRUE /\ Return /\ UNCHANGED request
  /\ UNCHANGED <<player, conf, saved, launcher, seen, conn, poll, timer, switches,
                 edits, wanted>>

\* The flag and the deadline are two assignments; mpd_poll reads both of them
\* before it takes the lock.
MarkPending ==
  /\ handler = "pending"
  /\ pending' = TRUE
  /\ handler' = "deadline"
  /\ UNCHANGED <<player, files, launcher, seen, link, poll, deadline, bounds, history>>

SetDeadline ==
  /\ handler = "deadline"
  /\ deadline' = "ahead"
  /\ Return
  /\ UNCHANGED <<player, files, launcher, seen, conn, poll, pending, bounds, history>>

Handler == SaveQueue \/ SetConf \/ WriteRequest \/ MarkPending \/ SetDeadline

-----------------------------------------------------------------------------
(***************************************************************************)
(* mpd_poll.                                                               *)
(***************************************************************************)

PollCheck ==
  /\ poll = "check"
  /\ poll' = IF pending /\ deadline = "passed" THEN "late" ELSE "round"
  /\ UNCHANGED <<player, files, launcher, seen, link, handler, timer, bounds, history>>

\* Mutant: the message is sent and the flag is left alone.
PollTimeoutKeepsFlag ==
  /\ poll = "late" /\ poll' = "round"
  /\ UNCHANGED <<player, files, launcher, seen, link, handler, timer, bounds, history>>

\* The error message, unless the connection is up.
PollTimeout ==
  /\ poll = "late" /\ poll' = "round"
  /\ pending' = FALSE
  /\ UNCHANGED <<player, files, launcher, seen, link, handler, deadline, bounds,
                 history>>

PollStatus ==
  /\ connState = "CONNECTED"
  /\ IF conn = "live" THEN UNCHANGED link
     ELSE conn' = "failed" /\ connState' = "FAILURE"
  /\ poll' = "check"

PollDrop ==
  /\ connState \in {"FAILURE", "RECONNECT"}
  /\ conn' = "null" /\ connState' = "DISCONNECTED"
  /\ poll' = "check"

PollConnect ==
  /\ connState = "DISCONNECTED"
  /\ IF mpd = "up"
       THEN conn' = "live" /\ connState' = "CONNECTED" /\ poll' = "restore"
       ELSE conn' = "failed" /\ connState' = "FAILURE" /\ poll' = "check"

PollRound ==
  /\ poll = "round" /\ handler = "idle"
  /\ PollStatus \/ PollDrop \/ PollConnect
  /\ UNCHANGED <<player, files, launcher, seen, handler, timer, bounds, history>>

\* audio_queue_restore: the queue is cleared, the songs are added, and the file
\* goes whether that worked or not.
RestoreClear ==
  /\ poll = "restore"
  /\ IF saved # 0 /\ conn = "live"
       THEN queue' = 0 /\ poll' = "add" /\ UNCHANGED <<saved, conn>>
       ELSE /\ saved' = 0 /\ poll' = "publish"
            /\ conn' = IF saved # 0 THEN "failed" ELSE conn
            /\ UNCHANGED queue
  /\ UNCHANGED <<mpd, device, conf, request, launcher, seen, connState, handler,
                 timer, bounds, history>>

RestoreAdd ==
  /\ poll = "add" /\ poll' = "publish"
  /\ saved' = 0
  /\ \/ conn = "live" /\ queue' = saved /\ UNCHANGED <<conn, faults, disturbed>>
     \/ conn # "live" /\ conn' = "failed" /\ UNCHANGED <<queue, faults, disturbed>>
     \/ /\ conn = "live" /\ UNCHANGED <<queue, conn>>  \* mpd refuses a song
        /\ Fault /\ disturbed' = TRUE
  /\ UNCHANGED <<mpd, device, conf, request, launcher, seen, connState, handler,
                 timer, switches, edits, wanted>>

\* The new state of the outputs goes to all browsers.
PollPublish ==
  /\ poll = "publish" /\ poll' = "check"
  /\ pending' = FALSE
  /\ UNCHANGED <<player, files, launcher, seen, link, handler, deadline, bounds,
                 history>>

Poll == PollCheck \/ PollTimeout \/ PollRound \/ RestoreClear \/ RestoreAdd
        \/ PollPublish

-----------------------------------------------------------------------------
(***************************************************************************)
(* The launcher: CheckMpdRestartRequest, and mpd itself.                   *)
(***************************************************************************)

FindRequest ==
  /\ launcher = "watch" /\ request # 0
  /\ launcher' = "kill" /\ seen' = request
  /\ UNCHANGED <<player, files, link, handler, poll, timer, bounds, history>>

\* A terminated mpd has no time to write its state file.
KillMpd ==
  /\ launcher = "kill" /\ launcher' = "start"
  /\ mpd' = "down" /\ queue' = 0
  /\ conn' = IF conn = "live" THEN "lost" ELSE conn
  /\ UNCHANGED <<device, files, seen, connState, handler, poll, timer, bounds, history>>

StartMpd ==
  /\ launcher = "start" /\ launcher' = "delete"
  /\ \/ mpd' = "starting" /\ UNCHANGED faults
     \/ Fault /\ UNCHANGED mpd
  /\ UNCHANGED <<device, queue, files, seen, link, handler, poll, timer, switches,
                 edits, history>>

DeleteRequest ==
  /\ launcher = "delete" /\ launcher' = "watch"
  /\ request' = 0
  /\ UNCHANGED <<player, conf, saved, seen, link, handler, poll, timer, bounds, history>>

Launcher == FindRequest \/ KillMpd \/ StartMpd \/ DeleteRequest

\* mpd reads its configuration and accepts connections.
MpdReady ==
  /\ mpd = "starting" /\ mpd' = "up"
  /\ device' = conf
  /\ UNCHANGED <<queue, files, launcher, seen, link, handler, poll, timer, bounds,
                 history>>

-----------------------------------------------------------------------------
(***************************************************************************)
(* Time, users, faults.                                                    *)
(***************************************************************************)

\* Within 25 seconds a restart is over, unless restarts may be slow.
DeadlinePasses ==
  /\ deadline = "ahead" /\ deadline' = "passed"
  /\ \/ SlowRestarts
     \/ /\ request = 0 /\ launcher = "watch"
        /\ mpd = "down" \/ (connState = "CONNECTED" /\ conn = "live")
  /\ UNCHANGED <<player, files, launcher, seen, link, handler, poll, pending, bounds,
                 history>>

Edit ==
  /\ LockFree /\ connState = "CONNECTED" /\ conn = "live"
  /\ edits < MaxEdits /\ edits' = edits + 1
  /\ queue' \in {0, edits + 2} /\ wanted' = queue'
  /\ DisturbedIf(~Settled)
  /\ UNCHANGED <<mpd, device, files, launcher, seen, link, handler, poll, timer,
                 switches, faults>>

LinkDrops ==
  /\ Fault
  /\ conn = "live" /\ conn' = "lost"
  /\ DisturbedIf(~Settled)
  /\ UNCHANGED <<player, files, launcher, seen, connState, handler, poll, timer,
                 switches, edits, wanted>>

\* MPD_API_SET_MPDHOST or SET_MPDPASS.
Reconnect ==
  /\ Fault /\ LockFree
  /\ connState' = "RECONNECT"
  /\ DisturbedIf(~Settled)
  /\ UNCHANGED <<player, files, launcher, seen, conn, handler, poll, timer, switches,
                 edits, wanted>>

\* aurmpd is killed and started again: its files stay.
AurmpdRestarts ==
  /\ Fault
  /\ connState' = "DISCONNECTED" /\ conn' = "null"
  /\ handler' = "idle" /\ poll' = "check"
  /\ pending' = FALSE /\ deadline' = "passed"
  /\ DisturbedIf(~Settled)
  /\ UNCHANGED <<player, files, launcher, seen, switches, edits, wanted>>

Next ==
  \/ SetAudioDevice \/ Handler
  \/ Poll
  \/ Launcher \/ MpdReady
  \/ DeadlinePasses
  \/ Edit \/ LinkDrops \/ Reconnect \/ AurmpdRestarts

\* The poll thread and the launcher's timer go on for ever, a handler that was
\* started ends, a started mpd comes up, time passes.
Fairness ==
  /\ WF_vars(Handler) /\ WF_vars(Poll)
  /\ WF_vars(Launcher) /\ WF_vars(MpdReady)
  /\ WF_vars(DeadlinePasses)

Spec     == Init /\ [][Next]_vars
FairSpec == Spec /\ Fairness

-----------------------------------------------------------------------------
(***************************************************************************)
(* Properties.                                                             *)
(***************************************************************************)

TypeOK ==
  /\ mpd \in {"down", "starting", "up"}
  /\ device \in 0..MaxSwitches /\ conf \in 0..MaxSwitches
  /\ request \in 0..MaxSwitches /\ seen \in 0..MaxSwitches
  /\ queue \in 0..(MaxEdits + 1) /\ saved \in 0..(MaxEdits + 1)
  /\ wanted \in 0..(MaxEdits + 1)
  /\ launcher \in {"watch", "kill", "start", "delete"}
  /\ connState \in {"DISCONNECTED", "FAILURE", "CONNECTED", "RECONNECT"}
  /\ conn \in {"null", "live", "lost", "failed"}
  /\ handler \in {"idle", "save", "conf", "request", "pending", "deadline"}
  /\ poll \in {"check", "late", "round", "restore", "add", "publish"}
  /\ pending \in BOOLEAN /\ deadline \in {"passed", "ahead"}
  /\ switches \in 0..MaxSwitches /\ edits \in 0..MaxEdits /\ faults \in 0..MaxFaults
  /\ disturbed \in BOOLEAN

\* A switch that is left alone ends with mpd on the device mpd.conf names and
\* with the queue its users left, however the three processes interleave
\* (mpd_client.c:216-229).
UndisturbedSwitch ==
  ~disturbed /\ Settled => queue = wanted /\ device = conf

\* The mpd the launcher has started when it deletes the request file plays on
\* the device of the request it found, or on that of a later one: the
\* configuration is always written before the request (mpd_client.c:530-534).
RestartServesRequest ==
  launcher = "delete" /\ mpd = "up" => device >= seen

\* Unless mpd stays away, every switch comes to an end: the request is gone,
\* nothing is pending, the connection is up again.
SwitchEnds == <>[](mpd # "down") => <>[]Settled

\* Between switches mpd holds the queue its users left: whether the queue is lost
\* by a switch, docs/FEATURES.md:621 answers that it is not, being saved and
\* restored.
QueueSurvives == Settled => queue = wanted

\* Between switches the device that mpd.conf names, which aurmpd shows as the
\* current one, is the one in effect (docs/FEATURES.md:616, "current is the value
\* in effect").
CurrentInEffect == Settled => device = conf
=============================================================================
