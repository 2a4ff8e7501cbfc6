-------------------------- MODULE AudioSwitch_proofs --------------------------
(***************************************************************************)
(* Proofs about AudioSwitch, for any bounds and restarts of any length.    *)
(***************************************************************************)
EXTENDS AudioSwitch, TLAPS

-----------------------------------------------------------------------------
(***************************************************************************)
(* Types.  The flags are apart from the other variables: each part has its *)
(* own prover.                                                             *)
(***************************************************************************)

Flags == pending \in BOOLEAN /\ disturbed \in BOOLEAN

Values ==
  /\ mpd \in {"down", "starting", "up"}
  /\ device \in 0..MaxSwitches /\ conf \in 0..MaxSwitches
  /\ request \in 0..MaxSwitches /\ seen \in 0..MaxSwitches
  /\ queue \in 0..(MaxEdits + 1) /\ saved \in 0..(MaxEdits + 1)
  /\ wanted \in 0..(MaxEdits + 1)
  /\ launcher \in {"watch", "kill", "start", "delete"}
  /\ connState \in {"DISCONNECTED", "FAILURE", "CONNECTED", "RECONNECT"}
  /\ conn \in {"null", "live", "lost", "failed"}
  /\ handler \in {"idle", "save", "conf", "request", "pending", "deadline"}
  /\ poll \in {"check", "late", "round", "restore", "add", "publish"}
  /\ deadline \in {"passed", "ahead"}
  /\ switches \in 0..MaxSwitches /\ edits \in 0..MaxEdits /\ faults \in 0..MaxFaults

\* The two parts make up the type invariant.
LEMMA TypeParts == TypeOK <=> Values /\ Flags
BY Zenon DEF TypeOK, Values, Flags

\* The flags are set to truth values only.
LEMMA StepFlags ==
  ASSUME Flags, [Next]_vars
  PROVE  Flags'
<1> USE DEF Flags
<1>1. CASE UNCHANGED vars
  BY <1>1, Zenon DEF vars, timer, history
<1>2. CASE SetAudioDevice
  BY <1>2, Zenon DEF SetAudioDevice, DisturbedIf, timer
<1>3. CASE SaveQueue
  BY <1>3, Zenon DEF SaveQueue, DisturbedIf, timer
<1>4. CASE SetConf
  BY <1>4, Zenon DEF SetConf, DisturbedIf, timer
<1>5. CASE WriteRequest
  BY <1>5, Zenon DEF WriteRequest, DisturbedIf, timer
<1>6. CASE MarkPending \/ SetDeadline
  BY <1>6, Zenon DEF MarkPending, SetDeadline, history
<1>7. CASE Poll
  BY <1>7, Zenon DEF Poll, PollCheck, PollTimeout, PollRound, RestoreClear, RestoreAdd,
                     PollPublish, timer, history
<1>8. CASE Launcher \/ MpdReady \/ DeadlinePasses
  BY <1>8, Zenon DEF Launcher, FindRequest, KillMpd, StartMpd, DeleteRequest,
                     MpdReady, DeadlinePasses, timer, history
<1>9. CASE Edit \/ LinkDrops \/ Reconnect \/ AurmpdRestarts
  BY <1>9, Zenon DEF Edit, LinkDrops, Reconnect, AurmpdRestarts, DisturbedIf, timer
<1>10. QED
  BY <1>1, <1>2, <1>3, <1>4, <1>5, <1>6, <1>7, <1>8, <1>9, Zenon DEF Next, Handler

\* The other variables keep their ranges.
LEMMA StepValues ==
  ASSUME Values, [Next]_vars
  PROVE  Values'
<1> USE AudioAssumption DEF Values
<1>1. CASE UNCHANGED vars
  BY <1>1 DEF vars, player, files, link, timer, bounds, history
<1>2. CASE SetAudioDevice
  BY <1>2 DEF SetAudioDevice, player, files, link, timer
<1>3. CASE SaveQueue
  BY <1>3 DEF SaveQueue, Fault, player, timer
<1>4. CASE SetConf
  BY <1>4 DEF SetConf, Return, Fault, player, timer
<1>5. CASE WriteRequest
  BY <1>5 DEF WriteRequest, Return, Fault, player, timer
<1>6. CASE MarkPending \/ SetDeadline
  BY <1>6 DEF MarkPending, SetDeadline, Return, player, files, link, bounds, history
<1>7. CASE PollCheck \/ PollTimeout \/ PollPublish
  BY <1>7 DEF PollCheck, PollTimeout, PollPublish, player, files, link, timer, bounds,
              history
<1>8. CASE PollRound
  BY <1>8 DEF PollRound, PollStatus, PollDrop, PollConnect, player, files, timer,
              bounds, history, link
<1>9. CASE RestoreClear \/ RestoreAdd
  BY <1>9 DEF RestoreClear, RestoreAdd, Fault, timer, bounds, history
<1>10. CASE Launcher
  BY <1>10 DEF Launcher, FindRequest, KillMpd, StartMpd, DeleteRequest, Fault, player,
               files, link, timer, bounds, history
<1>11. CASE MpdReady \/ DeadlinePasses
  BY <1>11 DEF MpdReady, DeadlinePasses, player, files, link, timer, bounds, history
<1>12. CASE Edit
  BY <1>12 DEF Edit, files, link, timer
<1>13. CASE LinkDrops \/ Reconnect \/ AurmpdRestarts
  BY <1>13 DEF LinkDrops, Reconnect, AurmpdRestarts, Fault, player, files, timer
<1>14. QED
  BY <1>1, <1>2, <1>3, <1>4, <1>5, <1>6, <1>7, <1>8, <1>9, <1>10, <1>11, <1>12, <1>13
  DEF Next, Handler, Poll

\* Every variable keeps its type.
THEOREM TypeCorrect == Spec => []TypeOK
<1>1. Init => Values /\ Flags
  <2>1. Init => Values
    BY AudioAssumption DEF Init, Values
  <2>2. Init => Flags
    BY Zenon DEF Init, Flags
  <2>3. QED
    BY <2>1, <2>2
<1>2. Values /\ Flags /\ [Next]_vars => Values' /\ Flags'
  BY StepValues, StepFlags
<1>3. QED
  BY <1>1, <1>2, TypeParts, PTL DEF Spec

-----------------------------------------------------------------------------
(***************************************************************************)
(* The order of configuration and request.                                 *)
(***************************************************************************)

\* mpd.conf is never behind the request, nor behind the one the launcher found.
ConfLeads ==
  /\ request <= conf /\ seen <= conf /\ conf <= switches
  /\ handler = "request" => conf = switches

OrderInv ==
  /\ ConfLeads
  /\ launcher = "start" => mpd = "down"
  /\ RestartServesRequest

\* Every step keeps that order.
LEMMA StepOrder ==
  ASSUME TypeOK, OrderInv, [Next]_vars
  PROVE  OrderInv'
<1> USE DEF OrderInv, ConfLeads, RestartServesRequest, TypeOK
<1>1. CASE UNCHANGED vars
  BY <1>1 DEF vars, player, files, bounds
<1>2. CASE SetAudioDevice
  BY <1>2 DEF SetAudioDevice, LockFree, player, files
<1>3. CASE SaveQueue
  BY <1>3 DEF SaveQueue, player
<1>4. CASE SetConf
  BY <1>4 DEF SetConf, Return, player
<1>5. CASE WriteRequest
  BY <1>5 DEF WriteRequest, Return, player
<1>6. CASE MarkPending \/ SetDeadline
  BY <1>6 DEF MarkPending, SetDeadline, Return, player, files, bounds
<1>7. CASE Poll
  BY <1>7 DEF Poll, PollCheck, PollTimeout, PollRound, RestoreClear, RestoreAdd,
              PollPublish, player, files, bounds
<1>8. CASE Launcher
  BY <1>8 DEF Launcher, FindRequest, KillMpd, StartMpd, DeleteRequest, player, files,
              bounds
<1>9. CASE MpdReady
  BY <1>9 DEF MpdReady, files, bounds
<1>10. CASE DeadlinePasses \/ Edit \/ LinkDrops \/ Reconnect \/ AurmpdRestarts
  BY <1>10 DEF DeadlinePasses, Edit, LinkDrops, Reconnect, AurmpdRestarts, player,
               files, bounds
<1>11. QED
  BY <1>1, <1>2, <1>3, <1>4, <1>5, <1>6, <1>7, <1>8, <1>9, <1>10 DEF Next, Handler

\* The mpd that serves a request plays on the device of that request or of a
\* later one, whatever fails and however switches overlap.
THEOREM RequestsAreServed == Spec => []RestartServesRequest
<1>1. Init => OrderInv
  BY DEF Init, OrderInv, ConfLeads, RestartServesRequest
<1>2. TypeOK /\ OrderInv /\ [Next]_vars => OrderInv'
  BY StepOrder
<1>3. OrderInv => RestartServesRequest
  BY DEF OrderInv
<1>4. QED
  BY <1>1, <1>2, <1>3, TypeCorrect, PTL DEF Spec

-----------------------------------------------------------------------------
(***************************************************************************)
(* A switch that is left alone.                                            *)
(***************************************************************************)

Preparing == handler \in {"save", "conf", "request"}
Asked     == launcher = "kill" \/ (launcher = "watch" /\ request # 0)
Unlocked  == poll \in {"check", "late", "round"}

\* The old mpd is up and holds the queue; nobody restores anything.
OldMpd ==
  /\ mpd = "up" /\ connState = "CONNECTED" /\ conn = "live" /\ Unlocked
  /\ queue = wanted

\* The queue is where its users left it and no file is waiting.
Restored == saved = 0 /\ queue = wanted /\ poll # "add"

\* The queue is in the file, and the next connect will restore it.
ToRestore ==
  /\ saved = wanted /\ queue = 0
  /\ \/ conn # "live" /\ Unlocked
     \/ conn = "live" /\ poll \in {"restore", "add"}

QuietInv ==
  /\ Preparing => /\ OldMpd /\ launcher = "watch" /\ request = 0 /\ switches # 0
                  /\ saved = IF handler = "save" THEN 0 ELSE wanted
  /\ Asked => OldMpd /\ saved = wanted
  /\ launcher = "start" => mpd = "down" /\ conn # "live" /\ ToRestore
  /\ ~Preparing /\ ~Asked => Restored \/ ToRestore
  /\ mpd = "up" => device = conf \/ handler = "request" \/ Asked

UndisturbedInv == ~disturbed => QuietInv

\* What happens while nothing has been disturbed happens between switches.
LEMMA Undisturbed ==
  ASSUME [Next]_vars, ~disturbed'
  PROVE  /\ ~disturbed
         /\ SetAudioDevice \/ Edit \/ LinkDrops \/ Reconnect \/ AurmpdRestarts => Settled
<1>1. SetAudioDevice \/ Edit \/ LinkDrops \/ Reconnect \/ AurmpdRestarts
        => ~disturbed /\ Settled
  BY Zenon DEF SetAudioDevice, Edit, LinkDrops, Reconnect, AurmpdRestarts, DisturbedIf
<1>2. Handler => ~disturbed
  BY Zenon DEF Handler, SaveQueue, SetConf, WriteRequest, MarkPending, SetDeadline,
               history
<1>3. Poll => ~disturbed
  BY Zenon DEF Poll, PollCheck, PollTimeout, PollRound, RestoreClear, RestoreAdd,
               PollPublish, history
<1>4. Launcher \/ MpdReady \/ DeadlinePasses => ~disturbed
  BY Zenon DEF Launcher, FindRequest, KillMpd, StartMpd, DeleteRequest, MpdReady,
               DeadlinePasses, history
<1>5. UNCHANGED vars => ~disturbed
  BY Zenon DEF vars, history
<1>6. QED
  BY <1>1, <1>2, <1>3, <1>4, <1>5, Zenon DEF Next

\* The steps of the handler keep the invariant.
LEMMA HandlerQuiet ==
  ASSUME TypeOK, OrderInv, QuietInv, ~disturbed',
         (SetAudioDevice /\ Settled) \/ Handler
  PROVE  QuietInv'
<1> USE DEF QuietInv, Preparing, Asked, Unlocked, OldMpd, Restored, ToRestore
<1>1. CASE SetAudioDevice /\ Settled
  BY <1>1 DEF SetAudioDevice, Settled, TypeOK, player, files, link, timer
<1>2. CASE SaveQueue
  BY <1>2 DEF SaveQueue, TypeOK, player
<1>3. CASE SetConf
  BY <1>3 DEF SetConf, TypeOK, player
<1>4. CASE WriteRequest
  BY <1>4 DEF WriteRequest, TypeOK, OrderInv, ConfLeads, player
<1>5. CASE MarkPending
  BY <1>5 DEF MarkPending, player, files, link, bounds, history
<1>6. CASE SetDeadline
  BY <1>6 DEF SetDeadline, Return, player, files, bounds, history
<1>7. QED
  BY <1>1, <1>2, <1>3, <1>4, <1>5, <1>6 DEF Handler

\* The steps of the poll thread keep the invariant.
LEMMA PollQuiet ==
  ASSUME TypeOK, OrderInv, QuietInv, ~disturbed', Poll
  PROVE  QuietInv'
<1> USE DEF QuietInv, Preparing, Asked, Unlocked, OldMpd, Restored, ToRestore
<1>1. CASE PollCheck
  BY <1>1 DEF PollCheck, player, files, link, bounds, history
<1>2. CASE PollTimeout
  BY <1>2 DEF PollTimeout, player, files, link, bounds, history
<1>3. CASE PollRound
  BY <1>3 DEF PollRound, PollStatus, PollDrop, PollConnect, player, files, link,
              bounds, history
<1>4. CASE RestoreClear
  BY <1>4 DEF RestoreClear, bounds, history
<1>5. CASE RestoreAdd
  BY <1>5 DEF RestoreAdd
<1>6. CASE PollPublish
  BY <1>6 DEF PollPublish, player, files, link, bounds, history
<1>7. QED
  BY <1>1, <1>2, <1>3, <1>4, <1>5, <1>6 DEF Poll

\* The steps of the launcher and of mpd keep the invariant.
LEMMA LauncherQuiet ==
  ASSUME TypeOK, OrderInv, QuietInv, Launcher \/ MpdReady
  PROVE  QuietInv'
<1> USE DEF QuietInv, Preparing, Asked, Unlocked, OldMpd, Restored, ToRestore
<1>1. CASE FindRequest
  BY <1>1 DEF FindRequest, player, files, link, bounds, history
<1>2. CASE KillMpd
  BY <1>2 DEF KillMpd, TypeOK, files, bounds, history
<1>3. CASE StartMpd
  BY <1>3 DEF StartMpd, files, link, history
<1>4. CASE DeleteRequest
  BY <1>4 DEF DeleteRequest, player, link, bounds, history
<1>5. CASE MpdReady
  BY <1>5 DEF MpdReady, files, link, bounds, history
<1>6. QED
  BY <1>1, <1>2, <1>3, <1>4, <1>5 DEF Launcher

\* Time, and what users and faults do between switches, keep the invariant.
LEMMA OutsideQuiet ==
  ASSUME TypeOK, OrderInv, QuietInv,
         \/ DeadlinePasses
         \/ Settled /\ (Edit \/ LinkDrops \/ Reconnect \/ AurmpdRestarts)
  PROVE  QuietInv'
<1> USE DEF QuietInv, Preparing, Asked, Unlocked, OldMpd, Restored, ToRestore, Settled
<1>1. CASE DeadlinePasses
  BY <1>1 DEF DeadlinePasses, player, files, link, bounds, history
<1>2. CASE Settled /\ Edit
  BY <1>2 DEF Edit, files, link
<1>3. CASE Settled /\ (LinkDrops \/ Reconnect)
  BY <1>3 DEF LinkDrops, Reconnect, player, files
<1>4. CASE Settled /\ AurmpdRestarts
  BY <1>4 DEF AurmpdRestarts, player, files
<1>5. QED
  BY <1>1, <1>2, <1>3, <1>4

\* A switch that is left alone ends with the queue its users left and on the
\* device mpd.conf names, however long the restart takes and however the three
\* processes interleave.
THEOREM SwitchKeepsQueue == Spec => []UndisturbedSwitch
<1>1. Init => OrderInv /\ UndisturbedInv
  <2>1. Init => OrderInv
    BY DEF Init, OrderInv, ConfLeads, RestartServesRequest
  <2>2. Init => QuietInv
    BY DEF Init, QuietInv, Preparing, Asked, Restored
  <2>3. QED
    BY <2>1, <2>2 DEF UndisturbedInv
<1>2. TypeOK /\ OrderInv /\ UndisturbedInv /\ [Next]_vars
        => OrderInv' /\ UndisturbedInv'
  <2> SUFFICES ASSUME TypeOK, OrderInv, UndisturbedInv, [Next]_vars, ~disturbed'
               PROVE  QuietInv'
    BY StepOrder, Zenon DEF UndisturbedInv
  <2>1. QuietInv
    BY Undisturbed, Zenon DEF UndisturbedInv
  <2>2. CASE UNCHANGED vars
    BY <2>1, <2>2 DEF vars, player, files, link, bounds, history, QuietInv, Preparing,
                      Asked, Unlocked, OldMpd, Restored, ToRestore
  <2>3. QED
    BY <2>1, <2>2, Undisturbed, HandlerQuiet, PollQuiet, LauncherQuiet, OutsideQuiet,
       Zenon DEF Next
<1>3. OrderInv /\ UndisturbedInv => UndisturbedSwitch
  BY DEF UndisturbedInv, QuietInv, Preparing, Asked, Restored, ToRestore, Settled,
         UndisturbedSwitch
<1>4. QED
  BY <1>1, <1>2, <1>3, TypeCorrect, PTL DEF Spec
=============================================================================
