------------------------------ MODULE Shutdown ------------------------------
(***************************************************************************)
(* How the processes end.  The launcher (winmain.c) owns mpd and aurmpd    *)
(* and a job object that takes its children along; leaving by the tray     *)
(* menu it asks aurmpd over a named pipe, waits, terminates.  Inside       *)
(* aurmpd: the event thread (main), the poll thread and the pipe thread,   *)
(* mpd_lock and the flag force_exit.  What the threads write to mpd.buf    *)
(* and send is left out: no step here depends on it.                       *)
(*                                                                         *)
(* Waits with a timeout end when what they wait for happens or at any time *)
(* before.  Windows build; without the launcher's steps and the pipe       *)
(* thread what is left is the other build.                                 *)
(***************************************************************************)
EXTENDS Integers, FiniteSets

CONSTANTS
  JobWorks,     \* whether the job object can be made
  MaxRestarts,  \* bound: restarts of mpd by the launcher
  MaxFaults     \* bound: crashes, failed starts and a failed write

ASSUME ShutdownAssumption ==
  /\ JobWorks \in BOOLEAN
  /\ MaxRestarts \in Nat /\ MaxFaults \in Nat

VARIABLES
  \* the launcher and its children
  launcher,   \* where WndProc stands; "gone", "crashed", "crashedStarting"
  child,      \* per child: "absent", "running", "dying" (terminated), "dead"
  assigned,   \* the children in the job
  handle,     \* the children whose handle is kept
  \* the named pipe
  client,     \* the launcher's end: "none", "connected", "closed"
  sent,       \* CLOSE lies in the pipe
  listener,   \* the pipe thread
  \* aurmpd
  main, poller,
  lock,       \* who holds mpd_lock
  forceExit,
  \* bounds
  restarts, faults

launcherVars == <<launcher, child, assigned, handle, restarts, faults>>
pipeVars     == <<client, sent, listener>>
threadVars   == <<main, poller, lock, forceExit>>
vars         == <<launcherVars, pipeVars, threadVars>>

Children == {"mpd", "aurmpd"}
Ended    == {"absent", "dying", "dead"}
Alive    == child["aurmpd"] = "running"
Starting == {"startMpd", "assignMpd", "startAurmpd", "assignAurmpd"}
Leaving  == {"open", "write", "wait", "waitAgain", "endMpd", "waitMpd"}

SetChild(c, s) == child' = [child EXCEPT ![c] = s]

\* What an ending aurmpd leaves of its threads, its lock and its pipe.
Threads(ended) ==
  IF ended
    THEN /\ main' = "loop" /\ poller' = "check" /\ lock' = "free"
         /\ forceExit' = FALSE
         /\ client' = "none" /\ sent' = FALSE /\ listener' = "asleep"
    ELSE UNCHANGED <<pipeVars, threadVars>>

-----------------------------------------------------------------------------
(***************************************************************************)
(* The launcher: WM_CREATE and the restart of mpd.                         *)
(***************************************************************************)

\* CreateProcess; the restart goes through the same function.
StartMpd ==
  /\ launcher = "startMpd"
  /\ \/ /\ SetChild("mpd", "running") /\ handle' = handle \cup {"mpd"}
        /\ launcher' = "assignMpd" /\ UNCHANGED faults
     \/ /\ faults > 0 /\ faults' = faults - 1
        /\ launcher' = IF child["aurmpd"] = "absent" THEN "startAurmpd" ELSE "up"
        /\ UNCHANGED <<child, handle>>
  /\ UNCHANGED <<assigned, restarts, pipeVars, threadVars>>

\* Mutant: the new process is not put into the job.
AssignMpdNever ==
  /\ launcher = "assignMpd"
  /\ launcher' = IF child["aurmpd"] = "absent" THEN "startAurmpd" ELSE "up"
  /\ UNCHANGED <<child, handle, assigned, restarts, faults, pipeVars, threadVars>>

AssignMpd ==
  /\ launcher = "assignMpd"
  /\ assigned' = IF JobWorks THEN assigned \cup {"mpd"} ELSE assigned
  /\ launcher' = IF child["aurmpd"] = "absent" THEN "startAurmpd" ELSE "up"
  /\ UNCHANGED <<child, handle, restarts, faults, pipeVars, threadVars>>

StartAurmpd ==
  /\ launcher = "startAurmpd"
  /\ \/ /\ SetChild("aurmpd", "running") /\ handle' = handle \cup {"aurmpd"}
        /\ launcher' = "assignAurmpd" /\ UNCHANGED faults
     \/ /\ faults > 0 /\ faults' = faults - 1
        /\ SetChild("aurmpd", "dead") /\ launcher' = "up" /\ UNCHANGED handle
  /\ UNCHANGED <<assigned, restarts, pipeVars, threadVars>>

AssignAurmpd ==
  /\ launcher = "assignAurmpd"
  /\ assigned' = IF JobWorks THEN assigned \cup {"aurmpd"} ELSE assigned
  /\ launcher' = "up"
  /\ UNCHANGED <<child, handle, restarts, faults, pipeVars, threadVars>>

\* CheckMpdRestartRequest: terminate the old mpd, wait for it, which may end
\* with mpd still going, and start a new one in its place.
RestartMpd ==
  /\ launcher = "up" /\ restarts > 0
  /\ restarts' = restarts - 1
  /\ \/ "mpd" \notin handle /\ UNCHANGED child
     \/ "mpd" \in handle /\ SetChild("mpd", "dead")
     \/ "mpd" \in handle /\ child["mpd"] # "dead" /\ SetChild("mpd", "dying")
  /\ handle' = handle \ {"mpd"} /\ assigned' = assigned \ {"mpd"}
  /\ launcher' = "startMpd"
  /\ UNCHANGED <<faults, pipeVars, threadVars>>

-----------------------------------------------------------------------------
(***************************************************************************)
(* The launcher: WM_DESTROY.                                               *)
(***************************************************************************)

ExitMenu ==
  /\ launcher = "up"
  /\ launcher' = IF "aurmpd" \in handle THEN "open" ELSE "endMpd"
  /\ UNCHANGED <<child, assigned, handle, restarts, faults, pipeVars, threadVars>>

\* CreateFileW finds the pipe only while an instance of it waits.
OpenPipe ==
  /\ launcher = "open"
  /\ IF Alive /\ listener \in {"created", "listening"} /\ client = "none"
       THEN launcher' = "write" /\ client' = "connected"
       ELSE launcher' = "wait" /\ UNCHANGED client
  /\ UNCHANGED <<child, assigned, handle, restarts, faults, sent, listener, threadVars>>

\* WriteFile, which may fail, and CloseHandle; the instance may be closed by now.
WriteClose ==
  /\ launcher = "write"
  /\ \/ sent' = (client = "connected") /\ UNCHANGED faults
     \/ faults > 0 /\ faults' = faults - 1 /\ UNCHANGED sent
  /\ client' = IF client = "connected" THEN "closed" ELSE client
  /\ launcher' = "wait"
  /\ UNCHANGED <<child, assigned, handle, restarts, listener, threadVars>>

\* Mutant: the result of the wait is not looked at.
WaitAurmpdUnchecked ==
  /\ launcher = "wait"
  /\ launcher' = "endMpd"
  /\ UNCHANGED <<child, assigned, handle, restarts, faults, pipeVars, threadVars>>

\* WaitForSingleObject for three seconds, then TerminateProcess.
WaitAurmpd ==
  /\ launcher = "wait"
  /\ \/ child["aurmpd"] = "dead" /\ launcher' = "endMpd" /\ UNCHANGED child
     \/ /\ child["aurmpd"] \in {"running", "dying"} /\ launcher' = "waitAgain"
        /\ SetChild("aurmpd", "dying")
  /\ Threads(child["aurmpd"] = "running")
  /\ UNCHANGED <<assigned, handle, restarts, faults>>

WaitAgain ==
  /\ launcher = "waitAgain" /\ launcher' = "endMpd"
  /\ UNCHANGED <<child, assigned, handle, restarts, faults, pipeVars, threadVars>>

\* Mutant: mpd is left to end by itself.
EndMpdNot ==
  /\ launcher = "endMpd" /\ launcher' = "gone"
  /\ UNCHANGED <<child, assigned, handle, restarts, faults, pipeVars, threadVars>>

EndMpd ==
  /\ launcher = "endMpd"
  /\ IF "mpd" \in handle /\ child["mpd"] # "dead"
       THEN SetChild("mpd", "dying") /\ launcher' = "waitMpd"
       ELSE launcher' = "gone" /\ UNCHANGED child
  /\ UNCHANGED <<assigned, handle, restarts, faults, pipeVars, threadVars>>

WaitMpd ==
  /\ launcher = "waitMpd" /\ launcher' = "gone"
  /\ UNCHANGED <<child, assigned, handle, restarts, faults, pipeVars, threadVars>>

\* The last handle of the job is closed with its owner.
LauncherCrashes ==
  /\ launcher \notin {"gone", "crashed", "crashedStarting"}
  /\ faults > 0 /\ faults' = faults - 1
  /\ launcher' = IF launcher \in {"assignMpd", "assignAurmpd"}
                   THEN "crashedStarting" ELSE "crashed"
  /\ child' = [c \in Children |->
       IF c \in assigned /\ child[c] = "running" THEN "dying" ELSE child[c]]
  /\ IF Alive /\ "aurmpd" \notin assigned /\ client = "connected"
       THEN client' = "closed" /\ UNCHANGED <<sent, listener, threadVars>>
       ELSE Threads(Alive /\ "aurmpd" \in assigned)
  /\ UNCHANGED <<assigned, handle, restarts>>

\* A terminated process goes once the system has torn it down.
Dies(c) ==
  /\ child[c] = "dying" /\ SetChild(c, "dead")
  /\ UNCHANGED <<launcher, assigned, handle, restarts, faults, pipeVars, threadVars>>

ChildCrashes(c) ==
  /\ faults > 0 /\ faults' = faults - 1
  /\ child[c] = "running" /\ SetChild(c, "dead")
  /\ Threads(c = "aurmpd")
  /\ UNCHANGED <<launcher, assigned, handle, restarts>>

-----------------------------------------------------------------------------
(***************************************************************************)
(* aurmpd: the pipe thread.                                                *)
(***************************************************************************)

Listener(from, to) ==
  /\ Alive /\ listener = from /\ listener' = to
  /\ UNCHANGED <<launcherVars, main, poller, lock>>

CreatePipe ==
  /\ Listener("asleep", "created")
  /\ client' = "none" /\ sent' = FALSE /\ UNCHANGED forceExit

\* ConnectNamedPipe fails when the client came first; the handle is closed
\* then, and a CLOSE written meanwhile is gone.
ConnectPipe ==
  /\ IF client = "none"
       THEN Listener("created", "listening") /\ UNCHANGED <<client, sent>>
       ELSE Listener("created", "asleep") /\ client' = "none" /\ sent' = FALSE
  /\ UNCHANGED forceExit

AcceptClient ==
  /\ client # "none"
  /\ Listener("listening", "reading") /\ UNCHANGED <<client, sent, forceExit>>

ReadClose ==
  /\ sent
  /\ Listener("reading", "told")
  /\ sent' = FALSE /\ forceExit' = TRUE /\ UNCHANGED client

ReadBroken ==
  /\ ~sent /\ client = "closed"
  /\ Listener("reading", "asleep")
  /\ client' = "none" /\ UNCHANGED <<sent, forceExit>>

\* Two seconds later: ExitProcess.
ExitProcess ==
  /\ Alive /\ listener = "told"
  /\ SetChild("aurmpd", "dead") /\ Threads(TRUE)
  /\ UNCHANGED <<launcher, assigned, handle, restarts, faults>>

-----------------------------------------------------------------------------
(***************************************************************************)
(* aurmpd: the event thread.                                               *)
(***************************************************************************)

Main(from, to) ==
  /\ Alive /\ main = from /\ main' = to
  /\ UNCHANGED <<assigned, launcher, handle, restarts, faults, pipeVars, poller>>

\* while (!force_exit) mg_mgr_poll(...), here with at most one request in it.
CheckLoop ==
  /\ Main("loop", IF forceExit THEN "clear" ELSE "poll")
  /\ UNCHANGED <<child, lock, forceExit>>

TakeRequest ==
  /\ Main("poll", "wait")
  /\ UNCHANGED <<child, lock, forceExit>>

PollReturns ==
  /\ Main("poll", "loop")
  /\ UNCHANGED <<child, lock, forceExit>>

LockMain ==
  /\ lock = "free" /\ lock' = "main"
  /\ Main("wait", "handler")
  /\ UNCHANGED <<child, forceExit>>

\* The handler gives the lock back; its reply goes out after that.
FinishHandler ==
  /\ lock' = "free"
  /\ Main("handler", "loop")
  /\ UNCHANGED <<child, forceExit>>

\* mpd_clear_all, which needs the lock; mg_mgr_free.
ClearAll ==
  /\ lock = "free" /\ lock' = "main"
  /\ Main("clear", "clearing")
  /\ UNCHANGED <<child, forceExit>>

FreeManager ==
  /\ lock' = "free"
  /\ Main("clearing", "freed")
  /\ UNCHANGED <<child, forceExit>>

\* Returning from main ends the process, whatever the other threads do.
ReturnMain ==
  /\ Alive /\ main = "freed"
  /\ SetChild("aurmpd", "dead") /\ Threads(TRUE)
  /\ UNCHANGED <<launcher, assigned, handle, restarts, faults>>

Interrupt ==
  /\ Alive /\ ~forceExit /\ forceExit' = TRUE
  /\ UNCHANGED <<launcherVars, pipeVars, main, poller, lock>>

-----------------------------------------------------------------------------
(***************************************************************************)
(* aurmpd: the poll thread.                                                *)
(***************************************************************************)

Poller(from, to) ==
  /\ Alive /\ poller = from /\ poller' = to
  /\ UNCHANGED <<launcherVars, pipeVars, main, forceExit>>

CheckExit ==
  /\ Poller("check", IF forceExit THEN "ended" ELSE "asleep")
  /\ UNCHANGED lock

\* Awake: a switch of the audio output that ran out of time is reported first.
WakeUp ==
  /\ Poller("asleep", "wait") \/ Poller("asleep", "alarm")
  /\ UNCHANGED lock

\* The report is written under the lock, which is given back before it is sent.
Alarm ==
  /\ lock = "free"
  /\ Poller("alarm", "wait") /\ UNCHANGED lock

LockPoller ==
  /\ lock = "free" /\ lock' = "poller"
  /\ Poller("wait", "round")

\* Mutant: one of the ways out keeps the lock.
EndRoundKeepLock ==
  /\ Poller("round", "check") /\ UNCHANGED lock

\* Whatever the round did and sent, a connect that failed included, its only
\* way out gives the lock back.
EndRound ==
  /\ lock' = "free"
  /\ Poller("round", "check")

-----------------------------------------------------------------------------
Init ==
  /\ launcher = "startMpd"
  /\ child = [c \in Children |-> "absent"]
  /\ assigned = {} /\ handle = {}
  /\ client = "none" /\ sent = FALSE /\ listener = "asleep"
  /\ main = "loop" /\ poller = "check" /\ lock = "free"
  /\ forceExit = FALSE
  /\ restarts = MaxRestarts /\ faults = MaxFaults

LauncherSteps ==
  \/ StartMpd \/ AssignMpd \/ StartAurmpd \/ AssignAurmpd
  \/ OpenPipe \/ WriteClose \/ WaitAurmpd \/ WaitAgain \/ EndMpd \/ WaitMpd

PipeThread ==
  \/ CreatePipe \/ ConnectPipe \/ AcceptClient \/ ReadClose \/ ReadBroken
  \/ ExitProcess

EventThread ==
  \/ CheckLoop \/ PollReturns \/ LockMain \/ FinishHandler
  \/ ClearAll \/ FreeManager \/ ReturnMain

PollThread ==
  \/ CheckExit \/ WakeUp \/ Alarm \/ LockPoller \/ EndRound

Next ==
  \/ LauncherSteps \/ PipeThread \/ EventThread \/ PollThread
  \/ \E c \in Children : Dies(c) \/ ChildCrashes(c)
  \/ RestartMpd \/ ExitMenu \/ Interrupt \/ TakeRequest \/ LauncherCrashes

\* Every thread is scheduled and the system finishes what was terminated.
\* Nobody has to choose Exit, to interrupt, to send requests or to crash.
Fairness ==
  /\ WF_vars(LauncherSteps) /\ WF_vars(PipeThread)
  /\ WF_vars(EventThread) /\ WF_vars(PollThread)
  /\ \A c \in Children : WF_vars(Dies(c))

Spec     == Init /\ [][Next]_vars
FairSpec == Spec /\ Fairness

-----------------------------------------------------------------------------
(***************************************************************************)
(* Properties.                                                             *)
(***************************************************************************)

\* mpd_lock is held by exactly the thread that stands between lock and unlock.
LockHeld ==
  /\ lock = "main" <=> main \in {"handler", "clearing"}
  /\ lock = "poller" <=> poller = "round"

TypeOK ==
  /\ launcher \in {"up", "gone", "crashed", "crashedStarting"} \cup Starting
                  \cup Leaving
  /\ child \in [Children -> {"absent", "running", "dying", "dead"}]
  /\ assigned \subseteq Children /\ handle \subseteq Children
  /\ client \in {"none", "connected", "closed"} /\ sent \in BOOLEAN
  /\ listener \in {"asleep", "created", "listening", "reading", "told"}
  /\ main \in {"loop", "poll", "wait", "handler", "clear", "clearing", "freed"}
  /\ poller \in {"check", "asleep", "alarm", "wait", "round", "ended"}
  /\ lock \in {"free", "main", "poller"} /\ forceExit \in BOOLEAN
  /\ LockHeld
  /\ restarts \in 0..MaxRestarts /\ faults \in 0..MaxFaults

\* A launcher that left by the tray menu leaves no process running behind,
\* whether its CLOSE was heard, missed or too late, restarts and failed starts
\* before included (winmain.c:490-523).
ExitLeavesNothing ==
  launcher = "gone" => \A c \in Children : child[c] \in Ended

\* A launcher that crashes takes its children along through the job, unless it
\* dies between starting one and assigning it (winmain.c:47-50, 346-357).
CrashTakesChildren ==
  launcher = "crashed" /\ JobWorks => \A c \in Children : child[c] \in Ended

\* Once Exit was chosen the launcher leaves and both processes are gone, unless
\* it crashes on the way.
ExitEnds ==
  launcher = "open" ~>
    \/ launcher = "gone" /\ \A c \in Children : child[c] \in {"absent", "dead"}
    \/ launcher = "crashed"

\* An exit flag that is set, by CLOSE or by SIGINT, ends aurmpd: nobody keeps
\* mpd_lock from the cleanup (main.cpp:184-190, mpd_client.c:1126-1128).
FlagEnds == forceExit ~> ~Alive
=============================================================================
