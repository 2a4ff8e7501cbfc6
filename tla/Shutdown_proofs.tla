-------------------------- MODULE Shutdown_proofs --------------------------
(***************************************************************************)
(* Proofs about Shutdown, for every value of its constants.                *)
(***************************************************************************)
EXTENDS Shutdown, TLAPS

-----------------------------------------------------------------------------
(***************************************************************************)
(* Types.  The truth values go apart: what is assigned to them is a        *)
(* condition, which the other values' prover does not handle.              *)
(***************************************************************************)

LauncherType ==
  /\ launcher \in {"up", "gone", "crashed", "crashedStarting"} \cup Starting
                  \cup Leaving
  /\ child \in [Children -> {"absent", "running", "dying", "dead"}]
  /\ assigned \subseteq Children /\ handle \subseteq Children
  /\ restarts \in 0..MaxRestarts /\ faults \in 0..MaxFaults

ThreadType ==
  /\ client \in {"none", "connected", "closed"}
  /\ listener \in {"asleep", "created", "listening", "reading", "told"}
  /\ main \in {"loop", "poll", "wait", "handler", "clear", "clearing", "freed"}
  /\ poller \in {"check", "asleep", "alarm", "wait", "round", "ended"}
  /\ lock \in {"free", "main", "poller"}
  /\ LockHeld

Flags == sent \in BOOLEAN /\ forceExit \in BOOLEAN

\* The three parts are the whole.
LEMMA TypeParts == TypeOK <=> LauncherType /\ ThreadType /\ Flags
BY DEF TypeOK, LauncherType, ThreadType, Flags

\* Types hold initially.
LEMMA InitType == Init => TypeOK
<1> SUFFICES ASSUME Init PROVE TypeOK
  OBVIOUS
<1>1. LauncherType
  BY ShutdownAssumption DEF Init, LauncherType, Children, Starting
<1>2. ThreadType
  BY DEF Init, ThreadType, LockHeld
<1>3. Flags
  BY DEF Init, Flags
<1>4. QED
  BY <1>1, <1>2, <1>3, TypeParts

\* Steps of the launcher and of the system.
LEMMA LauncherStepsType ==
  ASSUME LauncherType, LauncherSteps \/ RestartMpd \/ ExitMenu \/ LauncherCrashes
  PROVE  LauncherType'
<1> USE ShutdownAssumption
    DEF LauncherType, Children, Starting, Leaving, SetChild
<1>1. CASE StartMpd \/ StartAurmpd
  <2>1. faults' \in 0..MaxFaults /\ UNCHANGED <<assigned, restarts>>
    BY <1>1 DEF StartMpd, StartAurmpd
  <2>2. launcher' \in {"assignMpd", "startAurmpd", "up", "assignAurmpd"}
    BY <1>1 DEF StartMpd, StartAurmpd
  <2>3. handle' \subseteq Children
    BY <1>1 DEF StartMpd, StartAurmpd
  <2>4. child' \in [Children -> {"absent", "running", "dying", "dead"}]
    BY <1>1 DEF StartMpd, StartAurmpd
  <2>5. QED
    BY <2>1, <2>2, <2>3, <2>4
<1>2. CASE AssignMpd \/ AssignAurmpd
  <2>1. /\ launcher' \in {"up", "startAurmpd"} /\ assigned' \subseteq Children
        /\ UNCHANGED <<child, handle, restarts, faults>>
    <3>1. assigned' = assigned \/ (\E c \in Children : assigned' = assigned \cup {c})
      BY <1>2 DEF AssignMpd, AssignAurmpd
    <3>2. assigned' \subseteq Children
      BY <3>1
    <3>3. QED
      BY <1>2, <3>2 DEF AssignMpd, AssignAurmpd
  <2>2. QED
    BY <2>1
<1>3. CASE RestartMpd
  BY <1>3 DEF RestartMpd
<1>4. CASE ExitMenu \/ OpenPipe \/ WaitAgain \/ WaitMpd
  BY <1>4 DEF ExitMenu, OpenPipe, WaitAgain, WaitMpd
<1>5. CASE WriteClose
  BY <1>5 DEF WriteClose
<1>6. CASE WaitAurmpd \/ EndMpd
  BY <1>6 DEF WaitAurmpd, EndMpd
<1>7. CASE LauncherCrashes
  BY <1>7 DEF LauncherCrashes
<1>8. QED
  BY <1>1, <1>2, <1>3, <1>4, <1>5, <1>6, <1>7 DEF LauncherSteps

\* Steps of aurmpd's threads touch at most the entry of aurmpd.
LEMMA OtherStepsType ==
  ASSUME LauncherType,
         \/ PipeThread \/ EventThread \/ PollThread \/ Interrupt \/ TakeRequest
         \/ \E c \in Children : Dies(c) \/ ChildCrashes(c)
  PROVE  LauncherType'
<1> USE ShutdownAssumption DEF LauncherType, SetChild
<1>1. CASE \E c \in Children : Dies(c) \/ ChildCrashes(c)
  BY <1>1 DEF Dies, ChildCrashes
<1>2. CASE ExitProcess \/ ReturnMain
  BY <1>2 DEF ExitProcess, ReturnMain
<1>3. CASE UNCHANGED launcherVars
  BY <1>3 DEF launcherVars
<1>4. CASE PipeThread /\ ~ExitProcess
  BY <1>3, <1>4 DEF PipeThread, CreatePipe, ConnectPipe, AcceptClient, ReadClose,
                    ReadBroken, Listener
<1>5. CASE (EventThread /\ ~ReturnMain) \/ TakeRequest
  BY <1>5 DEF EventThread, CheckLoop, TakeRequest, PollReturns, LockMain,
              FinishHandler, ClearAll, FreeManager, Main
<1>6. CASE PollThread \/ Interrupt
  BY <1>3, <1>6 DEF PollThread, CheckExit, WakeUp, Alarm, LockPoller, EndRound, Poller, Interrupt
<1>7. QED
  BY <1>1, <1>2, <1>4, <1>5, <1>6

\* The lock changes hands only between its takers, so it is always with the
\* thread that stands inside.
LEMMA StepThreads ==
  ASSUME ThreadType, [Next]_vars
  PROVE  ThreadType'
<1> USE DEF ThreadType, LockHeld
<1>1. ASSUME NEW ended, Threads(ended)
      PROVE  ThreadType'
  <2>1. CASE ended
    BY <1>1, <2>1 DEF Threads
  <2>2. CASE ~ended
    BY <1>1, <2>2 DEF Threads, pipeVars, threadVars
  <2>3. QED
    BY <2>1, <2>2
<1>2. CASE UNCHANGED <<pipeVars, threadVars>>
  BY <1>2 DEF pipeVars, threadVars
<1>3. CASE LauncherSteps \/ RestartMpd \/ ExitMenu
  <2>1. CASE OpenPipe \/ WriteClose
    BY <2>1 DEF OpenPipe, WriteClose, threadVars
  <2>2. CASE WaitAurmpd
    BY <1>1, <1>2, <2>2 DEF WaitAurmpd
  <2>3. QED
    BY <1>2, <1>3, <2>1, <2>2
    DEF LauncherSteps, StartMpd, AssignMpd, StartAurmpd, AssignAurmpd, WaitAgain,
        EndMpd, WaitMpd, RestartMpd, ExitMenu
<1>4. CASE LauncherCrashes
  BY <1>1, <1>4 DEF LauncherCrashes, threadVars
<1>5. CASE \E c \in Children : Dies(c) \/ ChildCrashes(c)
  BY <1>1, <1>2, <1>5 DEF Dies, ChildCrashes
<1>6. CASE ExitProcess \/ ReturnMain
  BY <1>1, <1>6 DEF ExitProcess, ReturnMain
<1>7. CASE PipeThread /\ ~ExitProcess
  BY <1>7 DEF PipeThread, CreatePipe, ConnectPipe, AcceptClient, ReadClose,
              ReadBroken, Listener
<1>8. CASE (EventThread /\ ~ReturnMain) \/ TakeRequest
  BY <1>8 DEF EventThread, CheckLoop, TakeRequest, PollReturns, LockMain,
              FinishHandler, ClearAll, FreeManager, Main, pipeVars
<1>9. CASE PollThread
  BY <1>9 DEF PollThread, CheckExit, WakeUp, Alarm, LockPoller, EndRound, Poller, pipeVars
<1>10. CASE Interrupt
  BY <1>10 DEF Interrupt, pipeVars
<1>11. CASE UNCHANGED vars
  BY <1>2, <1>11 DEF vars
<1>12. QED
  BY <1>3, <1>4, <1>5, <1>6, <1>7, <1>8, <1>9, <1>10, <1>11 DEF Next

\* The truth values.
LEMMA StepFlags ==
  ASSUME Flags, [Next]_vars
  PROVE  Flags'
<1>1. ASSUME NEW ended, Threads(ended)
      PROVE  Flags'
  BY <1>1 DEF Threads, Flags, pipeVars, threadVars
<1>2. CASE UNCHANGED <<sent, forceExit>>
  BY <1>2 DEF Flags
<1>3. CASE WriteClose
  <2>1. sent' = (client = "connected") \/ sent' = sent
    BY <1>3 DEF WriteClose
  <2>2. (client = "connected") \in BOOLEAN
    OBVIOUS
  <2>3. forceExit' = forceExit
    BY <1>3 DEF WriteClose, threadVars
  <2>4. QED
    BY <2>1, <2>2, <2>3 DEF Flags
<1>4. CASE (LauncherSteps /\ ~WriteClose) \/ RestartMpd \/ ExitMenu
  BY <1>1, <1>2, <1>4
  DEF LauncherSteps, StartMpd, AssignMpd, StartAurmpd, AssignAurmpd, OpenPipe,
      WaitAurmpd, WaitAgain, EndMpd, WaitMpd, RestartMpd, ExitMenu, pipeVars,
      threadVars
<1>5. CASE LauncherCrashes
  BY <1>1, <1>2, <1>5 DEF LauncherCrashes, threadVars
<1>6. CASE \E c \in Children : Dies(c) \/ ChildCrashes(c)
  BY <1>1, <1>2, <1>6 DEF Dies, ChildCrashes, pipeVars, threadVars
<1>7. CASE PipeThread
  BY <1>1, <1>7 DEF PipeThread, CreatePipe, ConnectPipe, AcceptClient, ReadClose,
                    ReadBroken, ExitProcess, Flags
<1>8. CASE EventThread \/ TakeRequest
  BY <1>1, <1>2, <1>8
  DEF EventThread, CheckLoop, TakeRequest, PollReturns, LockMain, FinishHandler,
      ClearAll, FreeManager, ReturnMain, Main, pipeVars
<1>9. CASE PollThread
  BY <1>2, <1>9
  DEF PollThread, CheckExit, WakeUp, Alarm, LockPoller, EndRound, Poller, pipeVars
<1>10. CASE Interrupt
  BY <1>10 DEF Interrupt, pipeVars, Flags
<1>11. CASE UNCHANGED vars
  BY <1>2, <1>11 DEF vars, pipeVars, threadVars
<1>12. QED
  BY <1>3, <1>4, <1>5, <1>6, <1>7, <1>8, <1>9, <1>10, <1>11 DEF Next

\* Every variable keeps its type, and mpd_lock its holder.
THEOREM TypeCorrect == Spec => []TypeOK
<1>1. TypeOK /\ [Next]_vars => TypeOK'
  <2> SUFFICES ASSUME TypeOK, [Next]_vars PROVE TypeOK'
    OBVIOUS
  <2>1. LauncherType'
    <3>1. CASE UNCHANGED vars
      BY <3>1, TypeParts DEF vars, launcherVars, LauncherType
    <3>2. QED
      BY <3>1, TypeParts, LauncherStepsType, OtherStepsType DEF Next
  <2>2. ThreadType' /\ Flags'
    BY TypeParts, StepThreads, StepFlags
  <2>3. QED
    BY <2>1, <2>2 DEF TypeOK, LauncherType, ThreadType, Flags
<1>2. QED
  BY <1>1, InitType, PTL DEF Spec

-----------------------------------------------------------------------------
(***************************************************************************)
(* Processes left behind.  The launcher keeps the handle of every child    *)
(* that runs, and the job holds it except between its start and its        *)
(* assignment; so leaving, or a crash, finds them all.                     *)
(***************************************************************************)

Gone(c) == child[c] \in Ended

HandleKept == \A c \in Children : c \notin handle => Gone(c)

LeavesDone ==
  /\ launcher \in {"waitAgain", "endMpd", "waitMpd", "gone"} => Gone("aurmpd")
  /\ launcher \in {"waitMpd", "gone"} => Gone("mpd")

InJob ==
  JobWorks =>
    /\ Gone("mpd") \/ "mpd" \in assigned
         \/ launcher \in {"assignMpd", "crashedStarting"}
    /\ Gone("aurmpd") \/ "aurmpd" \in assigned
         \/ launcher \in {"assignAurmpd", "crashedStarting"}

ProcessInv == HandleKept /\ LeavesDone /\ InJob /\ CrashTakesChildren

\* A child that is gone comes back only when the launcher starts it.
LEMMA ThreadsLeaveLauncher ==
  ASSUME LauncherType, ProcessInv,
         \/ PipeThread \/ EventThread \/ PollThread \/ Interrupt \/ TakeRequest
         \/ (\E c \in Children : Dies(c) \/ ChildCrashes(c)) \/ UNCHANGED vars
  PROVE  ProcessInv'
<1>1. UNCHANGED <<launcher, assigned, handle>>
  BY DEF PipeThread, CreatePipe, ConnectPipe, AcceptClient, ReadClose, ReadBroken,
         Listener, ExitProcess, EventThread, CheckLoop, TakeRequest, PollReturns,
         LockMain, FinishHandler, ClearAll, FreeManager, ReturnMain, Main,
         PollThread, CheckExit, WakeUp, Alarm, LockPoller, EndRound, Poller, Interrupt, Dies, ChildCrashes, launcherVars,
         vars
<1>2. \A c \in Children : Gone(c) => Gone(c)'
  <2>1. child' = child \/ (\E c \in Children : SetChild(c, "dead"))
    BY DEF PipeThread, CreatePipe, ConnectPipe, AcceptClient, ReadClose, ReadBroken,
           Listener, ExitProcess, EventThread, CheckLoop, TakeRequest, PollReturns,
           LockMain, FinishHandler, ClearAll, FreeManager, ReturnMain, Main,
           PollThread, CheckExit, WakeUp, Alarm, LockPoller, EndRound, Poller, Interrupt, Dies, ChildCrashes,
           launcherVars, vars, Children
  <2>2. QED
    BY <2>1 DEF SetChild, Gone, Ended, LauncherType
<1>3. QED
  BY <1>1, <1>2 DEF ProcessInv, HandleKept, LeavesDone, InJob, CrashTakesChildren,
                    Gone, Children

\* The launcher at work: starting, restarting, leaving.
LEMMA LauncherKeeps ==
  ASSUME LauncherType, ProcessInv, LauncherSteps \/ RestartMpd \/ ExitMenu
  PROVE  ProcessInv'
<1> USE DEF LauncherType, ProcessInv, HandleKept, LeavesDone, InJob, Gone, Ended,
            Children, SetChild, CrashTakesChildren
<1>1. CASE StartMpd
  BY <1>1 DEF StartMpd
<1>2. CASE StartAurmpd
  BY <1>2 DEF StartAurmpd
<1>3. CASE AssignMpd
  BY <1>3 DEF AssignMpd
<1>4. CASE AssignAurmpd
  BY <1>4 DEF AssignAurmpd
<1>5. CASE RestartMpd
  BY <1>5 DEF RestartMpd
<1>6. CASE ExitMenu \/ OpenPipe \/ WriteClose \/ WaitAgain \/ WaitMpd
  BY <1>6 DEF ExitMenu, OpenPipe, WriteClose, WaitAgain, WaitMpd
<1>7. CASE WaitAurmpd
  BY <1>7 DEF WaitAurmpd
<1>8. CASE EndMpd
  BY <1>8 DEF EndMpd
<1>9. QED
  BY <1>1, <1>2, <1>3, <1>4, <1>5, <1>6, <1>7, <1>8 DEF LauncherSteps

\* The launcher crashes: the job is closed.
LEMMA CrashKeeps ==
  ASSUME LauncherType, ProcessInv, LauncherCrashes
  PROVE  ProcessInv'
<1> USE DEF LauncherType, ProcessInv, HandleKept, LeavesDone, InJob, Gone, Ended,
            Children, CrashTakesChildren
<1>1. /\ launcher' \in {"crashed", "crashedStarting"}
      /\ launcher' = "crashed" => launcher \notin {"assignMpd", "assignAurmpd",
                                                  "crashedStarting"}
      /\ UNCHANGED <<assigned, handle>>
  BY DEF LauncherCrashes
<1>2. \A c \in Children :
        child'[c] = IF c \in assigned /\ child[c] = "running" THEN "dying" ELSE child[c]
  BY DEF LauncherCrashes
<1>3. \A c \in Children : Gone(c) \/ c \in assigned => Gone(c)'
  BY <1>2
<1>4. QED
  BY <1>1, <1>2, <1>3

\* The inductive invariant of both promises about processes.
THEOREM ProcessInvariant == Spec => []ProcessInv
<1>1. Init => ProcessInv
  BY DEF Init, ProcessInv, HandleKept, LeavesDone, InJob, CrashTakesChildren, Gone,
         Ended, Children
<1>2. TypeOK /\ ProcessInv /\ [Next]_vars => ProcessInv'
  BY TypeParts, ThreadsLeaveLauncher, LauncherKeeps, CrashKeeps DEF Next
<1>3. QED
  BY <1>1, <1>2, TypeCorrect, PTL DEF Spec

\* A launcher that has left leaves nothing running.
THEOREM LeavingLeavesNothing == Spec => []ExitLeavesNothing
<1>1. ProcessInv => ExitLeavesNothing
  BY DEF ProcessInv, LeavesDone, ExitLeavesNothing, Gone, Children
<1>2. QED
  BY <1>1, ProcessInvariant, PTL

\* A launcher that crashes takes its children along.
THEOREM CrashLeavesNothing == Spec => []CrashTakesChildren
<1>1. ProcessInv => CrashTakesChildren
  BY DEF ProcessInv
<1>2. QED
  BY <1>1, ProcessInvariant, PTL
=============================================================================
