------------------------- MODULE BrowserView_proofs -------------------------
(***************************************************************************)
(* Proofs about BrowserView, for every value of its constants.             *)
(***************************************************************************)
EXTENDS BrowserView, MpdQueueMirror_proofs

-----------------------------------------------------------------------------
(***************************************************************************)
(* The pages only watch: what holds of the mirror holds beside them.       *)
(***************************************************************************)

\* A step of the composition is a step of the mirror, or leaves it alone.
LEMMA ViewStepIsStep ==
  ASSUME [ViewNext]_viewVars
  PROVE  [Next]_vars
<1>1. CASE PollStep
  BY <1>1 DEF PollStep, Next
<1>2. CASE EventThread
  BY <1>2 DEF EventThread, HandlerStep, Broadcast, Upgrade, Next
<1>3. CASE OtherStep
  BY <1>3 DEF OtherStep
<1>4. CASE \E p \in Pages : Serve(p) \/ OpenPage(p) \/ Page(p) \/ GetFails(p)
  BY <1>4 DEF Serve, OpenPage, Page, OnUpdateQueue, Arrive, GetFails
<1>5. CASE UNCHANGED viewVars
  BY <1>5 DEF viewVars
<1>6. QED
  BY <1>1, <1>2, <1>3, <1>4, <1>5 DEF ViewNext

\* The mirror inside the composition is the mirror.
THEOREM ViewIsMirror == ViewSpec => Spec
<1>1. ViewInit => Init
  BY DEF ViewInit
<1>2. [ViewNext]_viewVars => [Next]_vars
  BY ViewStepIsStep
<1>3. QED
  BY <1>1, <1>2, PTL DEF ViewSpec, Spec

-----------------------------------------------------------------------------
(***************************************************************************)
(* Types.                                                                  *)
(***************************************************************************)

Answers == [view : Views, old : BOOLEAN]

\* The part of ViewTypeOK that is about the pages.
PageType ==
  /\ pipe \in 0..PipeSlots /\ openings \in 0..MaxOpenings
  /\ socket \in [Pages -> {"none", "connecting", "open", "closed"}]
  /\ wire \in [Pages -> Nat] /\ asked \in [Pages -> Nat]
  /\ answers \in [Pages -> Seq(Answers)]
  /\ shown \in [Pages -> Views]
  /\ blind \in [Pages -> SUBSET Reasons]

\* Blaming keeps blame a set of reasons.
LEMMA BlameType ==
  ASSUME PageType, NEW unheard \in BOOLEAN, BlameIf(unheard)
  PROVE  blind' \in [Pages -> SUBSET Reasons]
BY DEF PageType, BlameIf, Reasons

\* The steps of the server keep the types.
LEMMA ServerStepType ==
  ASSUME PageType, PollStep \/ HandlerStep \/ OtherStep
  PROVE  PageType'
<1> USE BrowserAssumption
<1>1. CASE PollStep
  <2>1. UNCHANGED <<socket, wire, asked, answers, shown, openings>>
    BY <1>1 DEF PollStep
  <2>2. CASE Announce
    <3>1. pipe' \in 0..PipeSlots
      BY <2>2 DEF Announce, PageType
    <3>2. blind' \in [Pages -> SUBSET Reasons]
      <4>1. (pipe >= PipeSlots) \in BOOLEAN
        OBVIOUS
      <4>2. BlameIf(pipe >= PipeSlots)
        BY <2>2 DEF Announce
      <4>3. QED
        BY <4>1, <4>2, BlameType
    <3>3. QED
      BY <2>1, <3>1, <3>2 DEF PageType
  <2>3. CASE UNCHANGED pipe /\ BlameIf(job.at = "firstSync" /\ mirror' # mirror)
    <3>1. blind' \in [Pages -> SUBSET Reasons]
      BY <2>3, BlameType
    <3>2. QED
      BY <2>1, <2>3, <3>1 DEF PageType
  <2>4. QED
    BY <1>1, <2>2, <2>3 DEF PollStep
<1>2. CASE HandlerStep
  BY <1>2 DEF HandlerStep, pages, PageType
<1>3. CASE OtherStep
  <2>1. CASE proc = "running" /\ proc' # "running"
    <3>1. /\ pipe' = 0 /\ UNCHANGED <<answers, shown, blind, openings>>
          /\ socket' = [p \in Pages |-> IF socket[p] = "none" THEN "none" ELSE "closed"]
          /\ asked' = [p \in Pages |-> 0] /\ wire' = [p \in Pages |-> 0]
      BY <1>3, <2>1 DEF OtherStep
    <3>2. QED
      BY <3>1 DEF PageType
  <2>2. CASE ~(proc = "running" /\ proc' # "running")
    <3>1. /\ UNCHANGED <<pipe, socket, wire, asked, answers, shown, openings>>
          /\ BlameIf(mirror' # mirror /\ mpdVersion' = mpdVersion)
      BY <1>3, <2>2 DEF OtherStep
    <3>2. blind' \in [Pages -> SUBSET Reasons]
      BY <3>1, BlameType
    <3>3. QED
      BY <3>1, <3>2 DEF PageType
  <2>3. QED
    BY <2>1, <2>2
<1>4. QED
  BY <1>1, <1>2, <1>3

\* What is left of the answers when one has arrived.
LEMMA ArriveType ==
  ASSUME NEW s \in Seq(Answers), NEW k \in DOMAIN s
  PROVE  /\ [i \in 1..(Len(s) - 1) |->
               IF i < k THEN [s[i] EXCEPT !.old = TRUE] ELSE s[i + 1]] \in Seq(Answers)
         /\ Len([i \in 1..(Len(s) - 1) |->
               IF i < k THEN [s[i] EXCEPT !.old = TRUE] ELSE s[i + 1]]) = Len(s) - 1
         /\ s[k].view \in Views /\ s[k].old \in BOOLEAN
<1>1. Len(s) \in Nat /\ k \in 1..Len(s) /\ DOMAIN s = 1..Len(s)
  OBVIOUS
<1>2. \A i \in 1..Len(s) : s[i] \in Answers
  OBVIOUS
<1>3. \A i \in 1..Len(s) : [s[i] EXCEPT !.old = TRUE] \in Answers
  BY <1>2 DEF Answers
<1>4. \A i \in 1..(Len(s) - 1) :
        (IF i < k THEN [s[i] EXCEPT !.old = TRUE] ELSE s[i + 1]) \in Answers
  BY <1>1, <1>2, <1>3
<1>5. Len(s) - 1 \in Nat
  BY <1>1
<1>6. s[k].view \in Views /\ s[k].old \in BOOLEAN
  BY <1>1, <1>2 DEF Answers
<1>7. QED
  BY <1>4, <1>5, <1>6

\* What is left of them when one does not arrive.
LEMMA FailType ==
  ASSUME NEW s \in Seq(Answers), NEW k \in DOMAIN s
  PROVE  /\ [i \in 1..(Len(s) - 1) |-> IF i < k THEN s[i] ELSE s[i + 1]] \in Seq(Answers)
         /\ Len([i \in 1..(Len(s) - 1) |-> IF i < k THEN s[i] ELSE s[i + 1]]) = Len(s) - 1
<1>1. Len(s) \in Nat /\ k \in 1..Len(s) /\ \A i \in 1..Len(s) : s[i] \in Answers
  OBVIOUS
<1>2. \A i \in 1..(Len(s) - 1) : (IF i < k THEN s[i] ELSE s[i + 1]) \in Answers
  BY <1>1
<1>3. Len(s) - 1 \in Nat
  BY <1>1
<1>4. QED
  BY <1>2, <1>3

\* The steps of the event thread and the pages keep the types.
LEMMA PageStepType ==
  ASSUME PageType, TypeOK,
         \/ Broadcast
         \/ \E p \in Pages : Upgrade(p) \/ Serve(p) \/ OpenPage(p) \/ Page(p) \/ GetFails(p)
  PROVE  PageType'
<1> USE BrowserAssumption
<1>1. CASE Broadcast
  <2>1. /\ pipe' = pipe - 1 /\ pipe > 0
        /\ wire' = [p \in Pages |-> IF Marked(p) THEN wire[p] + 1 ELSE wire[p]]
        /\ UNCHANGED <<socket, asked, answers, shown, openings>>
    BY <1>1 DEF Broadcast
  <2>2. wire' \in [Pages -> Nat] /\ pipe' \in 0..PipeSlots
    BY <2>1 DEF PageType
  <2>3. blind' \in [Pages -> SUBSET Reasons]
    BY <1>1 DEF Broadcast, PageType, Reasons
  <2>4. QED
    BY <2>1, <2>2, <2>3 DEF PageType
<1>2. ASSUME NEW p \in Pages, Upgrade(p)
      PROVE  PageType'
  BY <1>2 DEF Upgrade, PageType
<1>3. ASSUME NEW p \in Pages, Serve(p)
      PROVE  PageType'
  <2>1. [view |-> mirror, old |-> FALSE] \in Answers
    BY DEF TypeOK, Answers, Views
  <2>2. Append(answers[p], [view |-> mirror, old |-> FALSE]) \in Seq(Answers)
    BY <2>1 DEF PageType
  <2>3. answers' \in [Pages -> Seq(Answers)]
    BY <1>3, <2>2 DEF Serve, PageType
  <2>4. asked' \in [Pages -> Nat]
    BY <1>3 DEF Serve, PageType
  <2>5. blind' \in [Pages -> SUBSET Reasons]
    BY <1>3 DEF Serve, PageType
  <2>6. UNCHANGED <<pipe, socket, wire, shown, openings>>
    BY <1>3 DEF Serve
  <2>7. QED
    BY <2>3, <2>4, <2>5, <2>6 DEF PageType
<1>4. ASSUME NEW p \in Pages, OpenPage(p)
      PROVE  PageType'
  <2>1. openings' \in 0..MaxOpenings /\ UNCHANGED pipe
    BY <1>4 DEF OpenPage, PageType
  <2>2. socket' \in [Pages -> {"none", "connecting", "open", "closed"}]
    BY <1>4 DEF OpenPage, PageType
  <2>3. asked' \in [Pages -> Nat] /\ wire' \in [Pages -> Nat]
    BY <1>4 DEF OpenPage, PageType
  <2>4. answers' \in [Pages -> Seq(Answers)] /\ shown' \in [Pages -> Views]
        /\ blind' \in [Pages -> SUBSET Reasons]
    BY <1>4 DEF OpenPage, PageType, Views
  <2>5. QED
    BY <2>1, <2>2, <2>3, <2>4 DEF PageType
<1>5. ASSUME NEW p \in Pages, OnUpdateQueue(p)
      PROVE  PageType'
  <2>1. wire' \in [Pages -> Nat] /\ asked' \in [Pages -> Nat]
    BY <1>5 DEF OnUpdateQueue, PageType
  <2>2. UNCHANGED <<pipe, socket, answers, shown, blind, openings>>
    BY <1>5 DEF OnUpdateQueue
  <2>3. QED
    BY <2>1, <2>2 DEF PageType
<1>6. ASSUME NEW p \in Pages, Arrive(p)
      PROVE  PageType'
  <2>1. PICK k \in DOMAIN answers[p] :
          /\ shown' = [shown EXCEPT ![p] = answers[p][k].view]
          /\ answers' = [answers EXCEPT ![p] =
               [i \in 1..(Len(@) - 1) |->
                  IF i < k THEN [@[i] EXCEPT !.old = TRUE] ELSE @[i + 1]]]
          /\ blind' = [blind EXCEPT ![p] =
               IF answers[p][k].old THEN @ \cup {"overtaken"}
                                    ELSE @ \ {"overtaken"}]
    BY <1>6 DEF Arrive
  <2>2. answers[p] \in Seq(Answers)
    BY DEF PageType
  <2>3. answers' \in [Pages -> Seq(Answers)] /\ shown' \in [Pages -> Views]
    BY <2>1, <2>2, ArriveType DEF PageType
  <2>4. blind' \in [Pages -> SUBSET Reasons]
    BY <2>1 DEF PageType, Reasons
  <2>5. UNCHANGED <<pipe, socket, wire, asked, openings>>
    BY <1>6 DEF Arrive
  <2>6. QED
    BY <2>3, <2>4, <2>5 DEF PageType
<1>7. ASSUME NEW p \in Pages, GetFails(p)
      PROVE  PageType'
  <2>1. PICK k \in DOMAIN answers[p] :
          /\ answers' = [answers EXCEPT ![p] =
               [i \in 1..(Len(@) - 1) |-> IF i < k THEN @[i] ELSE @[i + 1]]]
          /\ blind' = [blind EXCEPT ![p] =
               IF k = Len(answers[p]) /\ ~answers[p][k].old THEN @ \cup {"missed"} ELSE @]
    BY <1>7 DEF GetFails
  <2>2. answers[p] \in Seq(Answers)
    BY DEF PageType
  <2>3. answers' \in [Pages -> Seq(Answers)]
    BY <2>1, <2>2, FailType DEF PageType
  <2>4. blind' \in [Pages -> SUBSET Reasons]
    BY <2>1 DEF PageType, Reasons
  <2>5. UNCHANGED <<pipe, socket, wire, asked, shown, openings>>
    BY <1>7 DEF GetFails
  <2>6. QED
    BY <2>3, <2>4, <2>5 DEF PageType
<1>8. QED
  BY <1>1, <1>2, <1>3, <1>4, <1>5, <1>6, <1>7 DEF Page

\* Every step of the composition keeps them.
LEMMA ViewStepType ==
  ASSUME PageType, TypeOK, [ViewNext]_viewVars
  PROVE  PageType'
<1>1. CASE UNCHANGED viewVars
  BY <1>1 DEF viewVars, pages, PageType
<1>2. CASE ViewNext
  BY <1>2, ServerStepType, PageStepType DEF ViewNext, EventThread
<1>3. QED
  BY <1>1, <1>2

\* Type correctness of the composition.
THEOREM ViewTypeCorrect == ViewSpec => []ViewTypeOK
<1>1. ViewInit => PageType
  BY BrowserAssumption DEF ViewInit, PageType, Views
<1>2. PageType /\ TypeOK /\ [ViewNext]_viewVars => PageType'
  BY ViewStepType
<1>3. PageType /\ TypeOK => ViewTypeOK
  BY DEF PageType, ViewTypeOK, Answers
<1>4. QED
  BY <1>1, <1>2, <1>3, ViewIsMirror, TypeCorrect, PTL DEF ViewSpec

-----------------------------------------------------------------------------
(***************************************************************************)
(* What the poll thread has told.                                          *)
(***************************************************************************)

\* The mirror counts as current, and the browsers were told so.
Told == synced /\ verSynced = mpdVersion /\ announced = mpdVersion

\* Nothing is announced before it is recorded as synced, and a rebuild is only
\* under way for a version newer than the recorded one.
TellInv ==
  /\ ~synced => verSynced = 0
  /\ announced <= verSynced
  /\ job.at = "sync" => verSynced < queueVersion

\* A rebuild is started by the status alone.
LEMMA SyncStarts ==
  ASSUME TypeOK, [Next]_vars, job'.at = "sync"
  PROVE  PollStatus \/ (UNCHANGED marks /\ job.at = "sync")
<1>1. job' # IdleJob
  BY DEF IdleJob
<1>2. \A label : Goto(label) => label = "sync"
  BY DEF Goto, TypeOK, Jobs
<1>3. ASSUME NEW how, Ends(how)
      PROVE  FALSE
  BY <1>1, <1>3 DEF Ends
<1>4. CASE HttpSteps
  <2>1. ~ClearIfEmpty
    BY <1>2 DEF ClearIfEmpty
  <2>2. ~MakeupPos /\ ~Play
    BY <1>1, <1>2 DEF MakeupPos, Play
  <2>3. CASE AddSong
    <3>1. \E x, y : job' = [job EXCEPT !.body = x, !.first = y]
      BY <2>3 DEF AddSong
    <3>2. job'.at = job.at
      BY <3>1 DEF TypeOK, Jobs
    <3>3. QED
      BY <2>3, <3>2 DEF AddSong
  <2>4. QED
    BY <1>4, <2>1, <2>2, <2>3 DEF HttpSteps
<1>5. CASE Exit \/ Kill
  BY <1>3, <1>5 DEF Exit, Kill
<1>6. ASSUME NEW body, NEW play, NEW ok, \/ HttpAdd(body, play)
                                         \/ HttpReplace(body, play, ok)
      PROVE  FALSE
  <2>1. \A by : job' # [at |-> "clear", by |-> by, body |-> body, play |-> play,
                        first |-> 0]
    OBVIOUS
  <2>2. QED
    BY <1>1, <1>3, <1>6, <2>1 DEF HttpAdd, HttpReplace, NullConn
<1>7. CASE \/ HttpLibrary \/ WsCommand \/ WsSearchMany \/ WsReconnect \/ Start
           \/ OtherClient \/ LinkDrops \/ MpdStops \/ MpdStarts \/ UNCHANGED vars
           \/ \E e \in mirror : HttpDel(e.sid)
  BY <1>3, <1>7 DEF HttpLibrary, HttpDel, NullConn, WsCommand, WsSearchMany, WsReconnect,
                    Start, OtherClient, LinkDrops, MpdStops, MpdStarts, vars, marks
<1>8. CASE PollConnect
  BY <1>2, <1>8 DEF PollConnect, Idle
<1>9. ~PollDrop
  BY DEF PollDrop, Idle
<1>10. ~PollFirstSync /\ ~PollSync /\ ~PollPublish
  BY <1>1, <1>2 DEF PollFirstSync, PollSync, PollPublish
<1>11. QED
  BY <1>4, <1>5, <1>6, <1>7, <1>8, <1>9, <1>10 DEF Next, Poll

\* Every step keeps TellInv.
LEMMA StepTellInv ==
  ASSUME TypeOK, TypeOK', FeedInv, TellInv, [Next]_vars
  PROVE  TellInv'
<1>1. /\ verSynced \in Nat /\ queueVersion \in Nat /\ mpdVersion \in Nat \ {0}
      /\ announced \in Nat /\ verSynced <= mpdVersion /\ verSynced <= queueVersion
      /\ synced \in BOOLEAN
  BY DEF TypeOK, ServerType, FeedInv, NotAhead, InOrder
<1>2. (~synced => verSynced = 0)' /\ (announced <= verSynced)'
  <2>1. ASSUME NEW how, Ends(how)
        PROVE  (~synced => verSynced = 0)' /\ (announced <= verSynced)'
    BY <2>1 DEF Ends
  <2>2. CASE UNCHANGED marks
    BY <2>2 DEF marks, TellInv
  <2>3. CASE PollSync
    BY <1>1, <2>3 DEF PollSync, TellInv
  <2>4. CASE PollPublish
    BY <1>1, <2>4 DEF PollPublish, TellInv, FeedInv, ReadIsSynced
  <2>5. CASE PollConnect \/ PollDrop \/ PollFirstSync \/ PollStatus
    BY <2>5 DEF PollConnect, PollDrop, PollFirstSync, PollStatus, TellInv, marks
  <2>6. QED
    BY <2>1, <2>2, <2>3, <2>4, <2>5, MarksStep DEF Poll
<1>3. ASSUME job'.at = "sync"
      PROVE  verSynced' < queueVersion'
  <2>1. CASE UNCHANGED marks /\ job.at = "sync"
    BY <2>1 DEF marks, TellInv
  <2>2. CASE PollStatus
    <3>1. PICK r \in Results(FALSE) :
            /\ queueVersion' = IF r.ok THEN mpdVersion ELSE queueVersion
            /\ Goto(IF r.ok /\ MustRebuild(mpdVersion) THEN "sync" ELSE "publish")
      BY <2>2 DEF PollStatus
    <3>2. r.ok /\ MustRebuild(mpdVersion)
      BY <1>3, <3>1 DEF Goto, TypeOK, Jobs
    <3>3. verSynced # mpdVersion
      BY <1>1, <3>2 DEF MustRebuild, TellInv
    <3>4. verSynced' = verSynced
      BY <2>2 DEF PollStatus
    <3>5. QED
      BY <1>1, <3>1, <3>2, <3>3, <3>4
  <2>3. QED
    BY <1>3, <2>1, <2>2, SyncStarts
<1>4. QED
  BY <1>2, <1>3 DEF TellInv

\* When the browsers have been told everything after a step, the step did not
\* change the queue, and did not end the process.
LEMMA ToldAfter ==
  ASSUME TypeOK, TypeOK', ~MpdRestarts, FeedInv, TellInv, [Next]_vars, Told'
  PROVE  UNCHANGED server /\ (UNCHANGED marks \/ Poll)
<1>1. /\ verSynced \in Nat /\ mpdVersion \in Nat \ {0} /\ verSynced <= mpdVersion
      /\ mpdVersion' \in Nat \ {0}
  BY DEF TypeOK, ServerType, FeedInv, NotAhead
<1>2. UNCHANGED marks \/ Poll
  <2>1. ASSUME NEW how, Ends(how)
        PROVE  FALSE
    BY <1>1, <2>1 DEF Ends, Told
  <2>2. QED
    BY <2>1, MarksStep
<1>3. CASE QueueStep /\ UNCHANGED marks
  BY <1>1, <1>3 DEF QueueStep, marks, Told
<1>4. Poll => UNCHANGED server
  BY DEF Poll, PollConnect, PollDrop, PollFirstSync, PollStatus, PollSync, PollPublish
<1>5. ~MpdStarts
  BY DEF FeedInv, IdInv, MpdStarts
<1>6. QED
  BY <1>2, <1>3, <1>4, <1>5, NextServer

\* A poll step after which everything is told announced something, repaired the
\* mirror over a new connection, or left it as it was.
LEMMA TellingPoll ==
  ASSUME TypeOK, TypeOK', ~MpdRestarts, FeedInv, TellInv, Poll, Told',
         announced' = announced
  PROVE  Told /\ (mirror' = mirror \/ job.at = "firstSync")
<1>0. [Next]_vars
  BY DEF Next
<1>1. /\ verSynced \in Nat /\ queueVersion \in Nat /\ mpdVersion \in Nat \ {0}
      /\ announced \in Nat /\ verSynced <= mpdVersion /\ queueVersion <= mpdVersion
      /\ mpdVersion' = mpdVersion
  BY <1>0, ToldAfter DEF TypeOK, ServerType, FeedInv, NotAhead, server
<1>2. ~PollSync
  BY <1>1 DEF PollSync, Told, TellInv
<1>3. CASE PollFirstSync
  BY <1>1, <1>3 DEF PollFirstSync, Told, TellInv
<1>4. CASE PollConnect \/ PollDrop \/ PollStatus \/ PollPublish
  BY <1>1, <1>4 DEF PollConnect, PollDrop, PollStatus, PollPublish, Told, marks
<1>5. QED
  BY <1>2, <1>3, <1>4 DEF Poll

-----------------------------------------------------------------------------
(***************************************************************************)
(* The handlers: a step that changes the mirror changes the queue.         *)
(***************************************************************************)

\* Positions computed from a listing that was cut off are the queue's too.
LEMMA PrefixPositions ==
  ASSUME TypeOK, IdInv, NEW n \in 0..Len(mpdQueue)
  PROVE  Positioned(Image(mpdQueue), SubSeq(mpdQueue, 1, n)) = Image(mpdQueue)
<1> DEFINE q == mpdQueue
           s == SubSeq(mpdQueue, 1, n)
           entry(i) == [sid |-> q[i].sid, song |-> q[i].song, pos |-> i - 1]
<1>1. q \in Seq(Entries) /\ Len(q) \in Nat /\ DOMAIN q = 1..Len(q)
  BY DEF TypeOK, ServerType
<1>2. DOMAIN s = 1..n /\ \A i \in 1..n : i \in DOMAIN q /\ s[i] = q[i]
  BY <1>1
<1> HIDE DEF s
<1>3. ASSUME NEW i \in DOMAIN q
      PROVE  [entry(i) EXCEPT !.pos = PosIn(entry(i), s)] = entry(i)
  <2>1. ASSUME NEW k \in DOMAIN s, s[k].sid = q[i].sid
        PROVE  k = i
    <3>1. k \in DOMAIN q /\ q[k].sid = q[i].sid
      BY <1>2, <2>1
    <3>2. QED
      BY <1>3, <3>1 DEF IdInv, DistinctSids
  <2>2. PosIn(entry(i), s) = i - 1
    <3>1. CASE \E k \in DOMAIN s : s[k].sid = q[i].sid
      <4>1. (CHOOSE k \in DOMAIN s : s[k].sid = q[i].sid) = i
        BY <2>1, <3>1
      <4>2. QED
        BY <3>1, <4>1 DEF PosIn
    <3>2. CASE ~ \E k \in DOMAIN s : s[k].sid = q[i].sid
      BY <3>2 DEF PosIn
    <3>3. QED
      BY <3>1, <3>2
  <2>3. QED
    BY <2>2
<1>4. \A e \in Image(q) : [e EXCEPT !.pos = PosIn(e, s)] = e
  BY <1>3 DEF Image
<1>5. Positioned(Image(q), s) = {[e EXCEPT !.pos = PosIn(e, s)] : e \in Image(q)}
  BY DEF Positioned
<1>6. Positioned(Image(q), s) = Image(q)
  <2> HIDE DEF q
  <2>1. QED
    BY <1>4, <1>5
<1>7. QED
  BY <1>6 DEF s

\* A listing of nothing positions nothing.
LEMMA NoPositions ==
  ASSUME TypeOK
  PROVE  Positioned(mirror, SubSeq(mpdQueue, 1, 0)) = mirror
<1> DEFINE s == SubSeq(mpdQueue, 1, 0)
<1>1. DOMAIN s = {}
  BY DEF TypeOK, ServerType
<1> HIDE DEF s
<1>2. \A e \in mirror : [e EXCEPT !.pos = PosIn(e, s)] = e
  <2>1. \A e \in mirror : PosIn(e, s) = e.pos /\ e \in MirrorEntries
    BY <1>1 DEF PosIn, TypeOK
  <2>2. QED
    BY <2>1 DEF MirrorEntries
<1>3. QED
  BY <1>2 DEF Positioned, s

\* A command that timed out was sent.
LEMMA CostMeansSent ==
  ASSUME NEW refused \in BOOLEAN, NEW r \in Results(refused), r.cost = 1
  PROVE  conn = "live" /\ err = "none"
BY DEF Results, Result

\* A handler step after which everything is told left the mirror as it was.
LEMMA TellingHandler ==
  ASSUME TypeOK, TypeOK', ~MpdRestarts, FeedInv, TellInv, MirrorInv, HttpSteps, Told'
  PROVE  Told /\ mirror' = mirror
<1>0. [Next]_vars /\ ~Poll
  <2>1. job.at \in {"clear", "add", "play"}
    BY DEF HttpSteps, ClearIfEmpty, AddSong, MakeupPos, Play
  <2>2. ~Poll
    BY <2>1 DEF Poll, PollConnect, PollDrop, PollFirstSync, PollStatus, PollSync,
                PollPublish, Idle
  <2>3. QED
    BY <2>2 DEF Next
<1>1. UNCHANGED server /\ UNCHANGED marks
  BY <1>0, ToldAfter
<1>2. Told
  BY <1>1 DEF Told, marks, server
<1>3. mirror' = mirror
  <2>1. CASE AddSong
    <3>1. PICK r \in Results(Head(job.body) \notin Playable) :
            /\ IF r.done THEN Load(<<Head(job.body)>>) ELSE UNCHANGED server
            /\ mirror' = mirror \cup Added(r, Head(job.body))
      BY <2>1 DEF AddSong
    <3>2. ~r.done
      BY <1>1, <3>1 DEF Load, Bump, server, TypeOK, ServerType
    <3>3. ~r.ok
      BY <3>2, ResultFacts
    <3>4. QED
      BY <3>1, <3>3 DEF Added
  <2>2. CASE MakeupPos
    <3>1. PICK r \in Results(FALSE) :
            \E n \in (IF r.ok THEN {Len(mpdQueue)}
                      ELSE IF r.cost = 1 THEN 0..Len(mpdQueue) ELSE {0}) :
              mirror' = Positioned(mirror, SubSeq(mpdQueue, 1, n))
      BY <2>2 DEF MakeupPos
    <3>2. PICK n \in (IF r.ok THEN {Len(mpdQueue)}
                      ELSE IF r.cost = 1 THEN 0..Len(mpdQueue) ELSE {0}) :
            mirror' = Positioned(mirror, SubSeq(mpdQueue, 1, n))
      BY <3>1
    <3>3. CASE r.ok \/ r.cost = 1
      <4>1. conn = "live" /\ err = "none"
        BY <3>3, ResultFacts, CostMeansSent
      <4>2. mirror = Image(mpdQueue)
        BY <1>2, <2>2, <4>1 DEF MirrorInv, TrustInv, MirrorTrusted, Trusted, Told,
                                MakeupPos
      <4>3. n \in 0..Len(mpdQueue)
        BY <3>2, <3>3 DEF TypeOK, ServerType
      <4>4. QED
        BY <3>2, <4>2, <4>3, PrefixPositions DEF MirrorInv
    <3>4. CASE ~r.ok /\ r.cost # 1
      <4>1. n = 0
        BY <3>2, <3>4
      <4>2. QED
        BY <3>2, <4>1, NoPositions
    <3>5. QED
      BY <3>3, <3>4
  <2>3. CASE ClearIfEmpty \/ Play
    BY <2>3 DEF ClearIfEmpty, Play
  <2>4. QED
    BY <2>1, <2>2, <2>3 DEF HttpSteps
<1>4. QED
  BY <1>2, <1>3

\* Any other step does so too, unless it changed the mirror alone.
LEMMA TellingOther ==
  ASSUME TypeOK, TypeOK', ~MpdRestarts, FeedInv, TellInv, [Next]_vars, ~Poll, Told'
  PROVE  Told /\ mpdVersion' = mpdVersion
BY ToldAfter DEF Told, marks, server

-----------------------------------------------------------------------------
(***************************************************************************)
(* What a page will show in the end: the newest answer served to it, which *)
(* it waits for or shows already.                                          *)
(***************************************************************************)

Last(p)  == answers[p][Len(answers[p])]
Waits(p) == answers[p] # <<>> /\ Last(p).old = FALSE

\* The answers before an old one are old.
OldTogether(p) ==
  \A i, j \in DOMAIN answers[p] :
    j < i /\ answers[p][i].old = TRUE => answers[p][j].old = TRUE

\* No announcement and no GET is on its way, and none was missed.
Heard(p) ==
  /\ socket[p] \in {"connecting", "open"}
  /\ pipe = 0 /\ wire[p] = 0 /\ asked[p] = 0
  /\ blind[p] \subseteq {"overtaken"}

\* When all was told and heard, the page waits for the mirror, or shows it if
\* no answer overtook another.
Fresh(p) ==
  Told /\ Heard(p) =>
    IF Waits(p) THEN Last(p).view = mirror
    ELSE blind[p] = {} => shown[p] = mirror

PageInv == \A p \in Pages : OldTogether(p) /\ Fresh(p)

\* A step that leaves the page alone, and the mirror if all is told after it.
LEMMA PageUntouched ==
  ASSUME PageInv, UNCHANGED <<socket, wire, asked, answers, shown>>, pipe' = pipe,
         NEW p \in Pages, blind[p] \subseteq blind'[p],
         Told' /\ blind'[p] \subseteq {"overtaken"} => Told /\ mirror' = mirror
  PROVE  OldTogether(p)' /\ Fresh(p)'
<1>1. OldTogether(p) /\ Fresh(p)
  BY DEF PageInv
<1>2. (Waits(p) <=> Waits(p)') /\ Last(p)' = Last(p)
  BY DEF Waits, Last
<1>3. OldTogether(p)'
  BY <1>1, <1>2 DEF OldTogether
<1>4. ASSUME Told', Heard(p)'
      PROVE  Told /\ Heard(p) /\ mirror' = mirror
  BY <1>4 DEF Heard
<1>5. Fresh(p)'
  <2>1. shown'[p] = shown[p]
    OBVIOUS
  <2>2. blind'[p] = {} => blind[p] = {}
    OBVIOUS
  <2>3. QED
    BY <1>1, <1>2, <1>4, <2>1, <2>2, Zenon DEF Fresh
<1>6. QED
  BY <1>3, <1>5

\* Blame is added, and added to every page.
LEMMA Blames ==
  ASSUME PageType, NEW unheard \in BOOLEAN, BlameIf(unheard), NEW p \in Pages
  PROVE  blind[p] \subseteq blind'[p] /\ (unheard => "missed" \in blind'[p])
BY DEF BlameIf

\* The poll thread.
LEMMA PollKeepsPages ==
  ASSUME TypeOK, TypeOK', ~MpdRestarts, FeedInv, TellInv, PageType, PageInv, PollStep,
         NEW p \in Pages
  PROVE  OldTogether(p)' /\ Fresh(p)'
<1>1. Poll /\ UNCHANGED <<socket, wire, asked, answers, shown>>
  BY DEF PollStep
<1>2. CASE announced' # announced
  <2>1. Announce
    BY <1>2 DEF PollStep
  <2>2. ~Heard(p)'
    <3>1. CASE pipe < PipeSlots
      BY <2>1, <3>1 DEF Announce, Heard, PageType
    <3>2. CASE ~(pipe < PipeSlots)
      <4>1. (pipe >= PipeSlots) = TRUE
        BY <3>2, BrowserAssumption DEF PageType
      <4>2. "missed" \in blind'[p]
        BY <2>1, <4>1, Blames DEF Announce
      <4>3. QED
        BY <4>2 DEF Heard
    <3>3. QED
      BY <3>1, <3>2
  <2>3. OldTogether(p)'
    BY <1>1 DEF PageInv, OldTogether, Waits, Last
  <2>4. QED
    BY <2>2, <2>3 DEF Fresh
<1>3. CASE announced' = announced
  <2>1. UNCHANGED pipe /\ BlameIf(job.at = "firstSync" /\ mirror' # mirror)
    BY <1>3 DEF PollStep
  <2>2. /\ blind[p] \subseteq blind'[p]
        /\ job.at = "firstSync" /\ mirror' # mirror => "missed" \in blind'[p]
    BY <2>1, Blames
  <2>3. Told' => Told /\ (mirror' = mirror \/ job.at = "firstSync")
    BY <1>1, <1>3, TellingPoll
  <2>4. Told' /\ blind'[p] \subseteq {"overtaken"} => Told /\ mirror' = mirror
    BY <2>2, <2>3
  <2>5. QED
    BY <1>1, <2>1, <2>2, <2>4, PageUntouched
<1>4. QED
  BY <1>2, <1>3

\* The handlers of aurmpd, other clients, mpd, the end of the process.
LEMMA OthersKeepPages ==
  ASSUME TypeOK, TypeOK', ~MpdRestarts, FeedInv, TellInv, MirrorInv, PageType, PageInv,
         HandlerStep \/ OtherStep, NEW p \in Pages
  PROVE  OldTogether(p)' /\ Fresh(p)'
<1>1. CASE HandlerStep
  <2>1. HttpSteps /\ UNCHANGED <<pipe, socket, wire, asked, answers, shown, blind>>
    BY <1>1 DEF HandlerStep, pages
  <2>2. Told' => Told /\ mirror' = mirror
    BY <2>1, TellingHandler
  <2>3. QED
    BY <2>1, <2>2, PageUntouched
<1>2. CASE OtherStep /\ proc = "running" /\ proc' # "running"
  <2>1. /\ socket' = [x \in Pages |-> IF socket[x] = "none" THEN "none" ELSE "closed"]
        /\ UNCHANGED answers
    BY <1>2 DEF OtherStep
  <2>2. ~Heard(p)'
    BY <2>1 DEF Heard
  <2>3. OldTogether(p)'
    BY <2>1 DEF PageInv, OldTogether, Waits, Last
  <2>4. QED
    BY <2>2, <2>3 DEF Fresh
<1>3. CASE OtherStep /\ ~(proc = "running" /\ proc' # "running")
  <2>1. /\ BlameIf(mirror' # mirror /\ mpdVersion' = mpdVersion)
        /\ UNCHANGED <<pipe, socket, wire, asked, answers, shown>>
        /\ Next /\ ~Poll
    BY <1>3 DEF OtherStep
  <2>2. /\ blind[p] \subseteq blind'[p]
        /\ mirror' # mirror /\ mpdVersion' = mpdVersion => "missed" \in blind'[p]
    BY <2>1, Blames
  <2>3. Told' => Told /\ mpdVersion' = mpdVersion
    BY <2>1, TellingOther
  <2>4. Told' /\ blind'[p] \subseteq {"overtaken"} => Told /\ mirror' = mirror
    BY <2>2, <2>3
  <2>5. QED
    BY <2>1, <2>2, <2>4, PageUntouched
<1>4. QED
  BY <1>1, <1>2, <1>3

\* A broadcast: a page hears of it, has its GET still to be served, or is blind
\* to it.
LEMMA BroadcastKeepsPages ==
  ASSUME PageType, PageInv, Broadcast, NEW p \in Pages
  PROVE  OldTogether(p)' /\ Fresh(p)'
<1>1. /\ wire'[p] = IF Marked(p) THEN wire[p] + 1 ELSE wire[p]
      /\ blind'[p] = IF Marked(p) \/ asked[p] > 0 THEN blind[p]
                     ELSE blind[p] \cup {"missed"}
      /\ UNCHANGED <<vars, socket, asked, answers, shown>>
  BY DEF Broadcast
<1>2. ~Heard(p)'
  <2>1. wire[p] \in Nat /\ asked[p] \in Nat
    BY DEF PageType
  <2>2. CASE Marked(p)
    BY <1>1, <2>1, <2>2 DEF Heard
  <2>3. CASE ~Marked(p) /\ asked[p] > 0
    BY <1>1, <2>1, <2>3 DEF Heard
  <2>4. CASE ~Marked(p) /\ ~(asked[p] > 0)
    BY <1>1, <2>4 DEF Heard
  <2>5. QED
    BY <2>2, <2>3, <2>4
<1>3. OldTogether(p)'
  BY <1>1 DEF PageInv, OldTogether, Waits, Last
<1>4. QED
  BY <1>2, <1>3 DEF Fresh

\* The steps of one page leave the others alone.
LEMMA OtherPages ==
  ASSUME PageType, NEW p \in Pages, NEW r \in Pages, r # p,
         Upgrade(r) \/ Serve(r) \/ OpenPage(r) \/ Page(r) \/ GetFails(r)
  PROVE  /\ UNCHANGED <<vars, pipe, socket[p], wire[p], asked[p], answers[p], shown[p],
                        blind[p]>>
<1>1. CASE Upgrade(r)
  BY <1>1 DEF Upgrade, PageType
<1>2. CASE Serve(r)
  BY <1>2 DEF Serve, PageType
<1>3. CASE OpenPage(r)
  BY <1>3 DEF OpenPage, PageType
<1>4. CASE OnUpdateQueue(r)
  BY <1>4 DEF OnUpdateQueue, PageType
<1>5. CASE Arrive(r)
  <2>1. UNCHANGED <<vars, pipe, socket, wire, asked>>
    BY <1>5 DEF Arrive
  <2>2. PICK k \in DOMAIN answers[r] :
          /\ shown' = [shown EXCEPT ![r] = answers[r][k].view]
          /\ answers' = [answers EXCEPT ![r] =
               [i \in 1..(Len(@) - 1) |->
                  IF i < k THEN [@[i] EXCEPT !.old = TRUE] ELSE @[i + 1]]]
          /\ blind' = [blind EXCEPT ![r] =
               IF answers[r][k].old THEN @ \cup {"overtaken"}
                                    ELSE @ \ {"overtaken"}]
    BY <1>5 DEF Arrive
  <2>3. UNCHANGED <<shown[p], answers[p], blind[p]>>
    BY <2>2 DEF PageType
  <2>4. QED
    BY <2>1, <2>3
<1>6. CASE GetFails(r)
  <2>1. UNCHANGED <<vars, pipe, socket, wire, asked, shown>>
    BY <1>6 DEF GetFails
  <2>2. PICK k \in DOMAIN answers[r] :
          /\ answers' = [answers EXCEPT ![r] =
               [i \in 1..(Len(@) - 1) |-> IF i < k THEN @[i] ELSE @[i + 1]]]
          /\ blind' = [blind EXCEPT ![r] =
               IF k = Len(answers[r]) /\ ~answers[r][k].old THEN @ \cup {"missed"} ELSE @]
    BY <1>6 DEF GetFails
  <2>3. UNCHANGED <<answers[p], blind[p]>>
    BY <2>2 DEF PageType
  <2>4. QED
    BY <2>1, <2>3
<1>7. QED
  BY <1>1, <1>2, <1>3, <1>4, <1>5, <1>6 DEF Page

\* An answer that arrives: the newest one is shown, or is still to come.
LEMMA ArriveKeepsPage ==
  ASSUME PageType, PageInv, NEW p \in Pages, Arrive(p)
  PROVE  OldTogether(p)' /\ Fresh(p)'
<1> DEFINE s == answers[p]
           n == Len(answers[p])
<1>1. PICK k \in DOMAIN s :
        /\ shown' = [shown EXCEPT ![p] = s[k].view]
        /\ answers' = [answers EXCEPT ![p] =
             [i \in 1..(Len(@) - 1) |->
                IF i < k THEN [@[i] EXCEPT !.old = TRUE] ELSE @[i + 1]]]
        /\ blind' = [blind EXCEPT ![p] =
             IF s[k].old THEN @ \cup {"overtaken"} ELSE @ \ {"overtaken"}]
  BY DEF Arrive
<1>2. /\ s \in Seq(Answers) /\ n \in Nat /\ k \in 1..n /\ DOMAIN s = 1..n /\ s # <<>>
      /\ \A i \in 1..n : s[i] \in Answers
  BY DEF PageType
<1>3. /\ UNCHANGED <<vars, pipe, socket[p], wire[p], asked[p]>>
      /\ shown'[p] = s[k].view
      /\ blind'[p] = IF s[k].old THEN blind[p] \cup {"overtaken"}
                                 ELSE blind[p] \ {"overtaken"}
  BY <1>1 DEF Arrive, PageType
<1>4. answers'[p] = [i \in 1..(n - 1) |->
                       IF i < k THEN [s[i] EXCEPT !.old = TRUE] ELSE s[i + 1]]
  BY <1>1 DEF PageType
<1>5. /\ Len(answers'[p]) = n - 1 /\ DOMAIN answers'[p] = 1..(n - 1)
      /\ answers'[p] = <<>> <=> n = 1
  <2>1. answers'[p] \in Seq(Answers) /\ Len(answers'[p]) = n - 1
    BY <1>2, <1>4, ArriveType
  <2>2. DOMAIN answers'[p] = 1..(n - 1)
    BY <2>1
  <2>3. answers'[p] = <<>> <=> Len(answers'[p]) = 0
    BY <2>1, EmptySeq
  <2>4. QED
    BY <1>2, <2>1, <2>2, <2>3
<1>6. OldTogether(p) /\ Fresh(p)
  BY DEF PageInv
<1>7. CASE k = n
  <2>1. \A i \in 1..(n - 1) : answers'[p][i].old = TRUE
    <3>1. \A i \in 1..(n - 1) : answers'[p][i] = [s[i] EXCEPT !.old = TRUE]
      BY <1>2, <1>4, <1>7
    <3>2. \A i \in 1..(n - 1) : s[i] \in Answers
      BY <1>2
    <3>3. QED
      BY <3>1, <3>2 DEF Answers
  <2>2. ~Waits(p)'
    <3>1. answers'[p] # <<>> => n - 1 \in 1..(n - 1)
      BY <1>2, <1>5
    <3>2. QED
      BY <1>5, <2>1, <3>1 DEF Waits, Last
  <2>3. OldTogether(p)'
    BY <1>5, <2>1 DEF OldTogether
  <2>4. ASSUME Told', Heard(p)', blind'[p] = {}
        PROVE  shown'[p] = mirror'
    <3>1. s[k].old # TRUE
      BY <1>3, <2>4
    <3>2. s[k].old = FALSE
      BY <1>2, <3>1 DEF Answers
    <3>3. Waits(p) /\ Last(p) = s[k]
      BY <1>2, <1>7, <3>2 DEF Waits, Last
    <3>4. Told /\ Heard(p) /\ mirror' = mirror
      <4>1. blind[p] \subseteq {"overtaken"}
        BY <1>3, <2>4, <3>2
      <4>2. QED
        BY <1>3, <2>4, <4>1 DEF vars, marks, server, Told, Heard
    <3>5. QED
      BY <1>3, <1>6, <3>3, <3>4 DEF Fresh
  <2>5. QED
    BY <2>2, <2>3, <2>4, Zenon DEF Fresh
<1>8. CASE k < n
  <2>1. n - 1 \in 1..(n - 1) /\ ~(n - 1 < k) /\ answers'[p] # <<>>
    BY <1>2, <1>5, <1>8
  <2>2. Last(p)' = Last(p)
    BY <1>2, <1>4, <1>5, <2>1 DEF Last
  <2>3. Waits(p)' <=> Waits(p)
    BY <1>2, <2>1, <2>2 DEF Waits
  <2>4. ASSUME ~Waits(p)
        PROVE  s[k].old = TRUE
    <3>1. Last(p).old = TRUE /\ n \in DOMAIN s
      BY <1>2, <2>4 DEF Waits, Last, Answers
    <3>2. QED
      BY <1>2, <1>6, <1>8, <3>1 DEF OldTogether, Last
  <2>5. OldTogether(p)'
    <3>1. ASSUME NEW i \in 1..(n - 1), NEW j \in 1..(n - 1), j < i,
                 answers'[p][i].old = TRUE
          PROVE  answers'[p][j].old = TRUE
      <4>1. i + 1 \in DOMAIN s /\ j \in 1..n /\ j + 1 \in DOMAIN s /\ j + 1 < i + 1
        BY <1>2, <3>1
      <4>2. answers'[p][j] = IF j < k THEN [s[j] EXCEPT !.old = TRUE] ELSE s[j + 1]
        BY <1>4
      <4>3. [s[j] EXCEPT !.old = TRUE].old = TRUE
        BY <1>2, <4>1 DEF Answers
      <4>4. ASSUME ~(j < k) PROVE s[j + 1].old = TRUE
        <5>1. answers'[p][i] = s[i + 1]
          BY <1>2, <1>4, <3>1, <4>4
        <5>2. QED
          BY <1>6, <3>1, <4>1, <5>1 DEF OldTogether
      <4>5. QED
        BY <4>2, <4>3, <4>4
    <3>2. QED
      BY <1>5, <3>1 DEF OldTogether
  <2>6. ASSUME Told', Heard(p)', Waits(p)
        PROVE  Last(p)'.view = mirror'
    <3>1. blind[p] \subseteq {"overtaken"}
      BY <1>3, <2>6 DEF Heard
    <3>2. Told /\ Heard(p) /\ mirror' = mirror
      BY <1>3, <2>6, <3>1 DEF vars, marks, server, Told, Heard
    <3>3. QED
      BY <1>6, <2>2, <2>6, <3>2 DEF Fresh
  <2>7. ~Waits(p) => blind'[p] # {}
    BY <1>2, <1>3, <2>4
  <2>8. QED
    BY <2>3, <2>5, <2>6, <2>7, Zenon DEF Fresh
<1>9. QED
  BY <1>2, <1>7, <1>8

\* An answer that does not arrive: the newest one is still to come, was shown, or
\* the page is blind to it.
LEMMA FailKeepsPage ==
  ASSUME PageType, PageInv, NEW p \in Pages, GetFails(p)
  PROVE  OldTogether(p)' /\ Fresh(p)'
<1> DEFINE s == answers[p]
           n == Len(answers[p])
<1>1. PICK k \in DOMAIN s :
        /\ answers' = [answers EXCEPT ![p] =
             [i \in 1..(Len(@) - 1) |-> IF i < k THEN @[i] ELSE @[i + 1]]]
        /\ blind' = [blind EXCEPT ![p] =
             IF k = Len(s) /\ ~s[k].old THEN @ \cup {"missed"} ELSE @]
  BY DEF GetFails
<1>2. /\ s \in Seq(Answers) /\ n \in Nat /\ k \in 1..n /\ DOMAIN s = 1..n /\ s # <<>>
      /\ \A i \in 1..n : s[i] \in Answers
  BY DEF PageType
<1>3. /\ UNCHANGED <<vars, pipe, socket[p], wire[p], asked[p], shown[p]>>
      /\ blind'[p] = IF k = n /\ ~s[k].old THEN blind[p] \cup {"missed"} ELSE blind[p]
  BY <1>1 DEF GetFails, PageType
<1>4. answers'[p] = [i \in 1..(n - 1) |-> IF i < k THEN s[i] ELSE s[i + 1]]
  BY <1>1 DEF PageType
<1>5. /\ Len(answers'[p]) = n - 1 /\ DOMAIN answers'[p] = 1..(n - 1)
      /\ answers'[p] = <<>> <=> n = 1
  <2>1. answers'[p] \in Seq(Answers) /\ Len(answers'[p]) = n - 1
    BY <1>2, <1>4, FailType
  <2>2. DOMAIN answers'[p] = 1..(n - 1)
    BY <2>1
  <2>3. answers'[p] = <<>> <=> Len(answers'[p]) = 0
    BY <2>1, EmptySeq
  <2>4. QED
    BY <1>2, <2>1, <2>2, <2>3
<1>6. OldTogether(p) /\ Fresh(p)
  BY DEF PageInv
<1>7. OldTogether(p)'
  <2>1. ASSUME NEW i \in 1..(n - 1), NEW j \in 1..(n - 1), j < i,
               answers'[p][i].old = TRUE
        PROVE  answers'[p][j].old = TRUE
    <3> DEFINE was(x) == IF x < k THEN x ELSE x + 1
    <3>1. /\ was(i) \in DOMAIN s /\ was(j) \in DOMAIN s
          /\ was(j) < was(i)
      BY <1>2, <2>1
    <3>2. answers'[p][i] = s[was(i)] /\ answers'[p][j] = s[was(j)]
      BY <1>4
    <3>3. QED
      BY <1>6, <2>1, <3>1, <3>2 DEF OldTogether
  <2>2. QED
    BY <1>5, <2>1 DEF OldTogether
<1>8. CASE k < n
  <2>1. n - 1 \in 1..(n - 1) /\ ~(n - 1 < k) /\ answers'[p] # <<>>
    BY <1>2, <1>5, <1>8
  <2>2. Last(p)' = Last(p)
    BY <1>2, <1>4, <1>5, <2>1 DEF Last
  <2>3. Waits(p)' <=> Waits(p)
    BY <1>2, <2>1, <2>2 DEF Waits
  <2>4. blind'[p] = blind[p] /\ shown'[p] = shown[p] /\ mirror' = mirror
    BY <1>2, <1>3, <1>8 DEF vars
  <2>5. (Told' <=> Told) /\ (Heard(p)' <=> Heard(p))
    BY <1>3, <2>4 DEF Told, Heard, vars, marks, server
  <2>6. QED
    BY <1>6, <1>7, <2>2, <2>3, <2>4, <2>5, Zenon DEF Fresh
<1>9. CASE k = n /\ s[k].old = FALSE
  <2>1. "missed" \in blind'[p]
    BY <1>3, <1>9
  <2>2. ~Heard(p)'
    BY <2>1 DEF Heard
  <2>3. QED
    BY <1>7, <2>2 DEF Fresh
<1>10. CASE k = n /\ s[k].old = TRUE
  <2>1. ~Waits(p)
    BY <1>10 DEF Waits, Last
  <2>2. \A i \in 1..(n - 1) : answers'[p][i].old = TRUE
    <3>1. ASSUME NEW i \in 1..(n - 1)
          PROVE  answers'[p][i].old = TRUE
      <4>1. answers'[p][i] = s[i] /\ i \in DOMAIN s /\ i < k
        BY <1>2, <1>4, <1>10
      <4>2. QED
        BY <1>6, <1>10, <4>1 DEF OldTogether
    <3>2. QED
      BY <3>1
  <2>3. ~Waits(p)'
    <3>1. answers'[p] # <<>> => n - 1 \in 1..(n - 1)
      BY <1>2, <1>5
    <3>2. QED
      BY <1>5, <2>2, <3>1 DEF Waits, Last
  <2>4. blind'[p] = blind[p] /\ shown'[p] = shown[p] /\ mirror' = mirror
    BY <1>3, <1>10 DEF vars
  <2>5. (Told' <=> Told) /\ (Heard(p)' <=> Heard(p))
    BY <1>3, <2>4 DEF Told, Heard, vars, marks, server
  <2>6. QED
    BY <1>6, <1>7, <2>1, <2>3, <2>4, <2>5, Zenon DEF Fresh
<1>11. s[k].old \in BOOLEAN
  BY <1>2 DEF Answers
<1>12. k < n \/ k = n
  BY <1>2
<1>13. QED
  BY <1>8, <1>9, <1>10, <1>11, <1>12, Zenon

\* A page's own steps.
LEMMA PageKeepsPage ==
  ASSUME TypeOK, PageType, PageInv, NEW p \in Pages,
         Upgrade(p) \/ Serve(p) \/ OpenPage(p) \/ Page(p) \/ GetFails(p)
  PROVE  OldTogether(p)' /\ Fresh(p)'
<1>0. OldTogether(p) /\ Fresh(p)
  BY DEF PageInv
<1>1. CASE Upgrade(p)
  <2>1. /\ socket[p] = "connecting"
        /\ UNCHANGED <<vars, pipe, wire, asked, answers, shown, blind>>
    BY <1>1 DEF Upgrade
  <2>2. OldTogether(p)' /\ (Waits(p)' <=> Waits(p)) /\ Last(p)' = Last(p)
    BY <1>0, <2>1 DEF OldTogether, Waits, Last
  <2>3. Told' /\ Heard(p)' => Told /\ Heard(p)
    BY <2>1 DEF Told, Heard, vars, marks, server
  <2>4. mirror' = mirror /\ shown'[p] = shown[p] /\ blind'[p] = blind[p]
    BY <2>1 DEF vars
  <2>5. QED
    BY <1>0, <2>2, <2>3, <2>4, Zenon DEF Fresh
<1>2. CASE Serve(p)
  <2>1. answers'[p] = Append(answers[p], [view |-> mirror, old |-> FALSE])
    BY <1>2 DEF Serve, PageType
  <2>2. answers[p] \in Seq(Answers)
    BY DEF PageType
  <2>3. answers'[p] # <<>> /\ Last(p)' = [view |-> mirror, old |-> FALSE]
    BY <2>1, <2>2 DEF Last
  <2>4. Waits(p)' /\ Last(p)'.view = mirror
    BY <2>3 DEF Waits
  <2>5. mirror' = mirror
    BY <1>2 DEF Serve, vars
  <2>6. OldTogether(p)'
    <3>1. /\ DOMAIN answers'[p] = 1..(Len(answers[p]) + 1) /\ Len(answers[p]) \in Nat
          /\ DOMAIN answers[p] = 1..Len(answers[p])
          /\ answers'[p][Len(answers[p]) + 1].old = FALSE
          /\ \A i \in 1..Len(answers[p]) : answers'[p][i] = answers[p][i]
      BY <2>1, <2>2
    <3>2. ASSUME NEW i \in DOMAIN answers'[p], NEW j \in DOMAIN answers'[p], j < i,
                 answers'[p][i].old = TRUE
          PROVE  answers'[p][j].old = TRUE
      <4>1. i # Len(answers[p]) + 1
        BY <3>1, <3>2
      <4>2. i \in DOMAIN answers[p] /\ j \in DOMAIN answers[p]
        BY <3>1, <3>2, <4>1
      <4>3. answers'[p][i] = answers[p][i] /\ answers'[p][j] = answers[p][j]
        BY <3>1, <4>2
      <4>4. QED
        BY <1>0, <3>2, <4>2, <4>3 DEF OldTogether
    <3>3. QED
      BY <3>2 DEF OldTogether
  <2>7. QED
    BY <2>4, <2>5, <2>6 DEF Fresh
<1>3. CASE OpenPage(p)
  <2>1. answers'[p] = <<>>
    BY <1>3 DEF OpenPage, PageType
  <2>2. ~Heard(p)'
    BY <1>3 DEF OpenPage, Heard, PageType
  <2>3. QED
    BY <2>1, <2>2 DEF OldTogether, Fresh
<1>4. CASE OnUpdateQueue(p)
  <2>1. asked'[p] = asked[p] + 1 /\ asked[p] \in Nat /\ UNCHANGED answers
    BY <1>4 DEF OnUpdateQueue, PageType
  <2>2. ~Heard(p)'
    BY <2>1 DEF Heard
  <2>3. OldTogether(p)'
    BY <1>0, <2>1 DEF OldTogether, Waits, Last
  <2>4. QED
    BY <2>2, <2>3 DEF Fresh
<1>5. CASE Arrive(p)
  BY <1>5, ArriveKeepsPage
<1>6. CASE GetFails(p)
  BY <1>6, FailKeepsPage
<1>7. QED
  BY <1>1, <1>2, <1>3, <1>4, <1>5, <1>6 DEF Page

\* Every step keeps PageInv.
LEMMA StepPageInv ==
  ASSUME TypeOK, TypeOK', ~MpdRestarts, FeedInv, TellInv, MirrorInv, PageType, PageInv,
         [ViewNext]_viewVars
  PROVE  PageInv'
<1> SUFFICES ASSUME NEW p \in Pages
             PROVE  OldTogether(p)' /\ Fresh(p)'
  BY DEF PageInv
<1>1. CASE PollStep
  BY <1>1, PollKeepsPages
<1>2. CASE HandlerStep \/ OtherStep
  BY <1>2, OthersKeepPages
<1>3. CASE Broadcast
  BY <1>3, BroadcastKeepsPages
<1>4. ASSUME NEW r \in Pages,
             Upgrade(r) \/ Serve(r) \/ OpenPage(r) \/ Page(r) \/ GetFails(r)
      PROVE  OldTogether(p)' /\ Fresh(p)'
  <2>1. CASE r = p
    BY <1>4, <2>1, PageKeepsPage
  <2>2. CASE r # p
    <3>1. UNCHANGED <<vars, pipe, socket[p], wire[p], asked[p], answers[p], shown[p],
                      blind[p]>>
      BY <1>4, <2>2, OtherPages
    <3>2. OldTogether(p) /\ Fresh(p)
      BY DEF PageInv
    <3>3. OldTogether(p)' /\ (Waits(p)' <=> Waits(p)) /\ Last(p)' = Last(p)
      BY <3>1, <3>2 DEF OldTogether, Waits, Last
    <3>4. (Told' <=> Told) /\ (Heard(p)' <=> Heard(p)) /\ mirror' = mirror
      BY <3>1 DEF Told, Heard, vars, marks, server
    <3>5. QED
      BY <3>1, <3>2, <3>3, <3>4, Zenon DEF Fresh
  <2>3. QED
    BY <2>1, <2>2
<1>5. CASE UNCHANGED viewVars
  <2>1. UNCHANGED <<vars, pipe, socket, wire, asked, answers, shown, blind>>
    BY <1>5 DEF viewVars, pages
  <2>2. (Told' <=> Told) /\ mirror' = mirror
    BY <2>1 DEF Told, vars, marks, server
  <2>3. QED
    BY <2>1, <2>2, PageUntouched
<1>6. QED
  BY <1>1, <1>2, <1>3, <1>4, <1>5 DEF ViewNext, EventThread

\* A settled page shows mpd's queue, unless one of the things StaleOnlyIf names
\* befell it, for any number of pages, places in the wakeup socket, requests, faults
\* and failed GETs, if mpd refuses none of the songs and keeps running.
THEOREM PagesStaleOnlyIf ==
  Playable = Songs /\ ~MpdRestarts => (ViewSpec => []StaleOnlyIf)
<1> SUFFICES ASSUME Playable = Songs, ~MpdRestarts PROVE ViewSpec => []StaleOnlyIf
  OBVIOUS
<1>1. Init => TellInv
  BY DEF Init, FreshProcess, IdleJob, TellInv
<1>2. Spec => []FeedInv
  BY FeedInvariant
<1>3. TypeOK /\ TypeOK' /\ FeedInv /\ TellInv /\ [Next]_vars => TellInv'
  BY StepTellInv
<1>4. Spec => [](TypeOK /\ MirrorInv /\ MirrorCurrent)
  BY TypeCorrect, MirrorInvariant, MirrorIsCurrent, PTL
<1>5. Spec => [](FeedInv /\ TellInv)
  BY <1>1, <1>2, <1>3, <1>4, PTL DEF Spec
<1>6. ViewInit => PageInv /\ PageType
  <2>1. ViewInit => PageType
    BY BrowserAssumption DEF ViewInit, PageType, Views
  <2>2. ViewInit => PageInv
    BY DEF ViewInit, PageInv, OldTogether, Fresh, Heard
  <2>3. QED
    BY <2>1, <2>2
<1>7. PageType /\ TypeOK /\ [ViewNext]_viewVars => PageType'
  BY ViewStepType
<1>8. /\ TypeOK /\ TypeOK' /\ FeedInv /\ TellInv /\ MirrorInv /\ PageType /\ PageInv
      /\ [ViewNext]_viewVars
      => PageInv'
  BY StepPageInv
<1>9. PageInv /\ MirrorCurrent => StaleOnlyIf
  <2> SUFFICES ASSUME PageInv, MirrorCurrent, NEW p \in Pages, Settled(p), blind[p] = {}
               PROVE  shown[p] = Image(mpdQueue)
    BY DEF StaleOnlyIf
  <2>1. Told
    BY DEF Settled, BelievedCurrent, Told
  <2>2. Heard(p) /\ ~Waits(p)
    BY DEF Settled, Marked, Heard, Waits
  <2>3. mirror = Image(mpdQueue)
    BY DEF Settled, MirrorCurrent
  <2>4. QED
    BY <2>1, <2>2, <2>3 DEF PageInv, Fresh
<1>10. QED
  BY <1>4, <1>5, <1>6, <1>7, <1>8, <1>9, ViewIsMirror, PTL DEF ViewSpec
=============================================================================
