----------------------- MODULE MpdQueueMirror_proofs -----------------------
(***************************************************************************)
(* Proofs about MpdQueueMirror, for every value of its constants.          *)
(***************************************************************************)
EXTENDS MpdQueueMirror, SequenceTheorems, TLAPS

-----------------------------------------------------------------------------
(***************************************************************************)
(* One command.                                                            *)
(***************************************************************************)

\* What the result of a command says about the connection it was sent on:
\* it was executed only over a live connection without an error, and over
\* such a connection it fails with an ACK only if mpd refuses it.
LEMMA ResultFacts ==
  ASSUME TypeOK, NEW refused \in BOOLEAN, NEW r \in Results(refused)
  PROVE  /\ r.err \in {"none", "ack", "fatal"}
         /\ r.ok \in BOOLEAN /\ r.done \in BOOLEAN
         /\ faults - r.cost \in 0..MaxFaults
         /\ r.ok => r.done /\ r.err = "none"
         /\ r.done => err = "none" /\ conn = "live" /\ ~refused
         /\ err # "none" => r.err = err /\ ~r.ok
         /\ conn = "live" /\ err = "none" /\ ~r.ok
              => r.err = "fatal" \/ (r.err = "ack" /\ refused)
         /\ r.err = "none" => r.ok
<1> DEFINE Late == IF faults = 0 THEN {}
                   ELSE {Result("fatal", FALSE, d, 1) : d \in {FALSE, ~refused}}
<1>1. faults \in Nat /\ faults <= MaxFaults /\ MaxFaults \in Nat
  BY MirrorAssumption DEF TypeOK, ServerType
<1>2. err \in {"none", "ack", "fatal"}
  BY DEF TypeOK, ServerType
<1>3. CASE err # "none"
  <2>1. r = Result(err, FALSE, FALSE, 0)
    BY <1>3 DEF Results
  <2>2. QED
    BY <1>1, <1>2, <1>3, <2>1 DEF Result
<1>4. CASE err = "none" /\ conn = "stuck"
  <2>1. r = Result("ack", FALSE, FALSE, 0)
    BY <1>4 DEF Results
  <2>2. QED
    BY <1>1, <1>4, <2>1 DEF Result
<1>5. CASE err = "none" /\ conn \notin {"stuck", "live"}
  <2>1. r = Result("fatal", FALSE, FALSE, 0)
    BY <1>5 DEF Results
  <2>2. QED
    BY <1>1, <1>5, <2>1 DEF Result
<1>6. CASE err = "none" /\ conn = "live"
  <2>1. r = (IF refused THEN Result("ack", FALSE, FALSE, 0)
                        ELSE Result("none", TRUE, TRUE, 0))
        \/ r \in Late
    BY <1>6 DEF Results
  <2>2. CASE r = (IF refused THEN Result("ack", FALSE, FALSE, 0)
                             ELSE Result("none", TRUE, TRUE, 0))
    BY <1>1, <1>6, <2>2 DEF Result
  <2>3. CASE r \in Late
    <3>1. faults # 0
      BY <2>3
    <3>2. PICK d \in {FALSE, ~refused} : r = Result("fatal", FALSE, d, 1)
      BY <2>3, <3>1
    <3>3. r.err = "fatal" /\ r.ok = FALSE /\ r.done = d /\ r.cost = 1
      BY <3>2 DEF Result
    <3>4. d \in BOOLEAN /\ (d => ~refused)
      OBVIOUS
    <3>5. faults - r.cost \in 0..MaxFaults
      BY <1>1, <3>1, <3>3
    <3>6. QED
      BY <1>6, <3>3, <3>4, <3>5, Zenon
  <2>4. QED
    BY <2>1, <2>2, <2>3
<1>7. QED
  BY <1>3, <1>4, <1>5, <1>6

-----------------------------------------------------------------------------
(***************************************************************************)
(* mpd's queue: whatever a client changes, every entry is an old one or    *)
(* has a new id, and ids stay distinct.                                    *)
(***************************************************************************)

DistinctSids(q)   == \A i, j \in DOMAIN q : q[i].sid = q[j].sid => i = j
SidsBelow(q, n)   == \A i \in DOMAIN q : q[i].sid < n
FromOld(x, q, n)  == x.sid >= n \/ \E j \in DOMAIN q : x = q[j]

QueueStep ==
  /\ mpdQueue' \in Seq(Entries)
  /\ nextSid' \in Nat /\ nextSid <= nextSid'
  /\ mpdVersion' = mpdVersion + 1
  /\ \A i \in DOMAIN mpdQueue' : FromOld(mpdQueue'[i], mpdQueue, nextSid)
  /\ DistinctSids(mpdQueue) /\ SidsBelow(mpdQueue, nextSid)
       => DistinctSids(mpdQueue') /\ SidsBelow(mpdQueue', nextSid')

\* Adding songs.
LEMMA LoadStep ==
  ASSUME TypeOK, NEW list \in Seq(Songs), Load(list)
  PROVE  QueueStep
<1> DEFINE q == mpdQueue
           new == [i \in DOMAIN list |-> [sid |-> nextSid + i - 1, song |-> list[i]]]
<1>1. q \in Seq(Entries) /\ nextSid \in Nat \ {0} /\ Len(list) \in Nat
      /\ DOMAIN list = 1..Len(list)
  BY DEF TypeOK, ServerType
<1>2. new \in Seq(Entries) /\ Len(new) = Len(list)
      /\ \A i \in 1..Len(list) : new[i].sid = nextSid + i - 1
  <2>1. \A i \in 1..Len(list) : new[i] \in Entries /\ new[i].sid = nextSid + i - 1
    <3>1. \A i \in 1..Len(list) : list[i] \in Songs /\ nextSid + i - 1 \in Nat \ {0}
      BY <1>1
    <3>2. QED
      BY <1>1, <3>1 DEF Entries
  <2>2. QED
    BY <1>1, <2>1
<1>3. mpdQueue' = q \o new /\ nextSid' = nextSid + Len(list)
      /\ mpdVersion' = mpdVersion + 1
  BY DEF Load, Bump
<1> HIDE DEF new
<1>4. /\ mpdQueue' \in Seq(Entries)
      /\ Len(mpdQueue') = Len(q) + Len(list)
      /\ \A i \in 1..Len(mpdQueue') :
           mpdQueue'[i] = IF i <= Len(q) THEN q[i] ELSE new[i - Len(q)]
  <2>1. /\ q \o new \in Seq(Entries) /\ Len(q \o new) = Len(q) + Len(new)
        /\ \A i \in 1..Len(q) + Len(new) :
             (q \o new)[i] = IF i <= Len(q) THEN q[i] ELSE new[i - Len(q)]
    BY <1>1, <1>2, ConcatProperties
  <2>2. QED
    BY <1>2, <1>3, <2>1
<1>5. \A i \in DOMAIN mpdQueue' :
        \/ i \in DOMAIN q /\ mpdQueue'[i] = q[i]
        \/ i > Len(q) /\ mpdQueue'[i].sid = nextSid + (i - Len(q)) - 1
             /\ i - Len(q) \in 1..Len(list)
  BY <1>1, <1>2, <1>4
<1>6. \A i \in DOMAIN mpdQueue' : FromOld(mpdQueue'[i], mpdQueue, nextSid)
  BY <1>1, <1>4, <1>5 DEF FromOld
<1>7. ASSUME DistinctSids(q), SidsBelow(q, nextSid)
      PROVE  DistinctSids(mpdQueue') /\ SidsBelow(mpdQueue', nextSid')
  <2>1. \A i \in DOMAIN q : q[i].sid \in Nat
    <3>1. \A i \in DOMAIN q : q[i] \in Entries
      BY <1>1
    <3>2. QED
      BY <3>1 DEF Entries
  <2>2. DOMAIN mpdQueue' \subseteq Nat /\ Len(q) \in Nat
    BY <1>1, <1>4
  <2>3. ASSUME NEW i \in DOMAIN mpdQueue'
        PROVE  mpdQueue'[i].sid < nextSid'
    <3>1. CASE i \in DOMAIN q /\ mpdQueue'[i] = q[i]
      <4>1. q[i].sid \in Nat /\ q[i].sid < nextSid
        BY <1>7, <2>1, <3>1 DEF SidsBelow
      <4>2. QED
        BY <1>1, <1>3, <3>1, <4>1
    <3>2. CASE /\ mpdQueue'[i].sid = nextSid + (i - Len(q)) - 1
               /\ i - Len(q) \in 1..Len(list)
      BY <1>1, <1>3, <2>2, <3>2
    <3>3. QED
      BY <1>5, <3>1, <3>2
  <2>4. ASSUME NEW i \in DOMAIN mpdQueue', NEW j \in DOMAIN mpdQueue',
               mpdQueue'[i].sid = mpdQueue'[j].sid
        PROVE  i = j
    <3>1. \A k \in DOMAIN q : q[k].sid \in Nat /\ q[k].sid < nextSid
      BY <1>7, <2>1 DEF SidsBelow
    <3>2. CASE i \in DOMAIN q /\ mpdQueue'[i] = q[i]
               /\ j \in DOMAIN q /\ mpdQueue'[j] = q[j]
      BY <1>7, <2>4, <3>2 DEF DistinctSids
    <3>3. ASSUME NEW k \in DOMAIN mpdQueue', NEW l \in DOMAIN mpdQueue',
                 k \in DOMAIN q, mpdQueue'[k] = q[k], l - Len(q) \in 1..Len(list),
                 mpdQueue'[l].sid = nextSid + (l - Len(q)) - 1
          PROVE  mpdQueue'[k].sid # mpdQueue'[l].sid
      <4>1. mpdQueue'[k].sid \in Nat /\ mpdQueue'[k].sid < nextSid
        BY <3>1, <3>3
      <4>2. mpdQueue'[l].sid \in Nat /\ mpdQueue'[l].sid >= nextSid
        BY <1>1, <2>2, <3>3
      <4>3. QED
        BY <1>1, <4>1, <4>2
    <3>4. CASE /\ mpdQueue'[i].sid = nextSid + (i - Len(q)) - 1
               /\ mpdQueue'[j].sid = nextSid + (j - Len(q)) - 1
      <4>1. i \in Nat /\ j \in Nat /\ Len(q) \in Nat /\ nextSid \in Nat
        BY <1>1, <2>2
      <4>2. nextSid + (i - Len(q)) - 1 = nextSid + (j - Len(q)) - 1
        BY <2>4, <3>4, Zenon
      <4>3. QED
        BY <4>1, <4>2
    <3>5. QED
      BY <1>5, <2>4, <3>2, <3>3, <3>4
  <2>5. QED
    BY <2>3, <2>4 DEF DistinctSids, SidsBelow
<1>8. QED
  BY <1>1, <1>3, <1>4, <1>6, <1>7 DEF QueueStep

\* Removing, clearing and moving pick entries of the old queue, each at most
\* once.
LEMMA PickStep ==
  ASSUME TypeOK, NEW n \in Nat, NEW pick \in [1..n -> DOMAIN mpdQueue],
         \A i, j \in 1..n : pick[i] = pick[j] => i = j,
         mpdQueue' = [i \in 1..n |-> mpdQueue[pick[i]]],
         nextSid' = nextSid, Bump
  PROVE  QueueStep
<1>1. mpdQueue \in Seq(Entries) /\ nextSid \in Nat
  BY DEF TypeOK, ServerType
<1>2. mpdQueue' \in Seq(Entries) /\ DOMAIN mpdQueue' = 1..n
      /\ \A i \in 1..n : pick[i] \in DOMAIN mpdQueue
                         /\ mpdQueue'[i] = mpdQueue[pick[i]]
  BY <1>1
<1>3. \A i \in DOMAIN mpdQueue' : FromOld(mpdQueue'[i], mpdQueue, nextSid)
  BY <1>2 DEF FromOld
<1>4. DistinctSids(mpdQueue) => DistinctSids(mpdQueue')
  BY <1>2 DEF DistinctSids
<1>5. SidsBelow(mpdQueue, nextSid) => SidsBelow(mpdQueue', nextSid')
  BY <1>2 DEF SidsBelow
<1>6. QED
  BY <1>1, <1>2, <1>3, <1>4, <1>5 DEF QueueStep, Bump

\* Deleting a range picks the entries outside it.
LEMMA RemoveStep ==
  ASSUME TypeOK, NEW i \in DOMAIN mpdQueue, NEW j \in DOMAIN mpdQueue, i <= j,
         RemoveRange(i, j)
  PROVE  QueueStep
<1> DEFINE cut == j - i + 1
           n == Len(mpdQueue) - cut
           pick == [k \in 1..n |-> IF k < i THEN k ELSE k + cut]
<1>1. /\ i \in Nat /\ j \in Nat /\ 1 <= i /\ j <= Len(mpdQueue)
      /\ Len(mpdQueue) \in Nat /\ DOMAIN mpdQueue = 1..Len(mpdQueue)
  BY DEF TypeOK, ServerType
<1>2. n \in Nat /\ pick \in [1..n -> DOMAIN mpdQueue]
  BY <1>1
<1>3. \A k, l \in 1..n : pick[k] = pick[l] => k = l
  BY <1>1
<1>4. mpdQueue' = [k \in 1..n |-> mpdQueue[pick[k]]]
  BY DEF RemoveRange
<1>5. nextSid' = nextSid /\ Bump
  BY DEF RemoveRange
<1> HIDE DEF n, pick
<1>6. QED
  BY <1>2, <1>3, <1>4, <1>5, PickStep

\* Moving an entry permutes the queue.
LEMMA MoveStep ==
  ASSUME TypeOK, NEW i \in DOMAIN mpdQueue, NEW j \in DOMAIN mpdQueue, Move(i, j)
  PROVE  QueueStep
<1> DEFINE n == Len(mpdQueue)
           pick == [k \in 1..n |-> IF k = j THEN i
                                   ELSE IF i <= k /\ k < j THEN k + 1
                                   ELSE IF j < k /\ k <= i THEN k - 1
                                   ELSE k]
<1>1. n \in Nat /\ DOMAIN mpdQueue = 1..n /\ i \in 1..n /\ j \in 1..n
  BY DEF TypeOK, ServerType
<1>2. pick \in [1..n -> DOMAIN mpdQueue]
  BY <1>1
<1>3. \A k, l \in 1..n : pick[k] = pick[l] => k = l
  BY <1>1
<1>4. mpdQueue' = [k \in 1..n |-> mpdQueue[pick[k]]]
  BY <1>1 DEF Move
<1>5. nextSid' = nextSid /\ Bump
  BY DEF Move
<1> HIDE DEF n, pick
<1>6. QED
  BY <1>1, <1>2, <1>3, <1>4, <1>5, PickStep

\* Clearing picks nothing.
LEMMA ClearStep ==
  ASSUME TypeOK, Clear
  PROVE  QueueStep
BY DEF TypeOK, ServerType, Clear, Bump, QueueStep, FromOld, DistinctSids, SidsBelow

\* Every edit is such a step.
LEMMA EditStep ==
  ASSUME TypeOK, Edit
  PROVE  QueueStep
<1>1. ASSUME NEW list \in Loads, Load(list) PROVE QueueStep
  <2>1. list \in Seq(Songs)
    BY MirrorAssumption DEF Loads
  <2>2. QED
    BY <1>1, <2>1, LoadStep
<1>2. QED
  BY <1>1, RemoveStep, ClearStep, MoveStep DEF Edit

-----------------------------------------------------------------------------
(***************************************************************************)
(* Types.                                                                  *)
(***************************************************************************)

\* mpd's variables keep their type over any change of the queue.
LEMMA ServerTyped ==
  ASSUME TypeOK, QueueStep \/ UNCHANGED server
  PROVE  ServerType'
BY DEF TypeOK, ServerType, QueueStep, server

\* The mirror after a rebuild or a positioning.
LEMMA RebuiltType ==
  ASSUME TypeOK
  PROVE  Rebuilt(mirror, mpdQueue) \in SUBSET MirrorEntries
<1> SUFFICES ASSUME NEW i \in DOMAIN mpdQueue
             PROVE  [sid |-> mpdQueue[i].sid, song |-> KnownSong(mirror, mpdQueue[i]),
                     pos |-> i - 1] \in MirrorEntries
  BY DEF Rebuilt
<1>1. mpdQueue[i] \in Entries /\ i - 1 \in Nat
  BY DEF TypeOK, ServerType
<1>2. mpdQueue[i].sid \in Nat \ {0} /\ mpdQueue[i].song \in Songs
  BY <1>1 DEF Entries
<1>3. KnownSong(mirror, mpdQueue[i]) \in Songs
  <2>1. CASE \E e \in mirror : e.sid = mpdQueue[i].sid
    <3>1. (CHOOSE e \in mirror : e.sid = mpdQueue[i].sid) \in mirror
      BY <2>1
    <3>2. \A e \in mirror : e.song \in Songs
      BY DEF TypeOK, MirrorEntries
    <3>3. QED
      BY <2>1, <3>1, <3>2 DEF KnownSong
  <2>2. CASE ~ \E e \in mirror : e.sid = mpdQueue[i].sid
    BY <1>2, <2>2 DEF KnownSong
  <2>3. QED
    BY <2>1, <2>2
<1>4. QED
  BY <1>1, <1>2, <1>3 DEF MirrorEntries

\* Positioned entries have positions.
LEMMA PositionedType ==
  ASSUME TypeOK, NEW n \in 0..Len(mpdQueue)
  PROVE  Positioned(mirror, SubSeq(mpdQueue, 1, n)) \in SUBSET MirrorEntries
<1> DEFINE q == SubSeq(mpdQueue, 1, n)
<1>1. DOMAIN q \subseteq Nat \ {0}
  BY DEF TypeOK, ServerType
<1> HIDE DEF q
<1> SUFFICES ASSUME NEW e \in mirror
             PROVE  [e EXCEPT !.pos = PosIn(e, q)] \in MirrorEntries
  BY DEF Positioned, q
<1>2. e \in MirrorEntries
  BY DEF TypeOK, ServerType, MirrorEntries
<1>3. PosIn(e, q) \in Nat \cup {-1}
  <2>1. CASE \E i \in DOMAIN q : q[i].sid = e.sid
    <3>1. (CHOOSE i \in DOMAIN q : q[i].sid = e.sid) \in DOMAIN q
      BY <2>1
    <3>2. (CHOOSE i \in DOMAIN q : q[i].sid = e.sid) \in Nat \ {0}
      BY <1>1, <3>1
    <3>3. QED
      BY <2>1, <3>2 DEF PosIn
  <2>2. CASE ~ \E i \in DOMAIN q : q[i].sid = e.sid
    BY <1>2, <2>2 DEF PosIn, MirrorEntries
  <2>3. QED
    BY <2>1, <2>2
<1>4. QED
  BY <1>2, <1>3 DEF MirrorEntries

\* What the end of the process leaves behind.
LEMMA EndsType ==
  ASSUME NEW how \in {"stopped", "crashed"}, Ends(how)
  PROVE  /\ proc' \in {"running", "stopped", "crashed"}
         /\ connState' = "DISCONNECTED" /\ conn' = "null" /\ err' = "none"
         /\ mirror' = {} /\ synced' = FALSE
         /\ verSynced' = 0 /\ queueVersion' = 0 /\ announced' = 0 /\ listed' = 0
         /\ job' \in Jobs /\ job'.at = "idle"
BY DEF Ends, IdleJob, Jobs

\* The idle job is a job.
LEMMA IdleJobType == IdleJob \in Jobs
BY DEF IdleJob, Jobs

\* The initial states have the types.
LEMMA InitType == Init => TypeOK
<1> SUFFICES ASSUME Init PROVE TypeOK
  OBVIOUS
<1>1. inputs \in 0..MaxInputs /\ faults \in 0..MaxFaults
  BY MirrorAssumption DEF Init
<1>2. ServerType
  BY DEF Init, ServerType
<1>3. QED
  BY <1>1, <1>2, IdleJobType DEF Init, FreshProcess, TypeOK

\* A handler that moves on is still a job.
LEMMA JobGoto ==
  ASSUME TypeOK, NEW label \in {"idle", "clear", "add", "play", "firstSync", "sync",
                                "publish"}, Goto(label)
  PROVE  job' \in Jobs
BY DEF TypeOK, Jobs, Goto

\* Requests over HTTP.
LEMMA HttpRequestType ==
  ASSUME TypeOK,
         \/ \E body \in Bodies, play \in BOOLEAN : HttpAdd(body, play)
         \/ \E body \in Bodies, play \in BOOLEAN : HttpReplace(body, play, TRUE)
         \/ HttpReplace(<<>>, FALSE, FALSE)
         \/ \E e \in mirror : HttpDel(e.sid)
         \/ HttpLibrary
  PROVE  TypeOK'
<1>1. inputs > 0 /\ inputs' = inputs - 1 => inputs' \in 0..MaxInputs
  BY MirrorAssumption DEF TypeOK
<1>2. \A body \in Bodies : body \in Seq(Songs)
  BY MirrorAssumption DEF Bodies
<1>3. ASSUME Request, NullConn
      PROVE  TypeOK'
  <2>1. ServerType'
    BY <1>3, ServerTyped DEF NullConn
  <2>2. QED
    BY <1>1, <1>3, <2>1, EndsType
    DEF TypeOK, NullConn, Request
<1>4. ASSUME NEW body \in Bodies, NEW play \in BOOLEAN, HttpAdd(body, play), ~NullConn
      PROVE  TypeOK'
  <2>1. ServerType' /\ job' \in Jobs
    BY <1>2, <1>4, ServerTyped DEF HttpAdd, Jobs
  <2>2. QED
    BY <1>1, <1>4, <2>1
    DEF TypeOK, HttpAdd, Request, link, marks
<1>5. ASSUME NEW body \in Seq(Songs), NEW play \in BOOLEAN, NEW ok \in BOOLEAN,
             HttpReplace(body, play, ok), ~NullConn
      PROVE  TypeOK'
  <2>1. PICK r \in Results(FALSE) :
          /\ IF r.done THEN Clear ELSE UNCHANGED server
          /\ err' = r.err /\ Charge(r)
    BY <1>5 DEF HttpReplace
  <2>2. ServerType'
    BY <2>1, ClearStep, ServerTyped
  <2>3. err' \in {"none", "ack", "fatal"} /\ faults' \in 0..MaxFaults
    BY <2>1, ResultFacts DEF Charge
  <2>4. job' \in Jobs /\ mirror' = {}
    <3>1. [at |-> "clear", by |-> "replace", body |-> body, play |-> play,
           first |-> 0] \in Jobs
      BY DEF Jobs
    <3>2. QED
      BY <1>5, <3>1, IdleJobType DEF HttpReplace
  <2>5. QED
    BY <1>1, <1>5, <2>2, <2>3, <2>4
    DEF TypeOK, HttpReplace, Request, marks
<1>6. ASSUME NEW sid, HttpDel(sid), ~NullConn
      PROVE  TypeOK'
  <2>1. PICK r \in Results(sid \notin Queued) :
          /\ IF r.done
               THEN \E i \in DOMAIN mpdQueue :
                      mpdQueue[i].sid = sid /\ RemoveRange(i, i)
               ELSE UNCHANGED server
          /\ err' = r.err /\ Charge(r)
    BY <1>6 DEF HttpDel
  <2>2. ServerType'
    <3>1. ASSUME NEW i \in DOMAIN mpdQueue, RemoveRange(i, i) PROVE QueueStep
      <4>1. i <= i
        BY DEF TypeOK
      <4>2. QED
        BY <3>1, <4>1, RemoveStep
    <3>2. QED
      BY <2>1, <3>1, ServerTyped
  <2>3. err' \in {"none", "ack", "fatal"} /\ faults' \in 0..MaxFaults
    BY <2>1, ResultFacts DEF Charge
  <2>4. mirror' \in SUBSET MirrorEntries
    BY <1>6
    DEF TypeOK, HttpDel
  <2>5. QED
    BY <1>1, <1>6, <2>2, <2>3, <2>4
    DEF TypeOK, HttpDel, Request, marks
<1>7. ASSUME HttpLibrary, ~NullConn
      PROVE  TypeOK'
  <2>1. PICK r \in Results(FALSE) : err' = r.err /\ Charge(r)
    BY <1>7 DEF HttpLibrary
  <2>2. err' \in {"none", "ack", "fatal"} /\ faults' \in 0..MaxFaults
    BY <2>1, ResultFacts DEF Charge
  <2>3. ServerType'
    BY <1>7, ServerTyped DEF HttpLibrary
  <2>4. QED
    BY <1>1, <1>7, <2>2, <2>3
    DEF TypeOK, HttpLibrary, Request, marks
<1>8. <<>> \in Seq(Songs)
  OBVIOUS
<1>9. QED
  BY <1>2, <1>3, <1>4, <1>5, <1>6, <1>7, <1>8
  DEF HttpAdd, HttpReplace, HttpDel, HttpLibrary

\* The steps of an HTTP handler.
LEMMA HttpStepsType ==
  ASSUME TypeOK, HttpSteps
  PROVE  TypeOK'
<1> USE DEF TypeOK
<1>1. CASE ClearIfEmpty
  <2>1. (\E r \in Results(FALSE) :
           /\ IF r.done THEN Clear ELSE UNCHANGED server
           /\ err' = r.err /\ Charge(r))
        \/ UNCHANGED <<server, err, faults>>
    BY <1>1 DEF ClearIfEmpty
  <2>2. ServerType'
    BY <2>1, ClearStep, ServerTyped
  <2>3. err' \in {"none", "ack", "fatal"} /\ faults' \in 0..MaxFaults
    BY <2>1, ResultFacts DEF Charge
  <2>4. job' \in Jobs
    BY <1>1, JobGoto DEF ClearIfEmpty
  <2>5. QED
    BY <1>1, <2>2, <2>3, <2>4 DEF ClearIfEmpty, marks
<1>2. CASE AddSong
  <2>1. PICK r \in Results(Head(job.body) \notin Playable) :
          /\ IF r.done THEN Load(<<Head(job.body)>>) ELSE UNCHANGED server
          /\ err' = r.err /\ Charge(r)
          /\ mirror' = mirror \cup Added(r, Head(job.body))
          /\ job' = [job EXCEPT !.body = Tail(@),
                                !.first = IF r.ok /\ @ = 0 THEN nextSid ELSE @]
    BY <1>2 DEF AddSong
  <2>2. job.body \in Seq(Songs) /\ Head(job.body) \in Songs /\ Tail(job.body) \in Seq(Songs)
    BY <1>2 DEF AddSong, Jobs
  <2>3. ServerType'
    <3>1. <<Head(job.body)>> \in Seq(Songs)
      BY <2>2
    <3>2. QED
      BY <2>1, <3>1, LoadStep, ServerTyped
  <2>4. err' \in {"none", "ack", "fatal"} /\ faults' \in 0..MaxFaults
    BY <2>1, ResultFacts DEF Charge
  <2>5. mirror' \in SUBSET MirrorEntries
    <3>1. [sid |-> nextSid, song |-> Head(job.body), pos |-> -1] \in MirrorEntries
      BY <2>2 DEF MirrorEntries, ServerType
    <3>2. QED
      BY <2>1, <3>1 DEF Added
  <2>6. job' \in Jobs
    <3>1. (IF r.ok /\ job.first = 0 THEN nextSid ELSE job.first) \in Nat
      BY DEF Jobs, ServerType
    <3>2. QED
      BY <2>1, <2>2, <3>1 DEF Jobs
  <2>7. QED
    BY <1>2, <2>3, <2>4, <2>5, <2>6 DEF AddSong, marks
<1>3. CASE MakeupPos
  <2>1. PICK r \in Results(FALSE) :
          /\ err' = r.err /\ Charge(r)
          /\ \E n \in (IF r.ok THEN {Len(mpdQueue)}
                        ELSE IF r.cost = 1 THEN 0..Len(mpdQueue) ELSE {0}) :
               mirror' = Positioned(mirror, SubSeq(mpdQueue, 1, n))
    BY <1>3 DEF MakeupPos
  <2>2. \E n \in 0..Len(mpdQueue) : mirror' = Positioned(mirror, SubSeq(mpdQueue, 1, n))
    <3>1. Len(mpdQueue) \in Nat
      BY DEF ServerType
    <3>2. QED
      BY <2>1, <3>1
  <2>3. mirror' \in SUBSET MirrorEntries
    BY <2>2, PositionedType
  <2>4. err' \in {"none", "ack", "fatal"} /\ faults' \in 0..MaxFaults
    BY <2>1, ResultFacts DEF Charge
  <2>5. ServerType' /\ job' \in Jobs
    BY <1>3, ServerTyped, JobGoto, IdleJobType DEF MakeupPos
  <2>6. QED
    BY <1>3, <2>3, <2>4, <2>5 DEF MakeupPos, marks
<1>4. CASE Play
  <2>1. (\E refused \in BOOLEAN : \E r \in Results(refused) :
           err' = r.err /\ Charge(r))
        \/ UNCHANGED <<err, faults>>
    BY <1>4 DEF Play
  <2>2. err' \in {"none", "ack", "fatal"} /\ faults' \in 0..MaxFaults
    BY <2>1, ResultFacts DEF Charge
  <2>3. ServerType' /\ job' \in Jobs
    BY <1>4, ServerTyped, IdleJobType DEF Play
  <2>4. QED
    BY <1>4, <2>2, <2>3 DEF Play, marks
<1>5. QED
  BY <1>1, <1>2, <1>3, <1>4 DEF HttpSteps

\* WebSocket commands.
LEMMA WsType ==
  ASSUME TypeOK, WsCommand \/ WsSearchMany \/ WsReconnect
  PROVE  TypeOK'
<1> USE DEF TypeOK
<1>1. Request => inputs' \in 0..MaxInputs /\ mpdUp' = mpdUp
  BY MirrorAssumption DEF Request
<1>2. CASE WsCommand
  <2> DEFINE Executed == \E r \in Results(FALSE) :
               /\ IF r.done THEN Edit \/ UNCHANGED server ELSE UNCHANGED server
               /\ RecoverFrom(r.err) /\ Charge(r)
  <2>1. Executed \/ RefusedListing
    BY <1>2 DEF WsCommand, RefusedListing
  <2>2. ServerType'
    BY <2>1, EditStep, ServerTyped DEF RefusedListing
  <2>3. /\ err' \in {"none", "ack", "fatal"} /\ faults' \in 0..MaxFaults
        /\ connState' \in {"FAILURE", connState}
    BY <2>1, ResultFacts DEF Charge, RecoverFrom, Cleared, RefusedListing
  <2>4. QED
    BY <1>1, <1>2, <2>2, <2>3 DEF WsCommand, marks
<1>3. CASE WsSearchMany
  BY <1>1, <1>3, ServerTyped DEF WsSearchMany, marks
<1>4. CASE WsReconnect
  BY <1>1, <1>4, ServerTyped DEF WsReconnect, marks
<1>5. QED
  BY <1>2, <1>3, <1>4

\* A listing of mpd's queue, whatever its result.
LEMMA SyncType ==
  ASSUME TypeOK, SyncFromMpd
  PROVE  /\ mirror' \in SUBSET MirrorEntries
         /\ err' \in {"none", "ack", "fatal"} /\ faults' \in 0..MaxFaults
         /\ listed' \in {mpdVersion, listed}
<1>1. PICK r \in Results(FALSE) :
        /\ mirror' = IF r.ok THEN Rebuilt(mirror, mpdQueue) ELSE mirror
        /\ listed' = IF r.ok THEN mpdVersion ELSE listed
        /\ err' = IF r.ok THEN r.err ELSE Cleared(r.err)
        /\ Charge(r)
  BY DEF SyncFromMpd
<1>2. mirror' \in SUBSET MirrorEntries
  BY <1>1, RebuiltType DEF TypeOK
<1>3. QED
  BY <1>1, <1>2, ResultFacts DEF Cleared, Charge

\* The poll thread.
LEMMA PollType ==
  ASSUME TypeOK, Poll
  PROVE  TypeOK'
<1> USE DEF TypeOK
<1>1. CASE PollConnect
  <2>1. UNCHANGED faults \/ (faults > 0 /\ faults' = faults - 1)
    BY <1>1 DEF PollConnect, ConnectFailures
  <2>2. ServerType' /\ faults' \in 0..MaxFaults
    BY <1>1, <2>1, ServerTyped, MirrorAssumption DEF PollConnect, ConnectFailures
  <2>3. \A f \in ConnectFailures : f.conn \in {"null", "live", "lost"}
                                   /\ f.err \in {"none", "ack", "fatal"}
    BY DEF ConnectFailures
  <2>4. job' \in Jobs
    BY <1>1, JobGoto DEF PollConnect
  <2>5. conn' \in {"null", "live", "lost"} /\ err' \in {"none", "ack", "fatal"}
        /\ connState' \in {"CONNECTED", "FAILURE"}
    BY <1>1, <2>3 DEF PollConnect
  <2>6. QED
    BY <1>1, <2>2, <2>4, <2>5 DEF PollConnect, marks
<1>2. CASE PollDrop
  BY <1>2, ServerTyped DEF PollDrop, marks
<1>3. CASE PollFirstSync
  <2>1. ServerType' /\ job' \in Jobs
    BY <1>3, ServerTyped, JobGoto DEF PollFirstSync
  <2>2. listed' \in Nat
    BY <1>3, SyncType DEF PollFirstSync, ServerType
  <2>3. QED
    BY <1>3, <2>1, <2>2, SyncType DEF PollFirstSync
<1>4. CASE PollStatus
  <2>1. PICK r \in Results(FALSE) :
          /\ err' = r.err /\ Charge(r)
          /\ connState' = IF r.ok THEN connState ELSE "FAILURE"
          /\ queueVersion' = IF r.ok THEN mpdVersion ELSE queueVersion
          /\ Goto(IF r.ok /\ MustRebuild(mpdVersion)
                    THEN "sync" ELSE "publish")
    BY <1>4 DEF PollStatus
  <2>2. err' \in {"none", "ack", "fatal"} /\ faults' \in 0..MaxFaults
    BY <2>1, ResultFacts DEF Charge
  <2>3. ServerType' /\ job' \in Jobs
    BY <1>4, <2>1, ServerTyped, JobGoto DEF PollStatus
  <2>4. queueVersion' \in Nat
    BY <2>1 DEF ServerType
  <2>5. QED
    BY <1>4, <2>1, <2>2, <2>3, <2>4 DEF PollStatus
<1>5. CASE PollSync
  <2>1. ServerType' /\ job' \in Jobs
    BY <1>5, ServerTyped, JobGoto DEF PollSync
  <2>2. listed' \in Nat
    BY <1>5, SyncType DEF PollSync, ServerType
  <2>3. QED
    BY <1>5, <2>1, <2>2, SyncType DEF PollSync
<1>6. CASE PollPublish
  <2>1. PICK r \in Results(FALSE) : err' = Cleared(r.err) /\ Charge(r)
    BY <1>6 DEF PollPublish
  <2>2. err' \in {"none", "ack", "fatal"} /\ faults' \in 0..MaxFaults
    BY <2>1, ResultFacts DEF Charge, Cleared
  <2>3. ServerType' /\ job' \in Jobs
    BY <1>6, ServerTyped, IdleJobType DEF PollPublish
  <2>4. QED
    BY <1>6, <2>2, <2>3 DEF PollPublish
<1>7. QED
  BY <1>1, <1>2, <1>3, <1>4, <1>5, <1>6 DEF Poll

\* A restarted mpd.
LEMMA MpdStartsType ==
  ASSUME TypeOK, MpdStarts
  PROVE  ServerType'
<1>1. mpdQueue \in Seq(Entries) /\ Len(mpdQueue) \in Nat
      /\ DOMAIN mpdQueue = 1..Len(mpdQueue)
  BY DEF TypeOK, ServerType
<1>2. CASE mpdQueue' = <<>> /\ nextSid' = 1 /\ mpdVersion' = 1
  BY <1>2 DEF ServerType
<1>3. CASE /\ mpdQueue' = [i \in DOMAIN mpdQueue |->
                            [sid |-> i, song |-> mpdQueue[i].song]]
           /\ nextSid' = Len(mpdQueue) + 1
           /\ mpdVersion' \in 1..(Len(mpdQueue) + 1)
  <2>1. \A i \in 1..Len(mpdQueue) : mpdQueue[i] \in Entries
    BY <1>1
  <2>2. \A i \in 1..Len(mpdQueue) : [sid |-> i, song |-> mpdQueue[i].song] \in Entries
    BY <1>1, <2>1 DEF Entries
  <2>3. mpdQueue' \in Seq(Entries)
    BY <1>1, <1>3, <2>2
  <2>4. QED
    BY <1>1, <1>3, <2>3 DEF ServerType
<1>4. QED
  BY <1>2, <1>3 DEF MpdStarts

\* Start and end of the process, other clients, the link and mpd.
LEMMA OutsideType ==
  ASSUME TypeOK, \/ Exit \/ Kill \/ Start \/ OtherClient
                 \/ LinkDrops \/ MpdStops \/ MpdStarts
  PROVE  TypeOK'
<1> USE DEF TypeOK
<1>1. inputs > 0 /\ inputs' = inputs - 1 => inputs' \in 0..MaxInputs
  BY MirrorAssumption
<1>2. faults > 0 /\ faults' = faults - 1 => faults' \in 0..MaxFaults
  BY MirrorAssumption
<1>3. CASE Exit
  <2>1. UNCHANGED <<server, faults>>
        \/ \E r \in Results(FALSE) :
             /\ IF r.done THEN Clear ELSE UNCHANGED server
             /\ Charge(r)
    BY <1>3 DEF Exit
  <2>2. ServerType'
    BY <2>1, ClearStep, ServerTyped
  <2>3. faults' \in 0..MaxFaults
    BY <2>1, ResultFacts DEF Charge
  <2>4. QED
    BY <1>1, <1>3, <2>2, <2>3, EndsType DEF Exit
<1>4. CASE Kill
  BY <1>2, <1>4, ServerTyped, EndsType DEF Kill
<1>5. CASE Start
  BY <1>5, ServerTyped DEF Start, link, marks
<1>6. CASE OtherClient
  BY <1>1, <1>6, EditStep, ServerTyped DEF OtherClient, link, marks
<1>7. CASE LinkDrops
  BY <1>2, <1>7, ServerTyped DEF LinkDrops, marks
<1>8. CASE MpdStops
  BY <1>2, <1>8, ServerTyped DEF MpdStops, marks
<1>9. CASE MpdStarts
  BY <1>9, MpdStartsType DEF MpdStarts, link, marks
<1>10. QED
  BY <1>3, <1>4, <1>5, <1>6, <1>7, <1>8, <1>9

\* Every step keeps the types.
LEMMA StepType ==
  ASSUME TypeOK, [Next]_vars
  PROVE  TypeOK'
<1>1. CASE UNCHANGED vars
  BY <1>1, ServerTyped DEF TypeOK, vars, link, marks
<1>2. QED
  BY <1>1, HttpRequestType, HttpStepsType, WsType, PollType, OutsideType DEF Next

\* Every variable keeps its type, for any songs, bounds and restarts of mpd.
THEOREM TypeCorrect == Spec => []TypeOK
<1>1. TypeOK /\ [Next]_vars => TypeOK'
  BY StepType
<1>2. QED
  BY InitType, <1>1, PTL DEF Spec

-----------------------------------------------------------------------------
(***************************************************************************)
(* The connection.                                                         *)
(***************************************************************************)

\* In the connected state there is a connection object, so the poll thread
\* and callback_mpd never pass a null one on.  Inductive as it stands: every
\* action that drops the object leaves the connected state in the same step.
THEOREM ConnectionKept == Spec => []ConnectedHasConn
<1>1. Init => ConnectedHasConn
  BY DEF Init, FreshProcess, ConnectedHasConn
<1>2. ConnectedHasConn /\ [Next]_vars => ConnectedHasConn'
  <2> SUFFICES ASSUME ConnectedHasConn, [Next]_vars PROVE ConnectedHasConn'
    OBVIOUS
  <2> USE DEF ConnectedHasConn
  <2>1. ASSUME UNCHANGED <<connState, conn>> PROVE ConnectedHasConn'
    BY <2>1
  <2>2. CASE UNCHANGED vars
    BY <2>2 DEF vars, link
  <2>3. ASSUME NEW how, Ends(how) PROVE ConnectedHasConn'
    BY <2>3 DEF Ends
  <2>4. ASSUME \/ \E body \in Bodies, play \in BOOLEAN : HttpAdd(body, play)
               \/ \E body \in Bodies, play \in BOOLEAN : HttpReplace(body, play, TRUE)
               \/ HttpReplace(<<>>, FALSE, FALSE)
               \/ \E e \in mirror : HttpDel(e.sid)
               \/ HttpLibrary
        PROVE  ConnectedHasConn'
    BY <2>1, <2>3, <2>4
    DEF HttpAdd, HttpReplace, HttpDel, HttpLibrary, NullConn, link
  <2>5. CASE HttpSteps
    BY <2>5 DEF HttpSteps, ClearIfEmpty, AddSong, MakeupPos, Play
  <2>6. CASE WsCommand \/ WsSearchMany \/ WsReconnect
    BY <2>6 DEF WsCommand, RecoverFrom, WsSearchMany, WsReconnect
  <2>7. CASE Poll
    BY <2>7 DEF Poll, PollConnect, PollDrop, PollFirstSync, PollStatus, PollSync,
                PollPublish
  <2>8. CASE Exit \/ Kill
    BY <2>3, <2>8 DEF Exit, Kill
  <2>9. CASE Start \/ OtherClient \/ LinkDrops \/ MpdStops \/ MpdStarts
    BY <2>9 DEF Start, OtherClient, LinkDrops, MpdStops, MpdStarts, link
  <2>10. QED
    BY <2>2, <2>4, <2>5, <2>6, <2>7, <2>8, <2>9 DEF Next
<1>3. QED
  BY <1>1, <1>2, PTL DEF Spec

-----------------------------------------------------------------------------
(***************************************************************************)
(* Ids.  While mpd does not restart its ids are never used again, so an id *)
(* in the mirror can only stand for the song it was given to.              *)
(***************************************************************************)

SameSongs(m, q) ==
  \A e \in m, i \in DOMAIN q : e.sid = q[i].sid => e.song = q[i].song

IdInv ==
  /\ mpdUp
  /\ DistinctSids(mpdQueue) /\ SidsBelow(mpdQueue, nextSid)
  /\ \A e \in mirror : e.sid < nextSid
  /\ MirrorSidsUnique
  /\ SameSongs(mirror, mpdQueue)

\* A change of the queue keeps the ids right for a mirror whose entries were
\* there before.
LEMMA IdsKept ==
  ASSUME TypeOK, IdInv, QueueStep \/ UNCHANGED server, mpdUp' = mpdUp,
         \A e \in mirror' : \E f \in mirror : e.sid = f.sid /\ e.song = f.song,
         MirrorSidsUnique'
  PROVE  IdInv'
<1>1. CASE UNCHANGED server
  BY <1>1 DEF IdInv, server, SameSongs, DistinctSids, SidsBelow
<1>2. CASE QueueStep
  <2>1. /\ nextSid \in Nat /\ nextSid' \in Nat /\ nextSid <= nextSid'
        /\ \A e \in mirror : e.sid \in Nat /\ e.sid < nextSid
    BY <1>2 DEF TypeOK, ServerType, MirrorEntries, QueueStep, IdInv
  <2>2. DistinctSids(mpdQueue') /\ SidsBelow(mpdQueue', nextSid')
    BY <1>2 DEF QueueStep, IdInv
  <2>3. \A e \in mirror' : e.sid < nextSid'
    BY <2>1
  <2>4. SameSongs(mirror', mpdQueue')
    <3> SUFFICES ASSUME NEW e \in mirror', NEW i \in DOMAIN mpdQueue',
                        e.sid = mpdQueue'[i].sid
                 PROVE  e.song = mpdQueue'[i].song
      BY DEF SameSongs
    <3>1. PICK f \in mirror : e.sid = f.sid /\ e.song = f.song
      OBVIOUS
    <3>2. ~(mpdQueue'[i].sid >= nextSid)
      BY <2>1, <3>1
    <3>3. PICK j \in DOMAIN mpdQueue : mpdQueue'[i] = mpdQueue[j]
      BY <1>2, <3>2 DEF QueueStep, FromOld
    <3>4. QED
      BY <3>1, <3>3 DEF IdInv, SameSongs
  <2>5. QED
    BY <2>2, <2>3, <2>4 DEF IdInv
<1>3. QED
  BY <1>1, <1>2

\* In particular for a mirror that lost entries or did not change.
LEMMA IdsKeptBelow ==
  ASSUME TypeOK, IdInv, QueueStep \/ UNCHANGED server, mpdUp' = mpdUp,
         mirror' \subseteq mirror
  PROVE  IdInv'
<1>1. MirrorSidsUnique'
  BY DEF IdInv, MirrorSidsUnique
<1>2. \A e \in mirror' : \E f \in mirror : e.sid = f.sid /\ e.song = f.song
  OBVIOUS
<1>3. QED
  BY <1>1, <1>2, IdsKept

\* The song just added.
LEMMA IdsAfterAdd ==
  ASSUME TypeOK, IdInv, NEW song \in Songs, Load(<<song>>), mpdUp' = mpdUp,
         mirror' = mirror \cup {[sid |-> nextSid, song |-> song, pos |-> -1]}
  PROVE  IdInv'
<1> DEFINE new == [sid |-> nextSid, song |-> song, pos |-> -1]
<1>1. QueueStep
  BY LoadStep
<1>2. /\ nextSid \in Nat /\ nextSid' = nextSid + 1
      /\ \A e \in mirror : e.sid \in Nat /\ e.sid < nextSid
  BY DEF TypeOK, ServerType, MirrorEntries, Load, IdInv
<1>3. DistinctSids(mpdQueue') /\ SidsBelow(mpdQueue', nextSid')
  BY <1>1 DEF QueueStep, IdInv
<1>4. \A e \in mirror' : e.sid < nextSid'
  BY <1>2
<1>5. MirrorSidsUnique'
  BY <1>2 DEF MirrorSidsUnique, IdInv
<1>6. \A i \in DOMAIN mpdQueue' :
        mpdQueue'[i].sid < nextSid => \E j \in DOMAIN mpdQueue : mpdQueue'[i] = mpdQueue[j]
  <2>1. \A i \in DOMAIN mpdQueue' : mpdQueue'[i].sid \in Nat
    <3>1. \A i \in DOMAIN mpdQueue' : mpdQueue'[i] \in Entries
      BY <1>1 DEF QueueStep
    <3>2. QED
      BY <3>1 DEF Entries
  <2>2. QED
    BY <1>1, <1>2, <2>1 DEF QueueStep, FromOld
<1>7. \A i \in DOMAIN mpdQueue' :
        mpdQueue'[i].sid = nextSid => mpdQueue'[i].song = song
  <2>1. mpdQueue \in Seq(Entries)
    BY DEF TypeOK, ServerType
  <2>2. mpdQueue' = Append(mpdQueue, [sid |-> nextSid, song |-> song])
    BY <1>2, <2>1 DEF Load
  <2>3. \A i \in DOMAIN mpdQueue : mpdQueue[i].sid \in Nat /\ mpdQueue[i].sid < nextSid
    <3>1. \A i \in DOMAIN mpdQueue : mpdQueue[i] \in Entries
      BY <2>1
    <3>2. QED
      BY <3>1 DEF Entries, IdInv, SidsBelow
  <2>4. \A i \in DOMAIN mpdQueue' :
          \/ i \in DOMAIN mpdQueue /\ mpdQueue'[i] = mpdQueue[i]
          \/ mpdQueue'[i] = [sid |-> nextSid, song |-> song]
    BY <2>1, <2>2
  <2>5. QED
    BY <1>2, <2>3, <2>4
<1>8. SameSongs(mirror', mpdQueue')
  <2> SUFFICES ASSUME NEW e \in mirror', NEW i \in DOMAIN mpdQueue',
                      e.sid = mpdQueue'[i].sid
               PROVE  e.song = mpdQueue'[i].song
    BY DEF SameSongs
  <2>1. CASE e = new
    BY <1>7, <2>1
  <2>2. CASE e \in mirror
    <3>1. PICK j \in DOMAIN mpdQueue : mpdQueue'[i] = mpdQueue[j]
      BY <1>2, <1>6, <2>2
    <3>2. QED
      BY <2>2, <3>1 DEF IdInv, SameSongs
  <2>3. QED
    BY <2>1, <2>2
<1>9. QED
  BY <1>3, <1>4, <1>5, <1>8 DEF IdInv

\* A rebuilt mirror is the queue: a known id keeps its song, which is mpd's.
LEMMA RebuiltIsImage ==
  ASSUME TypeOK, IdInv
  PROVE  Rebuilt(mirror, mpdQueue) = Image(mpdQueue)
<1>1. ASSUME NEW i \in DOMAIN mpdQueue
      PROVE  KnownSong(mirror, mpdQueue[i]) = mpdQueue[i].song
  <2>1. CASE \E e \in mirror : e.sid = mpdQueue[i].sid
    <3> DEFINE e == CHOOSE e \in mirror : e.sid = mpdQueue[i].sid
    <3>1. e \in mirror /\ e.sid = mpdQueue[i].sid
      BY <2>1
    <3>2. KnownSong(mirror, mpdQueue[i]) = e.song
      BY <2>1 DEF KnownSong
    <3> HIDE DEF e
    <3>3. QED
      BY <3>1, <3>2 DEF IdInv, SameSongs
  <2>2. CASE ~ \E e \in mirror : e.sid = mpdQueue[i].sid
    BY <2>2 DEF KnownSong
  <2>3. QED
    BY <2>1, <2>2
<1>2. QED
  BY <1>1 DEF Rebuilt, Image

\* A rebuilt mirror has mpd's ids.
LEMMA IdsAfterRebuild ==
  ASSUME TypeOK, IdInv, UNCHANGED server, mpdUp' = mpdUp, mirror' = Image(mpdQueue)
  PROVE  IdInv'
<1>1. mpdQueue' = mpdQueue /\ nextSid' = nextSid
  BY DEF server
<1>2. \A e \in mirror' : \E i \in DOMAIN mpdQueue :
        e = [sid |-> mpdQueue[i].sid, song |-> mpdQueue[i].song, pos |-> i - 1]
  BY DEF Image
<1>3. MirrorSidsUnique'
  BY <1>2 DEF MirrorSidsUnique, IdInv, DistinctSids
<1>4. \A e \in mirror' : e.sid < nextSid
  BY <1>2 DEF IdInv, SidsBelow
<1>5. SameSongs(mirror', mpdQueue)
  BY <1>2 DEF SameSongs, IdInv, DistinctSids
<1>6. QED
  BY <1>1, <1>3, <1>4, <1>5 DEF IdInv

\* Positioning changes neither ids nor songs.
LEMMA IdsAfterPositioning ==
  ASSUME TypeOK, IdInv, UNCHANGED server, mpdUp' = mpdUp,
         NEW q, mirror' = Positioned(mirror, q)
  PROVE  IdInv'
<1>1. \A e \in mirror :
        /\ [e EXCEPT !.pos = PosIn(e, q)].sid = e.sid
        /\ [e EXCEPT !.pos = PosIn(e, q)].song = e.song
  BY DEF TypeOK, MirrorEntries
<1>2. \A x \in mirror' : \E e \in mirror :
        x = [e EXCEPT !.pos = PosIn(e, q)] /\ x.sid = e.sid /\ x.song = e.song
  BY <1>1 DEF Positioned
<1>3. MirrorSidsUnique'
  BY <1>2 DEF MirrorSidsUnique, IdInv
<1>4. QED
  BY <1>2, <1>3, IdsKept

\* Only a start of mpd does anything else to its queue than a client can.
LEMMA NextServer ==
  ASSUME TypeOK, [Next]_vars
  PROVE  QueueStep \/ UNCHANGED server \/ MpdStarts
<1>1. ASSUME NEW refused \in BOOLEAN,
             \E r \in Results(refused) : IF r.done THEN Clear ELSE UNCHANGED server
      PROVE  QueueStep \/ UNCHANGED server
  BY <1>1, ClearStep
<1>2. CASE UNCHANGED vars
  BY <1>2 DEF vars
<1>3. CASE \/ \E body \in Bodies, play \in BOOLEAN : HttpAdd(body, play)
           \/ HttpLibrary \/ WsSearchMany \/ WsReconnect \/ Poll
           \/ MakeupPos \/ Play
           \/ Kill \/ Start \/ LinkDrops \/ MpdStops
  BY <1>3
  DEF HttpAdd, HttpLibrary, NullConn, WsSearchMany, WsReconnect, Poll, PollConnect,
      PollDrop, PollFirstSync, PollStatus, PollSync, PollPublish, MakeupPos, Play,
      Kill, Start, LinkDrops, MpdStops
<1>4. CASE \/ \E body \in Bodies, play \in BOOLEAN : HttpReplace(body, play, TRUE)
           \/ HttpReplace(<<>>, FALSE, FALSE)
  BY <1>1, <1>4 DEF HttpReplace, NullConn
<1>5. CASE ClearIfEmpty \/ Exit
  BY <1>1, <1>5 DEF ClearIfEmpty, Exit, server
<1>6. CASE AddSong
  <2>1. <<Head(job.body)>> \in Seq(Songs)
    BY <1>6 DEF AddSong, TypeOK, Jobs
  <2>2. QED
    BY <1>6, <2>1, LoadStep DEF AddSong
<1>7. ASSUME NEW e \in mirror, HttpDel(e.sid)
      PROVE  QueueStep \/ UNCHANGED server
  <2>1. ASSUME NEW i \in DOMAIN mpdQueue, RemoveRange(i, i) PROVE QueueStep
    <3>1. i <= i
      BY DEF TypeOK, ServerType
    <3>2. QED
      BY <2>1, <3>1, RemoveStep
  <2>2. QED
    BY <1>7, <2>1 DEF HttpDel, NullConn
<1>8. CASE WsCommand \/ OtherClient
  BY <1>8, EditStep DEF WsCommand, RefusedListing, OtherClient
<1>9. QED
  BY <1>2, <1>3, <1>4, <1>5, <1>6, <1>7, <1>8 DEF Next, HttpSteps

\* The ids are right initially.
LEMMA InitIds == Init => IdInv
BY DEF Init, FreshProcess, IdInv, DistinctSids, SidsBelow, MirrorSidsUnique, SameSongs

\* Every step keeps the ids right, as long as mpd does not restart.
LEMMA StepIds ==
  ASSUME ~MpdRestarts, TypeOK, IdInv, [Next]_vars
  PROVE  IdInv'
<1>1. ~MpdStarts /\ ~MpdStops
  BY DEF IdInv, MpdStarts, MpdStops
<1>2. QueueStep \/ UNCHANGED server
  BY <1>1, NextServer
<1>3. mpdUp' = mpdUp
  <2>1. CASE Next
    BY <1>1, <2>1
    DEF Next, HttpAdd, HttpReplace, HttpDel, HttpLibrary, WsCommand, WsSearchMany,
        WsReconnect, Request, HttpSteps, ClearIfEmpty, AddSong, MakeupPos, Play, Poll,
        PollConnect, PollDrop, PollFirstSync, PollStatus, PollSync, PollPublish,
        Exit, Kill, Start, OtherClient, LinkDrops
  <2>2. QED
    BY <2>1 DEF vars
<1>4. CASE mirror' \subseteq mirror
  BY <1>2, <1>3, <1>4, IdsKeptBelow
<1>5. ASSUME SyncFromMpd, UNCHANGED server
      PROVE  IdInv'
  <2>1. mirror' = Rebuilt(mirror, mpdQueue) \/ mirror' = mirror
    BY <1>5 DEF SyncFromMpd
  <2>2. QED
    BY <1>3, <1>4, <1>5, <2>1, RebuiltIsImage, IdsAfterRebuild
<1>6. CASE PollFirstSync \/ PollSync
  BY <1>5, <1>6 DEF PollFirstSync, PollSync
<1>7. CASE MakeupPos
  BY <1>3, <1>7, IdsAfterPositioning DEF MakeupPos
<1>8. CASE AddSong
  <2>1. Head(job.body) \in Songs
    BY <1>8 DEF AddSong, TypeOK, Jobs
  <2>2. PICK r \in Results(Head(job.body) \notin Playable) :
          /\ IF r.done THEN Load(<<Head(job.body)>>) ELSE UNCHANGED server
          /\ mirror' = mirror \cup Added(r, Head(job.body))
    BY <1>8 DEF AddSong
  <2>3. r.ok => r.done
    BY ResultFacts
  <2>4. QED
    BY <1>3, <1>4, <2>1, <2>2, <2>3, IdsAfterAdd DEF Added
<1>9. \/ mirror' \subseteq mirror
      \/ PollFirstSync \/ PollSync \/ MakeupPos \/ AddSong
  BY <1>1
  DEF Next, vars, Ends, NullConn, HttpAdd, HttpReplace, HttpDel, HttpLibrary, WsCommand,
      WsSearchMany, WsReconnect, HttpSteps, ClearIfEmpty, Play, Poll, PollConnect,
      PollDrop, PollStatus, PollPublish, Exit, Kill, Start, OtherClient, LinkDrops
<1>10. QED
  BY <1>4, <1>6, <1>7, <1>8, <1>9

\* As long as mpd keeps running, its ids and the ids in the mirror stay right.
THEOREM IdsStayRight == ~MpdRestarts => (Spec => []IdInv)
<1> SUFFICES ASSUME ~MpdRestarts PROVE Spec => []IdInv
  OBVIOUS
<1>1. TypeOK /\ IdInv /\ [Next]_vars => IdInv'
  BY StepIds
<1>2. QED
  BY InitIds, <1>1, TypeCorrect, PTL DEF Spec

\* A queue_sid of the mirror names the same song in mpd.
THEOREM SidsNameSongs == ~MpdRestarts => (Spec => []SidNamesSong)
<1> SUFFICES ASSUME ~MpdRestarts PROVE Spec => []SidNamesSong
  OBVIOUS
<1>1. IdInv => SidNamesSong
  BY DEF IdInv, SameSongs, SidNamesSong
<1>2. QED
  BY <1>1, IdsStayRight, PTL

\* Looking an entry of the mirror up by queue_sid finds the only one.
THEOREM MirrorIsMap == ~MpdRestarts => (Spec => []MirrorSidsUnique)
<1> SUFFICES ASSUME ~MpdRestarts PROVE Spec => []MirrorSidsUnique
  OBVIOUS
<1>1. IdInv => MirrorSidsUnique
  BY DEF IdInv
<1>2. QED
  BY <1>1, IdsStayRight, PTL

-----------------------------------------------------------------------------
(***************************************************************************)
(* Versions.                                                               *)
(***************************************************************************)

\* Outside the rebuild itself the version last read is the one recorded as
\* synced.
ReadIsSynced == job.at # "sync" => verSynced = queueVersion

\* Every step keeps that.
LEMMA StepReadIsSynced ==
  ASSUME TypeOK, ReadIsSynced, [Next]_vars
  PROVE  ReadIsSynced'
<1> USE DEF ReadIsSynced
<1>1. CASE PollStatus
  BY <1>1 DEF PollStatus, MustRebuild, Goto, Idle, TypeOK, Jobs
<1>2. CASE PollSync \/ PollFirstSync
  BY <1>2 DEF PollSync, PollFirstSync, Goto, TypeOK, Jobs
<1>3. ASSUME NEW how, Ends(how)
      PROVE  ReadIsSynced'
  BY <1>3 DEF Ends
<1>4. CASE Exit \/ Kill
  BY <1>3, <1>4 DEF Exit, Kill
<1>5. ASSUME NEW body, NEW play, NEW ok, \/ HttpAdd(body, play)
                                         \/ HttpReplace(body, play, ok)
      PROVE  ReadIsSynced'
  BY <1>3, <1>5 DEF HttpAdd, HttpReplace, NullConn, Request, Idle, marks
<1>6. ASSUME \/ HttpLibrary \/ \E e \in mirror : HttpDel(e.sid)
      PROVE  ReadIsSynced'
  BY <1>3, <1>6 DEF HttpDel, HttpLibrary, NullConn, marks
<1>7. ASSUME UNCHANGED marks, UNCHANGED job \/ job.at # "sync"
      PROVE  ReadIsSynced'
  BY <1>7 DEF marks
<1>8. CASE HttpSteps
  BY <1>7, <1>8 DEF HttpSteps, ClearIfEmpty, AddSong, MakeupPos, Play
<1>9. CASE WsCommand \/ WsSearchMany \/ WsReconnect \/ Start \/ OtherClient
           \/ LinkDrops \/ MpdStops \/ MpdStarts \/ UNCHANGED vars
  BY <1>7, <1>9 DEF WsCommand, WsSearchMany, WsReconnect, Start, OtherClient,
                    LinkDrops, MpdStops, MpdStarts, vars
<1>10. CASE PollConnect \/ PollDrop
  BY <1>7, <1>10 DEF PollConnect, PollDrop, Idle
<1>11. CASE PollPublish
  BY <1>11 DEF PollPublish
<1>12. QED
  BY <1>1, <1>2, <1>4, <1>5, <1>6, <1>8, <1>9, <1>10, <1>11 DEF Next, Poll

\* aurmpd never records a version mpd has not reached.
NotAhead == verSynced <= mpdVersion /\ queueVersion <= mpdVersion

\* Every step keeps that, as long as mpd does not restart.
LEMMA StepNotAhead ==
  ASSUME TypeOK, TypeOK', NotAhead, [Next]_vars, ~MpdStarts
  PROVE  NotAhead'
<1>1. /\ verSynced \in Nat /\ queueVersion \in Nat /\ mpdVersion \in Nat
      /\ mpdVersion' \in Nat /\ verSynced' \in Nat /\ queueVersion' \in Nat
  BY DEF TypeOK, ServerType
<1>2. mpdVersion <= mpdVersion'
  <2>1. QueueStep \/ UNCHANGED server
    BY NextServer
  <2>2. QED
    BY <1>1, <2>1 DEF QueueStep, server
<1>3. verSynced' \in {verSynced, queueVersion, 0}
      /\ queueVersion' \in {queueVersion, mpdVersion, 0}
  <2>1. ASSUME NEW how, Ends(how)
        PROVE  verSynced' = 0 /\ queueVersion' = 0
    BY <2>1 DEF Ends
  <2>2. CASE UNCHANGED marks
    BY <2>2 DEF marks
  <2>3. CASE Poll
    BY <2>3 DEF Poll, PollConnect, PollDrop, PollFirstSync, PollStatus, PollSync,
                PollPublish, marks
  <2>4. QED
    BY <2>1, <2>2, <2>3
    DEF Next, vars, NullConn, HttpAdd, HttpReplace, HttpDel, HttpLibrary, WsCommand,
        WsSearchMany, WsReconnect, HttpSteps, ClearIfEmpty, AddSong, MakeupPos, Play,
        Exit, Kill, Start, OtherClient, LinkDrops, MpdStops
<1>4. QED
  BY <1>1, <1>2, <1>3 DEF NotAhead

-----------------------------------------------------------------------------
(***************************************************************************)
(* The mirror.  What a reader of MirrorCurrent has to know besides: when   *)
(* mpd refuses no song and does not restart, an ACK on a live connection   *)
(* comes only from an id that another client removed, and then the poll    *)
(* thread has still to see a newer version; a change of the mirror over a  *)
(* live connection is either one mpd made too, under a newer version, or   *)
(* leaves the connection unusable until the next first rebuild.            *)
(***************************************************************************)

Trusted == synced /\ verSynced = mpdVersion

AckMeansBehind ==
  (connState = "CONNECTED" \/ job.at = "publish") /\ conn = "live" /\ err = "ack"
    => ~Trusted

MirrorTrusted ==
  conn = "live" /\ err = "none" /\ Trusted /\ job.at # "firstSync"
    => mirror = Image(mpdQueue)

CleanBeforeSync == job.at \in {"firstSync", "sync"} => err = "none"

TrustInv == AckMeansBehind /\ MirrorTrusted /\ CleanBeforeSync

\* Trust holds initially: nothing is connected.
LEMMA InitTrust == Init => TrustInv
BY DEF Init, FreshProcess, IdleJob, TrustInv, AckMeansBehind, MirrorTrusted,
       CleanBeforeSync

\* After a change of the queue the poll thread has something to see.
LEMMA BumpedNotTrusted ==
  ASSUME TypeOK, NotAhead, QueueStep, verSynced' = verSynced
  PROVE  ~Trusted'
BY DEF TypeOK, ServerType, NotAhead, QueueStep, Trusted

\* Trust depends on the versions alone.
LEMMA TrustedSame ==
  ASSUME UNCHANGED server, synced' = synced, verSynced' = verSynced
  PROVE  Trusted' = Trusted
BY DEF server, Trusted

\* Once the connection object is gone, replaced or unusable.
LEMMA TrustWithoutLink ==
  ASSUME conn' # "live", CleanBeforeSync'
  PROVE  TrustInv'
BY DEF TrustInv, AckMeansBehind, MirrorTrusted

\* The end of the process.
LEMMA TrustAfterEnd ==
  ASSUME NEW how, Ends(how)
  PROVE  TrustInv'
BY TrustWithoutLink DEF Ends, IdleJob, CleanBeforeSync

\* Positions computed from a listing of the whole queue are the queue's.
LEMMA PositionedImage ==
  ASSUME TypeOK, IdInv
  PROVE  Positioned(Image(mpdQueue), SubSeq(mpdQueue, 1, Len(mpdQueue)))
           = Image(mpdQueue)
<1> DEFINE q == mpdQueue
           entry(i) == [sid |-> q[i].sid, song |-> q[i].song, pos |-> i - 1]
<1>1. q \in Seq(Entries)
  BY DEF TypeOK, ServerType
<1>2. SubSeq(q, 1, Len(q)) = q
  BY <1>1
<1>3. ASSUME NEW i \in DOMAIN q
      PROVE  [entry(i) EXCEPT !.pos = PosIn(entry(i), q)] = entry(i)
  <2>1. \E k \in DOMAIN q : q[k].sid = q[i].sid
    BY <1>3
  <2>2. (CHOOSE k \in DOMAIN q : q[k].sid = q[i].sid) = i
    BY <1>3, <2>1 DEF IdInv, DistinctSids
  <2>3. PosIn(entry(i), q) = i - 1
    BY <2>1, <2>2 DEF PosIn
  <2>4. QED
    BY <2>3
<1>4. Image(q) = {entry(i) : i \in DOMAIN q}
  BY DEF Image
<1>5. Positioned(Image(q), q) = Image(q)
  <2>1. \A e \in Image(q) : [e EXCEPT !.pos = PosIn(e, q)] = e
    BY <1>3, <1>4
  <2>2. Positioned(Image(q), q) = {[e EXCEPT !.pos = PosIn(e, q)] : e \in Image(q)}
    BY DEF Positioned
  <2> HIDE DEF q
  <2>3. QED
    BY <2>1, <2>2
<1>6. QED
  BY <1>2, <1>5

\* A step over which err, the connection and the mirror stay as they are, and
\* the queue may change.
LEMMA TrustUntouched ==
  ASSUME TypeOK, NotAhead, TrustInv, QueueStep \/ UNCHANGED server,
         UNCHANGED <<conn, err, mirror, synced, verSynced>>,
         connState' = "CONNECTED" => connState = "CONNECTED",
         \/ UNCHANGED job
         \/ job.at # "firstSync" /\ job'.at \notin {"firstSync", "sync", "publish"}
  PROVE  TrustInv'
<1>1. CASE QueueStep
  <2>1. ~Trusted'
    BY <1>1, BumpedNotTrusted
  <2>2. QED
    BY <2>1 DEF TrustInv, AckMeansBehind, MirrorTrusted, CleanBeforeSync
<1>2. CASE UNCHANGED server
  <2>1. Trusted' = Trusted /\ mpdQueue' = mpdQueue
    BY <1>2, TrustedSame DEF server
  <2>2. AckMeansBehind'
    BY <2>1 DEF TrustInv, AckMeansBehind
  <2>3. MirrorTrusted'
    BY <2>1 DEF TrustInv, MirrorTrusted, Image
  <2>4. CleanBeforeSync'
    BY DEF TrustInv, CleanBeforeSync
  <2>5. QED
    BY <2>2, <2>3, <2>4 DEF TrustInv
<1>3. QED
  BY <1>1, <1>2

\* One command of a handler, the mirror unchanged: an ACK needs a refusal, and
\* mpd refuses only what the poll thread has still to see.
LEMMA TrustAfterCommand ==
  ASSUME TypeOK, NotAhead, TrustInv, NEW refused \in BOOLEAN, NEW r \in Results(refused),
         IF r.done THEN QueueStep ELSE UNCHANGED server,
         err' = r.err, UNCHANGED <<connState, conn, mirror, synced, verSynced>>,
         job.at # "firstSync", job'.at \notin {"firstSync", "sync", "publish"},
         refused /\ Trusted /\ conn = "live" /\ err = "none" => FALSE
  PROVE  TrustInv'
<1>1. CASE r.done
  <2>1. ~Trusted'
    BY <1>1, BumpedNotTrusted
  <2>2. QED
    BY <2>1 DEF TrustInv, AckMeansBehind, MirrorTrusted, CleanBeforeSync
<1>2. CASE ~r.done
  <2>1. Trusted' = Trusted /\ mpdQueue' = mpdQueue /\ Image(mpdQueue)' = Image(mpdQueue)
    BY <1>2, TrustedSame DEF server, Image
  <2>2. AckMeansBehind'
    BY <2>1, ResultFacts DEF TrustInv, AckMeansBehind, TypeOK
  <2>3. MirrorTrusted'
    BY <2>1, <1>2, ResultFacts DEF TrustInv, MirrorTrusted
  <2>4. QED
    BY <2>2, <2>3 DEF TrustInv, CleanBeforeSync
<1>3. QED
  BY <1>1, <1>2, ResultFacts

\* The first step of every HTTP request.
LEMMA TrustHttpRequest ==
  ASSUME TypeOK, NotAhead, IdInv, TrustInv,
         \/ \E body \in Bodies, play \in BOOLEAN : HttpAdd(body, play)
         \/ \E body \in Bodies, play \in BOOLEAN : HttpReplace(body, play, TRUE)
         \/ HttpReplace(<<>>, FALSE, FALSE)
         \/ \E e \in mirror : HttpDel(e.sid)
         \/ HttpLibrary
  PROVE  TrustInv'
<1>1. CASE NullConn
  BY <1>1, TrustAfterEnd DEF NullConn
<1>2. ASSUME NEW body, NEW play, HttpAdd(body, play), ~NullConn
      PROVE  TrustInv'
  BY <1>2, TrustUntouched DEF HttpAdd, Request, Idle, link, marks
<1>3. ASSUME NEW body, NEW play, NEW ok \in BOOLEAN, HttpReplace(body, play, ok),
             ~NullConn
      PROVE  TrustInv'
  <2>1. PICK r \in Results(FALSE) :
          /\ IF r.done THEN Clear ELSE UNCHANGED server
          /\ err' = r.err
    BY <1>3 DEF HttpReplace
  <2>2. /\ connState' = connState /\ conn' = conn /\ UNCHANGED marks
        /\ job.at = "idle" /\ job'.at \in {"idle", "clear"}
    <3>1. job'.at \in {"idle", "clear"}
      <4>1. \/ job' = [at |-> "clear", by |-> "replace", body |-> body,
                       play |-> play, first |-> 0]
            \/ job' = IdleJob
        BY <1>3 DEF HttpReplace
      <4>2. QED
        BY <4>1 DEF IdleJob
    <3>2. QED
      BY <1>3, <3>1 DEF HttpReplace, Request, Idle
  <2>3. CASE r.done
    <3>1. ~Trusted'
      BY <2>1, <2>2, <2>3, ClearStep, BumpedNotTrusted DEF marks
    <3>2. QED
      BY <2>2, <3>1 DEF TrustInv, AckMeansBehind, MirrorTrusted, CleanBeforeSync
  <2>4. CASE ~r.done
    <3>1. Trusted' = Trusted
      BY <2>1, <2>2, <2>4, TrustedSame DEF marks
    <3>2. /\ err' = "none" => FALSE
          /\ conn = "live" /\ err' = "ack" => err = "ack"
      BY <2>1, <2>4, ResultFacts DEF TypeOK
    <3>3. QED
      BY <2>2, <3>1, <3>2 DEF TrustInv, AckMeansBehind, MirrorTrusted, CleanBeforeSync
  <2>5. QED
    BY <2>3, <2>4, <2>1, ResultFacts
<1>4. ASSUME NEW e \in mirror, HttpDel(e.sid), ~NullConn
      PROVE  TrustInv'
  <2>1. PICK r \in Results(e.sid \notin Queued) :
          /\ IF r.done
               THEN \E i \in DOMAIN mpdQueue :
                      mpdQueue[i].sid = e.sid /\ RemoveRange(i, i)
               ELSE UNCHANGED server
          /\ err' = r.err
    BY <1>4 DEF HttpDel
  <2>2. /\ connState' = connState /\ conn' = conn /\ UNCHANGED marks
        /\ job.at = "idle" /\ job' = job
    BY <1>4 DEF HttpDel, Request, Idle
  <2>3. CASE r.done
    <3>1. ASSUME NEW i \in DOMAIN mpdQueue, RemoveRange(i, i) PROVE QueueStep
      <4>1. i <= i
        BY DEF TypeOK, ServerType
      <4>2. QED
        BY <3>1, <4>1, RemoveStep
    <3>2. ~Trusted'
      BY <2>1, <2>2, <2>3, <3>1, BumpedNotTrusted DEF marks
    <3>3. QED
      BY <2>2, <3>2 DEF TrustInv, AckMeansBehind, MirrorTrusted, CleanBeforeSync
  <2>4. CASE ~r.done
    <3>1. Trusted' = Trusted
      BY <2>1, <2>2, <2>4, TrustedSame DEF marks
    <3>2. /\ err' = "none" => FALSE
          /\ conn = "live" /\ err' = "ack" => err = "ack"
                 \/ (err = "none" /\ e.sid \notin Queued)
      BY <2>1, <2>4, ResultFacts DEF TypeOK
    <3>3. Trusted /\ conn = "live" /\ err = "none" => e.sid \in Queued
      BY <2>2 DEF TrustInv, MirrorTrusted, Image, Queued
    <3>4. QED
      BY <2>2, <3>1, <3>2, <3>3
      DEF TrustInv, AckMeansBehind, MirrorTrusted, CleanBeforeSync
  <2>5. QED
    BY <2>3, <2>4, <2>1, ResultFacts
<1>5. ASSUME HttpLibrary, ~NullConn
      PROVE  TrustInv'
  <2>1. PICK r \in Results(FALSE) : err' = r.err
    BY <1>5 DEF HttpLibrary
  <2>2. /\ UNCHANGED <<server, connState, conn, mirror, marks>>
        /\ job.at = "idle" /\ job' = job
    BY <1>5 DEF HttpLibrary, Request, Idle
  <2>3. Trusted' = Trusted /\ mpdQueue' = mpdQueue /\ Image(mpdQueue)' = Image(mpdQueue)
    BY <2>2, TrustedSame DEF server, marks, Image
  <2>4. /\ err' = "none" => err = "none" /\ conn = "live"
        /\ conn = "live" /\ err' = "ack" => err = "ack"
    BY <2>1, ResultFacts DEF TypeOK
  <2>5. QED
    BY <2>2, <2>3, <2>4 DEF TrustInv, AckMeansBehind, MirrorTrusted, CleanBeforeSync
<1>6. QED
  BY <1>1, <1>2, <1>3, <1>4, <1>5

\* The steps of a handler, when mpd refuses no song.
LEMMA TrustHttpSteps ==
  ASSUME Playable = Songs, TypeOK, NotAhead, IdInv, TrustInv, HttpSteps
  PROVE  TrustInv'
<1>1. CASE ClearIfEmpty
  <2>1. /\ UNCHANGED <<connState, conn, mirror, synced, verSynced>>
        /\ job.at = "clear" /\ job'.at = "add"
    BY <1>1 DEF ClearIfEmpty, Goto, TypeOK, Jobs, marks
  <2>2. CASE UNCHANGED <<server, err, faults>>
    BY <2>1, <2>2, TrustUntouched
  <2>3. ASSUME NEW r \in Results(FALSE), err' = r.err,
               IF r.done THEN Clear ELSE UNCHANGED server
        PROVE  TrustInv'
    BY <2>1, <2>3, ClearStep, TrustAfterCommand
  <2>4. QED
    BY <1>1, <2>2, <2>3 DEF ClearIfEmpty
<1>2. CASE AddSong
  <2>1. PICK r \in Results(Head(job.body) \notin Playable) :
          /\ IF r.done THEN Load(<<Head(job.body)>>) ELSE UNCHANGED server
          /\ err' = r.err
          /\ mirror' = mirror \cup Added(r, Head(job.body))
    BY <1>2 DEF AddSong
  <2>2. /\ UNCHANGED <<connState, conn, synced, verSynced>>
        /\ job.at = "add" /\ job'.at = "add"
    BY <1>2 DEF AddSong, TypeOK, Jobs, marks
  <2>3. Head(job.body) \in Songs /\ <<Head(job.body)>> \in Seq(Songs)
    BY <1>2 DEF AddSong, TypeOK, Jobs
  <2>4. CASE r.done
    <3>1. ~Trusted'
      BY <2>1, <2>2, <2>3, <2>4, LoadStep, BumpedNotTrusted
    <3>2. QED
      BY <2>2, <3>1 DEF TrustInv, AckMeansBehind, MirrorTrusted, CleanBeforeSync
  <2>5. CASE ~r.done
    <3>1. mirror' = mirror
      BY <2>1, <2>5, ResultFacts DEF Added
    <3>2. Head(job.body) \in Playable
      BY <2>3
    <3>3. QED
      BY <2>1, <2>2, <2>5, <3>1, <3>2, TrustAfterCommand
  <2>6. QED
    BY <2>4, <2>5
<1>3. CASE MakeupPos
  <2>1. PICK r \in Results(FALSE) :
          /\ err' = r.err
          /\ \E n \in (IF r.ok THEN {Len(mpdQueue)}
                        ELSE IF r.cost = 1 THEN 0..Len(mpdQueue) ELSE {0}) :
               mirror' = Positioned(mirror, SubSeq(mpdQueue, 1, n))
    BY <1>3 DEF MakeupPos
  <2>2. /\ UNCHANGED <<server, connState, conn, synced, verSynced>>
        /\ job.at = "add" /\ job'.at \in {"idle", "play"}
    BY <1>3 DEF MakeupPos, Goto, IdleJob, TypeOK, Jobs, marks
  <2>3. Trusted' = Trusted /\ mpdQueue' = mpdQueue /\ Image(mpdQueue)' = Image(mpdQueue)
    BY <2>2, TrustedSame DEF server, Image
  <2>4. err' = "none" => r.ok /\ err = "none" /\ conn = "live"
    BY <2>1, ResultFacts
  <2>5. conn = "live" /\ err' = "ack" => err = "ack"
    BY <2>1, ResultFacts DEF TypeOK
  <2>6. r.ok => mirror' = Positioned(mirror, SubSeq(mpdQueue, 1, Len(mpdQueue)))
    BY <2>1
  <2>7. MirrorTrusted'
    BY <2>2, <2>3, <2>4, <2>6, PositionedImage DEF TrustInv, MirrorTrusted
  <2>8. QED
    BY <2>2, <2>3, <2>5, <2>7 DEF TrustInv, AckMeansBehind, CleanBeforeSync
<1>4. CASE Play
  <2>1. /\ UNCHANGED <<server, connState, conn, mirror, synced, verSynced>>
        /\ job.at = "play" /\ job'.at = "idle"
    BY <1>4 DEF Play, IdleJob, marks
  <2>2. CASE UNCHANGED <<err, faults>>
    BY <2>1, <2>2, TrustUntouched
  <2>3. ASSUME NEW refused \in BOOLEAN, NEW r \in Results(refused), err' = r.err,
               refused /\ mirror = Image(mpdQueue) => FALSE
        PROVE  TrustInv'
    <3>1. refused /\ Trusted /\ conn = "live" /\ err = "none" => FALSE
      BY <2>1, <2>3 DEF TrustInv, MirrorTrusted
    <3>2. r.done => UNCHANGED server
      BY <2>1
    <3>3. Trusted' = Trusted /\ mpdQueue' = mpdQueue
          /\ Image(mpdQueue)' = Image(mpdQueue)
      BY <2>1, TrustedSame DEF server, Image
    <3>4. /\ err' = "none" => err = "none" /\ conn = "live"
          /\ conn = "live" /\ err' = "ack" => err = "ack" \/ (err = "none" /\ refused)
      BY <2>3, ResultFacts DEF TypeOK
    <3>5. QED
      BY <2>1, <3>1, <3>3, <3>4
      DEF TrustInv, AckMeansBehind, MirrorTrusted, CleanBeforeSync
  <2>4. CASE /\ job.by = "add" /\ \E e \in mirror : e.sid = job.first
             /\ \E r \in Results(job.first \notin Queued) : err' = r.err
    <3>1. mirror = Image(mpdQueue) => job.first \in Queued
      BY <2>4 DEF Image, Queued
    <3>2. QED
      BY <2>3, <2>4, <3>1
  <2>5. CASE /\ \E e \in mirror : e.pos = 0
             /\ \E r \in Results(mpdQueue = <<>>) : err' = r.err
    <3>1. mirror = Image(mpdQueue) => mpdQueue # <<>>
      BY <2>5 DEF Image
    <3>2. QED
      BY <2>3, <2>5, <3>1
  <2>6. QED
    BY <1>4, <2>2, <2>4, <2>5 DEF Play
<1>5. QED
  BY <1>1, <1>2, <1>3, <1>4 DEF HttpSteps

\* WebSocket commands.
LEMMA TrustWs ==
  ASSUME TypeOK, NotAhead, IdInv, TrustInv, WsCommand \/ WsSearchMany \/ WsReconnect
  PROVE  TrustInv'
<1>0. CASE WsCommand /\ RefusedListing
  BY <1>0 DEF WsCommand, RefusedListing, Request, Idle, TrustInv, AckMeansBehind,
              MirrorTrusted, CleanBeforeSync
<1>1. CASE WsCommand /\ ~RefusedListing
  <2>1. PICK r \in Results(FALSE) :
          /\ IF r.done THEN Edit \/ UNCHANGED server ELSE UNCHANGED server
          /\ RecoverFrom(r.err)
    BY <1>1 DEF WsCommand, RefusedListing
  <2>2. /\ UNCHANGED <<conn, mirror, synced, verSynced, job>>
        /\ connState = "CONNECTED" /\ job.at = "idle"
    BY <1>1 DEF WsCommand, Request, Idle, marks
  <2>3. err' # "ack"
    BY <2>1, ResultFacts DEF RecoverFrom, Cleared
  <2>4. err' = "none" => r.err = "none" \/ (err = "ack" \/ conn # "live")
    BY <2>1, ResultFacts DEF RecoverFrom, Cleared
  <2>5. CASE QueueStep
    <3>1. ~Trusted'
      BY <2>2, <2>5, BumpedNotTrusted
    <3>2. QED
      BY <2>2, <3>1 DEF TrustInv, AckMeansBehind, MirrorTrusted, CleanBeforeSync
  <2>6. CASE UNCHANGED server
    <3>1. Trusted' = Trusted /\ mpdQueue' = mpdQueue
          /\ Image(mpdQueue)' = Image(mpdQueue)
      BY <2>2, <2>6, TrustedSame DEF server, Image
    <3>2. r.err = "none" => err = "none"
      BY ResultFacts
    <3>3. QED
      BY <2>2, <2>3, <2>4, <3>1, <3>2
      DEF TrustInv, AckMeansBehind, MirrorTrusted, CleanBeforeSync
  <2>7. QED
    BY <2>1, <2>5, <2>6, EditStep
<1>2. CASE WsSearchMany
  <2>1. CleanBeforeSync'
    BY <1>2 DEF WsSearchMany, TrustInv, CleanBeforeSync
  <2>2. QED
    BY <1>2, <2>1, TrustWithoutLink DEF WsSearchMany
<1>3. CASE WsReconnect
  BY <1>3, TrustUntouched DEF WsReconnect, marks
<1>4. QED
  BY <1>0, <1>1, <1>2, <1>3

\* A rebuild, over a connection without an error.
LEMMA TrustAfterSync ==
  ASSUME TypeOK, IdInv, err = "none", SyncFromMpd,
         UNCHANGED <<server, conn>>, job'.at = "publish"
  PROVE  TrustInv'
<1>1. PICK r \in Results(FALSE) :
        /\ mirror' = IF r.ok THEN Rebuilt(mirror, mpdQueue) ELSE mirror
        /\ err' = IF r.ok THEN r.err ELSE Cleared(r.err)
  BY DEF SyncFromMpd
<1>2. CASE conn # "live"
  BY <1>2, TrustWithoutLink DEF CleanBeforeSync
<1>3. CASE conn = "live" /\ r.ok
  <2>1. mirror' = Image(mpdQueue)' /\ err' = "none"
    BY <1>1, <1>3, RebuiltIsImage, ResultFacts DEF server, Image
  <2>2. QED
    BY <2>1 DEF TrustInv, AckMeansBehind, MirrorTrusted, CleanBeforeSync
<1>4. CASE conn = "live" /\ ~r.ok
  <2>1. err' = "fatal"
    BY <1>1, <1>4, ResultFacts DEF Cleared
  <2>2. QED
    BY <2>1 DEF TrustInv, AckMeansBehind, MirrorTrusted, CleanBeforeSync
<1>5. QED
  BY <1>2, <1>3, <1>4, ResultFacts

\* The poll thread.
LEMMA TrustPoll ==
  ASSUME TypeOK, NotAhead, IdInv, TrustInv, Poll
  PROVE  TrustInv'
<1>1. CASE PollConnect
  <2>1. CASE conn' = "live" /\ err' = "none" /\ connState' = "CONNECTED"
             /\ Goto("firstSync")
    BY <2>1 DEF Goto, TypeOK, Jobs, TrustInv, AckMeansBehind, MirrorTrusted,
                CleanBeforeSync
  <2>2. CASE /\ \E f \in ConnectFailures : conn' = f.conn /\ err' = f.err
             /\ connState' = "FAILURE" /\ UNCHANGED job
    <3>1. conn' = "live" => err' = "ack"
      <4>1. \A f \in ConnectFailures : f.conn = "live" => f.err = "ack"
        BY DEF ConnectFailures
      <4>2. QED
        BY <2>2, <4>1
    <3>2. job'.at = "idle"
      BY <1>1, <2>2 DEF PollConnect, Idle
    <3>3. QED
      BY <2>2, <3>1, <3>2 DEF TrustInv, AckMeansBehind, MirrorTrusted, CleanBeforeSync
  <2>3. QED
    BY <1>1, <2>1, <2>2 DEF PollConnect
<1>2. CASE PollDrop
  BY <1>2, TrustWithoutLink DEF PollDrop, Idle, CleanBeforeSync
<1>3. CASE PollFirstSync \/ PollSync
  BY <1>3, TrustAfterSync
  DEF PollFirstSync, PollSync, Goto, TypeOK, Jobs, TrustInv, CleanBeforeSync
<1>4. CASE PollStatus
  <2>1. PICK r \in Results(FALSE) :
          /\ err' = r.err
          /\ connState' = IF r.ok THEN connState ELSE "FAILURE"
          /\ Goto(IF r.ok /\ MustRebuild(mpdVersion)
                    THEN "sync" ELSE "publish")
    BY <1>4 DEF PollStatus
  <2>2. UNCHANGED <<server, conn, mirror, synced, verSynced>>
        /\ connState = "CONNECTED" /\ job.at = "idle"
    BY <1>4 DEF PollStatus, Idle
  <2>3. Trusted' = Trusted /\ mpdQueue' = mpdQueue /\ Image(mpdQueue)' = Image(mpdQueue)
    BY <2>2, TrustedSame DEF server, Image
  <2>4. job'.at = IF r.ok /\ MustRebuild(mpdVersion)
                    THEN "sync" ELSE "publish"
    BY <2>1 DEF Goto, TypeOK, Jobs
  <2>5. /\ err' = "none" => err = "none"
        /\ conn = "live" /\ err' = "ack" => err = "ack"
        /\ r.ok => err' = "none"
    BY <2>1, ResultFacts DEF TypeOK
  <2>6. QED
    BY <2>2, <2>3, <2>4, <2>5
    DEF TrustInv, AckMeansBehind, MirrorTrusted, CleanBeforeSync
<1>5. CASE PollPublish
  <2>1. PICK r \in Results(FALSE) : err' = Cleared(r.err)
    BY <1>5 DEF PollPublish
  <2>2. /\ UNCHANGED <<server, conn, mirror, synced, verSynced>>
        /\ job.at = "publish" /\ job'.at = "idle"
    BY <1>5 DEF PollPublish, IdleJob
  <2>3. Trusted' = Trusted /\ mpdQueue' = mpdQueue /\ Image(mpdQueue)' = Image(mpdQueue)
    BY <2>2, TrustedSame DEF server, Image
  <2>4. /\ err' # "ack"
        /\ conn = "live" /\ err' = "none" => err = "none" \/ err = "ack"
    BY <2>1, ResultFacts DEF Cleared, TypeOK
  <2>5. QED
    BY <2>2, <2>3, <2>4 DEF TrustInv, AckMeansBehind, MirrorTrusted, CleanBeforeSync
<1>6. QED
  BY <1>1, <1>2, <1>3, <1>4, <1>5 DEF Poll

\* Everything outside the request handlers and the poll thread.
LEMMA TrustOutside ==
  ASSUME TypeOK, NotAhead, IdInv, TrustInv,
         Exit \/ Kill \/ Start \/ OtherClient \/ LinkDrops \/ UNCHANGED vars
  PROVE  TrustInv'
<1>1. CASE Exit \/ Kill
  BY <1>1, TrustAfterEnd DEF Exit, Kill
<1>2. CASE Start \/ UNCHANGED vars
  BY <1>2, TrustUntouched DEF Start, link, marks, vars
<1>3. CASE OtherClient
  BY <1>3, EditStep, TrustUntouched DEF OtherClient, link, marks
<1>4. CASE LinkDrops
  <2>1. CleanBeforeSync'
    BY <1>4 DEF LinkDrops, TrustInv, CleanBeforeSync
  <2>2. QED
    BY <1>4, <2>1, TrustWithoutLink DEF LinkDrops
<1>5. QED
  BY <1>1, <1>2, <1>3, <1>4

MirrorInv == IdInv /\ NotAhead /\ TrustInv

\* The inductive invariant of the mirror, for any songs and bounds, if mpd
\* refuses none of the songs and keeps running.  Both conditions are needed:
\* the runs mirror_bad_song and mirror_sid_reuse drop one each.
THEOREM MirrorInvariant ==
  Playable = Songs /\ ~MpdRestarts => (Spec => []MirrorInv)
<1> SUFFICES ASSUME Playable = Songs, ~MpdRestarts PROVE Spec => []MirrorInv
  OBVIOUS
<1>1. Init => MirrorInv
  BY InitIds, InitTrust DEF MirrorInv, NotAhead, Init, FreshProcess
<1>2. TypeOK /\ TypeOK' /\ MirrorInv /\ [Next]_vars => MirrorInv'
  <2> SUFFICES ASSUME TypeOK, TypeOK', MirrorInv, [Next]_vars PROVE MirrorInv'
    OBVIOUS
  <2> USE DEF MirrorInv
  <2>1. IdInv'
    BY StepIds
  <2>2. ~MpdStarts /\ ~MpdStops
    BY DEF IdInv, MpdStarts, MpdStops
  <2>3. NotAhead'
    BY <2>2, StepNotAhead
  <2>4. TrustInv'
    BY <2>2, TrustHttpRequest, TrustHttpSteps, TrustWs, TrustPoll, TrustOutside DEF Next
  <2>5. QED
    BY <2>1, <2>3, <2>4
<1>3. QED
  BY <1>1, <1>2, TypeCorrect, PTL DEF Spec

\* Whenever the poll thread would leave the mirror as it is, it is mpd's queue.
THEOREM MirrorIsCurrent ==
  Playable = Songs /\ ~MpdRestarts => (Spec => []MirrorCurrent)
<1> SUFFICES ASSUME Playable = Songs, ~MpdRestarts PROVE Spec => []MirrorCurrent
  OBVIOUS
<1>1. MirrorInv => MirrorCurrent
  BY DEF MirrorInv, TrustInv, MirrorTrusted, Trusted, MirrorCurrent, BelievedCurrent,
         Healthy
<1>2. QED
  BY <1>1, MirrorInvariant, PTL

\* An add request to an empty mirror clears songs out of mpd only in the window
\* before the poll thread has seen the change that brought them in.
THEOREM AddDropsNothingSeen ==
  Playable = Songs /\ ~MpdRestarts => (Spec => AddDropsOnlyUnseen)
<1> SUFFICES ASSUME Playable = Songs, ~MpdRestarts PROVE Spec => AddDropsOnlyUnseen
  OBVIOUS
<1>1. TypeOK /\ MirrorInv /\ [Next]_vars
        => [job.at = "clear" /\ job.by = "add" /\ job'.at = "add"
              /\ mpdQueue # <<>> /\ mpdQueue' = <<>>
            => ~synced \/ verSynced # mpdVersion]_vars
  <2> SUFFICES ASSUME TypeOK, MirrorInv, Next, job.at = "clear", job'.at = "add",
                      mpdQueue # <<>>, mpdQueue' = <<>>, Trusted
               PROVE  FALSE
    BY DEF Trusted
  <2>1. CASE ClearIfEmpty
    <3>1. /\ mirror = {}
          /\ \E r \in Results(FALSE) : IF r.done THEN Clear ELSE UNCHANGED server
      BY <2>1 DEF ClearIfEmpty, server
    <3>2. conn = "live" /\ err = "none"
      BY <3>1, ResultFacts DEF server
    <3>3. Image(mpdQueue) = {}
      BY <3>1, <3>2 DEF MirrorInv, TrustInv, MirrorTrusted
    <3>4. mpdQueue \in Seq(Entries)
      BY DEF TypeOK, ServerType
    <3>5. Len(mpdQueue) \in Nat \ {0} /\ DOMAIN mpdQueue = 1..Len(mpdQueue)
      BY <3>4, EmptySeq
    <3>6. 1 \in DOMAIN mpdQueue
      BY <3>5
    <3>7. QED
      BY <3>3, <3>6 DEF Image
  <2>2. CASE UNCHANGED job
    BY <2>2
  <2>3. ASSUME NEW how, Ends(how)
        PROVE  FALSE
    BY <2>3 DEF Ends, IdleJob
  <2>4. CASE HttpSteps /\ ~ClearIfEmpty
    BY <2>4 DEF HttpSteps, AddSong, MakeupPos, Play
  <2>5. CASE Poll
    BY <2>5 DEF Poll, PollConnect, PollDrop, PollFirstSync, PollStatus, PollSync,
                PollPublish, Idle
  <2>6. CASE \/ \E body \in Bodies, play \in BOOLEAN : HttpAdd(body, play)
             \/ \E body \in Bodies, play \in BOOLEAN : HttpReplace(body, play, TRUE)
             \/ HttpReplace(<<>>, FALSE, FALSE)
             \/ HttpLibrary \/ (\E e \in mirror : HttpDel(e.sid))
             \/ WsCommand \/ WsSearchMany \/ WsReconnect
    BY <2>6 DEF HttpAdd, HttpReplace, HttpLibrary, HttpDel, WsCommand, WsSearchMany,
                WsReconnect, Request, Idle
  <2>7. CASE Exit \/ Kill \/ Start \/ OtherClient \/ LinkDrops \/ MpdStops \/ MpdStarts
    BY <2>2, <2>3, <2>7 DEF Exit, Kill, Start, OtherClient, LinkDrops, MpdStops,
                            MpdStarts
  <2>8. QED
    BY <2>1, <2>4, <2>5, <2>6, <2>7 DEF Next
<1>2. QED
  BY <1>1, TypeCorrect, MirrorInvariant, PTL DEF Spec, AddDropsOnlyUnseen

-----------------------------------------------------------------------------
(***************************************************************************)
(* Announcements.  A version that is read and differs from the announced   *)
(* one leads to a listing in the same round, over the connection it was    *)
(* read from; the listing brings the mirror to that version or a later     *)
(* one, unless the connection is lost in between.                          *)
(***************************************************************************)

\* Versions only move forward: none is recorded or announced before it was read.
InOrder ==
  verSynced <= queueVersion /\ announced <= queueVersion /\ listed <= mpdVersion

\* Between two rounds every version that was read has been announced.
AllAnnounced == job.at \notin {"sync", "publish"} => announced = queueVersion

SyncOverLink ==
  job.at = "sync" => connState = "CONNECTED" /\ err = "none" /\ conn # "stuck"

\* The mirror was read at the version or behind it.
ReadSince == listed >= queueVersion /\ (listed = mpdVersion => mirror = Image(mpdQueue))

FreshBeforeNotice ==
  job.at = "publish" /\ announced # queueVersion
    => connState = "CONNECTED" /\ (ReadSince \/ err = "fatal")

FeedInv ==
  /\ IdInv /\ ReadIsSynced /\ NotAhead
  /\ InOrder /\ AllAnnounced /\ SyncOverLink /\ FreshBeforeNotice

\* What a step can do to the versions.
LEMMA MarksStep ==
  ASSUME [Next]_vars
  PROVE  UNCHANGED marks \/ Poll \/ \E how \in {"stopped", "crashed"} : Ends(how)
<1>1. CASE HttpSteps
  BY <1>1 DEF HttpSteps, ClearIfEmpty, AddSong, MakeupPos, Play
<1>2. CASE UNCHANGED vars \/ Exit \/ Kill \/ Start \/ OtherClient \/ LinkDrops
           \/ MpdStops \/ MpdStarts
  BY <1>2 DEF vars, Exit, Kill, Start, OtherClient, LinkDrops, MpdStops, MpdStarts
<1>3. CASE HttpLibrary \/ WsCommand \/ WsSearchMany \/ WsReconnect
  BY <1>3 DEF HttpLibrary, NullConn, WsCommand, WsSearchMany, WsReconnect
<1>4. CASE \/ \E body \in Bodies, play \in BOOLEAN : HttpAdd(body, play)
           \/ \E body \in Bodies, play \in BOOLEAN : HttpReplace(body, play, TRUE)
           \/ HttpReplace(<<>>, FALSE, FALSE)
           \/ \E e \in mirror : HttpDel(e.sid)
  BY <1>4 DEF HttpAdd, HttpReplace, HttpDel, NullConn
<1>5. QED
  BY <1>1, <1>2, <1>3, <1>4 DEF Next

\* While a round of the poll thread is under way nobody but that thread, other
\* clients of mpd and the link do anything.
LEMMA RoundAlone ==
  ASSUME [Next]_vars, job.at \in {"sync", "publish"}, ~Poll, ~MpdStarts, ~MpdStops,
         ~ \E how \in {"stopped", "crashed"} : Ends(how)
  PROVE  /\ UNCHANGED <<job, connState, err, mirror>>
         /\ conn' \in {conn, "lost"}
<1>1. ~HttpSteps
  BY DEF HttpSteps, ClearIfEmpty, AddSong, MakeupPos, Play
<1>2. ~Request
  BY DEF Request, Idle
<1>3. CASE UNCHANGED vars \/ Start \/ OtherClient \/ LinkDrops
  BY <1>3 DEF vars, link, Start, OtherClient, LinkDrops
<1>4. CASE Exit \/ Kill
  BY <1>4 DEF Exit, Kill
<1>5. QED
  BY <1>1, <1>2, <1>3, <1>4
  DEF Next, HttpAdd, HttpReplace, HttpDel, HttpLibrary, WsCommand, WsSearchMany,
      WsReconnect

\* And between two rounds no other step starts one.
LEMMA RoundStarts ==
  ASSUME TypeOK, [Next]_vars, ~Poll, job.at \notin {"sync", "publish"}
  PROVE  job'.at \notin {"sync", "publish"}
<1>1. CASE HttpSteps
  <2>1. /\ Goto("add") => job'.at = "add"
        /\ Goto("play") => job'.at = "play"
        /\ job' = IdleJob => job'.at = "idle"
    BY DEF Goto, TypeOK, Jobs, IdleJob
  <2>2. CASE ClearIfEmpty \/ MakeupPos \/ Play
    <3>1. Goto("add") \/ Goto("play") \/ job' = IdleJob
      BY <2>2 DEF ClearIfEmpty, MakeupPos, Play
    <3>2. QED
      BY <2>1, <3>1
  <2>3. CASE AddSong
    <3>1. PICK first : job' = [job EXCEPT !.body = Tail(@), !.first = first]
      BY <2>3 DEF AddSong
    <3>2. job'.at = job.at
      BY <3>1 DEF TypeOK, Jobs
    <3>3. QED
      BY <3>2
  <2>4. QED
    BY <1>1, <2>2, <2>3 DEF HttpSteps
<1>2. ASSUME NEW how, Ends(how)
      PROVE  job'.at \notin {"sync", "publish"}
  BY <1>2 DEF Ends, IdleJob
<1>3. CASE UNCHANGED job
  BY <1>3
<1>4. CASE UNCHANGED vars \/ Exit \/ Kill \/ Start \/ OtherClient \/ LinkDrops
           \/ MpdStops \/ MpdStarts
  BY <1>2, <1>3, <1>4 DEF vars, Exit, Kill, Start, OtherClient, LinkDrops, MpdStops,
                          MpdStarts
<1>5. CASE HttpLibrary \/ WsCommand \/ WsSearchMany \/ WsReconnect
           \/ \E e \in mirror : HttpDel(e.sid)
  BY <1>2, <1>3, <1>5 DEF HttpLibrary, HttpDel, NullConn, WsCommand, WsSearchMany,
                          WsReconnect
<1>6. ASSUME NEW body, NEW play \in BOOLEAN, NEW by,
             job' = [at |-> "clear", by |-> by, body |-> body, play |-> play, first |-> 0]
      PROVE  job'.at \notin {"sync", "publish"}
  BY <1>6
<1>7. CASE job' = IdleJob
  BY <1>7 DEF IdleJob
<1>8. ASSUME NEW body, NEW play \in BOOLEAN, HttpAdd(body, play)
      PROVE  job'.at \notin {"sync", "publish"}
  BY <1>2, <1>6, <1>8, Zenon DEF HttpAdd, NullConn
<1>9. ASSUME NEW body, NEW play \in BOOLEAN, NEW ok \in BOOLEAN,
             HttpReplace(body, play, ok)
      PROVE  job'.at \notin {"sync", "publish"}
  BY <1>2, <1>6, <1>7, <1>9, Zenon DEF HttpReplace, NullConn
<1>10. QED
  BY <1>1, <1>4, <1>5, <1>8, <1>9, Zenon DEF Next

\* Every step keeps the order of the versions.
LEMMA StepInOrder ==
  ASSUME TypeOK, TypeOK', NotAhead, InOrder, AllAnnounced, [Next]_vars, ~MpdStarts
  PROVE  InOrder'
<1> USE DEF InOrder
<1>1. /\ verSynced \in Nat /\ queueVersion \in Nat /\ mpdVersion \in Nat
      /\ announced \in Nat /\ listed \in Nat /\ mpdVersion' \in Nat
      /\ verSynced <= mpdVersion /\ queueVersion <= mpdVersion
  BY DEF TypeOK, ServerType, NotAhead
<1>2. mpdVersion <= mpdVersion'
  <2>1. QueueStep \/ UNCHANGED server
    BY NextServer
  <2>2. QED
    BY <1>1, <2>1 DEF QueueStep, server
<1>3. ASSUME NEW how, Ends(how)
      PROVE  InOrder'
  BY <1>1, <1>2, <1>3 DEF Ends
<1>4. CASE UNCHANGED marks
  BY <1>1, <1>2, <1>4 DEF marks
<1>5. CASE Poll
  <2>1. CASE PollStatus
    <3>1. /\ queueVersion' \in {queueVersion, mpdVersion}
          /\ UNCHANGED <<verSynced, announced, listed, mpdVersion>>
      BY <2>1 DEF PollStatus, server
    <3>2. QED
      BY <1>1, <3>1
  <2>2. CASE PollSync
    <3>1. listed' \in {mpdVersion, listed}
      BY <2>2, SyncType DEF PollSync
    <3>2. QED
      BY <1>1, <1>2, <2>2, <3>1 DEF PollSync
  <2>3. CASE PollFirstSync
    <3>1. listed' \in {mpdVersion, listed}
      BY <2>3, SyncType DEF PollFirstSync
    <3>2. QED
      BY <1>1, <1>2, <2>3, <3>1 DEF PollFirstSync
  <2>4. CASE PollPublish
    BY <1>1, <1>2, <2>4 DEF PollPublish
  <2>5. CASE PollConnect \/ PollDrop
    BY <1>4, <2>5 DEF PollConnect, PollDrop
  <2>6. QED
    BY <1>5, <2>1, <2>2, <2>3, <2>4, <2>5 DEF Poll
<1>6. QED
  BY <1>3, <1>4, <1>5, MarksStep

\* A step that is not the poll thread's spoils neither a listing nor a notice that
\* is due: it may change mpd's queue, under a newer version, or lose the link.
LEMMA OtherStepsKeepRound ==
  ASSUME TypeOK, FeedInv, [Next]_vars, ~Poll, ~MpdStarts, ~MpdStops
  PROVE  AllAnnounced' /\ SyncOverLink' /\ FreshBeforeNotice'
<1> USE DEF AllAnnounced, SyncOverLink, FreshBeforeNotice
<1>1. ASSUME NEW how, Ends(how)
      PROVE  AllAnnounced' /\ SyncOverLink' /\ FreshBeforeNotice'
  BY <1>1 DEF Ends, IdleJob
<1>2. ASSUME ~ \E how \in {"stopped", "crashed"} : Ends(how)
      PROVE  UNCHANGED <<queueVersion, announced, listed>>
  BY <1>2, MarksStep DEF marks
<1>3. CASE job.at \notin {"sync", "publish"}
  <2>1. job'.at \notin {"sync", "publish"}
    BY <1>3, RoundStarts
  <2>2. AllAnnounced
    BY DEF FeedInv
  <2>3. QED
    BY <1>1, <1>2, <1>3, <2>1, <2>2
<1>4. ASSUME job.at \in {"sync", "publish"}, ~ \E how \in {"stopped", "crashed"} : Ends(how)
      PROVE  AllAnnounced' /\ SyncOverLink' /\ FreshBeforeNotice'
  <2>1. UNCHANGED <<job, connState, err, mirror>> /\ conn' \in {conn, "lost"}
    BY <1>4, RoundAlone
  <2>2. UNCHANGED <<queueVersion, announced, listed>>
    BY <1>2, <1>4
  <2>3. AllAnnounced' /\ SyncOverLink'
    BY <1>4, <2>1, <2>2 DEF FeedInv
  <2>4. ReadSince => ReadSince'
    <3>1. CASE UNCHANGED server
      BY <2>1, <2>2, <3>1 DEF ReadSince, server, Image
    <3>2. CASE QueueStep
      BY <2>2, <3>2 DEF ReadSince, FeedInv, InOrder, QueueStep, TypeOK, ServerType
    <3>3. QED
      BY <3>1, <3>2, NextServer
  <2>5. FreshBeforeNotice'
    BY <1>4, <2>1, <2>2, <2>4 DEF FeedInv
  <2>6. QED
    BY <2>3, <2>5
<1>5. QED
  BY <1>1, <1>3, <1>4

\* A listing over the link the status came over: it brings the mirror to mpd's
\* queue as it is now, or has lost the link.
LEMMA ListingOverLink ==
  ASSUME TypeOK, IdInv, NotAhead, err = "none", conn # "stuck", SyncFromMpd,
         UNCHANGED <<server, queueVersion>>
  PROVE  ReadSince' \/ err' = "fatal"
<1>1. PICK r \in Results(FALSE) :
        /\ mirror' = IF r.ok THEN Rebuilt(mirror, mpdQueue) ELSE mirror
        /\ listed' = IF r.ok THEN mpdVersion ELSE listed
        /\ err' = IF r.ok THEN r.err ELSE Cleared(r.err)
  BY DEF SyncFromMpd
<1>2. CASE r.ok
  <2>1. mirror' = Image(mpdQueue)' /\ listed' = mpdVersion
    BY <1>1, <1>2, RebuiltIsImage DEF server, Image
  <2>2. queueVersion' <= mpdVersion
    BY DEF NotAhead
  <2>3. mpdVersion \in Nat /\ queueVersion' \in Nat
    BY DEF TypeOK, ServerType
  <2>4. QED
    BY <2>1, <2>2, <2>3 DEF ReadSince
<1>3. CASE ~r.ok
  <2>1. CASE conn = "live"
    BY <1>1, <1>3, <2>1, ResultFacts DEF Cleared
  <2>2. CASE conn # "live"
    BY <1>1, <1>3, <2>2 DEF Results, Result, Cleared
  <2>3. QED
    BY <2>1, <2>2
<1>4. QED
  BY <1>2, <1>3

\* Nor do the steps of the poll thread.
LEMMA PollKeepsRound ==
  ASSUME TypeOK, FeedInv, Poll
  PROVE  AllAnnounced' /\ SyncOverLink' /\ FreshBeforeNotice'
<1> USE DEF AllAnnounced, SyncOverLink, FreshBeforeNotice
<1>0. /\ IdInv /\ ReadIsSynced /\ NotAhead
      /\ AllAnnounced /\ SyncOverLink /\ FreshBeforeNotice
  BY DEF FeedInv
<1>1. CASE PollConnect
  BY <1>0, <1>1 DEF PollConnect, Goto, TypeOK, Jobs, Idle, marks
<1>2. CASE PollDrop
  BY <1>0, <1>2 DEF PollDrop, Idle, marks
<1>3. CASE PollFirstSync
  BY <1>0, <1>3 DEF PollFirstSync, Goto, TypeOK, Jobs
<1>4. CASE PollStatus
  <2>1. PICK r \in Results(FALSE) :
          /\ err' = r.err
          /\ connState' = IF r.ok THEN connState ELSE "FAILURE"
          /\ queueVersion' = IF r.ok THEN mpdVersion ELSE queueVersion
          /\ Goto(IF r.ok /\ MustRebuild(mpdVersion) THEN "sync" ELSE "publish")
    BY <1>4 DEF PollStatus
  <2>2. /\ connState = "CONNECTED" /\ job.at = "idle"
        /\ UNCHANGED <<conn, verSynced, announced>>
    BY <1>4 DEF PollStatus, Idle
  <2>3. announced = queueVersion /\ verSynced = queueVersion
    BY <1>0, <2>2 DEF ReadIsSynced
  <2>4. job'.at = IF r.ok /\ MustRebuild(mpdVersion) THEN "sync" ELSE "publish"
    BY <2>1 DEF Goto, TypeOK, Jobs
  <2>5. CASE r.ok /\ MustRebuild(mpdVersion)
    <3>1. err' = "none" /\ conn = "live" /\ connState' = "CONNECTED"
      BY <2>1, <2>2, <2>5, ResultFacts
    <3>2. QED
      BY <2>2, <2>4, <2>5, <3>1
  <2>6. CASE ~(r.ok /\ MustRebuild(mpdVersion))
    <3>1. queueVersion' = queueVersion
      BY <2>1, <2>3, <2>6 DEF MustRebuild
    <3>2. QED
      BY <2>2, <2>3, <2>4, <2>6, <3>1
  <2>7. QED
    BY <2>5, <2>6
<1>5. CASE PollSync
  <2>1. job'.at = "publish" /\ UNCHANGED <<connState, queueVersion, announced>>
    BY <1>5 DEF PollSync, Goto, TypeOK, Jobs
  <2>2. connState = "CONNECTED" /\ err = "none" /\ conn # "stuck"
    BY <1>0, <1>5 DEF PollSync
  <2>3. ReadSince' \/ err' = "fatal"
    BY <1>0, <1>5, <2>2, ListingOverLink DEF PollSync
  <2>4. QED
    BY <2>1, <2>2, <2>3
<1>6. CASE PollPublish
  BY <1>0, <1>6 DEF PollPublish, IdleJob
<1>7. QED
  BY <1>1, <1>2, <1>3, <1>4, <1>5, <1>6 DEF Poll

\* The inductive invariant of the announcements.
LEMMA StepFeedInv ==
  ASSUME TypeOK, TypeOK', FeedInv, [Next]_vars, ~MpdRestarts
  PROVE  FeedInv'
<1>0. IdInv /\ ReadIsSynced /\ NotAhead /\ InOrder /\ AllAnnounced
  BY DEF FeedInv
<1>1. ~MpdStarts /\ ~MpdStops
  BY <1>0 DEF IdInv, MpdStarts, MpdStops
<1>2. IdInv' /\ ReadIsSynced' /\ NotAhead'
  BY <1>0, <1>1, StepIds, StepReadIsSynced, StepNotAhead
<1>3. InOrder'
  BY <1>0, <1>1, StepInOrder
<1>4. AllAnnounced' /\ SyncOverLink' /\ FreshBeforeNotice'
  BY <1>1, OtherStepsKeepRound, PollKeepsRound
<1>5. QED
  BY <1>2, <1>3, <1>4 DEF FeedInv

\* It holds in every reachable state.
LEMMA FeedInvariant == ~MpdRestarts => (Spec => []FeedInv)
<1> SUFFICES ASSUME ~MpdRestarts PROVE Spec => []FeedInv
  OBVIOUS
<1>1. Init => FeedInv
  BY InitIds DEF Init, FreshProcess, IdleJob, FeedInv, ReadIsSynced, NotAhead, InOrder,
                 AllAnnounced, SyncOverLink, FreshBeforeNotice
<1>2. TypeOK /\ TypeOK' /\ FeedInv /\ [Next]_vars => FeedInv'
  BY StepFeedInv
<1>3. QED
  BY <1>1, <1>2, TypeCorrect, PTL DEF Spec

\* A version is announced only when the mirror was read from mpd at that version or
\* a later one, and is mpd's queue if it has not changed since; the one exception is
\* a connection that was lost before the listing.
THEOREM AnnouncedWhenRead == ~MpdRestarts => (Spec => AnnouncedAfterSync)
<1> SUFFICES ASSUME ~MpdRestarts PROVE Spec => AnnouncedAfterSync
  OBVIOUS
<1>1. FeedInv /\ [Next]_vars
        => [announced' # announced /\ Running'
            => \/ listed >= announced' /\ (listed = mpdVersion => mirror = Image(mpdQueue))
               \/ err = "fatal"]_vars
  <2> SUFFICES ASSUME FeedInv, Next, announced' # announced, Running', err # "fatal"
               PROVE  /\ listed >= announced'
                      /\ listed = mpdVersion => mirror = Image(mpdQueue)
    OBVIOUS
  <2>1. CASE PollPublish
    BY <2>1 DEF PollPublish, FeedInv, FreshBeforeNotice, ReadSince
  <2>2. ASSUME NEW how \in {"stopped", "crashed"}, Ends(how)
        PROVE  FALSE
    BY <2>2 DEF Ends, Running
  <2>3. CASE Poll /\ ~PollPublish
    BY <2>3 DEF Poll, PollConnect, PollDrop, PollFirstSync, PollStatus, PollSync, marks
  <2>4. QED
    BY <2>1, <2>2, <2>3, MarksStep DEF marks
<1>2. QED
  BY <1>1, FeedInvariant, PTL DEF Spec, AnnouncedAfterSync

-----------------------------------------------------------------------------
(***************************************************************************)
(* The refinement of QueueFeed.                                            *)
(***************************************************************************)

\* The steps of the poll thread are steps of the feed, or stutter.
LEMMA PollFeeds ==
  ASSUME TypeOK, TypeOK', FeedInv, Poll
  PROVE  [Feed!Next]_(Feed!vars)
<1>1. mpdVersion' = mpdVersion /\ (err' = "fatal") \in BOOLEAN
  BY DEF Poll, PollConnect, PollDrop, PollFirstSync, PollStatus, PollSync,
         PollPublish, server
<1>2. CASE UNCHANGED <<announced, listed>>
  BY <1>1, <1>2 DEF Feed!Next, Feed!Relink
<1>3. CASE PollSync \/ PollFirstSync
  <2>1. SyncFromMpd /\ announced' = announced
    BY <1>3 DEF PollSync, PollFirstSync
  <2>2. PICK r \in Results(FALSE) :
          /\ listed' = IF r.ok THEN mpdVersion ELSE listed
          /\ err' = IF r.ok THEN r.err ELSE Cleared(r.err)
    BY <2>1 DEF SyncFromMpd
  <2>3. CASE r.ok
    <3>1. listed' = mpdVersion /\ err' = "none"
      BY <2>2, <2>3, ResultFacts
    <3>2. QED
      BY <1>1, <2>1, <3>1 DEF Feed!Next, Feed!Take
  <2>4. QED
    BY <1>2, <2>1, <2>2, <2>3
<1>4. CASE PollPublish
  <2>1. listed' = 0 /\ announced' \in {announced, queueVersion} /\ job.at = "publish"
    BY <1>4 DEF PollPublish
  <2>2. announced # queueVersion => listed >= queueVersion \/ err = "fatal"
    BY <2>1 DEF FeedInv, FreshBeforeNotice, ReadSince
  <2>3. announced <= queueVersion /\ queueVersion <= mpdVersion
    BY DEF FeedInv, InOrder, NotAhead
  <2>4. announced \in Nat /\ queueVersion \in Nat /\ mpdVersion \in Nat /\ listed \in Nat
    BY DEF TypeOK, ServerType
  <2>5. err = "fatal" => err' = "fatal"
    BY <1>4, ResultFacts DEF PollPublish, Cleared
  <2>6. announced' \in {announced}
                      \cup announced..(IF err = "fatal" THEN mpdVersion ELSE listed)
    BY <2>1, <2>2, <2>3, <2>4
  <2>7. QED
    BY <1>1, <2>1, <2>5, <2>6 DEF Feed!Next, Feed!Tell
<1>5. CASE PollConnect \/ PollDrop \/ PollStatus
  BY <1>2, <1>5 DEF PollConnect, PollDrop, PollStatus, marks
<1>6. QED
  BY <1>3, <1>4, <1>5 DEF Poll

\* So are all the others: changes of the queue, of the link, and the end of the
\* process.
LEMMA StepFeeds ==
  ASSUME TypeOK, TypeOK', FeedInv, [Next]_vars, ~MpdRestarts
  PROVE  [Feed!Next]_(Feed!vars)
<1>1. mpdVersion' \in {mpdVersion, mpdVersion + 1} /\ (err' = "fatal") \in BOOLEAN
  <2>1. ~MpdStarts
    BY DEF FeedInv, IdInv, MpdStarts
  <2>2. QED
    BY <2>1, NextServer DEF QueueStep, server
<1>2. ASSUME NEW how, Ends(how)
      PROVE  [Feed!Next]_(Feed!vars)
  BY <1>1, <1>2 DEF Ends, Feed!Next, Feed!Forget
<1>3. CASE UNCHANGED marks
  BY <1>1, <1>3 DEF marks, Feed!Next, Feed!Change, Feed!Relink
<1>4. QED
  BY <1>2, <1>3, PollFeeds, MarksStep

\* The mirror implements the promise about versions, whatever songs mpd refuses,
\* as long as it keeps running.
THEOREM MirrorFeeds == ~MpdRestarts => (Spec => ImplementsFeed)
<1> SUFFICES ASSUME ~MpdRestarts PROVE Spec => ImplementsFeed
  OBVIOUS
<1>1. Init => Feed!Init
  BY DEF Init, FreshProcess, Feed!Init
<1>2. TypeOK /\ TypeOK' /\ FeedInv /\ [Next]_vars => [Feed!Next]_(Feed!vars)
  BY StepFeeds
<1>3. QED
  BY <1>1, <1>2, TypeCorrect, FeedInvariant, PTL DEF Spec, ImplementsFeed, Feed!Spec
=============================================================================
