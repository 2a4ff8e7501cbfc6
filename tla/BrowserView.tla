---------------------------- MODULE BrowserView ----------------------------
(***************************************************************************)
(* The queue the open pages show, composed with the queue mirror they read *)
(* it from.  The poll thread announces a new queue version by a datagram   *)
(* through mongoose's wakeup socket; the event thread passes it to every   *)
(* WebSocket it marked; a page answers with GET /api/queue and shows the   *)
(* answer that arrives.  Messages other than update_queue are left out: no *)
(* page fetches the queue because of them.                                 *)
(***************************************************************************)
EXTENDS MpdQueueMirror

CONSTANTS
  Pages,        \* the pages: a browser tab each
  PipeSlots,    \* bound: announcements the wakeup socket holds beside other messages
  MaxOpenings,  \* bound: how often pages are loaded
  Overtaking,   \* whether answers on two connections may arrive in any order
  GetsFail      \* whether a GET may fail on its way

ASSUME BrowserAssumption ==
  /\ PipeSlots \in Nat /\ MaxOpenings \in Nat
  /\ Overtaking \in BOOLEAN /\ GetsFail \in BOOLEAN

VARIABLES
  pipe,     \* announcements in the wakeup socket
  socket,   \* per page: "none", "connecting" (upgrade asked for), "open"
            \* (marked 'W'), "closed"
  wire,     \* per page: announcements on their way through its WebSocket
  asked,    \* per page: GET /api/queue sent and not yet served
  answers,  \* per page: answers on their way, in the order they were served;
            \* old once a later one has arrived
  shown,    \* per page: state.queue
  blind,    \* per page, history: whether it may have missed a change since its
            \* last GET was served, and whether a later answer was overtaken
  openings

pages    == <<socket, wire, asked, answers, shown, blind>>
viewVars == <<vars, pipe, pages, openings>>

Reasons == {"missed", "overtaken"}

\* The handlers of HTTP requests run in the event thread.
EventThreadFree == proc = "running" /\ job.by = "none"

-----------------------------------------------------------------------------
(***************************************************************************)
(* The server's queue, and the announcement it hands to the wakeup socket. *)
(***************************************************************************)

BlameIf(unheard) ==
  blind' = [p \in Pages |-> IF unheard THEN blind[p] \cup {"missed"} ELSE blind[p]]

\* Mutant: without a limit.
AnnounceAnyway == pipe' = pipe + 1 /\ UNCHANGED blind

\* mg_wakeup sends without blocking and looks at no result: a full socket
\* swallows the announcement, and the poll thread has noted it as made.
Announce ==
  /\ pipe' = IF pipe < PipeSlots THEN pipe + 1 ELSE pipe
  /\ BlameIf(pipe >= PipeSlots)

\* The first listing over a new connection repairs the mirror without a new
\* version, so without an announcement.
PollStep ==
  /\ Poll
  /\ IF announced' # announced THEN Announce
     ELSE /\ BlameIf(job.at = "firstSync" /\ mirror' # mirror)
          /\ UNCHANGED pipe
  /\ UNCHANGED <<socket, wire, asked, answers, shown, openings>>

HandlerStep ==
  /\ HttpSteps
  /\ UNCHANGED <<pipe, pages, openings>>

\* Requests, other clients, mpd, the link, start and end of the process.  A
\* process that ends takes its sockets and the unanswered GETs along.  A delete
\* or replace that does not reach mpd changes the mirror alone.
OtherStep ==
  /\ Next /\ ~Poll /\ ~HttpSteps
  /\ IF proc = "running" /\ proc' # "running"
       THEN /\ pipe' = 0
            /\ socket' = [p \in Pages |->
                 IF socket[p] = "none" THEN "none" ELSE "closed"]
            /\ asked' = [p \in Pages |-> 0] /\ wire' = [p \in Pages |-> 0]
            /\ UNCHANGED <<answers, shown, blind>>
       ELSE /\ BlameIf(mirror' # mirror /\ mpdVersion' = mpdVersion)
            /\ UNCHANGED <<pipe, socket, wire, asked, answers, shown>>
  /\ UNCHANGED openings

-----------------------------------------------------------------------------
(***************************************************************************)
(* The event thread.                                                       *)
(***************************************************************************)

Marked(p) == socket[p] = "open"

\* MG_EV_WAKEUP: to every marked connection.  A page that is not marked yet
\* and whose GET was served before does not hear of the change.
Broadcast ==
  /\ EventThreadFree /\ pipe > 0
  /\ pipe' = pipe - 1
  /\ wire' = [p \in Pages |-> IF Marked(p) THEN wire[p] + 1 ELSE wire[p]]
  /\ blind' = [p \in Pages |->
       IF Marked(p) \/ asked[p] > 0 THEN blind[p] ELSE blind[p] \cup {"missed"}]
  /\ UNCHANGED <<vars, socket, asked, answers, shown, openings>>

Upgrade(p) ==
  /\ EventThreadFree /\ socket[p] = "connecting"
  /\ socket' = [socket EXCEPT ![p] = "open"]
  /\ UNCHANGED <<vars, pipe, wire, asked, answers, shown, blind, openings>>

\* GET /api/queue, under mpd_lock.
Serve(p) ==
  /\ proc = "running" /\ Idle /\ asked[p] > 0
  /\ asked' = [asked EXCEPT ![p] = @ - 1]
  /\ answers' = [answers EXCEPT ![p] = Append(@, [view |-> mirror, old |-> FALSE])]
  /\ blind' = [blind EXCEPT ![p] = @ \cap {"overtaken"}]
  /\ UNCHANGED <<vars, pipe, socket, wire, shown, openings>>

-----------------------------------------------------------------------------
(***************************************************************************)
(* The page.                                                               *)
(***************************************************************************)

\* Loading the page opens the socket and, when PlayerQueue is mounted, sends
\* the first GET.  The socket is never opened again.
OpenPage(p) ==
  /\ openings > 0 /\ openings' = openings - 1
  /\ socket' = [socket EXCEPT ![p] = IF proc = "running" THEN "connecting"
                                     ELSE "closed"]
  /\ asked' = [asked EXCEPT ![p] = IF proc = "running" THEN 1 ELSE 0]
  /\ wire' = [wire EXCEPT ![p] = 0]
  /\ answers' = [answers EXCEPT ![p] = <<>>]
  /\ shown' = [shown EXCEPT ![p] = {}]
  /\ blind' = [blind EXCEPT ![p] = {}]
  /\ UNCHANGED <<vars, pipe>>

\* Mutant: no fetch while an answer is awaited.
OnUpdateQueueOnce(p) ==
  /\ wire[p] > 0
  /\ wire' = [wire EXCEPT ![p] = @ - 1]
  /\ asked' = [asked EXCEPT ![p] = IF answers[p] = <<>> THEN @ + 1 ELSE @]
  /\ UNCHANGED <<vars, pipe, socket, answers, shown, blind, openings>>

\* Mutant: nobody listens to playerEnqueued.
OnUpdateQueueUnheard(p) ==
  /\ wire[p] > 0
  /\ wire' = [wire EXCEPT ![p] = @ - 1]
  /\ UNCHANGED <<vars, pipe, socket, asked, answers, shown, blind, openings>>

\* update_queue -> playerEnqueued -> fetch, whatever else is under way.
OnUpdateQueue(p) ==
  /\ wire[p] > 0
  /\ wire' = [wire EXCEPT ![p] = @ - 1]
  /\ asked' = [asked EXCEPT ![p] = @ + 1]
  /\ UNCHANGED <<vars, pipe, socket, answers, shown, blind, openings>>

\* setState with the answer that arrived, be it older than the one shown.
Arrive(p) ==
  /\ \E k \in (IF Overtaking THEN DOMAIN answers[p]
               ELSE DOMAIN answers[p] \cap {1}) :
       /\ shown' = [shown EXCEPT ![p] = answers[p][k].view]
       /\ answers' = [answers EXCEPT ![p] =
            [i \in 1..(Len(@) - 1) |->
               IF i < k THEN [@[i] EXCEPT !.old = TRUE] ELSE @[i + 1]]]
       /\ blind' = [blind EXCEPT ![p] =
            IF answers[p][k].old THEN @ \cup {"overtaken"}
                                 ELSE @ \ {"overtaken"}]
  /\ UNCHANGED <<vars, pipe, socket, wire, asked, openings>>

\* The fetch fails, on its way there or on its way back: a network error, another
\* status, no JSON.  That is logged and not tried again; it costs the page a change
\* if no later answer has arrived or is under way.  (A GET that does not reach the
\* server is one whose answer does not arrive: serving it changes nothing there.)
GetFails(p) ==
  /\ GetsFail
  /\ \E k \in DOMAIN answers[p] :
       /\ answers' = [answers EXCEPT ![p] =
            [i \in 1..(Len(@) - 1) |-> IF i < k THEN @[i] ELSE @[i + 1]]]
       /\ blind' = [blind EXCEPT ![p] =
            IF k = Len(answers[p]) /\ ~answers[p][k].old THEN @ \cup {"missed"} ELSE @]
  /\ UNCHANGED <<vars, pipe, socket, wire, asked, shown, openings>>

-----------------------------------------------------------------------------
ViewInit ==
  /\ Init
  /\ pipe = 0 /\ openings = MaxOpenings
  /\ socket  = [p \in Pages |-> "none"]
  /\ wire    = [p \in Pages |-> 0]
  /\ asked   = [p \in Pages |-> 0]
  /\ answers = [p \in Pages |-> <<>>]
  /\ shown   = [p \in Pages |-> {}]
  /\ blind   = [p \in Pages |-> {}]

EventThread == HandlerStep \/ Broadcast \/ \E p \in Pages : Upgrade(p)
Page(p)     == OnUpdateQueue(p) \/ Arrive(p)

ViewNext ==
  \/ PollStep
  \/ EventThread
  \/ OtherStep
  \/ \E p \in Pages : Serve(p) \/ OpenPage(p) \/ Page(p) \/ GetFails(p)

\* The poll thread polls, the event thread goes on with what is ready, TCP
\* delivers and the page handles what it gets.  A GET waits for mpd_lock, which
\* is free during the second the poll thread sleeps in every round: strong
\* fairness.
ViewFairness ==
  /\ WF_viewVars(PollStep) /\ WF_viewVars(EventThread)
  /\ \A p \in Pages : SF_viewVars(Serve(p)) /\ WF_viewVars(Page(p))

ViewSpec     == ViewInit /\ [][ViewNext]_viewVars
FairViewSpec == ViewSpec /\ ViewFairness

-----------------------------------------------------------------------------
(***************************************************************************)
(* Properties.                                                             *)
(***************************************************************************)

Views == SUBSET MirrorEntries

ViewTypeOK ==
  /\ TypeOK
  /\ pipe \in 0..PipeSlots /\ openings \in 0..MaxOpenings
  /\ socket \in [Pages -> {"none", "connecting", "open", "closed"}]
  /\ wire \in [Pages -> Nat] /\ asked \in [Pages -> Nat]
  /\ answers \in [Pages -> Seq([view : Views, old : BOOLEAN])]
  /\ shown \in [Pages -> Views]
  /\ blind \in [Pages -> SUBSET Reasons]

\* Nothing is on its way to the page, and the poll thread has seen and
\* announced everything there is.
Settled(p) ==
  /\ Marked(p) /\ pipe = 0 /\ wire[p] = 0 /\ asked[p] = 0 /\ answers[p] = <<>>
  /\ Idle /\ BelievedCurrent /\ announced = mpdVersion

\* A settled page shows mpd's queue, unless one of these befell it since its
\* last GET was served: the change was broadcast before its socket was marked;
\* the wakeup socket was full; the mirror changed without a new version
\* (repaired on a new connection, or by a request that did not reach mpd); an
\* older answer overtook a newer one; or a GET failed (player.js:61-63,
\* queue.js:26-42, main.cpp:136-145).
StaleOnlyIf ==
  \A p \in Pages : Settled(p) /\ blind[p] = {} => shown[p] = Image(mpdQueue)

\* A page whose socket stays open and that misses nothing comes to show the
\* mirror for good, once requests, edits and faults stop.
Follows ==
  StaysUp /\ []mpdUp =>
    \A p \in Pages : <>[](Marked(p) /\ blind[p] = {}) => <>[](shown[p] = mirror)

\* Every page whose socket is open comes to show mpd's queue.
PagesAgree ==
  StaysUp /\ []mpdUp =>
    \A p \in Pages : <>[]Marked(p) => <>[](shown[p] = Image(mpdQueue))
=============================================================================
