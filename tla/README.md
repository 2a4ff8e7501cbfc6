# aurmpd: verification project

aurmpd is a small web server in front of the music player daemon mpd. It keeps
one connection to mpd, serves a play queue and a library to browsers over HTTP,
passes player commands on over a WebSocket, and on Windows is started together
with mpd by a tray launcher. This directory holds TLA+ models of it, the TLC
configurations that check them and the proofs that TLAPS checks.

    tlc -workers 2 -config mirror_safety.cfg MCMpdQueueMirror
    tlc -workers 2 -config mirror_live.cfg MCMpdQueueMirror
    tlc -workers 2 -config browser_view.cfg MCBrowserView
    tlc -workers 2 -config audio_switch.cfg AudioSwitch
    tlc -workers 2 -config shutdown.cfg Shutdown
    tlc -workers 2 -config mpd_conf.cfg MCMpdConf
    tlapm MpdQueueMirror_proofs.tla     (and the other *_proofs modules)

## 1. The system

| Part | Source | State | Operations | Talks to |
|---|---|---|---|---|
| mpd (external) | - | queue of songs with ids, queue version, player | add, delete, move, clear, status, list | its clients |
| Shared connection | `mpd_client.c`, `mpd_client.h:84-106` | `mpd.conn`, `mpd.conn_state`, the sticky error of libmpdclient, `mpd.buf` | connect, command, clear error, drop | all threads, under `mpd_lock` |
| Poll thread | `main.cpp:57-70`, `mpd_client.c:991-1128` | `s_queue_synced`, `s_queue_version_synced`, `mpd.queue_version`, what was announced | once a second: connect, or drop, or status / rebuild / announce | mpd, mirror, browsers (`mg_wakeup`) |
| Queue mirror SQ | `mpdqueue.cpp`, `queue.cpp` | vector of songs with `queue_sid` and `pos` | addSong, makeupPos, clear, playPos, playSid, removeSongBySid, syncFromMpd | mpd |
| HTTP routes | `http_server.cpp` | - | `/api/queue`, `add`, `replace`, `del`, `/api/library` | mirror, library |
| WebSocket commands | `mpd_client.c:586-957` | - | some 35 commands, most of them one mpd command | mpd, browsers |
| Library | `library.cpp`, `album.cpp` | albums and their songs | clear, getMpdDB, AlbumToJson | mpd |
| Audio switch (Windows) | `mpd_client.c:213-544`, `audio_devices.c` | `pending`, `deadline`, files in `.mpd` and `mpd.conf` | save queue, edit configuration, request restart, restore | launcher through files |
| Launcher (Windows) | `winmain.c`, `winpipe.cpp` | two child processes, job object | start, restart mpd on request, stop both | files, named pipe `CLOSE` |
| Browser | `aurial/src/js` | shown queue, commands waiting for the socket | fetch queue, send command | HTTP, WebSocket |

What makes it hard: all threads share one connection whose errors are sticky;
mpd's queue is edited by other clients at any time; aurmpd keeps a copy and
decides from a version number whether it is current; handlers change the copy
before or after mpd has accepted the change; every command can time out with or
without having been executed; mpd and aurmpd are restarted independently, and
restarting mpd resets ids and versions.

What makes each part correct:

- mirror: equal to mpd's queue whenever the poll thread believes so, and
  eventually; an id means the same song on both sides; ids are unique.
- connection: after any failure it is replaced; nobody uses a null connection.
- announcements: `update_queue` only once the mirror was read from mpd at that
  version.
- audio switch: the queue survives it, the device takes effect, it ends. (That a
  failure is reported is not stated by any property.)
- shutdown: both processes end, however leaving meets what else is going on.
- mpd.conf: one device line in the right block, everything else untouched, never a
  half-written file.
- browser: what it shows at rest is mpd's queue.

`PROJECT.json` lists the components with what is left out of each, and the
hazards with the line each one bites at.

## 2. Modules

### MpdQueueMirror

The shared queue: mpd, the connection, the poll thread, the HTTP routes and the
WebSocket commands as far as they touch queue or connection.

| Variable | In the code |
|---|---|
| `mpdUp`, `mpdQueue`, `mpdVersion`, `nextSid` | mpd: whether it runs, its queue as `[sid, song]`, its playlist version, the next id |
| `proc` | the aurmpd process |
| `connState` | `mpd.conn_state`; `MPD_DISCONNECT` only occurs inside `mpd_clear_all`, part of the action `Exit` |
| `conn` | `mpd.conn`: `"null"`, or a connection that is live, lost, or stuck inside an unread answer |
| `err` | libmpdclient's error: none, one that `mpd_connection_clear_error` clears, or a fatal one |
| `mirror` | SQ as a set of `[sid, song, pos]` |
| `synced`, `verSynced` | `s_queue_synced`, `s_queue_version_synced` |
| `queueVersion`, `announced` | `mpd.queue_version`, `p->mpd_cs.queue_version` |
| `listed` | history: mpd's version at the listing of this poll round, 0 if that failed or there was none; the code only has `verSynced`, recorded after a failed listing too |
| `job` | who holds `mpd_lock` and which command comes next |

Every handler and every poll round holds `mpd_lock` from its first to its last
command (`http_server.cpp:183,200,217`, `mpd_client.c:600,1016`), so one `job`
suffices; but each mpd command is a step of its own, and between two of them
other clients edit the queue, the link drops, mpd stops, the process is killed.
A command (`Results`) fails unsent if there is an error on the connection; it
may be refused (error cleared later); it may time out whether or not mpd
executed it (fatal error).

Abstractions. A song is a uri. The order of the vector in SQ is left out: all
look-ups are by `queue_sid` or `pos`, and entries carry their `pos`. Status,
outputs, current song and library contents are left out, their effect on the
connection is not. A WebSocket command is any edit of the queue mpd offers, or
none, or a listing that fails the connection itself (`RefusedListing`). `MPD_API_GET_OUTPUTS` also runs `mpd_notify_callback`, which changes
nothing then, as between poll rounds `announced = queueVersion`. The platform is
the non-Windows build, where `audio_queue_restore` is empty.

### AudioSwitch

Switching the output on Windows: the handler of `MPD_API_SET_AUDIO_DEVICE`, its
part of `mpd_poll`, the launcher's `CheckMpdRestartRequest`, and mpd. The three
processes share nothing but files and the connection.

| Variable | In the code |
|---|---|
| `mpd`, `device`, `queue` | the mpd process, the device of the configuration it read, its queue |
| `conf`, `saved`, `request` | `mpd.conf`, `.mpd/aurmpd-restart-queue`, `.mpd/restart-request` |
| `launcher`, `seen` | where `CheckMpdRestartRequest` stands (`winmain.c:375-398`), the request it found |
| `connState`, `conn` | as above; `conn` also tells an error that was noticed |
| `handler` | where `mpd_api_set_audio_device` stands, under `mpd_lock` |
| `poll` | where `mpd_poll` stands: before the lock (`"check"`, `"late"`), at the lock, or inside the restore |
| `pending`, `deadline` | `s_audio_restart_pending`, `s_audio_restart_deadline` against the clock |
| `wanted`, `disturbed` | history: the queue as its users left it, whether a switch failed half way or overlapped with anything else |

Each effect that another process can see is a step of its own: the save, the
configuration, the request, the flag, the deadline; terminate, start, delete;
clear, add, publish. Devices are numbered by the switch that asks for them and
queues by the edit that made them, so the order of numbers is the order of
requests. The handler's early returns (unknown device, failed trial opening)
change nothing and are left out, as are the text of the result file and the
player settings in the save file. The save file is written in one step: a crash
that leaves a part of it is not represented (such a switch counts as disturbed, and
what then becomes of the queue is stated by no property). A restore that fails half way counts as one
that added nothing. Edits are those that go through aurmpd.

### QueueFeed

What the mirror promises about versions, as an abstract specification with four
variables: mpd's version, the version at which the served queue was read from mpd
since the last notice (0 if it was not), the version the browsers were told, and
whether the connection is lost.
`MpdQueueMirror` implements it under `version = mpdVersion, taken = listed, announced
= announced, lost = (err = "fatal")` (`ImplementsFeed`): a version that is
announced was listed in the same round, is not ahead of mpd and not older than the
last one. Over a lost connection
it promises less: the round whose listing failed still records the version it heard
of and announces it (`mpd_client.c:1116-1120`), so a version may be told that was
not taken. The detailed steps between, each command of a handler and a poll round,
are stutters.

### BrowserView

The pages, composed with the mirror: the module extends `MpdQueueMirror`, and every
step of the mirror is of one of three kinds here. A step of the poll thread may
announce (`PollStep`), one that ends the process takes the sockets along
(`OtherStep`), and a handler under way leaves the pages alone (`HandlerStep`).

| Variable | In the code |
|---|---|
| `pipe` | datagrams in the socket pair of `mg_wakeup` (`mongoose.c:8418-8450`) that say `update_queue` |
| `socket` | per page, its WebSocket: opened once (`mpdws.js:15`), marked `'W'` on upgrade (`main.cpp:113-114`) |
| `wire`, `asked`, `answers` | per page, announcements, unserved `GET /api/queue` and answers under way |
| `shown` | `state.queue` of `PlayerQueue` |
| `blind` | history: whether the page may have missed a change since its last GET was served (`"missed"`), and whether an answer has arrived after a later one (`"overtaken"`) |
| `openings` | bound: how often pages are still loaded (`OpenPage`) |

`mg_wakeup` does not block and looks at no result, so a full socket loses the
announcement, and `mpd_notify_callback` notes it as made. The broadcast goes to
marked connections only. Answers come over different connections, so they may
overtake each other (`Overtaking`), and the page shows whichever arrives. A `GET` may
fail on the way there or back (`GetsFail`): the page logs that, keeps what it shows and
does not ask again (`queue.js:31-42`).
Messages other than `update_queue` fetch no queue and are left out.

### Shutdown

The launcher with its two children and the job object, the named pipe, and the
three threads of aurmpd with `mpd_lock` and `force_exit`.

| Variable | In the code |
|---|---|
| `launcher` | where `WndProc` stands in `WM_CREATE`, `WM_TIMER`, `WM_DESTROY` |
| `child`, `assigned`, `handle` | the processes, the job `g_job`, `hChildProcess_mpd`, `hChildProcess_aurmpd` |
| `client`, `sent`, `listener` | the launcher's end of the pipe, `CLOSE` in it, where `pipe_poll` stands |
| `main`, `poller` | where `main` and `mpd_poll` stand |
| `lock`, `forceExit` | `mpd_mutex`, `force_exit` |

A wait with a timeout ends when its event happens or at any time before. What a
handler or a poll round does to mpd, and what either writes to `mpd.buf` and sends,
is not in it, only what they lock: a round is entered with the lock and left by the
one way out. A restart of mpd may go on while the old process is still dying.
Terminated processes die in a step of their own. The lock is recursive,
so that `mpd_clear_all` may poll while it holds it. Without the launcher and the
pipe thread the model is that of the other builds.

### MpdConf

`audio_devices.c` on `mpd.conf`: the line scanner, its two readers, and
`audio_conf_set_device` as read, write of the temporary file and replacement,
with a failure or a death of the process at each step, and with a short read:
`read_file` does not compare what `fread` returns with the size of the file
(`audio_devices.c:147-152`), so a part of it may be scanned, edited and renamed over
it (`Parts`).

| Variable | In the code |
|---|---|
| `conf`, `tmp` | `mpd.conf` and `mpd.conf.tmp` |
| `at`, `asked`, `result` | where `audio_conf_set_device` stands, its argument, what the last call returned |
| `read` | what the call has of `mpd.conf` (`data`) |
| `before`, `origin`, `whole` | history: the file the call found, the file at first, whether no part of the file has taken its place |
| `calls`, `short` | bounds: calls, and those that read a part only |

A file is a sequence of lines and a line a sequence of tokens: words (braces are
words), quoted strings, what stands in a comment. `BareOf` gives the places of a
line that `bare_of` copies, `KeyAt` and `ExtractValue` do to tokens what the code
does to characters. `Scanned` is the loop of `scan_conf`, as a recursive function
from the number of lines read to `struct conf_block`; `ScanConf` is its last value.

Beside it stands mpd's reading of the same file (external, as far as the comment
at `audio_devices.c:83-85` and the calls depend on it): `MpdBlock`, `MpdLines`,
`MpdValue`, and `Accepted`, the files mpd takes. A block opens at the end of a line
and closes on a line of its own, a line in the first `audio_output` block is empty,
a comment, or a key with one value, and no key comes twice. What lies outside that
block may be anything, as long as no line before it starts with the word
`audio_output`. Three things a file could hold are not in the model: a backslash
in a string, `#` or a brace inside a longer word, and values longer than the
buffers of `struct conf_block`. Blanks and indentation are left out.

### DeviceSetting

What `audio_devices.h:54` and `63-68` promise of a call, as an abstract specification:
the value mpd reads, the rest of the file, and a call that sets the one in a single
step, or fails, or dies, and does not touch the other. The code keeps this only for
calls that read the whole file, and the specification says so: one that succeeds
after a short read (`SucceedInPart`) leaves both open and ends the promise (`whole`),
while a failed call does nothing even then. `MpdConf` implements it under
`device = MpdValue(conf, "device")`, `rest = Rest(conf)`, `busy = (at # "idle")`
(`SetterSpec`); writing the temporary file is a stutter.

### What is left to do

1. `QueueOps`: the vector operations of SQ (`updateSonge`, `makeupPos`,
   `syncFromMpd`) as functions on sequences, against the set used here.
2. The browser's commands that wait for the socket to open (`mpdws.js:17-38`), and
   the page's own edits of the queue.

## 3. Runs

| Run | Question | Bounds | Result |
|---|---|---|---|
| `mirror_safety` | all safety and action properties and the refinement of `QueueFeed`, every song playable, mpd keeps running | 2 songs, bodies of at most 1 song, 4 inputs, 1 fault | holds, 755 133 states |
| `mirror_live` | does the mirror end up right once things calm down, does the connection always come back | 1 song, 3 inputs, 2 faults, restarts of mpd | holds, 316 065 states |
| `mirror_bad_song` | convergence with a song mpd refuses | 2 songs, 1 playable, 4 inputs | violated |
| `mirror_sid_reuse` | do ids name the same song across a restart of mpd | 2 songs, 3 inputs, 1 fault | violated |
| `mirror_null_conn` | does a malformed replace request leave the process running; no other requests are sent | 1 input | violated |
| `browser_view` | does a page at rest show mpd's queue, apart from the named cases; does it follow the mirror | 1 page, 1 song, 2 inputs, 1 fault, 1 load of the page, 1 place in the wakeup socket, answers in any order, failing GETs | holds, 696 288 states |
| `browser_gap` | does every page with an open socket come to show mpd's queue | 1 input, no fault, 1 load | violated |
| `audio_switch` | a switch left alone keeps the queue, requests are served with their configuration, switches end | 2 switches, 1 edit, 1 fault, slow restarts | holds, 78 463 states |
| `audio_queue_lost` | does the queue survive overlapping switches | 2 switches | violated |
| `audio_request_lost` | is the device shown as current in effect | 2 switches | violated |
| `shutdown` | do both processes end, on leaving, on `CLOSE`, on an interrupt, on a crash | 1 restart of mpd, 2 faults | holds, 17 383 states |
| `mpd_conf` | is the right line changed and nothing else until a call succeeds after a short read, is the file always the old or the new one, is a call one step of `DeviceSetting` | 228 files: 0-2 lines in the block, with and without other blocks; 1 device, 2 calls, 1 short read | holds, 260 742 states |

Bounds. `MaxInputs` bounds requests and edits by other clients together,
`MaxFaults` timeouts, dropped links, kills and restarts of mpd together. Four
inputs are enough for a request, a foreign edit before and one after it, and a
reconnect command; the mutants in `PROJECT.json`, each a plausible slip in the
code, are all caught within these bounds. Two songs tell a kept entry from a
replaced one, which is all the model distinguishes. Symmetry on songs is used
in the safety run only. Deadlock is not checked: the process may be stopped and
the budgets may be used up.

`audio_switch` has two switches, so that one can start at any point of another,
one edit and one fault (a failed write or start, a dropped link, a crash, a
reconnect command); `SlowRestarts` lets mpd come back after the timeout. It is
checked for deadlock, and has none, as the poll thread always has a next step.

`browser_view` has one page, since pages act on one another only through requests,
which are inputs of the mirror. One place in the wakeup socket is enough to fill
it, two inputs for a song that is added and then deleted or replaced, one fault to
lose a command, a listing or the link in between. More of everything is the
business of the proof, which has no bounds. `shutdown` needs two faults to let a start fail and something crash
afterwards. `mpd_conf` takes every file it can build from the lines listed in
`MCMpdConf` (`Inside`, `Outside`, `OtherBlocks`), which hold each trap of the scanner:
braces in strings and in comments, keys in comments, bare and quoted values, the
same key in another block before and after. Two calls are enough to set and to
take out, or to work on the file a dead call left behind, or a call that read a part
of the file. One device and taking it out differ as two devices do, and
`MpdConf_proofs` has no bound on either. In these runs the system may stop, so deadlock is not
checked.

Properties worth a word:

- `MirrorCurrent` is stated over what the poll thread itself compares: whenever
  it would skip the rebuild, the mirror equals the queue. It is not a statement
  about quiet states; it holds in the middle of handlers as well.
- `AddDropsOnlyUnseen` says how far the code's "SQ empty, so clear mpd" can go
  wrong: only songs of a change not yet polled can be lost, not any others.
- `Recovers` and `Converges` assume `StaysUp`, that from some time on aurmpd and
  mpd run; without it nothing can be asked of the program.

- `AnnouncedAfterSync` is stated over the mirror and the listing, not over
  `s_queue_version_synced`, which `mpd_poll` sets even when the listing failed. The
  case it leaves out, a connection lost between status and listing, is the one in
  which the code does announce a version over the old mirror (see below).
- `StaleOnlyIf` names the ways in which a page can be left with an old queue in this
  model; another one would violate it. It does not rule out those it names. The change was broadcast
  before its socket was marked (`Broadcast`); the announcement was dropped
  (`Announce`); the mirror changed without a new version of mpd, because it was
  repaired on a new connection (`PollStep`) or because a request changed it without
  reaching mpd (`OtherStep`); the last `GET` failed (`GetFails`); an older answer
  overtook a newer one (`Arrive`). The action named sets `blind`. A page whose socket is closed is not covered.
- `CrashTakesChildren` leaves out a launcher that dies between starting a process
  and putting it into the job (`winmain.c:349-357`); the comment at
  `winmain.c:330-332` does not.
- `ScannerAgrees`, `DeviceSet` and `RestKept` are over files mpd accepts
  (`FilesAssumption`, which TLC evaluates for the files of the run), without escaped
  quotes, which `bare_of` does not know. `RestKept` compares with the file before
  the first call, so a line that is added and taken out again must leave nothing. All
  three hold until a call succeeds after a short read (`whole`).
- `UndisturbedSwitch` leaves out switches during which something else happened,
  with the history variable `disturbed`; the violated runs show what happens
  then. What is left are all interleavings of the three processes, and restarts
  that outlast the timeout.
- `RestartServesRequest` has no such condition: it holds with every fault and
  for overlapping switches.
- `SwitchEnds` assumes that mpd is not gone for good (`<>[](mpd # "down")`); a
  launcher that fails to start mpd does not try again.

Fairness: `WF(Poll)`, since the poll thread loops for ever with `sleep(1)`
(`main.cpp:60-66`) and no path leaves it holding the lock; `WF(HttpSteps)`,
since the event thread finishes the handler it is in. Nothing is assumed of
clients, faults or restarts. For the switch: `WF(Handler)` and `WF(Poll)` for the
same reasons, `WF(Launcher)` since the timer of the tray window fires every
second (`SetTimer`, `winmain.c:470`), `WF(MpdReady)` and `WF(DeadlinePasses)` for mpd's
start and the clock. For the pages: weak fairness of the poll
thread, of the event thread as a whole (the handler it is in, broadcasts and
upgrades, in whatever order it takes them) and of each page (its reaction to an
announcement and the arrival of its answers), and strong fairness of `Serve`,
because a GET waits for `mpd_lock`, which is free for the second the poll thread
sleeps in every round. For the shutdown: weak
fairness of the launcher and of each of aurmpd's threads as a whole (so a thread
may choose for ever between its own steps, but not stand still), and of the
operating system taking down what was terminated; nothing makes anybody choose
Exit.

### Violations

- `mirror_bad_song`. `addSong` leaves the refusal on the connection. The next
  delete or replace changes SQ first; its mpd command fails unsent because of
  the old error. A WebSocket command then clears the error. mpd's version has
  not moved, so the poll thread never rebuilds: SQ differs from mpd's queue
  until somebody edits the queue again. `mpdqueue.cpp:110` calls SQ the mirror
  of the only truth.
- `mirror_sid_reuse`. After a restart mpd numbers songs from 1 again.
  `syncFromMpd` keeps its own entry for a known id, so SQ shows the song of
  before the restart; `mpdqueue.cpp:115-117` says ids match by themselves
  across restarts.
- `mirror_null_conn`. Before the first connect and after a drop `mpd.conn` is
  NULL; `replace` passes it to libmpdclient before it looks at the body, so a
  malformed body ends the process where `docs/FIXES.md:12` and
  `docs/FEATURES.md:531` promise a 400 and survival. The run sends nothing but
  malformed replace requests. (The other queue routes use `mpd.conn` without a test
  as well; the documents quoted promise nothing for them.)
- `audio_queue_lost`. A second `SET_AUDIO_DEVICE` while the launcher serves the
  first finds mpd gone and saves nothing, but still asks for a restart. The
  first save goes into the mpd that this restart terminates, and the file is
  removed whether or not the restore worked. `docs/FEATURES.md:621` says the
  queue is not lost. The model shows two more ways that the run's bounds keep
  out: an edit between save and termination, and a save file left behind by a
  switch that failed at the configuration, which the next reconnect restores
  over the live queue.
- `audio_request_lost`. The launcher deletes the request after it has started
  mpd. A request written in between is gone; `mpd.conf`, and with it `current`
  in the answer, names a device mpd does not use.
- `browser_gap`. A page fetches the queue when it is mounted and then only when
  told. A change that is broadcast after its GET was served and before its
  WebSocket is marked never reaches it; it shows the old queue until the next
  change. `docs/FEATURES.md:126` says that what one browser does is visible in the
  others. Nothing is lost or reordered in this run.

Two more things the code does wrong are in the models without a run of their own;
the properties they would break hold up to them and say so:

- A short read of `mpd.conf` passes for the file, and the call that then renames a
  part of it over the whole reports success, against `audio_devices.h:54`. With
  `whole =>` taken out of `RestKept`, `mpd_conf` finds it in one call.
- A connection that is lost between the status and the listing of a poll round: the
  round announces the new version over the old mirror, browsers fetch the old queue,
  and the sync of the next connection repairs the mirror without an announcement.

## 4. Proofs

`MpdQueueMirror_proofs` proves, for every set of songs and all bounds:

| Theorem | Says | Assumes |
|---|---|---|
| `TypeCorrect` | `[]TypeOK` | - |
| `ConnectionKept` | `[]ConnectedHasConn` | - |
| `AnnouncedWhenRead` | `AnnouncedAfterSync` | mpd keeps running |
| `IdsStayRight`, `SidsNameSongs`, `MirrorIsMap` | `[]IdInv`, `[]SidNamesSong`, `[]MirrorSidsUnique` | mpd keeps running |
| `MirrorInvariant`, `MirrorIsCurrent` | `[]MirrorInv`, `[]MirrorCurrent` | mpd keeps running, refuses no song |
| `AddDropsNothingSeen` | `AddDropsOnlyUnseen` | the same |
| `MirrorFeeds` | `ImplementsFeed`, the refinement of `QueueFeed` | mpd keeps running |

The assumptions are those the violated runs show to be necessary.

The argument for `MirrorCurrent`. Call the mirror trusted when
`synced /\ verSynced = mpdVersion`. By itself `MirrorCurrent` is not inductive:
it says nothing of a connection with an error on it, which a WebSocket command
may turn healthy. `MirrorInv` adds

- `IdInv`: mpd's ids are distinct and below `nextSid`, the mirror's are unique
  and below `nextSid`, and a shared id means the same song. With it a rebuild,
  which keeps known entries, yields the image of the queue, and `makeupPos`
  yields it from the entries alone.
- `NotAhead`: the recorded versions never exceed mpd's, so after any change of
  the queue the mirror is no longer trusted.
- `TrustInv`: over a live connection a refusal (`"ack"`) that is still on it
  implies an untrusted mirror; over a live connection without an error a trusted
  mirror is the queue; and a listing starts without an error, so that a listing
  that fails has lost the connection.

The second part is where a refused song breaks the proof: an add that is refused
leaves the error while the mirror may still be trusted.

`AudioSwitch_proofs` proves, for all bounds and restarts of any length:

| Theorem | Says |
|---|---|
| `TypeCorrect` | `[]TypeOK` |
| `RequestsAreServed` | `[]RestartServesRequest` |
| `SwitchKeepsQueue` | `[]UndisturbedSwitch` |

`RequestsAreServed` rests on `OrderInv`: neither the request nor the one the
launcher found is ever ahead of `mpd.conf`, since the handler writes the
configuration first and the lock keeps a second handler out. So an mpd that is
started after the request was seen reads at least its configuration.
`SwitchKeepsQueue` needs to know where the queue is at each stage, `QuietInv`:
with the old mpd and in the save file until it is killed, in the save file alone
until the restore clears and adds, then with the new mpd and the file gone. The
invariant says it only of undisturbed behaviours, in which users and faults act
between switches (lemma `Undisturbed`). Types are split in two (`Values`,
`Flags`), as the truth values go to another prover than the rest.

`MirrorFeeds` and `AnnouncedWhenRead` rest on `FeedInv`, which follows a version
through a poll round: versions are in order (`InOrder`); between rounds every
version that was read has been announced (`AllAnnounced`); a listing starts over the
connection the status came over (`SyncOverLink`); so once a notice is due, the mirror
was read at that version or a later one, or the connection is lost
(`FreshBeforeNotice`). While the round goes on other clients may change mpd's queue,
which only makes the listing newer (`OtherStepsKeepRound`). Every action then maps
to one step of `QueueFeed` or to a stutter (`StepFeeds`).

`BrowserView_proofs` proves, for any number of pages and all bounds:

| Theorem | Says | Assumes |
|---|---|---|
| `ViewIsMirror` | `ViewSpec => Spec`: what is proved of the mirror holds beside the pages | - |
| `ViewTypeCorrect` | `[]ViewTypeOK` | - |
| `PagesStaleOnlyIf` | `[]StaleOnlyIf` | mpd keeps running, refuses no song |

`StaleOnlyIf` speaks of pages at rest. `PageInv` says what is true on the way: once
the poll thread has announced the version it recorded (`Told`) and nothing is on
its way that would make the page fetch again (`Heard`), the newest answer served to
the page is the mirror, whether it has arrived or not (`Fresh`). Answers that an
arrival has overtaken are marked old, and the ones before an old answer are old
(`OldTogether`). The mirror has to stand still while `Told` holds, apart from the
steps that are blamed: `TellInv` (nothing is announced before it is recorded, a
rebuild runs only for a newer version), `TellingPoll`, `TellingHandler` and
`TellingOther`. A `GET` that fails takes an answer away: either it was not the newest, and the newest
is still on its way or shown, or the page is blamed for it (`FailKeepsPage`). The last
one that is not obvious is `makeupPos`, also if its listing
is cut off: over a usable connection the mirror is the queue already by
`MirrorInv`, and positions taken from a prefix of the queue are the ones it has
(`PrefixPositions`).

`Shutdown_proofs` proves, for any number of restarts and faults, with and without
a working job object:

| Theorem | Says |
|---|---|
| `TypeCorrect` | `[]TypeOK`, with `mpd_lock` held by exactly the thread between lock and unlock |
| `ProcessInvariant` | `[]ProcessInv` |
| `LeavingLeavesNothing` | `[]ExitLeavesNothing` |
| `CrashLeavesNothing` | `[]CrashTakesChildren` |

`ExitLeavesNothing` says nothing until the launcher has left. `ProcessInv` says what
is true on the way: which children can run at each place of the launcher, that
every running child has its handle kept, and that it is in the job unless the
launcher stands between the two calls.

`MpdConf_proofs` proves, for every set of devices, any number of calls, and every
file mpd accepts, of any length:

| Theorem | Says |
|---|---|
| `ConfStaysAccepted` | `[]ConfInv`: accepted, with its rest as it was, until a call succeeds after a short read |
| `TypeCorrect` | `[]TypeOK` |
| `DeviceIsSet` | `[]DeviceSet` |
| `RestIsKept` | `[]RestKept` |
| `ScannerReadsWhatMpdReads` | `[]ScannerAgrees` |
| `ReplaceIsWhole` | `[]OldOrNew` |
| `ImplementsSetting` | `SetterSpec`, the refinement of `DeviceSetting` |

They assume `FilesAssumption` (the first file is one mpd accepts) and
`ConfAssumption` (the word `device` is a text, no device is the empty string, which
in the code means "take the line out").

The scanner is a recursion over the lines, and what it computes is an induction the
provers cannot be given as such. Instead `Least` proves that a set of numbers has a
least element, from the well-foundedness of strict inclusion on finite sets;
`ScanExists` and `ScanStep` derive from it that the recursive function exists and
obeys its equation, and `ScanKnowsAll` looks at the first line at which the
scanner's knowledge would be wrong. `ScanKnows` is that knowledge: nothing ahead of
the block; inside it, depth one and the places of the keys read so far; behind it,
depth zero, the closing line, and the keys of the whole block. It rests on what one
line does to depth and keys (`HeadDelta`, `InsideDelta`, `CloseDelta`, `KeyIsName`).

The second half is about editing. `RemovedBlock` and `InsertedBlock` say that the
block less its device line, and with one put anywhere between the braces, is again
the first block of an accepted file; `EditedIs` brings the code's copying of parts
into that form, and `EditDoes` concludes that the new file is accepted, that mpd
reads in it what was asked for, once, and that its rest is the old one. `ConfInv`
then is inductive: the file is accepted and its rest is the original's as long as
`whole` holds, a call under way has found a block in what it read and the file it is
about to rename is the edited form of that. After a short read nothing is known of
the file but that it is one; `DeviceSet`, `RestKept`, `ScannerAgrees` and the
refinement are proved up to there, `TypeOK` and `OldOrNew` without the condition. For
a part that was read little has to be known: that it is a file (`PartsAreFiles`), that
what the scanner says of it lies inside it (`ScanBounded`), and that editing therefore
yields a file (`EditedFile`). None of
the properties is inductive without `Accepted`, since on other files the scanner may
end in another place than mpd does.
`ReplaceIsWhole` rests on `StepIsWhole`: only the rename gives mpd.conf contents the
call did not find, and that call reports success.

Left to TLC as well: `SwitchEnds`, `Converges`, `Recovers`, `Follows`, `ExitEnds` and
`FlagEnds` (liveness under fairness), and the violations.

## 5. Not modelled

Replies and their formatting, song and album data, enumeration and opening of
devices, registry, windows, rendering in the browser. The order in which mpd's
songs stand in the vector of SQ, the limit of 4096 restored songs, and the 16 KB
a reply may have. The double free in `MPD_API_SET_MPDHOST` and
`MPD_API_SET_MPDPASS` (`mpd_client.c:876-878,902-904`) is undefined behaviour the
model does not follow. The timeout of an output switch can be taken for run out
between the two assignments at `mpd_client.c:536-537`, and its message is then never
sent; the switch itself is not harmed, which is what the runs state.

Most of the lines under `src/` are two vendored libraries, mongoose and a JSON
header (about 48 000 of 53 000). They are modelled at the edge aurmpd touches
(`mg_wakeup`, its socket pair, `mg_mgr_free`) and no further, so the share of all
lines the models stand for is small; of `mpd_client.c`, `mpdqueue.cpp`, `main.cpp`,
`winpipe.cpp` and the file half of `audio_devices.c` it is most.
