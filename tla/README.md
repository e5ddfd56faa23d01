# NagameTV: a verification project

NagameTV is a Rust and Qt viewer of Japanese digital TV. It receives a live MPEG transport
stream over HTTP from Mirakurun or mirakc, or a recording from EPGStation or a file, keeps what
it received for pause and rewind, and plays it through GStreamer; around the picture it shows
programmes, comments and reservations, and it remembers what was watched. This directory holds
TLA+ models of the parts where threads, callbacks, processes and long sequences of requests
meet, their TLC runs, and proofs for TLAPS. Paths below are relative to `rust/src/` unless they
start with `docs/` or `crates/`.

## 1. The system

`PlayerRust` (`player.rs`) is a QObject on the GUI thread. It owns the services and polls them
from a timer; nothing else calls into them. Work that blocks runs on other threads and hands
its results back through a channel or a mutex that the next poll reads.

| Component | Where | State it keeps | Operations | Correct when |
|---|---|---|---|---|
| Retention file | `playback/input/filesystem.rs` | slot of each segment, vacant slots, file length | write, read, remove | a segment reads its own bytes only; no slot leaks |
| Retention store | `playback/input/store.rs`, `limits.rs`, `index.rs` | segments, reconnect boundaries, index, cursor, policy, history | append, trim, pause, resume, new policy, read, seek | bounded; reads progress; never outruns a reader that keeps up |
| Live feed | `playback/input/source.rs`, `activity.rs`, `mod.rs` | Feedback, Activity, Reader, the stored seek | receive, need_data, seek_data, pad probe, suspend, data broadcast switch | no lost wake-up, no stale expiry, blocks in order, GUI calls return |
| Timeline controller | `playback/timeline.rs`, `session.rs` | State, Seek and Pending, rate, startup, pending retention change | poll, retained, pause, seek, rate, return to live, settings | shown and native state agree, latest intent wins, seeks settle |
| Live clock | `playback/live_timeline.rs`, `latency.rs`, `clock.rs` | PCR samples, mapping | sample, map | numeric |
| Recorded input | `playback/recording/*`, `playback/input/file.rs` | window of one response, phase, estimate; loader generation | fetch, retry, read, seek, drop | bytes in place, memory bounded, no read or call waits for ever |
| Network and jobs | `services.rs`, `services/job.rs` | a Tokio worker, Job / Stopping / Task | start, poll, cancel | a job that is stopped delivers nothing |
| Programmes | `features/program_info*` | snapshot, acquisition, deferred changes, generation | configure, events, refresh, poll | the guide is the server's once nothing waits; nothing of another visit in it |
| EPG events | `crates/viewer-epg-events` | probe and connection, gate, change set, controller | connect, decode, flush, retry, take, replace worker | no change is lost between a refresh and the stream |
| Live comments | `crates/viewer-comments`, `features/comments*` | retry policy, connection, controllers of reception, activity and posting, draft | select, poll, post, edit | a reported reception has no gap; limits hold; a posted comment is not called failed |
| Comment archive | `crates/viewer-comments/src/cache` | spool files, SQLite tables, pins, sessions | pin, reserve a slot, receive, recover, import, publish, evict | coverage shows what was received; no request twice or too early; what is pinned stays |
| EPGStation, reservations | `epgstation*`, `player/recording_*` | session, page, probe, manager, its job | open, page, verify, reserve, cancel, exclude, refresh | the list is the session's; a write acts on what was checked |
| Viewing history | `viewing_history*` | document, worker, mailbox, session of a recording | load, record, save, sample, resume | what is not saved is told; the file moves forward; progress is kept |
| Remote control | `crates/viewer-remote`, `remote*` | snapshot, commands | serve, apply | a command acts on what it was sent for |
| Settings | `settings/` | pending change, file | change, save | last change is what is stored |
| Data broadcast | `features/data_broadcast*`, `crates/viewer-web-bml` | carousel, subscribers | start, deliver | a subscriber sees snapshot, then changes |
| Diagnostics, updates, screenshots, navigation, Qt models, QML | several | small, local | | |

How they meet in playback:

    receiver task ----append----> Store (mutex) <----read---- Reader <- need_data (streaming thread)
         |                          ^   |                        |          ^
         +--notify--> Activity <----|---+--wait------------------+          | seek_data, Seeking query
                                    |                                       |
    GUI timer -> Session::poll -> Controller --set_state, send_event--> GStreamer pipeline
                     |  ^                                                    |
                     |  +--- expired report, bus messages, probe Output -----+
                     +------ live_window, finish_pause, settings ---> Store

    recording:  prefetch worker --chunks--> State (mutex, condition) <--read-- need_data or a demuxer

For the programme guide:

    server --events--> worker: decode, Changes, gate --pending (mutex)--> Controller::poll
                                                                              |
    server --answers--> Job's task --channel--> ProgramInfo::poll <--deferred-+
                                                     |
                     connect_server, catalogue --configure

For comments, reservations and the history:

    NX-Jikkyo <-- tasks (one runtime thread): reception, activity, posting --> retry policy (mutex)
                      |  state, queue, reply                                       ^
                      +----> comments::session::update (GUI timer) --check---------+

    GUI --input--> archive worker --starts--> job thread --spool, SQLite--> disk <-- other processes

    GUI handlers -> Library (session, page, probe) -> Manager --job--> EPGStation <-- other clients
    GUI document --mailbox--> history thread --temporary file, fsync, rename--> file

What is hard:

- *Playback.* The streaming thread sleeps on state it looked at earlier; a flushing seek
  waits for that thread; an expiry report can be older than the last seek; native state changes
  and seeks are confirmed later, by output that may belong to an older segment, at another rate,
  or never; disk writes and hole punches fail half way; settings change while all of this runs.
- *Recordings.* Worker and reader each wait for the other with a time limit on the condition;
  a seek moves the window under a running fetch, whose bytes, error and connection then belong
  elsewhere.
- *Guide.* Changes wait in five places on their way, in two of which they may be dropped for a
  refresh; requests are answered before and after notifications of the same change; both may
  belong to a server that was left and entered again.
- *Comments.* A limit is observed by a task nobody polls any more; state, queue and completion of
  a task are read one after the other; the archive is shared by processes that crash at any step.
- *Reservations.* The list on the screen, the checks before a write and the write are requests
  apart; an abort does not undo what was sent; sessions come and go meanwhile.
- *History.* The mailbox keeps the latest snapshot only, the process may be killed between write,
  sync and rename, and progress is sampled around seeks that have not happened yet.

`PROJECT.json` lists these hazards at their lines with the properties that cover them.

## 2. Modules

| Module | Models | Composes | Checked by |
|---|---|---|---|
| `FileSlots` | `filesystem.rs`, Buffer | | `file_slots` |
| `RetentionWindow` | what playback may assume of the store | | as refinement target |
| `LiveFeed` | receiver, streaming thread, GUI thread | `RetentionWindow` | `live_feed` |
| `LiveStore` | `store.rs`, `limits.rs` | `RetentionWindow` | through `MCLiveStore` |
| `LiveStoreProofs` | | `LiveStore`, `FileSlots`, `LiveFeed` | TLAPS |
| `MCLiveStore` | five policies for TLC | `LiveStore` | `live_store` |
| `Timeline` | `timeline.rs`, Session::poll, transport requests | | `timeline*` |
| `TimelineProofs` | | `Timeline` | TLAPS |
| `RecordingBuffer` | `playback/recording/http*`, need_data over it | | `recording_buffer` |
| `RecordingBufferProofs` | | `RecordingBuffer` | TLAPS |
| `ProgramGuide` | `crates/viewer-epg-events`, `features/program_info.rs`, `services/job.rs`, `player/connection.rs`, `player/epg.rs` | | `program_guide` |
| `ProgramGuideProofs` | | `ProgramGuide` | TLAPS |
| `LiveComments` | `crates/viewer-comments` without the archive, `features/comments/{session,activity}.rs` | | through `MCLiveComments` |
| `LiveCommentsProofs` | | `LiveComments` | TLAPS |
| `CommentArchive` | `crates/viewer-comments/src/cache` | | through `MCCommentArchive` |
| `CommentArchiveProofs` | | `CommentArchive` | TLAPS |
| `ViewingHistory` | `viewing_history*`, `player/viewing_history.rs` | | through `MCViewingHistory` |
| `Reservations` | `epgstation.rs`, `epgstation/reservations*`, `epgstation/verification.rs`, `player/recording_{library,reservations}.rs` | | through `MCReservations` |
| `ReservationsProofs` | | `Reservations` | TLAPS |
| `ViewingHistoryProofs` | | `ViewingHistory` | TLAPS |
| `MCLiveComments`, `MCCommentArchive`, `MCViewingHistory`, `MCReservations` | instances for TLC | the module they are named for | its run |

**FileSlots.** `slots`, `vacant` and `extent` are Buffer's map, free list and length; `disk` is
what the file physically holds, so that a recycled slot which was not punched still shows its
old bytes. `WriteMapped`, `WriteReusing` and `WriteExtending` are the three ways `write` finds
a slot, each of which may fail after none, some or all of the bytes; `Remove` is `remove`,
where `release` may fail and leave everything as it was. `peak` is a history variable.

**RetentionWindow.** The contract between store and playback: an interval of the stream that
only grows at its end and only shrinks at its start, and the answer a read at an offset gets.
`LiveStore` is proved to implement it and `LiveFeed` to assume no more than that.

**LiveFeed.** One action per critical section or atomic access. `window` is the store
(through `RetentionWindow`), `revision` the two counters of Activity, `feedback` the Feedback
shared by the threads, `request` the target stored by seek_data, `thread` the program counter
of need_data with Reader's position and its pending outputs, `appsrc` the external queue with
its flushing flag, and `gui` the GUI thread inside one of its calls. A flushing seek is
`SendSeek` (the pad probe stores the new generation), `FinishBeginSeek` (it notifies),
`FlushStart` (appsrc flushes; the GUI thread waits for the streaming thread), `SeekData`. The
decoder and appsrc are external: appsrc asks again after a buffer was taken or a flush.

**LiveStore.** `store` is Store under its mutex; each action is one call. Bytes are counted in
units, one per unit of time. `Receive` splits an append over segments and trims as the code
does; disk writes and hole punches may fail at every step of a split. `Reconfigure` is
prepare, copy_tail and commit under the lock. `joins` remembers where connections really begin,
so that `boundaries` can be judged against it.

**Timeline.** `ctl` is Controller, `pipe` the pipeline together with the probe's Output,
`store` the source and its receive window, `session` what Session and StreamState make of it.
The GUI thread runs one call at a time, so a request is one action; a poll is two
(`SessionPoll` and `SessionRetained`), because the receive window is read after the controller
was polled and both threads below move in between. Operations return the *set* of their
outcomes (accepted, refused before a flush, refused after it). Sequence numbers of segments are
kept relative to the last accepted seek: `new`, `old` or `stale`. `PipeSegment` may keep the old
rate (a sink that does not follow), `Deadline` is SEEK_TIMEOUT, and `wish` and `skipped` are
history.

**RecordingBuffer.** `buffer` is State under its mutex, `worker` the thread of `run`, `reader`
the streaming thread inside need_data (`transport`) or a demuxer that pulls ranges (`media`),
`input` what the GUI thread does. Each critical section is one action. A block remembers in
`origin` where the server took its bytes from: that is how spliced responses show. The condition
variable has a time limit of 20 ms on both sides, so a waiting thread is one that looks again.
A chunk is `StartFetch`, `Fetch` (the network, with its failures) and `Store`; `Reserve` is the
room `has_capacity` keeps for it.

**ProgramGuide.** `stream` is the worker of the subscription: `connecting` from the request to
its headers, `receiving`, `retrying`, `unsupported` (both endpoints missing), `panicked`,
`leaving` (cancelled, its task not yet destroyed), with the endpoint it probes, its own change
set, the gate's `dirty` and the events on the wire. `sub` is Controller with the notifications
under the mutex, `guide` is ProgramInfo, `job` the task of its one request. A request reads the
server's programmes at `Answer` and its result waits for the next poll, so that changes and their
notifications come between in any order. A programme is a version per service and server,
`world` (external) counts versions, and a change of more than the limits becomes `full`.
`Succeeded` and `Refused` are the two ends of a request in `poll_at`, which also applies what
was deferred and asks again in the same call (`PollGuide`). Instants are choices: the gate's
interval, a retry or a backoff may be over at any time, and `PollGuide` chooses whether the periodic
refresh is due.

**LiveComments.** `policy` is retry::Policy with its deadlines, `task` the network task of each
operation at its awaits, `conn` what the reception's task and its Connection share, `live`,
`activity` and `posting` the controllers of the GUI thread, `gui` where its update stands: a
poll reads the state, then completion, then the queue, and tasks move in between. A failure is
one of seven kinds, a deadline what is left of it, and `Tick` lets all of them run.

**CommentArchive.** `disk` is the spool (`response.part`, `.json`, `.meta`), `db` the tables,
`app` each process's worker, `job` the one that holds the provider's lock. One action is one
transaction, one rename or unlink, or one part of a worker's pass; `Crash` ends a process
between any two. Stamps are distances from what the wall clock says now. A worker reads the wall
clock when it starts and counts from there (`worker.rs:209`, `226`), so each process has a `clock`:
how far the wall clock had gone back when it started. `Rollback` sets the wall clock back at any
time, and a process that runs is from then on `Ahead` of it; slots, plans and backoffs have the
time of the job's process, Retry-After that of the wall clock (`download.rs:326`). `seen` records
what was requested, received and published, a request with the clock it was sent on.

**ViewingHistory.** `history` is the GUI thread's document, `mailbox` and `updates` the two
ways between it and the `worker`, `file`, `temp` and `flushed` what a death of the process leaves.
`session` is the recording's: it seeks once to the stored position and samples what the output
confirmed; `media` (external) is what Timeline shows of the pipeline. A document carries the
number of changes that led to it.

**Reservations.** `library` is Library with its session, operation, probe and loaded page,
`settings` the two preferences, `manager` the reservation manager, `task` its job at its
requests, `wire` the writes on their way, `world` the servers. A handler of the GUI thread is one
action with every call it makes: `Publish` is the `poll_recording_reservations` most of them end
with, where the probe, the session, the encode list and the job are polled in this order. After
an abort the job's step may still be taken and a write it sent stays in `wire`, `awaited` or
not. `Serve`, `Lose`, `Outside` and `TimePasses` are the environment. `clean` says that nothing
changed on the server since the job made its checks, and, of a write on the wire, that no start
passed on its way: time is no excuse for what was sent too late. `writes` counts what a command
has sent.

Only the control is kept everywhere: TS packets, PSI, PCR and time stamps, texts, notices,
logging and the transport's presentation are left out.

## 3. Runs

Every count below is that of a finished run. `CHECK_DEADLOCK FALSE` is set where streams end,
sessions are released or bounds are reached, which stops the model as it stops the program.

| Run | Question | States | Bounds |
|---|---|---|---|
| `file_slots` | Do recycled slots leak, collide or show foreign bytes, when I/O fails at any point? | 24,316 | 5 segments: enough for two in use, one vacant, one reused and one that extends |
| `live_feed` | Is a wake-up lost, a stale expiry acted on, a block decoded out of order, and does everyone go on? | 619,194 | blocks of 2 units, 2 received, 1 seek, 1 control. One seek orders a stale report and a stale request; the proofs cover any number |
| `live_store` | Is the window readable, bounded and as promised through every sequence of appends, policy changes, pauses, reconnects and failures? | 322,765 | 10 units, segments of 2 in memory and 3 on disk, forward buffer 7, margin and index distance 2, 1 reconnect, 2 changes, 5 policies: every budget is smaller than the stream, so each of them trims |
| `timeline` | Do shown and native state, intent, rate and history agree after every interleaving? | 1,476,927 | positions 0..2, 3 requests, rates 1 and 2, live and recorded: three requests are a pause, a queued change and one that replaces it |
| `timeline_liveness` | Does every seek end, is every settings change acted upon, does a stream leave its preroll? | 91,694 | positions 0..2, a reserve of 2 that an evicted window cannot give, 2 requests |
| `program_guide` | Is a change ever lost, does an answer undo a notification, does anything of another visit get in, does the guide catch up? | 231,134 | one server of each kind, two services of which the catalogue knows one, limits of 1, 2 changes, 2 connects, 1 failure: a change in each of two services passes a limit, two of one service order an answer and a notification |
| `recording_buffer` | Are bytes in place, memory bounded, and does nobody wait for ever? | 128,037 | a file of 7, ranges of 2, window of 6, two estimates, 1 call, 2 pulls, 1 failure: jumps inside, just past and far from the window, and a budget that the reader's block does not fit at once |
| `live_comments` | Do limits hold over cancelled tasks, is a reported reception whole, a posted comment never called failed? | 1.67 million | two services, a queue of 2, polls of 1, activity or posting besides reception, 2 events: a failure and a change of the selection, in either order |
| `comment_archive` | Does coverage show what was received, are requests sparing, is what is pinned kept? | 5,560,748 | two processes, two recordings that overlap, 2 units, one request per window, 2 events: a crash and a failure, two crashes, or a crash and a clock that goes back under the other process |
| `viewing_history` | Is what is not saved told, does the file only move forward, does a key name one recording, is progress kept? | 611,116 | two recordings of which one cannot be saved, two services, lists of 1 so that each drops entries, 2 edits, 1 death, 1 fault |
| `reservations` | Is a write made on what was checked, is the list the session's, does it come back? | 757,213 | two servers, at most 2 reservations of the programme, 2 handlers that write nothing, 1 command, 1 change by others, failure or step of the clock: a switch and the return, or a switch and the end, around a write |

One disagreement between the code and its comments has a run; it checks the sentence and TLC
shows a behaviour that breaks it. `timeline_settings`: a retention setting changes during the
initial preroll, `retention_changed` completes the startup, nothing has to be corrected, and
nobody sets PLAYING: the stream is shown as playing and stands still. `skipped` marks these
behaviours so that `PlayingRuns` and the liveness properties say what holds otherwise.

Seen while modelling, without a run of their own (the models contain each behaviour):

- Live feed. A reader parked on an expiry and woken by a data broadcast switch delivers data
  from the offset it had before the seek (`source.rs:208`). A seek accepted by seek_data whose
  storage is replaced before the reader takes it ends playback with an error (`source.rs:186`).
  A call cancelled by a seek drops its output, also when GStreamer then rejects that seek
  (`source.rs:723`). A failed native stop resumes the input, but need_data was already cancelled
  (`session.rs:606`).
- Timeline. Play during a return to live that waits for its reserve starts at once, without the
  reserve, and the seek times out (`timeline.rs:852`). While a settings change waits for the
  first preroll, `retained` returns before it looks at the expiry report it was given
  (`timeline.rs:596`). A queued change of rate refused when its turn comes releases the stream
  (`timeline.rs:1041`; `docs/playback-speed-design.md` wants the old rate to go on).
- Recording window. Blocks are dropped whole, so what is kept behind the reader may exceed 2 MiB and
  take room from the read-ahead (`buffer.rs:54`; `docs/recording-playback.md:47`); an interrupted read is reported as a
  failure (`source.rs:729`); a seek that becomes active again after both interrupts of
  begin_seek makes the flush wait for the deadline of the fetch.
- Guide. `pop_first` takes the lowest service again after its request failed, so one service
  whose request keeps failing starves the others (`program_info.rs:342`).
- Comment archive. A worker with fetching off and work left looks again without a pause
  (`worker.rs:289`). A crash between removing `response.json` and `response.meta` leaves a spool
  no later job takes up until it is cleaned by hand (`spool.rs:93`). A refresh asked for between
  reading the input and pinning is lost (`worker.rs:289`). A crash between discarding a response
  and recording its failure forgets the Retry-After. When the wall clock goes back under a running
  process and another one starts, the first drops the slots of the second as too old, or takes a
  Retry-After read from the wall clock for past: it may send seconds after the other, or before the
  server allows it (`worker.rs:226`, `store.rs:227`; `docs/comment-archive-redesign.md:227` wants
  30 s between any two). `RequestsAreSparing` states the loss: no more than the clock is ahead.
- Live comments. `Connection::state` replaces a recorded end by WorkerStopped when the task has
  ended, and the failure is counted again (`connection.rs:105`; `docs/nx-jikkyo-network.md:94`).
- History. One recording whose identity cannot be saved blocks saving everything until it drops
  out of the list; the error is shown. A seek of the user while the history is still loading is
  overridden by the automatic one.
- Reservations. A write whose job was aborted may reach the server after the next list was read:
  a reservation then appears that the list does not show, and may be made twice.
  `docs/recording-reservations.md` promises only that the list is read again.

### Properties

| Module | Safety | Liveness |
|---|---|---|
| `FileSlots` | `SlotsHold` (`NoForeignBytes`, `SlotsInjective`, `SlotsPartition`, `VacantIsReleased`, `ExtentIsPeak`) | |
| `LiveFeed` | `ReaderIsInformed` (`NoLostWakeup`, `RecoveryIsDeserved`), `PlaysInOrder` | `BothGoOn` |
| `LiveStore` | `StoreHolds`, `WindowIsKept` (`PlaybackSurvives`: a reader within the forward buffer is not overtaken; `KeepsWindow`: the refinement) | |
| `Timeline` | `RequestsHold` (`PausedHolds`, `PlayingRuns`, `StarvedWaits`, `IntentKept`, `RateConfirmed`), `HistoryReleasedLive` | `RequestsSettle` |
| `RecordingBuffer` | `WindowIsTrue` (`BytesInPlace`, `WindowIntact`, `WithinBudget`), `ReaderIsServed` | `NobodyWaitsForever` |
| `ProgramGuide` | `QuietIsCurrent`, `OnlyThisVisit`, `ResponsesNeverGoBack` | `CatchesUp` |
| `LiveComments` | `ReceptionIsHonest` (`ReceptionIsWhole`, `WaitsForAReason`), `LimitsHold`, `PostingIsHonest` | |
| `CommentArchive` | `CoverageIsHonest`, `RequestsAreSparing`, `PinnedIsKept` | |
| `ViewingHistory` | `SilenceMeansSaved`, `FileMovesForward`, `KeysNameOne`, `ProgressIsKept` | |
| `Reservations` | `ShownIsOurs`, `SessionsAgree`, `WritesAreChecked` | `ListComesBack` |

Each has a mutant: an operator beside the one it replaces, marked `Slip:` or `Mutant:` in its
comment, that makes a plausible mistake which the property catches.

### Fairness

`LiveFeed!LiveSpec`: weak fairness of the streaming thread (the OS runs it when it is not
blocked), of the decoder, of the calls the GUI thread is inside of (GStreamer completes a flush, a
seek or a stop once the streaming thread returned from `need_data`) and of `TakeExpired` (the session polls between calls).
Nothing is assumed of the receiver: a broadcast may fall silent. Nor of `Resume`, a native stop
that fails: `set_state` has no time limit and need not fail (`playback.rs:679`, `session.rs:601`),
so a stop must return because its suspension makes the reader leave `need_data`; the mutant of
`BothGoOn` leaves out the notification of that.

`Timeline!LiveSpec`: weak fairness of the GUI timer's polls, and of the *disjunction* of
the pipeline's steps, the reader's report, reception and the deadline: something of these
happens as long as there is anything left to do. That is weaker than fairness of each, and the
properties hold under it. Requests, settings and evictions are never forced.

`RecordingBuffer!LiveSpec`: weak fairness of the worker's steps (`StartFetch`, `Fetch`: the
server answers or the deadline of the request passes, `Store`, `StopWorker`), of the streaming
thread and of the GUI thread's calls in progress.

`ProgramGuide!LiveSpec`: weak fairness of the two polls (the GUI timer), of the worker's and
the request's steps (Tokio runs ready tasks; a server that is up answers) and of the deadlines
that end a retry, a probe's pause, a hold or a backoff. Failures and changes are bounded, which
is what `CatchesUp` means by its "after the last". The five minute refresh has no fairness:
with it every loss would be repaired and nothing shown.

`Reservations!LiveSpec`: weak fairness of the GUI timer, of the job together with its abort and
the server's answer (a request ends at its 10 s deadline if nobody answers), and of the 30 s
interval. Nothing is assumed of the user, of other clients or of writes nobody waits for.

### What the newer models leave out

- `RecordingBuffer`: the broadcast index, the preview's own input and the size probe.
- `LiveComments`: echoes, activity snapshots, the replay. A poll and a segment of a task between
  two awaits take less than a tick; the runtime has one worker thread (`services.rs`).
- `CommentArchive`: the wall clock goes back, not forward, and all clocks count at one rate; what
  is collected of a recording by now is the same to all; a job's local steps take less than a tick; the order and the budget of eviction are
  abstracted (any row nobody pins may go); the wake-up deadlines of the worker are left out;
  `fail_target`'s two transactions are one action; the generation test is subsumed by the job's
  own pin.
- `ViewingHistory`: the clock (a visit either qualifies or does not); shutdown and drop are one
  step; a power cut that restores the file from before the last rename.
- `Reservations`: one programme; one list is read in one step, so races of its pages are out;
  time-specified reservations, event relays and overlaps are `fixed`; a schedule that differs is a
  failed request; jobs that only read are resolved when polled. Errors and rejections have no text.

## 4. Proofs

| Theorem | Says | Argument |
|---|---|---|
| `LiveStoreProofs!ReadsOwnBytes`, `NoSlotLeaks`, `SlotsAlwaysHold` | `SlotsHold` for any set of segments | `SlotsInv`: the partition makes a taken slot one that nobody maps, and `VacantIsReleased` makes it a hole, so its first write cannot mix; the file extends only when no slot is vacant, and then is as long as there are segments |
| `LiveStoreProofs!FeedTypes` | types, for every constant | one lemma per action that writes more than a counter |
| `LiveStoreProofs!WakeUps` | `NoLostWakeup` | `WakeInv`: what the reader observed is never ahead of the counters; as long as a counter has not moved since it observed, what it concluded still holds, or the GUI thread is between the change and its notification |
| `LiveStoreProofs!Recovery` | `RecoveryIsDeserved` | `RecoverInv`: expired <= reader's generation <= current generation, so an expiry equal to the current one was reported by a reader of it |
| `LiveStoreProofs!InOrder` | `PlaysInOrder` | `OrderInv` orders everything between decoder and reader: queue, block in hand, pending outputs, offset; an accepted seek finds the queue empty, which needs `WakeInv` |
| `LiveStoreProofs!FeedToleratesWindow` | types, `ReaderIsInformed` and `PlaysInOrder` hold also where any step that `RetentionWindow` allows may come at any time, beyond the feed's own window actions and their bounds (`OpenSpec`); with `WindowRefined`, the feed holds over the store's window | the invariants of the four above, and that each survives any allowed step |
| `LiveStoreProofs!ReaderAlwaysInformed` | the run's invariant of the reader | the four above |
| `ProgramGuideProofs!GuideOnlyThisVisit`, `GuideTypeCorrect` | `OnlyThisVisit` and types, for any servers, services, limits, switches and failures | `VisitInv`: every stage carries only programmes of the server it works for, and whenever two stages are connected they work for the same one |
| `RecordingBufferProofs!NoSplicedBytes`, `WindowHolds`, `MemoryIsBounded`, `WindowAlwaysTrue` | `WindowIsTrue` for any file, chunk and window sizes | `WindowInv` describes window and reader, `WorkerInv` what a fetch of this generation may still add (it ends where the window ends), `BudgetInv` leaves room for it under the estimate in force |
| `RecordingBufferProofs!NoStandstill` | `ReaderIsServed`, if every estimate has room for two ranges less a byte | `ReaderInv`: a waiting reader's need lies within what the worker may fetch |
| `RecordingBufferProofs!BufferTypes` | types | part of `IInv` |
| `ProgramGuideProofs!QuietGuideIsCurrent`, `AnswersNeverGoBack` | `QuietIsCurrent` and `ResponsesNeverGoBack`, for any servers, services, limits, changes, failures and switches | `CurrencyInv` = `VisitInv` and four more: no stage holds a version its server has not had (`AllPast`); refreshes, requests and the timer come in the order of the code (`Orderly`); the server's version of every service is on its way (wire, gate, hand-over, deferred set), is shown, or will be asked for (`Underway` and what follows from it at each stage); an answer that waits is no older than the snapshot it will change (`AnswerIsFresh`) |
| `LiveStoreProofs!StoreTypes`, `StoreAlwaysHolds` | types and `StoreHolds`, for any stream, segment size, index distance and set of policies | `IInv`: segments lie side by side, the index and the boundaries lie inside them, the cursor is in the window or expired, and after a trim the oldest entry of the index is readable |
| `LiveStoreProofs!PlaybackAlwaysSurvives`, `WindowRefined`, `WindowAlwaysKept` | a reader within the forward buffer is never overtaken; every step of the store is one of `RetentionWindow` | from `IInv`, one lemma per operation: what an operation cuts at the start, what it adds at the end, and that it does not cut past the consumed margin |
| `ReservationsProofs!ReservationsInvariant` | what the library, the manager, its job, the wire and the servers agree on, for any servers and preferences | `IInv`, one lemma per helper that handlers share (`Publish`, `Poll`, the probe) and one per handler |
| `ReservationsProofs!SessionsAlwaysAgree`, `ShownAlwaysOurs`, `WritesAlwaysChecked`, `ReservationsTypes` | the run's safety properties and types | from `IInv`: `Agree` ties the manager's server to the session, `ManagerOK` the list to it, `TaskOK` and `WireOK` say that what a job read is still so while nothing disturbed it; `Numbered` counts what a command wrote: nothing before it is sent, and not again after |
| `LiveStoreProofs!FileSlotsTypes` | types of `FileSlots` | the partition of the slots |
| `LiveCommentsProofs!CommentsInvariant` | what session, tasks, policy, wire and server agree on, for any services, limits, delays, jitter and number of failures | `IInv`, below: what each part of it asks of a step, one lemma per part, then one lemma per action |
| `LiveCommentsProofs!ReceptionIsTrue`, `LimitsAreHeld`, `PostingIsTrue`, `CommentsTypes` | the run's four properties | from `IInv`; for the limits, that a request begins only in the step that read the policy, when no task holds an unrecorded failure |
| `ViewingHistoryProofs!HistoryInvariant` | where the latest document is and what progress is stored, for any recordings, services, lengths and limits | `HistoryInv`, below |
| `ViewingHistoryProofs!SilenceAlwaysMeansSaved`, `FileAlwaysMovesForward`, `KeysAlwaysNameOne`, `ProgressIsAlwaysKept`, `HistoryTypes` | the run's five properties | from `HistoryInv` and, for the three about steps, a lemma per action |
| `TimelineProofs!TimelineInvariant` | what controller, pipeline and wish agree on while a stream is open, for any positions, rates, retention modes, reserves and number of requests | `TimelineInv`, below: one lemma per operation of the controller, one per action |
| `TimelineProofs!RequestsAlwaysHold`, `HistoryAlwaysReleasedLive`, `TimelineTypes` | the run's three properties | from `TimelineInv`; for the history, that a poll lets go of it only where it lands on the target of a seek to live with nothing queued behind it |
| `CommentArchiveProofs!ArchiveInvariant` | what database, spool, job and requests agree on, for any processes, recordings, limits and number of crashes and failures | `IInv`, below: one lemma per action, one per part of it that the action disturbs |
| `CommentArchiveProofs!ArchiveIsHonest`, `ArchiveIsSparing`, `ArchiveKeepsPinned`, `ArchiveTypes` | the run's four properties | from `IInv`; the first is part of it, the distance of requests is that of slots, as `Counted` says, and the pinned rows need the actions that touch rows: an eviction spares them, a publication covers at least what it replaces |

`OnlyThisVisit` speaks of what has arrived; it breaks when something older is let in, so
`VisitInv` follows it back: a running subscription's worker is for `sub.desired` (or has
panicked), the guide's server is `sub.desired` or none, a request in flight is of this
generation, and a cancelled one is `leaving` or `finished` and never read. `Spent` bounds the
versions, which the types need. It is also checked by TLC.

`SilenceMeansSaved` says where a document is once all is quiet, so its invariant says where it is
before: `Storing` has, until the file was read, a blank document and at most the answer to the
load, and from then on the latest document in the mailbox, with the thread, in the file, or a
failed save as the last answer or as the error shown; the stamps of file, job and document never
go down, which is `FileMovesForward`. `ProgressIsKept` needs the pipeline: `OnTrack` says that a
session that was not sent elsewhere has sampled, and that its pipeline still has to show, nothing
before what is stored, unless that had been watched to the end; before the decision to resume
nothing is sampled, and during the automatic seek it is the target that is not before it.
`HistoryInv` was checked by TLC on the 611,116 states of the run before it was proved.

`RequestsHold` says what is shown; a seek under way shows what it will resume to, and what is
queued behind it decides how. So `TimelineInv` follows the seek: `Native` has the pipeline stopped
wherever the viewer is shown a pause or the network starves, and running wherever a seek that
resumes will end without setting the state again (not before a preroll, and not with a change
queued, whose start sets it); `Starting` keeps everybody but `align_live_start` away from the
initial preroll; `Steady` leaves no accepted seek behind when none is shown, so the output's rate
is the controller's, by `PipeOK`; `Follows` has the same intent in controller and wish, and a seek
or a queued change to live only if the viewer last asked for it, which `HistoryReleasedLive` needs.
`StartChange` is the operation everything goes through: its lemmas give the two outcomes, begun
and declined, once, and queueing, landing, retries, settings and the requests cite them.
`TimelineInv` was checked by TLC on the 1,476,927 states of the run before it was proved.

`LimitsHold` compares a request with what a server asked any task before. `Owed` says where that
is until then: in the policy, or with a task in `failed`, which has been told and has not recorded
it; `Attempt::failed` runs before anything can be published, so nobody's check of the policy falls
in between. `Owned` has a task only as long as somebody waits for it, `Received` has the end of a
connection seen only when its task is gone and the queue was emptied after, `Waiting` keeps the
retry of the reception under what the policy wants, and `Shown` and `Attempted` follow a comment
from the seat to the answer: not stored before it was sent, and no outcome before the task is done.
The backoff doubles for at most six failures, which `LiveComments` writes as a table of shifts.
Of the constants the proofs assume that delays and limits are naturals, that no base delay is
above the cap, and that the jitter is bounded, as it is by its modulus. `IInv` was checked by TLC
on the 1,745,024 states of the run before it was proved.

The properties of `CommentArchive` relate what is in the database to what servers and responses
did, which no process sees, and they must survive a crash between any two steps. `Spooled` says
which files of the spool exist at each step of the job, `Staging` which rows wait unpublished, and
`Receipts` that a receipt in the database is for the response in the spool, so a recovery can
tell a response that was published from one that was not; with them `Held` finds a response that
arrived whole still in the spool, and never while the next is sent. `RequestsAreSpaced` speaks of
requests in real time and the code of slots, reserved before the request and dated by the clock of
whoever reserves. `Counted` ties them: the date of a request's slot follows from the request's age
and its sender's clock (`SlotOf`), no two requests share one, and the slot is in the database
unless some process observed a clock on which it has left the window; `reserve_slot` refuses any
clock behind that one, so for whoever is granted a slot it has left too, and the clocks differ by
no more than `Lead`. `Asked` does the same for what a server asked for, on the wall clock of then.
`Reserved` says that the slot not yet used is the newest on its job's clock; that the count of
slots in the window stays below its limit needs the rank of a slot among the newer ones
(`RankIs`), for `Store::reserve_slot` picks the time at which the oldest that counts has left.
`Clocks` bounds every stamp a rollback shifts by how far the wall clock went back.
`Overlapping` responses are merged unit by unit, and `PublishIs` shows that what remains of the
old rows and the new one are again disjoint and lose nothing. `NothingAssumption` says that `None`
is no plan, record or response. `IInv` was checked by TLC on the
5,560,748 states of the run before it was proved.

`FileSlots` is the file under a store on disk and `LiveFeed` what plays the store's data, and their
theorems are in one module with the store's. So what all have is named apart: `FileInit`,
`FileNext`, `FileSpec`, `FileTypeOK`; `FeedInit`, `FeedNext`, `FeedSpec`, `FeedTypeOK`, `feedVars`.

The first assumption of `LiveStore` types its constants. The second, `BudgetsAssumption`, is
one the code's limits give: a segment (1 MiB) and the distance of two index entries fit in the
forward buffer (32 MiB) and in every budget that can be saved (at least 16 MiB and one minute),
and that distance in the consumed margin (2 MiB). The code indexes every 250 ms, so the theorems
speak of streams below 67 Mbit/s. A broadcast has less than half of that.

`NoLostWakeup`, `RecoveryIsDeserved`, `PlaysInOrder` and the recording's properties are not
inductive: they become false only steps after what breaks them. The invariants above carry the
reason. The proofs assume of the constants only what the modules' ASSUMEs state: sizes are
positive naturals that fit into each other, bounds are naturals, and the values for nothing are
no other value. `NoStandstill` has one hypothesis more, `\A ahead \in Estimates : 2 * RANGE - 1 <= ahead`:
the code rounds estimates up to whole ranges and clamps them to at least one; for an estimate of a
single range, a recording of very low rate, the theorem says nothing.

Every safety and action property of the runs is stated by a theorem. Only model-checked: every
liveness property (the prover has no rule for fairness here). What recursive definitions compute
for all inputs is not proved either; the modules with theorems use none.

## 5. Not modelled, and the plan

Not modelled: parsing of TS, PSI, subtitles and BML; audio and video elements; numeric clocks
(`live_timeline.rs`, `latency.rs`) and the supply averages of `timeline/supply.rs`, whose verdict is a
free input; failing `set_state` calls; clock epochs and the index's metadata budget; HTTP reception of
the stream; the framing of the event streams and the guide's views; the replay of comments. Qt, QML,
packaging and third-party code are out of scope. `PROJECT.json` gives the reason for each component.

Done: the retention store and its file, the live feed, the timeline, the recording window, the
guide, comments and their archive, the viewing history, the reservations. What would come next:

1. `RecordingLoader` and `StreamState`: generations of opened files, connections and reconnects
   of the player, composed with `Timeline`.
2. `CommentReplay`: the window of live and archived comments held with the video.
3. Remote commands, settings persistence, navigation, the delivery of data broadcasts.

Theorems that would come next: those of the modules above. Progress under fairness stays with TLC.
