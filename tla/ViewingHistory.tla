--------------------------- MODULE ViewingHistory ---------------------------
(***************************************************************************)
(* Favourites, recently watched services and the progress of recordings    *)
(* (viewing_history.rs, its storage, recordings and live modules, and      *)
(* player/viewing_history.rs).                                             *)
(*                                                                         *)
(* The GUI thread owns the document.  A thread of its own reads the file   *)
(* once and then writes the snapshots it finds in a mailbox that keeps the *)
(* latest one only; what it did comes back through a queue the GUI thread  *)
(* drains on its timer.  Closing the window leaves a last snapshot and     *)
(* joins the thread.  The process may be killed, or the power cut, between *)
(* any two steps.                                                          *)
(*                                                                         *)
(* The progress of the recording that plays is kept by a session, which    *)
(* seeks to the stored position once and then samples the position that    *)
(* the output has confirmed.  The pipeline (Timeline) is the environment   *)
(* here: a media record that plays on, seeks, ends and fails.              *)
(*                                                                         *)
(* A document carries a stamp, which the program does not have: the number *)
(* of changes that led to it.                                              *)
(***************************************************************************)
EXTENDS Naturals, Sequences, FiniteSets

Lists == INSTANCE SequencesExt

CONSTANTS
  Recordings,     \* sources of recordings
  Unsavable,      \* those whose identity Entry::valid refuses
  Services,       \* live services
  None, Absent,   \* no value; no file
  Broken,         \* a file that does not load
  Last,           \* the end of every recording; positions are 0..Last
  WatchedFrom,    \* the first position that counts as watched
  MaxRecordings, MaxRecent, MaxFavorites,
  MaxEdits,       \* bound: changes of the document
  MaxDeaths,      \* bound: the process is killed or the power is cut
  MaxFaults       \* bound: failed file operations

ASSUME BoundsAssumption ==
  /\ Unsavable \subseteq Recordings
  /\ Last \in Nat \ {0} /\ WatchedFrom \in 1..Last
  /\ MaxRecordings \in Nat \ {0} /\ MaxRecent \in Nat \ {0} /\ MaxFavorites \in Nat
  /\ MaxEdits \in Nat /\ MaxDeaths \in Nat /\ MaxFaults \in Nat
  /\ None \notin Recordings \union Services \union Nat
  /\ Recordings \intersect Services = {} /\ Absent # Broken

VARIABLES
  file,      \* what the path holds: Absent, Broken or a document
  flushed,   \* its data reached the disk
  temp,      \* the temporary file of the worker: "none", or "synced" to the disk
  process,   \* "up", "closing" (the GUI thread joins the worker), "down"
  worker,    \* the viewing-history thread
  mailbox,   \* Mutex<Work>
  updates,   \* the queue back to the GUI thread
  history,   \* History: ready, doc, error
  live,      \* Live::visit
  media,     \* what plays
  session,   \* recordings::Session, or None
  turned,    \* ghost: this session was sent elsewhere on purpose
  deaths, faults

storage == << file, flushed, temp, worker, faults >>
player  == << live, media, session, turned >>
vars    == << storage, player, process, mailbox, updates, history, deaths >>

-----------------------------------------------------------------------------
(***************************************************************************)
(* Documents.                                                              *)
(***************************************************************************)
Positions == 0..Last

\* Position::watched and resumable; the lengths of recordings are all Last.
Watched(p)   == p >= WatchedFrom
Resumable(p) == p > 0 /\ ~Watched(p)

Blank == [favorites |-> << >>, recent |-> << >>, recordings |-> << >>,
          nextKey |-> 0, stamp |-> 0]

Entries   == [key: Nat, source: Recordings, position: Positions]
Documents == [favorites: Seq(Services), recent: Seq(Services), recordings: Seq(Entries),
              nextKey: Nat, stamp: Nat]
ASSUME DocumentsAssumption ==
  None \notin Documents /\ Absent \notin Documents /\ Broken \notin Documents

Elements(s)  == { s[i] : i \in DOMAIN s }
Distinct(s)  == \A i, j \in DOMAIN s : s[i] = s[j] => i = j
Truncated(s, n) == IF Len(s) > n THEN SubSeq(s, 1, n) ELSE s

\* `position' and `remove', or `retain': no list holds a value twice.
Without(s, x) ==
  IF x \in Elements(s) THEN Lists!RemoveAt(s, CHOOSE i \in DOMAIN s : s[i] = x) ELSE s

\* The row of a recording, None when it has no entry.
Row(d, r) == LET rows == { i \in DOMAIN d.recordings : d.recordings[i].source = r }
             IN  IF rows = {} THEN None ELSE CHOOSE i \in rows : TRUE
Position(d, r) == IF Row(d, r) = None THEN None ELSE d.recordings[Row(d, r)].position

\* Document::validate.
Sound(d) ==
  /\ Len(d.recordings) <= MaxRecordings
  /\ Len(d.recent) <= MaxRecent
  /\ Len(d.favorites) <= MaxFavorites
  /\ Distinct(d.recent) /\ Distinct(d.favorites)
  /\ \A i, j \in DOMAIN d.recordings : i # j =>
       /\ d.recordings[i].source # d.recordings[j].source
       /\ d.recordings[i].key # d.recordings[j].key
  /\ \A e \in Elements(d.recordings) : e.key \in 1..d.nextKey

Validates(d) == Sound(d) /\ \A e \in Elements(d.recordings) : e.source \notin Unsavable

\* A change of the document: History::save hands the whole of it on.
Stamp(d) == [d EXCEPT !.stamp = @ + 1]
Change(h, d) == [h EXCEPT !.doc = Stamp(d)]

\* Mutant: a new entry takes the first key after the ones in use.
RecordReusingKeys(h, r, p) ==
  IF ~h.ready \/ Position(h.doc, r) = p THEN h
  ELSE LET d    == h.doc
           row  == Row(d, r)
           rest == IF row = None THEN d.recordings ELSE Lists!RemoveAt(d.recordings, row)
           key  == Len(rest) + 1
       IN  Change(h, [d EXCEPT !.recordings = Truncated(<< [key |-> key, source |-> r, position |-> p] >> \o rest,
                                                        MaxRecordings),
                               !.nextKey = key])


\* History::record.
Record(h, r, p) ==
  IF ~h.ready \/ Position(h.doc, r) = p THEN h
  ELSE LET d     == h.doc
           row   == Row(d, r)
           key   == IF row = None THEN d.nextKey + 1 ELSE d.recordings[row].key
           rest  == IF row = None THEN d.recordings ELSE Lists!RemoveAt(d.recordings, row)
           first == [key |-> key, source |-> r, position |-> p]
       IN  Change(h, [d EXCEPT !.recordings = Truncated(<< first >> \o rest, MaxRecordings),
                               !.nextKey = IF row = None THEN key ELSE @])

\* Mutant: a snapshot that was not taken yet is not replaced.
LeftBehind(m, h, changed) ==
  IF changed.stamp > h.doc.stamp /\ m.data = None THEN [m EXCEPT !.data = changed] ELSE m


\* The snapshot the GUI thread leaves for the worker after a step that changed
\* the document; an older one still lying there is replaced.
Left(m, h, changed) == IF changed.stamp > h.doc.stamp THEN [m EXCEPT !.data = changed] ELSE m

-----------------------------------------------------------------------------
(***************************************************************************)
(* The session of a recording (recordings.rs).                             *)
(***************************************************************************)
NewSession(r) == [source |-> r, resume |-> "Waiting", latest |-> None]

\* Mutants: a sample is taken before the resume was decided, or during a seek.
SampleEarly(s, position, seeking) ==
  IF seeking THEN s
  ELSE [s EXCEPT !.resume = IF @ = "Waiting" THEN @ ELSE "Running",
                 !.latest = IF position = None THEN @ ELSE position]

SampleSeeking(s, position, seeking) ==
  IF s.resume = "Waiting" THEN s
  ELSE [s EXCEPT !.resume = IF seeking THEN @ ELSE "Running",
                 !.latest = IF position = None THEN @ ELSE position]


\* Session::sample.
Sample(s, position, seeking) ==
  IF s.resume = "Waiting" \/ seeking THEN s
  ELSE [s EXCEPT !.resume = "Running", !.latest = IF position = None THEN @ ELSE position]

\* Session::resume: where to seek to, or None; a decision is made once.
ResumeTarget(h, s) ==
  LET p == Position(h.doc, s.source) IN
  IF p # None /\ Resumable(p) THEN p ELSE None

Decided(h, s) == [s EXCEPT !.resume = IF ResumeTarget(h, s) = None THEN "Running" ELSE "Seeking"]

\* Session::save; `due' is force, or the interval of 15 s has passed.
SavedSession(h, s, due) ==
  IF due /\ s.latest # None THEN Record(h, s.source, s.latest) ELSE h

-----------------------------------------------------------------------------
(***************************************************************************)
(* What plays.  position is the one the output confirmed, None before the  *)
(* first; ranged says that a range and a length are known.                 *)
(***************************************************************************)
Nothing == [what |-> None, phase |-> "stopped", position |-> None, target |-> None, ranged |-> FALSE]
Opened(x) == [Nothing EXCEPT !.what = x, !.phase = "connecting"]

IsFile(m)  == m.what \in Recordings
Active(m)  == m.phase \in {"playing", "paused", "seeking", "ended"}
Seeking(m) == m.phase = "seeking"

\* The position save_recording_history samples.
Confirmed(m) ==
  IF ~(Active(m) /\ IsFile(m) /\ m.ranged) THEN None
  ELSE IF m.phase = "ended" THEN Last ELSE m.position

\* What one tick may make of it when nothing fails: a recording that plays gets
\* its position, its range, and goes on to its end.
PlayedOn(m) ==
  IF m.position = None THEN {[m EXCEPT !.position = 0], [m EXCEPT !.position = 0, !.ranged = TRUE]}
  ELSE IF ~m.ranged THEN {[m EXCEPT !.ranged = TRUE]}
  ELSE IF m.position < Last THEN {[m EXCEPT !.position = @ + 1]}
  ELSE {[m EXCEPT !.phase = "ended"]}

Onward(m) ==
  {m} \union
  CASE m.phase = "connecting" -> {[m EXCEPT !.phase = "playing"]}
    [] m.phase = "playing" /\ IsFile(m) -> PlayedOn(m)
    [] m.phase = "seeking" ->
         {[m EXCEPT !.phase = "playing", !.position = m.target, !.target = None]}
    [] OTHER -> {}

\* TransportControl::seek.
Sought(m, p) == [m EXCEPT !.phase = "seeking", !.target = p]

-----------------------------------------------------------------------------
(***************************************************************************)
(* Live services (live.rs).                                                *)
(***************************************************************************)
Idle == [service |-> None, recorded |-> FALSE]

\* Live::observe of what plays, with the time since the visit began.
Watching(m) == IF m.phase = "playing" /\ ~IsFile(m) THEN m.what ELSE None

Qualified(h, l, m, long) ==
  h.ready /\ Watching(m) # None /\ l.service = Watching(m) /\ ~l.recorded /\ long

Observed(h, l, m, long) ==
  IF ~h.ready THEN l
  ELSE IF Watching(m) = None THEN Idle
  ELSE IF l.service # Watching(m) THEN [service |-> Watching(m), recorded |-> FALSE]
  ELSE [l EXCEPT !.recorded = @ \/ long]

\* Mutant: a service watched again is put in front without leaving its old place.
NotedTwice(h, l, m, long) ==
  IF Qualified(h, l, m, long)
  THEN Change(h, [h.doc EXCEPT !.recent = << m.what >> \o @])
  ELSE h


\* History::observe_live.
Noted(h, l, m, long) ==
  IF Qualified(h, l, m, long)
  THEN Change(h, [h.doc EXCEPT
         !.recent = Truncated(<< m.what >> \o Without(@, m.what), MaxRecent)])
  ELSE h

-----------------------------------------------------------------------------
(***************************************************************************)
(* The queue back to the GUI thread (History::poll).  Loaded comes first.  *)
(***************************************************************************)
Loaded(ok, d) == [kind |-> "loaded", ok |-> ok, doc |-> d]
Saved(ok)     == [kind |-> "saved", ok |-> ok, doc |-> None]

DocumentOf(u) == IF u.ok THEN u.doc ELSE Blank

\* Mutant: a file that did not load is treated like one that is absent.
ErrorAfterSave(u, error) ==
  CASE u.kind = "loaded" -> error
    [] u.kind = "saved"  -> IF u.ok THEN "" ELSE "save"

\* The document comes with the first answer, the error is that of the last.
ErrorAfter(u, error) ==
  CASE u.kind = "loaded" -> IF u.ok THEN error ELSE "load"
    [] u.kind = "saved"  -> IF u.ok THEN "" ELSE "save"

Drained(h) ==
  IF updates = << >> THEN h
  ELSE [ready |-> TRUE,
        doc   |-> IF h.ready THEN h.doc ELSE DocumentOf(updates[1]),
        error |-> ErrorAfter(updates[Len(updates)], h.error)]

-----------------------------------------------------------------------------
Loading == [ready |-> FALSE, doc |-> Blank, error |-> ""]
Asleep  == [pc |-> "none", job |-> None, closing |-> FALSE, writable |-> FALSE]
Empty   == [closing |-> FALSE, data |-> None]

\* A file of an earlier run: one recording seen for a while.
Kept == { [Blank EXCEPT !.recordings = << [key |-> 1, source |-> r, position |-> 1] >>,
                        !.nextKey = 1] : r \in Recordings \ Unsavable }

Init ==
  /\ file \in {Absent, Broken} \union Kept
  /\ flushed = TRUE /\ temp = "none"
  /\ process = "down" /\ worker = Asleep /\ mailbox = Empty /\ updates = << >>
  /\ history = Loading /\ live = Idle /\ media = Nothing /\ session = None /\ turned = FALSE
  /\ deaths = 0 /\ faults = 0

\* History::open and Worker::start.
Start ==
  /\ process = "down"
  /\ process' = "up"
  /\ worker' = [Asleep EXCEPT !.pc = "load"]
  /\ mailbox' = Empty /\ updates' = << >> /\ history' = Loading
  /\ live' = Idle /\ media' = Nothing /\ session' = None /\ turned' = FALSE
  /\ temp' = "none"
  /\ UNCHANGED << file, flushed, faults, deaths >>

Fails == faults < MaxFaults /\ faults' = faults + 1
Works == faults' = faults

\* Mutant: the thread writes although it could not read.
WorkerLoadWritable ==
  /\ worker.pc = "load"
  /\ \/ /\ Works /\ file # Broken
        /\ updates' = Append(updates, Loaded(TRUE, IF file = Absent THEN Blank ELSE file))
     \/ /\ IF file = Broken THEN Works ELSE Fails
        /\ updates' = Append(updates, Loaded(FALSE, None))
  /\ worker' = [worker EXCEPT !.pc = "wait", !.writable = TRUE]
  /\ UNCHANGED << file, flushed, temp, player, process, mailbox, history, deaths >>


\* The thread reads the file; what cannot be read is never written to.
WorkerLoad ==
  /\ worker.pc = "load"
  /\ \/ /\ Works /\ file # Broken
        /\ updates' = Append(updates, Loaded(TRUE, IF file = Absent THEN Blank ELSE file))
        /\ worker' = [worker EXCEPT !.pc = "wait", !.writable = TRUE]
     \/ /\ IF file = Broken THEN Works ELSE Fails
        /\ updates' = Append(updates, Loaded(FALSE, None))
        /\ worker' = [worker EXCEPT !.pc = "wait", !.writable = FALSE]
  /\ UNCHANGED << file, flushed, temp, player, process, mailbox, history, deaths >>

\* The end of a turn of the worker: it ends, or waits for more.
Turn(w) == [w EXCEPT !.pc = IF w.closing THEN "gone" ELSE "wait", !.job = None]

\* Mutant: an order to close is followed at once.
WorkerTakeClosing ==
  /\ worker.pc = "wait"
  /\ mailbox.closing \/ mailbox.data # None
  /\ mailbox' = [mailbox EXCEPT !.data = None]
  /\ LET w == [worker EXCEPT !.job = mailbox.data, !.closing = mailbox.closing]
     IN  worker' = IF w.writable /\ w.job # None /\ ~w.closing THEN [w EXCEPT !.pc = "save"] ELSE Turn(w)
  /\ UNCHANGED << file, flushed, temp, faults, player, process, updates, history, deaths >>


\* It takes the snapshot, and the order to close, out of the mailbox.
WorkerTake ==
  /\ worker.pc = "wait"
  /\ mailbox.closing \/ mailbox.data # None
  /\ mailbox' = [mailbox EXCEPT !.data = None]
  /\ LET w == [worker EXCEPT !.job = mailbox.data, !.closing = mailbox.closing]
     IN  worker' = IF w.writable /\ w.job # None THEN [w EXCEPT !.pc = "save"] ELSE Turn(w)
  /\ UNCHANGED << file, flushed, temp, faults, player, process, updates, history, deaths >>

Answered(ok) == updates' = Append(updates, Saved(ok)) /\ worker' = Turn(worker)

\* storage::save: validate, write a temporary file and sync it, rename it; any
\* of it may fail, and what came of it is sent back.
WorkerRefuse ==
  /\ worker.pc = "save" /\ ~Validates(worker.job)
  /\ Answered(FALSE)
  /\ UNCHANGED << file, flushed, temp, faults, player, process, mailbox, history, deaths >>

\* Mutant: the temporary file is renamed without being synced.
WorkerWriteUnsynced ==
  /\ worker.pc = "save" /\ Validates(worker.job)
  /\ \/ /\ Works
        /\ temp' = "written" /\ worker' = [worker EXCEPT !.pc = "persist"]
        /\ UNCHANGED updates
     \/ Fails /\ Answered(FALSE) /\ UNCHANGED temp
  /\ UNCHANGED << file, flushed, player, process, mailbox, history, deaths >>


WorkerWrite ==
  /\ worker.pc = "save" /\ Validates(worker.job)
  /\ \/ /\ Works
        /\ temp' = "synced" /\ worker' = [worker EXCEPT !.pc = "persist"]
        /\ UNCHANGED updates
     \/ Fails /\ Answered(FALSE) /\ UNCHANGED temp
  /\ UNCHANGED << file, flushed, player, process, mailbox, history, deaths >>

WorkerPersist ==
  /\ worker.pc = "persist"
  /\ temp' = "none"
  /\ \/ /\ Works /\ Answered(TRUE)
        /\ file' = worker.job /\ flushed' = (temp = "synced")
     \/ Fails /\ Answered(FALSE) /\ UNCHANGED << file, flushed >>
  /\ UNCHANGED << player, process, mailbox, history, deaths >>

-----------------------------------------------------------------------------
(***************************************************************************)
(* The GUI thread.                                                         *)
(***************************************************************************)
Bounded == history'.doc.stamp <= MaxEdits

\* History::toggle_favorite and move_favorite.
ToggleFavorite(c) ==
  /\ process = "up" /\ history.ready
  /\ LET d == history.doc
         f == IF c \in Elements(d.favorites) THEN Without(d.favorites, c) ELSE Append(d.favorites, c)
     IN  /\ Len(f) <= MaxFavorites
         /\ history' = Change(history, [d EXCEPT !.favorites = f])
  /\ mailbox' = Left(mailbox, history, history'.doc)
  /\ Bounded
  /\ UNCHANGED << storage, player, process, updates, deaths >>

MoveFavorite(c, index) ==
  /\ process = "up" /\ history.ready
  /\ index < Len(history.doc.favorites) /\ c \in Elements(history.doc.favorites)
  /\ history' = Change(history, [history.doc EXCEPT !.favorites =
                    Lists!InsertAt(Without(@, c), index + 1, c)])
  /\ mailbox' = Left(mailbox, history, history'.doc)
  /\ Bounded
  /\ UNCHANGED << storage, player, process, updates, deaths >>

\* poll_recording_history, after the pipeline was polled: the automatic seek,
\* unless it is refused, then the sample and the save.
PollRecording(h, m, refused, due) ==
  LET decides == m.ranged /\ ~Seeking(m) /\ session.resume = "Waiting" /\ h.ready
      target  == IF decides THEN ResumeTarget(h, session) ELSE None
      decided == IF decides THEN Decided(h, session) ELSE session
      chosen  == IF target # None /\ refused THEN [decided EXCEPT !.resume = "Running"] ELSE decided
      moved   == IF target # None /\ ~refused THEN Sought(m, target) ELSE m
      sampled == Sample(chosen, Confirmed(moved), Seeking(moved))
  IN  [media |-> moved, session |-> sampled,
       history |-> SavedSession(h, sampled, due \/ moved.phase = "ended"),
       turned |-> turned \/ (target # None /\ refused)]

\* Player::poll: drain the queue, let the pipeline go on, and note what plays.
\* `timed' says that the 10 s of a visit, or the 15 s since the last save, have
\* passed, `refused' that the pipeline refuses a seek.
Tick(m, timed, refused) ==
  /\ process = "up"
  /\ m \in Onward(media)
  /\ timed => session # None \/ live.service # None
  /\ refused => session # None /\ session.resume = "Waiting"
  /\ LET h == Drained(history)
         n == Noted(h, live, m, timed)
         r == PollRecording(n, m, refused, timed)
     IN  /\ live' = Observed(h, live, m, timed)
         /\ IF Active(m) /\ IsFile(m) /\ session # None
            THEN /\ media' = r.media /\ session' = r.session
                 /\ history' = r.history /\ turned' = r.turned
            ELSE media' = m /\ history' = n /\ UNCHANGED << session, turned >>
         /\ mailbox' = Left(mailbox, h, history'.doc)
  /\ updates' = << >>
  /\ Bounded
  /\ UNCHANGED << storage, process, deaths >>

\* save_recording_history(true).
Forced ==
  IF session = None THEN [session |-> None, history |-> history]
  ELSE LET s == Sample(session, Confirmed(media), Seeking(media))
       IN  [session |-> s, history |-> SavedSession(history, s, TRUE)]

\* Mutant: the session outlives its pipeline.
StopKeepingSession(stopped) ==
  /\ process = "up" /\ media # Nothing
  /\ history' = Forced.history
  /\ mailbox' = Left(mailbox, history, history'.doc)
  /\ session' = Forced.session
  /\ IF stopped THEN media' = Nothing /\ turned' = FALSE
     ELSE media' = [Opened(media.what) EXCEPT !.phase = "stop failed"] /\ UNCHANGED turned
  /\ live' = IF history.ready THEN Idle ELSE live
  /\ Bounded
  /\ UNCHANGED << storage, process, updates, deaths >>


\* release_stream, by the user or because the pipeline failed; the session is
\* kept when the pipeline cannot be stopped.
Stop(stopped) ==
  /\ process = "up" /\ media # Nothing
  /\ history' = Forced.history
  /\ mailbox' = Left(mailbox, history, history'.doc)
  /\ IF stopped THEN session' = None /\ media' = Nothing /\ turned' = FALSE
     ELSE /\ session' = Forced.session /\ media' = [Opened(media.what) EXCEPT !.phase = "stop failed"]
          /\ UNCHANGED turned
  /\ live' = IF history.ready THEN Idle ELSE live
  /\ Bounded
  /\ UNCHANGED << storage, process, updates, deaths >>

\* Mutant: the session of the recording before goes on.
OpenKeepingSession(x) ==
  /\ process = "up"
  /\ ~(x \in Services /\ media.what = x /\ media.phase # "stop failed")
  /\ history' = Forced.history
  /\ mailbox' = Left(mailbox, history, history'.doc)
  /\ media' = Opened(x) /\ turned' = FALSE
  /\ session' = IF x \notin Recordings THEN None
                ELSE IF session = None THEN NewSession(x) ELSE Forced.session
  /\ live' = IF history.ready THEN Idle ELSE live
  /\ Bounded
  /\ UNCHANGED << storage, process, updates, deaths >>


\* start_stream_request for a recording or a service, and when the old pipeline
\* does not stop (all is kept) or the new one does not start.
Open(x) ==
  /\ process = "up"
  /\ ~(x \in Services /\ media.what = x /\ media.phase # "stop failed")
  /\ history' = Forced.history
  /\ mailbox' = Left(mailbox, history, history'.doc)
  /\ media' = Opened(x) /\ turned' = FALSE
  /\ session' = IF x \in Recordings THEN NewSession(x) ELSE None
  /\ live' = IF history.ready THEN Idle ELSE live
  /\ Bounded
  /\ UNCHANGED << storage, process, updates, deaths >>

OpenFails(stopped) ==
  /\ process = "up" /\ media # Nothing
  /\ history' = Forced.history
  /\ mailbox' = Left(mailbox, history, history'.doc)
  /\ IF stopped
     THEN /\ media' = Nothing /\ session' = None /\ turned' = FALSE
          /\ live' = IF history.ready THEN Idle ELSE live
     ELSE session' = Forced.session /\ UNCHANGED << media, turned, live >>
  /\ Bounded
  /\ UNCHANGED << storage, process, updates, deaths >>

\* seek_to, skip and play at the end, by the user.
Seek(p) ==
  /\ process = "up" /\ IsFile(media) /\ Active(media) /\ media.ranged
  /\ media' = Sought(media, p)
  /\ turned' = TRUE
  /\ UNCHANGED << storage, process, mailbox, updates, history, live, session, deaths >>

\* A pause of a live service interrupts its visit.
Pause ==
  /\ process = "up" /\ media.what \in Services /\ media.phase \in {"playing", "paused"}
  /\ media' = [media EXCEPT !.phase = IF @ = "playing" THEN "paused" ELSE "playing"]
  /\ live' = Observed(history, live, media', FALSE)
  /\ UNCHANGED << storage, process, mailbox, updates, history, session, turned, deaths >>

\* Player::shutdown and the drop of the player: a last save, then the thread is
\* told to close and joined.
Close ==
  /\ process = "up"
  /\ process' = "closing"
  /\ history' = Forced.history
  /\ mailbox' = [Left(mailbox, history, history'.doc) EXCEPT !.closing = TRUE]
  /\ session' = None /\ media' = Nothing /\ live' = Idle /\ turned' = FALSE
  /\ Bounded
  /\ UNCHANGED << storage, updates, deaths >>

Joined ==
  /\ process = "closing" /\ worker.pc = "gone"
  /\ process' = "down"
  /\ UNCHANGED << storage, player, mailbox, updates, history, deaths >>

\* The process is killed or the power is cut: its threads, its memory and its
\* mailbox are gone, and so is data that was not synced.
Die ==
  /\ process # "down"
  /\ deaths < MaxDeaths /\ deaths' = deaths + 1
  /\ process' = "down"
  /\ file' = IF flushed THEN file ELSE Broken
  /\ flushed' = TRUE /\ temp' = "none"
  /\ worker' = Asleep /\ mailbox' = Empty /\ updates' = << >> /\ history' = Loading
  /\ live' = Idle /\ media' = Nothing /\ session' = None /\ turned' = FALSE
  /\ UNCHANGED faults

Worker == WorkerLoad \/ WorkerTake \/ WorkerRefuse \/ WorkerWrite \/ WorkerPersist

User ==
  \/ \E c \in Services : ToggleFavorite(c)
  \/ \E c \in Services, i \in 0..(MaxFavorites - 1) : MoveFavorite(c, i)
  \/ \E x \in Recordings \union Services : Open(x)
  \/ \E stopped \in BOOLEAN : OpenFails(stopped)
  \/ \E p \in Positions : Seek(p)
  \/ \E stopped \in BOOLEAN : Stop(stopped)
  \/ Pause
  \/ Close

Timer == \E m \in Onward(media), timed, refused \in BOOLEAN : Tick(m, timed, refused)

Next == Start \/ Worker \/ User \/ Timer \/ Joined \/ Die

Spec == Init /\ [][Next]_vars

-----------------------------------------------------------------------------
(***************************************************************************)
(* Properties.                                                             *)
(***************************************************************************)
\* The type invariant.  The changes of the GUI thread keep the document one that
\* validate accepts, but for identities it was given that cannot be saved; the
\* thread owns a temporary file only while it saves, and a session exists only
\* for a recording that was opened.
TypeOK ==
  /\ file \in {Absent, Broken} \union Documents
  /\ process \in {"up", "closing", "down"}
  /\ worker.pc \in {"none", "load", "wait", "save", "persist", "gone"}
  /\ temp = "synced" <=> worker.pc = "persist"
  /\ mailbox.data \in {None} \union Documents
  /\ history \in [ready: BOOLEAN, doc: Documents, error: {"", "load", "save"}]
  /\ IF history.ready THEN Sound(history.doc) ELSE history = Loading
  /\ live.service \in Services \union {None}
  /\ session # None =>
       /\ media.what = session.source
       /\ session.resume \in {"Waiting", "Seeking", "Running"}
       /\ session.latest \in Positions \union {None}
  /\ deaths \in 0..MaxDeaths /\ faults \in 0..MaxFaults

\* Silence means saved: when the thread has nothing left to do and nothing left
\* to say, and no error is shown, the file holds the document of the GUI thread
\* (an absent file stands for the blank one); likewise after the window was
\* closed.  Snapshots replaced in the mailbox, saves that failed, a load that
\* failed and the order of the answers all come together here
\* (History::poll, viewing_history.rs:244; Drop for Worker, storage.rs:142).
Quiet ==
  /\ process # "closing"
  /\ worker.pc \in {"wait", "gone"} /\ mailbox.data = None /\ history.ready

Told == Drained(history).error

SilenceMeansSaved ==
  Quiet /\ Told = "" => file = history.doc \/ (file = Absent /\ history.doc = Blank)

\* The file only moves forward: each write of a running process puts there a
\* document with more changes than the one it replaces, never over a file that
\* did not load; and no death of the process leaves a file that does not load
\* where there was one that did (storage.rs:175-188).
FileMovesForward ==
  [][/\ file' # file /\ process' # "down" =>
          /\ worker.writable /\ file # Broken /\ file' \notin {Absent, Broken}
          /\ file # Absent => file'.stamp > file.stamp
     /\ file' = Broken => file = Broken]_vars

\* A key names one recording for the life of the process, also after its entry
\* was dropped: resume_recording opens what the row was shown for
\* (History::record, viewing_history.rs:214-226).
KeysNameOne ==
  [][history.ready /\ history'.ready =>
       \A e \in Elements(history'.doc.recordings) :
         \/ \E o \in Elements(history.doc.recordings) : o.key = e.key /\ o.source = e.source
         \/ e.key > history.doc.nextKey]_vars

\* The stored progress of a recording goes back only when its user sent the
\* playback elsewhere, when the pipeline refused the automatic seek, or when it
\* had been watched to the end: never because the first positions of a
\* session, those of a pending seek or those of another recording were stored
\* (docs/viewing-history.md:101, recordings.rs:198-219).
ProgressIsKept ==
  [][history.ready /\ history'.ready =>
       \A r \in Recordings :
         LET p == Position(history.doc, r)
             q == Position(history'.doc, r)
         IN  p # None /\ q # None /\ q < p =>
               /\ session # None /\ session.source = r
               /\ turned' \/ turned \/ Watched(p)]_vars

=============================================================================
