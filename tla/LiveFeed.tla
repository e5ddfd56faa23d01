------------------------------ MODULE LiveFeed ------------------------------
(***************************************************************************)
(* How live TS reaches the decoder (playback/input/source.rs, activity.rs, *)
(* and the read loop of playback/input/mod.rs): the receiver extends the   *)
(* retained window, the streaming thread of appsrc reads it in need_data   *)
(* and sleeps on Activity when there is nothing to read, and the GUI       *)
(* thread seeks, switches data broadcasting, and stops.                    *)
(*                                                                         *)
(* The retained window is the one RetentionWindow describes: it only grows *)
(* at the end and shrinks at the start.  Offsets count blocks of packets.  *)
(* A step of the streaming thread is one critical section or one atomic    *)
(* access, so every interleaving with the other threads is a behaviour.    *)
(*                                                                         *)
(* appsrc, the decoder and flushing are GStreamer's: a flushing seek       *)
(* marks appsrc flushing, waits for the streaming thread to return, calls  *)
(* seek_data and, if it accepts, empties the queue.                        *)
(***************************************************************************)
EXTENDS Integers, Sequences

CONSTANTS
  BlockUnits,    \* READ_BYTES: the most one read returns
  MaxReceived,        \* bound: how far the stream is received
  MaxSeeks,      \* bound: flushing seeks sent
  MaxControls    \* bound: data broadcast switches and attempts to stop

ASSUME FeedAssumption ==
  /\ BlockUnits \in Nat \ {0}
  /\ MaxReceived \in Nat
  /\ MaxSeeks \in Nat
  /\ MaxControls \in Nat

None == -1      \* no request, and NO_EXPIRED_GENERATION

VARIABLES
  window,       \* the store: [start, end, status]
  revision,     \* Activity: [data, control] counters
  feedback,     \* Feedback: [generation, expired, progress, interrupted, failure]
  broadcast,    \* a BroadcastChange waits for the reader
  request,      \* the seek target stored by seek_data, or None
  thread,       \* the streaming thread inside need_data, and Reader
  appsrc,       \* external: [queue, flushing, eos, wants]
  gui,          \* the GUI thread: [pc, target, recover, seeks, controls]
  played        \* history: the last block decoded since the last accepted seek

FeedWindow == INSTANCE RetentionWindow

feedVars == <<window, revision, feedback, broadcast, request, thread, appsrc, gui, played>>

FeedInit ==
  /\ window = [start |-> 0, end |-> 0, status |-> "receiving"]
  /\ revision = [data |-> 0, control |-> 0]
  /\ feedback = [generation |-> 0, expired |-> None,
                 progress |-> [generation |-> 0, waits |-> 0],
                 interrupted |-> FALSE, failure |-> FALSE]
  /\ broadcast = FALSE
  /\ request = None
  /\ thread = [pc |-> "idle", generation |-> 0, observed |-> revision,
               offset |-> 0, pending |-> {}, result |-> "none", block |-> 0]
  /\ appsrc = [queue |-> <<>>, flushing |-> FALSE, eos |-> FALSE, wants |-> TRUE]
  /\ gui = [pc |-> "idle", target |-> 0, recover |-> FALSE, seeks |-> 0, controls |-> 0]
  /\ played = None

Notified(change) == [revision EXCEPT ![change] = @ + 1]

Cancelled == feedback.interrupted \/ thread.generation # feedback.generation

----------------------------------------------------------------------------
(* The receiver, and everything else that shrinks the window.               *)

(* Dropping the input aborts the receiving task. *)
Receiving == window.status = "receiving" /\ gui.pc # "stopped"

(* A slip: eviction past the received end. *)
ReceivePastEnd ==
  /\ Receiving
  /\ window.end < MaxReceived
  /\ window' = [window EXCEPT !.end = @ + 1, !.start = window.end + 2]
  /\ revision' = Notified("data")
  /\ UNCHANGED <<feedback, broadcast, request, thread, appsrc, gui, played>>

(* append_received publishes a block and notifies under the store's lock;
   trim may reclaim the oldest blocks, up to the block just received. *)
AppendReceived ==
  /\ Receiving
  /\ window.end < MaxReceived
  /\ \E start \in window.start .. window.end :
       window' = [window EXCEPT !.end = @ + 1, !.start = start]
  /\ revision' = Notified("data")
  /\ UNCHANGED <<feedback, broadcast, request, thread, appsrc, gui, played>>

(* A new policy (Prepared::commit) or the end of a pause reclaims blocks
   without notifying anyone. *)
Reclaim ==
  /\ gui.pc = "idle"
  /\ \E start \in window.start + 1 .. window.end :
       window' = [window EXCEPT !.start = start]
  /\ UNCHANGED <<revision, feedback, broadcast, request, thread, appsrc, gui, played>>

(* Store::finish when reception ends for good: receive never returns Ok. *)
FinishReception ==
  /\ Receiving
  /\ window' = [window EXCEPT !.status = "failed"]
  /\ revision' = Notified("control")
  /\ UNCHANGED <<feedback, broadcast, request, thread, appsrc, gui, played>>

----------------------------------------------------------------------------
(* The streaming thread.                                                    *)

ReaderOnly == UNCHANGED <<window, revision, gui, played>>

(* appsrc calls need_data once each time it finds its queue empty, and sleeps
   after a call that delivered nothing; need_data loads the generation it
   will read for. *)
NeedData ==
  /\ thread.pc = "idle"
  /\ appsrc.wants /\ appsrc.queue = <<>> /\ ~appsrc.eos /\ ~appsrc.flushing
  /\ gui.pc # "stopped"
  /\ thread' = [thread EXCEPT !.pc = "observe", !.generation = feedback.generation]
  /\ appsrc' = [appsrc EXCEPT !.wants = FALSE]
  /\ ReaderOnly /\ UNCHANGED <<feedback, broadcast, request>>

(* next: the notifications seen before the input is looked at. *)
Observe ==
  /\ thread.pc = "observe"
  /\ thread' = [thread EXCEPT !.pc = "check", !.observed = revision]
  /\ ReaderOnly /\ UNCHANGED <<feedback, broadcast, request, appsrc>>

CheckCancelled ==
  /\ thread.pc = "check"
  /\ thread' = [thread EXCEPT !.pc = IF Cancelled THEN "idle" ELSE "prepare"]
  /\ ReaderOnly /\ UNCHANGED <<feedback, broadcast, request, appsrc>>

(* Only replaced storage leaves the window, and with it the index, empty. *)
Unindexed == window.start = window.end

(* A slip: the outputs left of the old position survive the seek. *)
TakeRequestKeepingOutputs ==
  /\ thread.pc = "prepare"
  /\ broadcast' = FALSE
  /\ request' = None
  /\ IF request = None \/ request \notin window.start .. window.end - 1
       THEN thread' = [thread EXCEPT !.pc = "read"]
       ELSE \E anchor \in window.start .. request :
              thread' = [thread EXCEPT !.pc = "read", !.offset = anchor]
  /\ ReaderOnly /\ UNCHANGED <<feedback, appsrc>>

(* Under the reader's lock: take the latest subscription and the latest seek
   request.  Looking up the target's anchor, an index entry some way before
   it, locks the store once; the read that follows locks it again.  A failed
   lookup leaves the position and the outputs of before.  The initial seek to
   0 keeps the position. *)
TakeRequest ==
  /\ thread.pc = "prepare"
  /\ broadcast' = FALSE
  /\ request' = None
  /\ IF request = None \/ (request = 0 /\ thread.offset = 0)
       THEN thread' = [thread EXCEPT !.pc = "read"]
     ELSE IF request \in window.start .. window.end - 1
       THEN \E anchor \in window.start .. request :
              thread' = [thread EXCEPT !.pc = "read", !.offset = anchor, !.pending = {}]
     ELSE thread' = [thread EXCEPT !.pc = "recheck",
                       !.result = IF Unindexed THEN "error" ELSE "expired"]
  /\ ReaderOnly /\ UNCHANGED <<feedback, appsrc>>

(* next_with_cancel: outputs left of the last block come first. *)
ReadPending ==
  /\ thread.pc = "read"
  /\ \E block \in thread.pending :
       /\ \A other \in thread.pending : block <= other
       /\ thread' = [thread EXCEPT !.pc = "recheck", !.result = "data",
                                   !.block = block, !.pending = @ \ {block}]
  /\ ReaderOnly /\ UNCHANGED <<feedback, broadcast, request, appsrc>>

(* read_for_playback outside the window, or at its end. *)
ReadNothing ==
  /\ thread.pc = "read"
  /\ thread.pending = {}
  /\ ~ (thread.offset \in window.start .. window.end - 1)
  /\ thread' = [thread EXCEPT !.pc = "recheck",
       !.result = FeedWindow!Answer(thread.offset)]
  /\ ReaderOnly /\ UNCHANGED <<feedback, broadcast, request, appsrc>>

(* read_for_playback inside the window: some blocks of what it returns
   become outputs, in order; the filter drops the rest. *)
ReadBlock ==
  /\ thread.pc = "read"
  /\ thread.pending = {}
  /\ \E count \in 1 .. BlockUnits :
       LET blocks == thread.offset .. thread.offset + count - 1
       IN /\ blocks \subseteq window.start .. window.end - 1
          /\ \/ thread' = [thread EXCEPT !.pc = "recheck", !.result = "filtered",
                                         !.offset = @ + count]
             \/ \E kept \in SUBSET blocks, first \in blocks :
                  /\ first \in kept
                  /\ \A other \in kept : first <= other
                  /\ thread' = [thread EXCEPT !.pc = "recheck", !.result = "data",
                                   !.offset = @ + count,
                                   !.block = first, !.pending = kept \ {first}]
  /\ ReaderOnly /\ UNCHANGED <<feedback, broadcast, request, appsrc>>

(* The result is looked at only if the call was not cancelled meanwhile.
   need_data checks once more before it delivers; nothing happens between. *)
RecheckCancelled ==
  /\ thread.pc = "recheck"
  /\ Cancelled
  /\ thread' = [thread EXCEPT !.pc = "idle"]
  /\ ReaderOnly /\ UNCHANGED <<feedback, broadcast, request, appsrc>>

RecheckDeliver ==
  /\ thread.pc = "recheck"
  /\ ~ Cancelled
  /\ thread.result \in {"data", "error"}
  /\ thread' = [thread EXCEPT !.pc = "deliver"]
  /\ ReaderOnly /\ UNCHANGED <<feedback, broadcast, request, appsrc>>

(* Outputs that were filtered away: try again. *)
RecheckFiltered ==
  /\ thread.pc = "recheck"
  /\ ~ Cancelled
  /\ thread.result = "filtered"
  /\ thread' = [thread EXCEPT !.pc = "observe"]
  /\ ReaderOnly /\ UNCHANGED <<feedback, broadcast, request, appsrc>>

(* A slip: the notifications are looked at after the input. *)
RecheckThenObserve ==
  /\ thread.pc = "recheck"
  /\ ~ Cancelled
  /\ thread.result \in {"awaiting", "expired"}
  /\ thread' = [thread EXCEPT !.pc = "report", !.observed = revision]
  /\ ReaderOnly /\ UNCHANGED <<feedback, broadcast, request, appsrc>>

(* Nothing to read: report it.  The generation may move before the report. *)
RecheckNothing ==
  /\ thread.pc = "recheck"
  /\ ~ Cancelled
  /\ thread.result \in {"awaiting", "expired"}
  /\ thread' = [thread EXCEPT !.pc = "report"]
  /\ ReaderOnly /\ UNCHANGED <<feedback, broadcast, request, appsrc>>

(* awaited counts the wait, if it is the current seek's; then the reader
   sleeps until anything changes. *)
ReportAwaiting ==
  /\ thread.pc = "report"
  /\ thread.result = "awaiting"
  /\ feedback' = IF feedback.progress.generation = thread.generation
                   THEN [feedback EXCEPT !.progress.waits = @ + 1]
                   ELSE feedback
  /\ thread' = [thread EXCEPT !.pc = "parked"]
  /\ ReaderOnly /\ UNCHANGED <<broadcast, request, appsrc>>

(* A slip: the reader sleeps without a report. *)
SleepExpired ==
  /\ thread.pc = "report"
  /\ thread.result = "expired"
  /\ thread' = [thread EXCEPT !.pc = "parked"]
  /\ ReaderOnly /\ UNCHANGED <<feedback, broadcast, request, appsrc>>

(* The generation whose position is gone; then the reader sleeps until a
   control change. *)
ReportExpired ==
  /\ thread.pc = "report"
  /\ thread.result = "expired"
  /\ feedback' = [feedback EXCEPT !.expired = thread.generation]
  /\ thread' = [thread EXCEPT !.pc = "parked"]
  /\ ReaderOnly /\ UNCHANGED <<broadcast, request, appsrc>>

(* Observation::wait returns at once if the revision already moved. *)
Asleep ==
  /\ thread.pc = "parked"
  /\ revision.control = thread.observed.control
  /\ thread.result = "awaiting" => revision.data = thread.observed.data

Wake ==
  /\ thread.pc = "parked"
  /\ ~ Asleep
  /\ thread' = [thread EXCEPT !.pc = "observe"]
  /\ ReaderOnly /\ UNCHANGED <<feedback, broadcast, request, appsrc>>

(* push_buffer, or end_of_stream.  A flushing or ended appsrc refuses. *)
Deliver ==
  /\ thread.pc = "deliver"
  /\ feedback' = IF thread.result = "error" THEN [feedback EXCEPT !.failure = TRUE]
                                            ELSE feedback
  /\ appsrc' = IF appsrc.flushing \/ appsrc.eos THEN appsrc
               ELSE IF thread.result = "data"
                 THEN [appsrc EXCEPT !.queue =
                         Append(@, [block |-> thread.block, generation |-> thread.generation])]
               ELSE [appsrc EXCEPT !.eos = TRUE]
  /\ thread' = [thread EXCEPT !.pc = "idle"]
  /\ ReaderOnly /\ UNCHANGED <<broadcast, request>>

(* external: the decoder takes the oldest buffer. *)
Decode ==
  /\ appsrc.queue # <<>> /\ ~appsrc.flushing
  /\ appsrc' = [appsrc EXCEPT !.queue = Tail(@), !.wants = TRUE]
  /\ played' = Head(appsrc.queue).block
  /\ UNCHANGED <<window, revision, feedback, broadcast, request, thread, gui>>

----------------------------------------------------------------------------
(* The GUI thread.                                                          *)

GuiOnly == UNCHANGED <<window, request, thread, played>>

(* The pad probe sees the seek event: begin_seek moves the generation first
   and notifies the reader last. *)
SendSeek ==
  /\ gui.pc = "idle"
  /\ gui.seeks < MaxSeeks
  /\ \E target \in 0 .. window.end :
       gui' = [gui EXCEPT !.pc = "seek_sent", !.target = target,
                          !.recover = FALSE, !.seeks = @ + 1]
  /\ feedback' = [feedback EXCEPT !.generation = @ + 1]
  /\ GuiOnly /\ UNCHANGED <<revision, broadcast, appsrc>>

(* The probe sees flush-start: begin_seek again.  appsrc refuses buffers. *)
FlushStart ==
  /\ gui.pc = "seek_begun"
  /\ gui' = [gui EXCEPT !.pc = "flush_sent"]
  /\ feedback' = [feedback EXCEPT !.generation = @ + 1]
  /\ appsrc' = [appsrc EXCEPT !.flushing = TRUE]
  /\ GuiOnly /\ UNCHANGED <<revision, broadcast>>

(* A slip: begin_seek moves the generation without waking the reader. *)
FinishBeginSeekSilently ==
  /\ gui.pc \in {"seek_sent", "flush_sent"}
  /\ gui' = [gui EXCEPT !.pc = IF @ = "seek_sent" THEN "seek_begun" ELSE "flushing"]
  /\ feedback' = [feedback EXCEPT
                    !.progress = [generation |-> feedback.generation, waits |-> 0]]
  /\ GuiOnly /\ UNCHANGED <<revision, broadcast, appsrc>>

(* The rest of begin_seek. *)
FinishBeginSeek ==
  /\ gui.pc \in {"seek_sent", "flush_sent"}
  /\ gui' = [gui EXCEPT !.pc = IF @ = "seek_sent" THEN "seek_begun" ELSE "flushing"]
  /\ feedback' = [feedback EXCEPT
                    !.progress = [generation |-> feedback.generation, waits |-> 0]]
  /\ revision' = Notified("control")
  /\ GuiOnly /\ UNCHANGED <<broadcast, appsrc>>

Accepts(target) == target = 0 \/ target \in window.start .. window.end - 1

(* seek_data, once the streaming thread has returned.  GStreamer stops
   flushing in either case and drops the queue only for an accepted seek. *)
SeekData ==
  /\ gui.pc = "flushing"
  /\ thread.pc = "idle"
  /\ gui' = [gui EXCEPT !.pc = "idle"]
  /\ IF Accepts(gui.target)
       THEN /\ request' = gui.target
            /\ revision' = Notified("control")
            /\ appsrc' = [queue |-> <<>>, flushing |-> FALSE, eos |-> FALSE, wants |-> TRUE]
            /\ played' = None
       ELSE /\ appsrc' = [appsrc EXCEPT !.flushing = FALSE, !.wants = TRUE]
            /\ UNCHANGED <<request, revision, played>>
  /\ UNCHANGED <<window, feedback, broadcast, thread>>

(* set_data_broadcast leaves the change, then notifies. *)
SetBroadcast ==
  /\ gui.pc = "idle"
  /\ gui.controls < MaxControls
  /\ broadcast' = TRUE
  /\ gui' = [gui EXCEPT !.pc = "broadcast_set", !.controls = @ + 1]
  /\ GuiOnly /\ UNCHANGED <<revision, feedback, appsrc>>

(* suspend(true), the first thing stop does. *)
Suspend ==
  /\ gui.pc = "idle"
  /\ gui.controls < MaxControls
  /\ feedback' = [feedback EXCEPT !.interrupted = TRUE]
  /\ gui' = [gui EXCEPT !.pc = "suspend_set", !.controls = @ + 1]
  /\ GuiOnly /\ UNCHANGED <<revision, broadcast, appsrc>>

(* Playback::stop fails: the input is resumed and the session kept. *)
Resume ==
  /\ gui.pc = "stopping"
  /\ feedback' = [feedback EXCEPT !.interrupted = FALSE]
  /\ gui' = [gui EXCEPT !.pc = "resume_set"]
  /\ GuiOnly /\ UNCHANGED <<revision, broadcast, appsrc>>

(* A slip: suspend(true) leaves the reader asleep. *)
NotifyUnlessSuspending ==
  /\ gui.pc \in {"broadcast_set", "suspend_set", "resume_set"}
  /\ revision' = IF gui.pc = "suspend_set" THEN revision ELSE Notified("control")
  /\ gui' = [gui EXCEPT !.pc = IF @ = "suspend_set" THEN "stopping" ELSE "idle"]
  /\ GuiOnly /\ UNCHANGED <<feedback, broadcast, appsrc>>

(* The notification that ends set_data_broadcast and suspend. *)
NotifyControl ==
  /\ gui.pc \in {"broadcast_set", "suspend_set", "resume_set"}
  /\ revision' = Notified("control")
  /\ gui' = [gui EXCEPT !.pc = IF @ = "suspend_set" THEN "stopping" ELSE "idle"]
  /\ GuiOnly /\ UNCHANGED <<feedback, broadcast, appsrc>>

(* The native transition waits for the streaming thread; then the input is
   dropped, which suspends it again and aborts the receiver. *)
Stop ==
  /\ gui.pc = "stopping"
  /\ thread.pc = "idle"
  /\ gui' = [gui EXCEPT !.pc = "stopped"]
  /\ revision' = Notified("control")
  /\ GuiOnly /\ UNCHANGED <<feedback, broadcast, appsrc>>

(* A slip: any report counts, whichever seek it is about. *)
TakeAnyExpired ==
  /\ gui.pc = "idle"
  /\ feedback.expired # None
  /\ feedback' = [feedback EXCEPT !.expired = None]
  /\ gui' = [gui EXCEPT !.recover = TRUE]
  /\ GuiOnly /\ UNCHANGED <<revision, broadcast, appsrc>>

(* Each poll takes the report of an expired position; only one about the
   current generation starts a recovery seek. *)
TakeExpired ==
  /\ gui.pc = "idle"
  /\ feedback.expired # None
  /\ feedback' = [feedback EXCEPT !.expired = None]
  /\ gui' = [gui EXCEPT !.recover = @ \/ feedback.expired = feedback.generation]
  /\ GuiOnly /\ UNCHANGED <<revision, broadcast, appsrc>>

----------------------------------------------------------------------------
Receiver == AppendReceived \/ Reclaim \/ FinishReception

Streaming ==
  \/ NeedData \/ Observe \/ CheckCancelled \/ TakeRequest
  \/ ReadPending \/ ReadNothing \/ ReadBlock
  \/ RecheckCancelled \/ RecheckDeliver \/ RecheckFiltered
  \/ RecheckNothing \/ ReportAwaiting \/ ReportExpired \/ Wake \/ Deliver

Gui ==
  \/ SendSeek \/ FlushStart \/ FinishBeginSeek \/ SeekData
  \/ SetBroadcast \/ Suspend \/ Resume \/ NotifyControl \/ Stop \/ TakeExpired

FeedNext == Receiver \/ Streaming \/ Decode \/ Gui

FeedSpec == FeedInit /\ [][FeedNext]_feedVars

(* What GStreamer does of itself once the GUI thread called it.  A native stop
   that fails (Resume) may happen and is not forced: set_state has no time
   limit, and nothing but the streaming thread's return ends it. *)
GuiCall == FlushStart \/ FinishBeginSeek \/ SeekData \/ NotifyControl \/ Stop

(* The streaming thread runs while it is not blocked, the decoder consumes,
   GStreamer completes the calls the GUI thread makes, and the session polls
   for reports between calls. *)
LiveSpec ==
  FeedSpec /\ WF_feedVars(Streaming) /\ WF_feedVars(Decode) /\ WF_feedVars(GuiCall) /\ WF_feedVars(TakeExpired)

----------------------------------------------------------------------------
ReaderPcs == {"idle", "observe", "check", "prepare", "read", "recheck", "report",
              "deliver", "parked"}
Results == {"none", "data", "awaiting", "expired", "filtered", "error"}
GuiPcs == {"idle", "seek_sent", "seek_begun", "flush_sent", "flushing", "broadcast_set",
           "suspend_set", "resume_set", "stopping", "stopped"}
Item == [block : Nat, generation : Nat]

WindowOK ==
  /\ window \in [start : Nat, end : Nat, status : {"receiving", "failed"}]
  /\ window.start <= window.end
FeedbackOK ==
  feedback \in [generation : Nat, expired : Nat \cup {None},
                progress : [generation : Nat, waits : Nat],
                interrupted : BOOLEAN, failure : BOOLEAN]
ReaderOK ==
  thread \in [pc : ReaderPcs, generation : Nat, observed : [data : Nat, control : Nat],
              offset : Nat, pending : SUBSET Nat, result : Results, block : Nat]
AppsrcOK ==
  appsrc \in [queue : Seq(Item), flushing : BOOLEAN, eos : BOOLEAN, wants : BOOLEAN]
GuiOK ==
  gui \in [pc : GuiPcs, target : Nat, recover : BOOLEAN, seeks : Nat, controls : Nat]

(* Types; the window is never inverted. *)
FeedTypeOK ==
  /\ WindowOK
  /\ revision \in [data : Nat, control : Nat]
  /\ FeedbackOK
  /\ broadcast \in BOOLEAN
  /\ request \in Nat \cup {None}
  /\ ReaderOK
  /\ AppsrcOK
  /\ GuiOK
  /\ played \in Nat \cup {None}

(* A sleeping reader has nothing it should act on: whatever changed since it
   looked (a cancellation, a new subscription, a seek request, data, the end
   of reception) either woke it or is about to be notified by the GUI thread
   (Activity: "Observe before checking input so a change between that check
   and wait cannot be lost"). *)
NoLostWakeup ==
  Asleep =>
    /\ Cancelled => gui.pc \in {"seek_sent", "flush_sent", "suspend_set"}
    /\ broadcast => gui.pc = "broadcast_set"
    /\ request = None
    /\ thread.result = "awaiting" => window.status = "receiving" /\ thread.offset >= window.end

(* A recovery seek is started only for an expiry reported about the current
   generation: a report that raced with a later seek is dropped by
   take_expired. *)
RecoveryIsDeserved == gui.recover => thread.generation = feedback.generation

(* The streaming thread and the GUI thread never act on, or sleep through, what
   the other one changed meanwhile. *)
ReaderIsInformed == NoLostWakeup /\ RecoveryIsDeserved

(* Between two accepted seeks the decoder gets blocks in stream order, none
   twice: no output prepared for an earlier position survives an accepted
   seek (SeekPlan::execute, the cancellation checks of need_data). *)
PlaysInOrder == [][Decode => played' > played]_feedVars

(* Every seek, broadcast switch and stop returns: the GUI thread never waits
   for ever on a streaming thread that sleeps in need_data.  A stop returns
   because the suspended reader leaves need_data, not because it fails. *)
GuiCallsReturn == gui.pc \notin {"idle", "stopped"} ~> gui.pc \in {"idle", "stopped"}

(* A reader that waits for data wakes once there is some. *)
DataWakesReader ==
  (thread.pc = "parked" /\ thread.result = "awaiting" /\ thread.offset < window.end)
    ~> thread.pc # "parked"

(* A position that expired under the current seek reaches the GUI thread as a
   recovery, unless a newer seek or a stop overtakes it. *)
ExpiryRecovers ==
  (thread.pc = "parked" /\ thread.result = "expired" /\ ~ Cancelled)
    ~> (gui.recover \/ Cancelled)

(* A sleeping reader is woken by what it waits for. *)
ReaderGoesOn == DataWakesReader /\ ExpiryRecovers

(* The two threads never wait on each other, or on what already happened. *)
BothGoOn == GuiCallsReturn /\ ReaderGoesOn
=============================================================================
