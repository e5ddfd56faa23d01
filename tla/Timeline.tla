------------------------------ MODULE Timeline ------------------------------
(***************************************************************************)
(* The transport controller (playback/timeline.rs) between the GUI         *)
(* thread's calls, playback::Session::poll (playback/session.rs) and a     *)
(* GStreamer pipeline that confirms, refuses or never answers a seek.      *)
(*                                                                         *)
(* The GUI thread runs one call at a time: a transport request, a change   *)
(* of the retention settings, or a poll in two halves: the controller and  *)
(* then, for a live stream, the receive window read afterwards.  The       *)
(* pipeline and the receiver move between any two of them.  Positions are  *)
(* small integers on the media time axis, rate 1 is normal speed.          *)
(***************************************************************************)
EXTENDS Integers

CONSTANTS
  Sources,       \* what can be opened: "live" streams, "recording"s
  MaxEnd,        \* where the recording or the broadcast ends
  Reserve,       \* live_headroom: what a live start keeps between edge and position
  Hysteresis,    \* LIVE_RATE_HYSTERESIS
  Recovery,      \* SEEK_PREROLL + RECOVERY_HEADROOM
  Rates,         \* selectable rates, 1 is normal
  Modes,         \* selectable retention modes
  MaxRequests    \* calls the user makes

ASSUME TimelineAssumption ==
  /\ Sources \subseteq {"live", "recording"}
  /\ {MaxEnd, Reserve, Hysteresis, Recovery, MaxRequests} \subseteq Nat
  /\ 1 \in Rates /\ Rates \subseteq Nat \ {0}
  /\ Modes \subseteq {"off", "on_pause", "always"}
  /\ MaxEnd > 0

VARIABLES
  ctl,        \* Controller
  pipe,       \* the pipeline, and the probe's Output
  store,      \* the source and its receive window: [source, start, end, history, mode]
  session,    \* "connecting", "playing", or why the stream was released
  polled,     \* between the two halves of Session::poll
  requests,   \* calls the user made (bounds the model)
  wish,       \* history: what was last asked for: [resume, live]
  skipped     \* history: a settings change overtook the initial preroll

vars == <<ctl, pipe, store, session, polled, requests, wish, skipped>>

NoTime == -1
NoRate == 0
NoRange == [start |-> NoTime, end |-> NoTime]
Current == [at |-> NoTime]       \* Target::Current
At(time) == [at |-> time]        \* Target::At
NoNext == [target |-> Current, rate |-> NoRate, completion |-> "none"]
NoSeek == [target |-> NoTime, resume |-> "none", next |-> NoNext, rate |-> NoRate,
           completion |-> "none", clock |-> "none", late |-> FALSE]
NoSegment == [target |-> NoTime, rate |-> NoRate]

LeastOf(a, b) == IF a < b THEN a ELSE b
MostOf(a, b) == IF a < b THEN b ELSE a

Stopped == {"paused", "expired", "failed"}     \* what the user sees as paused

RecoveryTarget(range) ==
  range.start + LeastOf(Recovery, (range.end - range.start) \div 2)
LiveTarget(range) == MostOf(range.end - Reserve, range.start)

-----------------------------------------------------------------------------
(* The pipeline as the controller sees it. *)

Live == store.source = "live"
Window == [start |-> store.start, end |-> store.end]
HasWindow == store.end > store.start          \* Range::new

(* pipeline.set_state *)
SetState(p, target) ==
  IF p.target = target THEN p
  ELSE [p EXCEPT !.target = target,
                 !.phase = IF @ = "starting" THEN @ ELSE "async"]

(* pipeline.query_position: nothing is answered during a flush. *)
QueryPosition(p) == IF p.segment = "none" THEN NoTime ELSE p.pos

(* The answer of the TIME seeking query: a live stream is seekable while it
   keeps history. *)
Seekable == IF Live THEN store.history /\ HasWindow ELSE TRUE

(* Output::default on FlushStart and FlushStop. *)
Flush(p) ==
  [p EXCEPT !.segment = "none", !.buffered = FALSE, !.eos = FALSE, !.rate = NoRate,
            !.phase = IF @ = "starting" THEN @ ELSE "async",
            !.bus = IF @ = "none" THEN @ ELSE "stale",
            !.flushed = TRUE]

(* Sequence numbers relative to the last accepted seek: its own is "new", that
   of the output it replaces "old", any other "stale". *)
Accept(p, target, rate) ==
  [p EXCEPT !.todo = [target |-> target, rate |-> rate],
            !.bus = IF @ = "none" THEN @ ELSE IF @ = p.segment THEN "old" ELSE "stale",
            !.segment = IF @ = "none" THEN @ ELSE "old",
            !.flushed = FALSE, !.expired = "no"]

(* send_event: the source refuses a target it does not hold, the pipeline may
   refuse any seek, before or after it flushed. *)
Accepts(target) == ~Live \/ target \in store.start .. store.end
Refusals(p) == {[p EXCEPT !.expired = "no"], [Flush(p) EXCEPT !.expired = "no"]}

-----------------------------------------------------------------------------
(* Controller.  An operation returns the set of its outcomes. *)

Done(c, p) == [ctl |-> c, pipe |-> p, result |-> "ok", live |-> FALSE]
Fail(c, p, error) == [ctl |-> c, pipe |-> p, result |-> error, live |-> FALSE]

Seeking(c) == c.state = "seeking"

NativeResume(c, resume) ==
  IF c.network = "ready" /\ resume = "playing" THEN "playing" ELSE "paused"

(* Slip: without a queued change there is no rate either. *)
RequestedRateQueued(c) == IF Seeking(c) THEN c.seek.next.rate ELSE c.rate

RequestedRate(c) ==
  IF Seeking(c) /\ c.seek.next # NoNext THEN c.seek.next.rate
  ELSE IF Seeking(c) THEN c.seek.rate ELSE c.rate

SeekTarget(c) ==
  IF ~Seeking(c) THEN NoTime
  ELSE IF c.seek.next.target # Current THEN c.seek.next.target.at
  ELSE c.seek.target

PhaseResume(c) ==
  IF c.state \in Stopped \/ (Seeking(c) /\ c.seek.resume = "paused") THEN "paused"
  ELSE "playing"

ObserveLive(c, range, history) ==
  IF ~history THEN [c EXCEPT !.livePosition = "forward"]
  ELSE IF c.position = NoTime THEN c
  ELSE LET delay == MostOf(range.end - c.position, 0)
       IN  [c EXCEPT !.livePosition =
              IF \/ @ = "behind" /\ delay > Reserve
                 \/ delay >= Reserve + Hysteresis
              THEN "behind" ELSE "near"]

SamplePosition(c, p) ==
  IF QueryPosition(p) = NoTime THEN c ELSE [c EXCEPT !.position = QueryPosition(p)]

Sample(c, p) ==
  LET placed == IF Seeking(c) THEN c ELSE SamplePosition(c, p)
  IN  [placed EXCEPT !.range = IF Seekable THEN Window ELSE NoRange]

(* Slip: the native state the live preroll took is not given back. *)
RejectedUnrestored(c, p, live, rate) == Fail(c, p, "rejected")

(* A refused change of rate is only survived when the output still confirms
   the old one. *)
Rejected(c, p, live, rate) ==
  LET back == IF live
              THEN SetState(p, IF c.state \in Stopped THEN "paused"
                               ELSE NativeResume(c, "playing"))
              ELSE p
  IN  IF rate # c.rate /\ p.rate # c.rate
      THEN Fail([c EXCEPT !.state = "failed", !.seek = NoSeek], SetState(back, "paused"), "rejected")
      ELSE Fail(c, back, "rejected")

Started(c, p, target, resume, rate, completion) ==
  LET live == completion = "live" /\ resume = "playing"
  IN  Done([c EXCEPT !.state = "seeking",
                     !.seek = [target |-> target, resume |-> resume, next |-> NoNext,
                               rate |-> rate, completion |-> completion,
                               clock |-> IF live THEN "preroll" ELSE "preserve",
                               late |-> FALSE]],
           SetState(Accept(p, target, rate),
                    IF live THEN "paused" ELSE NativeResume(c, resume)))

StartChange(c, p, target, resume, rate, completion) ==
  LET live == completion = "live" /\ resume = "playing"
      q == IF live THEN SetState(p, "paused") ELSE p
  IN  {Rejected(c, r, live, rate) : r \in Refusals(q)}
      \cup (IF Accepts(target) THEN {Started(c, q, target, resume, rate, completion)} ELSE {})

(* resume_live: the preroll is complete and the reserve is there. *)
CanResumeLive(p, range) ==
  /\ p.target = "paused" /\ p.phase = "settled"
  /\ p.buffered /\ ~p.eos
  /\ QueryPosition(p) # NoTime
  /\ range.end - QueryPosition(p) >= Reserve

-----------------------------------------------------------------------------
(* Controller::poll and Controller::ended *)

(* Slip: any output of the new segment confirms the change. *)
ConfirmedBySegment(c, p) == p.segment = "new" /\ p.buffered

Confirmed(c, p) ==
  p.segment = "new" /\ p.buffered /\ p.rate = c.seek.rate
AtEos(p) == p.segment = "new" /\ p.eos

(* The live preroll waits for the reserve. *)
AwaitsReserve(c, p) ==
  /\ ~AtEos(p) /\ Confirmed(c, p)
  /\ c.seek.next = NoNext /\ c.seek.resume = "playing" /\ c.seek.clock = "preroll"

FailedPause(c, p, error) ==
  Fail([c EXCEPT !.state = "failed", !.seek = NoSeek], SetState(p, "paused"), error)

(* Slip: the reserve is waited for without a deadline. *)
PollReserveForever(c, p) ==
  IF c.receive # NoRange /\ CanResumeLive(p, c.receive)
  THEN {Done([c EXCEPT !.seek.clock = "preserve"], SetState(p, "playing"))}
  ELSE {Done(c, p)}

PollReserve(c, p) ==
  IF c.seek.late THEN {FailedPause(c, p, "timed_out")}
  ELSE IF c.receive # NoRange /\ CanResumeLive(p, c.receive)
  THEN {Done([c EXCEPT !.seek.clock = "preserve"], SetState(p, "playing"))}
  ELSE {Done(c, p)}

(* Slip: a newer request does not matter. *)
ReachedLiveAnyway(c, p) ==
  ~AtEos(p) /\ c.seek.resume = "playing" /\ c.seek.completion \in {"live", "caught_up"}

(* A requested live target is not proof of arrival: only the confirmed segment
   is, with no newer user intent. *)
ReachedLive(c, p) ==
  LET k == c.seek IN
  /\ k.next = NoNext /\ ~AtEos(p) /\ k.resume = "playing"
  /\ \/ k.completion = "live"
     \/ /\ k.completion = "caught_up" /\ c.range # NoRange
        /\ c.range.end - k.target <= Reserve + Hysteresis

Landed(c, p) ==
  LET k == c.seek IN
  [c EXCEPT !.rate = k.rate, !.seek = NoSeek,
            !.livePosition =
               IF k.next = NoNext /\ k.completion \in {"live", "caught_up"} THEN "near" ELSE @,
            !.state = IF AtEos(p) /\ k.next = NoNext THEN "ended" ELSE k.resume]

PollNext(c, p) ==
  LET k == c.seek
      landed == Landed(c, p)
      target == IF k.next.target = Current THEN QueryPosition(p) ELSE k.next.target.at
  IN  IF k.next = NoNext THEN {Done(landed, p)}
      ELSE IF target = NoTime THEN {Fail(landed, p, "unavailable")}
      ELSE StartChange(landed, p, target, k.resume, k.next.rate, k.next.completion)

PollLanded(c, p) ==
  {[o EXCEPT !.live = o.result = "ok" /\ ReachedLive(c, p)] : o \in PollNext(c, p)}

(* The position is sampled every POSITION_SAMPLE_INTERVAL. *)
Sampled(o) ==
  IF o.result = "ok" THEN {o, [o EXCEPT !.ctl = Sample(o.ctl, o.pipe)]} ELSE {o}

Poll(c, p) ==
  IF ~Seeking(c) THEN Sampled(Done(c, p))
  ELSE IF AwaitsReserve(c, p) THEN PollReserve(c, p)
  ELSE IF AtEos(p) \/ (Confirmed(c, p) /\ p.phase = "settled")
  THEN UNION {Sampled(o) : o \in PollLanded(c, p)}
  ELSE IF c.seek.late
  THEN {FailedPause(c, p, IF c.seek.rate # c.rate THEN "rate_timed_out" ELSE "timed_out")}
  ELSE Sampled(Done(c, p))

(* Only the end of the current output segment may finish playback. *)
Ends(c, p) ==
  /\ p.bus # "none" /\ p.bus = p.segment
  /\ Seeking(c) => p.bus = "new" /\ c.seek.next = NoNext
Ended(c) ==
  [c EXCEPT !.state = "ended", !.rate = IF Seeking(c) THEN c.seek.rate ELSE @, !.seek = NoSeek]

-----------------------------------------------------------------------------
(* Controller::recording_network and await_recording_recovery *)

NetworkStarves(c, p) ==
  <<[c EXCEPT !.network = "starved"], SetState(p, "paused")>>
(* Slip: the clock stays stopped. *)
NetworkReturnsStopped(c, p) == <<[c EXCEPT !.network = "ready"], p>>

NetworkReturns(c, p) ==
  <<[c EXCEPT !.network = "ready"],
    IF c.state = "playing" \/ (Seeking(c) /\ c.seek.resume = "playing")
    THEN SetState(p, "playing") ELSE p>>
RecordingNetwork(c, p, starved) ==
  CASE c.network = "ready" /\ starved -> NetworkStarves(c, p)
    [] c.network = "starved" /\ ~starved -> NetworkReturns(c, p)
    [] OTHER -> <<c, p>>
AwaitRecovery(c) == IF Seeking(c) THEN [c EXCEPT !.seek.late = FALSE] ELSE c

-----------------------------------------------------------------------------
(* Controller::retained: the receive window, on every poll of a live stream. *)

RetainedChange(c, p, range, history, expired) ==
  IF p.phase = "starting" THEN {Done(c, p)}
  ELSE
  LET sampled == [Sample(c, p) EXCEPT !.range = IF history THEN range ELSE NoRange]
      position == IF SeekTarget(c) # NoTime THEN SeekTarget(c) ELSE sampled.position
      outside == expired \/ (position # NoTime /\ position < range.start)
      handled == [sampled EXCEPT !.retention = "none"]
      finish(o) == IF o.result = "ok" THEN [o EXCEPT !.ctl.retention = "none"] ELSE o
  IN  CASE c.retention = "live" ->
             {finish(o) : o \in StartChange(sampled, p, LiveTarget(range), "playing", 1, "live")}
        [] c.retention = "clamp" /\ outside ->
             {finish(o) : o \in StartChange(sampled, p, RecoveryTarget(range),
                                            PhaseResume(c), 1, "position")}
        [] OTHER -> {Done(handled, p)}

(* Slip: the start is complete once the data is there. *)
AlignLiveStartSilently(c, p, range) ==
  IF range.end - QueryPosition(p) >= Reserve
  THEN Done([c EXCEPT !.startup = "complete"], p)
  ELSE Done(c, p)

(* Initial preroll owns the native PAUSED state until the reserve exists. *)
AlignLiveStart(c, p, range) ==
  IF CanResumeLive(p, range)
  THEN Done([c EXCEPT !.startup = "complete"], SetState(p, "playing"))
  ELSE Done(c, p)

RecoverExpired(c, p, range, history) ==
  LET recovery == IF history THEN RecoveryTarget(range) ELSE LiveTarget(range)
      target == IF Seeking(c) THEN MostOf(SeekTarget(c), recovery) ELSE recovery
      resume == IF Seeking(c) THEN c.seek.resume ELSE "playing"
  IN  StartChange([c EXCEPT !.startup = "complete"], p, target, resume, 1,
                  IF history THEN "position" ELSE "live")

(* Fast playback returns to normal speed near the live edge, when the supply
   limits it and when reception stalls. *)
CatchUp(c, p) ==
  IF c.state # "playing" \/ c.rate <= 1 \/ QueryPosition(p) = NoTime THEN {Done(c, p)}
  ELSE LET slow(completion) == StartChange(c, p, QueryPosition(p), "playing", 1, completion)
       IN  slow("stalled") \cup slow("caught_up")
           \cup (IF c.livePosition \in {"near", "forward"} THEN {} ELSE {Done(c, p)})

Observed(c, p, range, history) ==
  LET shown == [c EXCEPT !.receive = range, !.range = IF history THEN range ELSE NoRange]
  IN  ObserveLive(IF shown.state = "playing" THEN SamplePosition(shown, p) ELSE shown,
                  range, history)

Retained(before, p, range, history) ==
  LET c == Observed(before, p, range, history)
      expired == p.expired = "reported"
      taken == IF expired THEN [p EXCEPT !.expired = "taken"] ELSE p
      behind == history /\ c.position # NoTime /\ c.position < range.start
  IN  IF c.retention # "none"
      THEN RetainedChange(c, taken, range, history, expired)
      ELSE IF ~expired /\ c.startup = "awaiting" /\ c.state = "playing"
      THEN {AlignLiveStart(c, taken, range)}
      ELSE IF c.state \in Stopped /\ (expired \/ behind)
      THEN {Done([c EXCEPT !.state = "expired"], taken)}
      ELSE IF expired \/ (behind /\ ~Seeking(c))
      THEN RecoverExpired(c, taken, range, history)
      ELSE CatchUp(c, taken)

-----------------------------------------------------------------------------
(* Transport requests.  Each returns the set of its outcomes. *)

Completed(outcomes) ==
  {IF o.result = "ok" THEN [o EXCEPT !.ctl.startup = "complete"] ELSE o : o \in outcomes}

Unavailable(c, p) == {Fail(c, p, "unavailable")}

Faster(c) ==
  /\ RequestedRate(c) > 1 /\ c.livePosition \in {"near", "forward"} /\ ~Seeking(c)

(* Controller::pause *)
Pause(c, p, resume) ==
  LET here == IF QueryPosition(p) # NoTime THEN QueryPosition(p) ELSE c.position
      kept == [c EXCEPT !.startup = "complete",
                        !.state = IF Seeking(c) THEN @ ELSE resume,
                        !.seek = IF Seeking(c) THEN [@ EXCEPT !.resume = resume] ELSE @]
  IN  CASE c.state = "ended" -> Unavailable(c, p)
        [] c.state = "failed" /\ resume = "playing" ->
             IF here = NoTime THEN Unavailable(c, p)
             ELSE StartChange(c, p, here, resume, 1, "position")
        [] c.state = "failed" /\ resume = "paused" -> {Done(c, p)}
        [] c.state = "expired" /\ resume = "playing" ->
             IF ~Seekable THEN Unavailable(Sample(c, p), p)
             ELSE Completed(StartChange(Sample(c, p), p, RecoveryTarget(Window), resume, 1,
                                        "position"))
        [] c.state = "expired" /\ resume = "paused" ->
             {Done([c EXCEPT !.startup = "complete"], p)}
        [] c.state \in {"playing", "paused", "seeking"} /\ resume = "playing" /\ Faster(c) ->
             IF QueryPosition(p) = NoTime THEN Unavailable(c, p)
             ELSE StartChange(c, p, QueryPosition(p), resume, 1, "caught_up")
        [] OTHER ->
             {Done(IF Seeking(c) THEN kept ELSE SamplePosition(kept, p),
                   SetState(p, NativeResume(c, resume)))}

(* Controller::prepare *)
Prepares(p) == p.phase # "starting" /\ Seekable
Prepared(c, p) ==
  LET s == Sample(c, p)
  IN  IF s.livePosition \in {"near", "behind"} THEN ObserveLive(s, Window, TRUE) ELSE s

Queue(c, target, rate, completion) ==
  [c EXCEPT !.seek.next = [target |-> target, rate |-> rate, completion |-> completion],
            !.startup = "complete"]

(* Slip: a queued return keeps the pause it was asked in. *)
ReturnToLiveKeepingPause(before, p) ==
  LET c == [before EXCEPT !.receive = Window]
  IN  IF Seeking(c) THEN {Done(Queue(c, At(LiveTarget(Window)), 1, "live"), p)}
      ELSE Completed(StartChange(c, p, LiveTarget(Window), "playing", 1, "live"))

(* Ready::return_to_live *)
ReturnToLive(before, p) ==
  LET c == [before EXCEPT !.receive = Window]
      target == LiveTarget(Window)
  IN  IF Seeking(c)
      THEN {Done([Queue(c, At(target), 1, "live") EXCEPT !.seek.resume = "playing"], p)}
      ELSE Completed(StartChange(c, p, target, "playing", 1, "live"))

(* Controller::speed *)
Variable(c) ==
  /\ c.range # NoRange /\ (c.position # NoTime \/ Seeking(c))
  /\ c.livePosition \in {"recording", "behind"}
LiveOnly(c) ==
  IF c.range = NoRange \/ (c.position = NoTime /\ ~Seeking(c))
  THEN c.livePosition = "forward"
  ELSE c.livePosition \in {"near", "forward"}

(* Ready::set_rate *)
SetRate(c, p, rate) ==
  IF \/ c.state \in {"ended", "expired", "failed"}
     \/ ~(Variable(c) \/ (LiveOnly(c) /\ rate = 1))
  THEN {Fail(c, p, "rate_unavailable")}
  ELSE IF RequestedRate(c) = rate THEN {Done(c, p)}
  ELSE IF Seeking(c) THEN {Done(Queue(c, c.seek.next.target, rate, "position"), p)}
  ELSE IF QueryPosition(p) = NoTime THEN Unavailable(c, p)
  ELSE Completed(StartChange(c, p, QueryPosition(p), c.state, rate, "position"))

(* Ready::apply, with the target Range::target and seek_live made of it. *)
Apply(c, p, target) ==
  LET rate == IF c.state = "failed" THEN 1 ELSE RequestedRate(c)
      resume == IF c.state \in Stopped THEN "paused" ELSE "playing"
  IN  IF Seeking(c) THEN {Done(Queue(c, At(target), rate, "position"), p)}
      ELSE Completed(StartChange(c, p, target, resume, rate, "position"))

(* Just inside the end, or inside what is still retained. *)
Target(time) ==
  LET start == IF time < store.start THEN RecoveryTarget(Window) ELSE time
  IN  MostOf(LeastOf(start, store.end - 1), store.start)

-----------------------------------------------------------------------------
(* The session *)

Open == session \in {"connecting", "playing"}

Init ==
  /\ \E source \in Sources, mode \in Modes :
       store = [source |-> source, start |-> 0,
                mode |-> IF source = "live" THEN mode ELSE "off",
                end |-> IF source = "live" THEN 0 ELSE MaxEnd,
                history |-> source = "live" /\ mode = "always"]
  /\ ctl = [state |-> "playing", seek |-> NoSeek, rate |-> 1, network |-> "ready",
            startup |-> IF Live THEN "awaiting" ELSE "complete",
            livePosition |-> IF Live THEN "forward" ELSE "recording",
            position |-> NoTime, range |-> NoRange, receive |-> NoRange, retention |-> "none"]
  /\ pipe = [target |-> IF Live THEN "paused" ELSE "playing", phase |-> "starting",
             pos |-> 0, speed |-> 1, rate |-> NoRate, segment |-> "none", buffered |-> FALSE,
             eos |-> FALSE, bus |-> "none", todo |-> NoSegment, flushed |-> TRUE,
             expired |-> "no", announced |-> FALSE]
  /\ session = "connecting" /\ polled = FALSE /\ requests = 0
  /\ wish = [resume |-> "playing", live |-> Live] /\ skipped = FALSE

(* A pause the viewer did not ask for, and an end, replace what was asked. *)
Overridden(w, c) ==
  CASE c.state = "failed" -> [w EXCEPT !.resume = "paused"]
    [] c.state = "ended" -> [w EXCEPT !.resume = "playing"]
    [] OTHER -> w

FinishPause(s) == IF s.mode = "on_pause" THEN [s EXCEPT !.history = FALSE] ELSE s

(* Any error of a poll but RateTimedOut releases the stream. *)
Released(result) == result \notin {"ok", "rate_timed_out"}

(* Session::poll up to the controller. *)
SessionPoll ==
  /\ Open /\ ~polled
  /\ \E starved \in IF Live THEN {FALSE} ELSE BOOLEAN, reconnecting \in BOOLEAN :
       /\ starved => reconnecting
       /\ reconnecting => ~Live
       /\ LET heard == [pipe EXCEPT !.announced = FALSE]
              networked == RecordingNetwork(ctl, heard, starved)
              waiting == IF reconnecting THEN AwaitRecovery(networked[1]) ELSE networked[1]
              p == networked[2]
              ended == Ends(waiting, p)
              c == IF ended THEN Ended(waiting) ELSE waiting
          IN  \E o \in Poll(c, [p EXCEPT !.bus = "none"]) :
                /\ ctl' = o.ctl /\ pipe' = o.pipe
                /\ store' = IF o.live THEN FinishPause(store) ELSE store
                /\ wish' = Overridden(wish, o.ctl)
                /\ polled' = (Live /\ HasWindow /\ o.result = "ok")
                /\ session' = IF Released(o.result) THEN o.result
                              ELSE IF ended /\ Live THEN "ended"
                              ELSE IF pipe.announced /\ pipe.bus = "none" /\ o.result = "ok"
                              THEN "playing" ELSE session
  /\ UNCHANGED <<requests, skipped>>

(* Session::poll from live_window on. *)
SessionRetained ==
  /\ Open /\ polled
  /\ \E o \in Retained(ctl, pipe, Window, store.history) :
       /\ ctl' = o.ctl /\ pipe' = o.pipe
       /\ session' = IF Released(o.result) THEN o.result ELSE session
       /\ wish' = LET changed == o.ctl.seek # ctl.seek
                      asked == [resume |-> IF changed /\ ctl.retention = "live" THEN "playing"
                                           ELSE wish.resume,
                                live |-> IF changed
                                         THEN o.ctl.seek.completion \in {"live", "caught_up"}
                                         ELSE wish.live]
                  IN  Overridden(asked, o.ctl)
  /\ polled' = FALSE
  /\ UNCHANGED <<store, requests, skipped>>

-----------------------------------------------------------------------------
(* Requests of the viewer *)

Request ==
  /\ Open /\ ~polled /\ requests < MaxRequests
  /\ requests' = requests + 1

(* Player::pausable *)
Transport ==
  /\ Request /\ session = "playing" /\ (Live => store.mode # "off")
  /\ UNCHANGED <<session, polled, skipped>>

Asked(o, w) == wish' = Overridden(IF o.result = "ok" THEN w ELSE wish, o.ctl)

(* TransportControl::resume, Paused *)
PauseRequest ==
  /\ Transport
  /\ QueryPosition(pipe) # NoTime
  /\ \E o \in Pause(ctl, pipe, "paused") :
       /\ ctl' = o.ctl /\ pipe' = o.pipe
       /\ store' = IF o.result = "ok" /\ store.mode = "on_pause"
                   THEN [store EXCEPT !.history = TRUE] ELSE store
       /\ Asked(o, [wish EXCEPT !.resume = "paused"])

(* TransportControl::resume, Playing *)
PlayRequest ==
  /\ Transport
  /\ \E o \in Pause(ctl, pipe, "playing") :
       /\ ctl' = o.ctl /\ pipe' = o.pipe
       /\ Asked(o, [resume |-> "playing",
                    live |-> IF o.ctl.seek # ctl.seek /\ o.ctl.state # ctl.state
                             THEN o.ctl.seek.completion = "caught_up" ELSE wish.live])
  /\ UNCHANGED store

ReturnRequest ==
  /\ Transport
  /\ Live /\ store.history /\ HasWindow /\ Prepares(pipe)
  /\ \E o \in ReturnToLive(Prepared(ctl, pipe), pipe) :
       /\ ctl' = o.ctl /\ pipe' = o.pipe
       /\ Asked(o, [resume |-> "playing", live |-> TRUE])
  /\ UNCHANGED store

RateRequest ==
  /\ Transport /\ Prepares(pipe)
  /\ \E rate \in Rates :
       \E o \in SetRate(Prepared(ctl, pipe), pipe, rate) :
         /\ ctl' = o.ctl /\ pipe' = o.pipe
         /\ Asked(o, [wish EXCEPT !.live = @ /\ o.ctl.seek = ctl.seek])
  /\ UNCHANGED store

(* Session::seek_timeline, TransportControl::seek and skip *)
SeekRequest ==
  /\ Transport /\ Prepares(pipe) /\ HasWindow
  /\ \E time \in 0 .. MaxEnd :
       \E o \in Apply(Prepared(ctl, pipe), pipe, Target(time)) :
         /\ ctl' = o.ctl /\ pipe' = o.pipe
         /\ Asked(o, [live |-> FALSE,
                      resume |-> IF ctl.state = "ended" THEN "playing" ELSE wish.resume])
  /\ UNCHANGED store

(* Session::configure_timeshift; Store::prepare decides what becomes of the
   window, Controller::retention_changed remembers it. *)
Configure ==
  /\ Live /\ Request
  /\ \E mode \in Modes, replaced \in BOOLEAN, less \in BOOLEAN :
       LET history == IF mode = store.mode /\ ~replaced THEN store.history ELSE mode = "always"
           narrower == less \/ (history /\ ~store.history)
           change == IF replaced THEN "live" ELSE IF narrower THEN "clamp" ELSE "none"
       IN  /\ replaced => store.history \/ history
           /\ (store.history /\ mode # store.mode) => replaced
           /\ less => store.history /\ history
           /\ \E start \in store.start .. store.end :
                /\ replaced => start = store.end
                /\ ~replaced /\ change = "none" => start = store.start
                /\ ~replaced /\ HasWindow => start < store.end
                /\ store' = [store EXCEPT !.start = start, !.mode = mode, !.history = history]
           /\ ctl' = IF change = "none" THEN ctl
                     ELSE [ctl EXCEPT !.startup = "complete",
                                      !.retention = IF @ = "live" THEN "live" ELSE change,
                                      !.range = IF ctl.retention = "live" \/ change = "live"
                                                THEN NoRange ELSE @]
           /\ skipped' = (skipped \/ (change # "none" /\ ctl.startup = "awaiting"))
  /\ UNCHANGED <<pipe, session, polled, wish>>

-----------------------------------------------------------------------------
(* The pipeline, the receiver and time *)

Moves == Open /\ UNCHANGED <<session, polled, requests, wish, skipped>>

ReaderAt == IF pipe.todo # NoSegment THEN pipe.todo.target ELSE pipe.pos

PipeFlush ==
  /\ Moves
  /\ pipe.todo # NoSegment /\ ~pipe.flushed
  /\ pipe' = Flush(pipe)
  /\ UNCHANGED <<ctl, store>>

(* The new segment, at its rate or, if the sink does not follow, at the old
   one; or the old segment again after a refusal. *)
PipeSegment ==
  /\ Moves
  /\ pipe.segment = "none" /\ pipe.flushed
  /\ HasWindow /\ ReaderAt \in store.start .. store.end
  /\ \E rate \in {pipe.speed} \cup (IF pipe.todo = NoSegment THEN {} ELSE {pipe.todo.rate}) :
       pipe' = [pipe EXCEPT !.segment = IF pipe.todo = NoSegment THEN "old" ELSE "new",
                            !.pos = ReaderAt, !.rate = rate, !.speed = rate,
                            !.todo = NoSegment]
  /\ UNCHANGED <<ctl, store>>

PipeBuffer ==
  /\ Moves
  /\ pipe.segment # "none" /\ ~pipe.buffered /\ pipe.pos < store.end
  /\ pipe' = [pipe EXCEPT !.buffered = TRUE]
  /\ UNCHANGED <<ctl, store>>

PipeSettles ==
  /\ Moves
  /\ pipe.phase # "settled" /\ (pipe.buffered \/ pipe.eos)
  /\ pipe' = [pipe EXCEPT !.phase = "settled", !.announced = @ \/ pipe.target = "playing"]
  /\ UNCHANGED <<ctl, store>>

PipeAdvances ==
  /\ Moves
  /\ pipe.target = "playing" /\ pipe.phase = "settled" /\ pipe.buffered /\ ~pipe.eos
  /\ pipe.pos < store.end
  /\ pipe' = [pipe EXCEPT !.pos = @ + 1]
  /\ UNCHANGED <<ctl, store>>

PipeEos ==
  /\ Moves
  /\ pipe.segment # "none" /\ ~pipe.eos /\ pipe.pos = store.end /\ store.end = MaxEnd
  /\ pipe' = [pipe EXCEPT !.eos = TRUE, !.bus = pipe.segment]
  /\ UNCHANGED <<ctl, store>>

(* The reader finds its position gone, reports it once and waits for a seek. *)
ReaderExpires ==
  /\ Moves
  /\ Live /\ ReaderAt < store.start /\ pipe.expired = "no"
  /\ pipe' = [pipe EXCEPT !.expired = "reported"]
  /\ UNCHANGED <<ctl, store>>

Receive ==
  /\ Moves
  /\ Live /\ store.end < MaxEnd
  /\ store' = [store EXCEPT !.end = @ + 1]
  /\ UNCHANGED <<ctl, pipe>>

Evict ==
  /\ Moves
  /\ Live /\ store.start + 1 < store.end
  /\ store' = [store EXCEPT !.start = @ + 1]
  /\ UNCHANGED <<ctl, pipe>>

(* SEEK_TIMEOUT passes. *)
Deadline ==
  /\ Moves
  /\ Seeking(ctl) /\ ~ctl.seek.late
  /\ ctl' = [ctl EXCEPT !.seek.late = TRUE]
  /\ UNCHANGED <<pipe, store>>

GuiTimer == SessionPoll \/ SessionRetained
World ==
  \/ PipeFlush \/ PipeSegment \/ PipeBuffer \/ PipeSettles \/ PipeAdvances \/ PipeEos
  \/ ReaderExpires \/ Receive \/ Deadline

Next ==
  \/ GuiTimer \/ World \/ Evict
  \/ PauseRequest \/ PlayRequest \/ ReturnRequest \/ RateRequest \/ SeekRequest \/ Configure

Spec == Init /\ [][Next]_vars

(* The GUI timer goes on polling, and something happens in the pipeline, the
   receiver or time as long as there is anything left for them to do. *)
LiveSpec == Spec /\ WF_vars(GuiTimer) /\ WF_vars(World)

-----------------------------------------------------------------------------
Time == -1 .. MaxEnd
RangeType == [start : Time, end : Time]

(* The types of the variables. *)
TypeOK ==
  /\ ctl.state \in {"playing", "seeking", "ended"} \cup Stopped
  /\ (ctl.state = "seeking") <=> (ctl.seek # NoSeek)
  /\ Seeking(ctl) => /\ ctl.seek.target \in 0 .. MaxEnd
                     /\ ctl.seek.resume \in {"playing", "paused"}
                     /\ ctl.seek.rate \in Rates
                     /\ ctl.seek.next # NoNext => ctl.seek.next.rate \in Rates
  /\ ctl.rate \in Rates /\ ctl.position \in Time
  /\ {ctl.range, ctl.receive} \subseteq RangeType
  /\ pipe.target \in {"playing", "paused"} /\ pipe.phase \in {"starting", "async", "settled"}
  /\ pipe.pos \in 0 .. MaxEnd
  /\ store.start \in 0 .. store.end /\ store.end <= MaxEnd
  /\ session \in {"connecting", "playing", "ended", "rejected", "timed_out", "unavailable"}

(* A stream shown as paused is not running: the native state was set back to
   PAUSED on every way there, a timeout, a refusal and a queued change included
   (pause, start_change, poll). *)
PausedHolds == Open /\ PhaseResume(ctl) = "paused" => pipe.target = "paused"

(* A stream shown as playing runs, unless it starves or still collects the
   reserve of a live start: a refused live return, a recovered network or the
   end of the preroll must not leave it stopped (start_change,
   recording_network, align_live_start).  SettingsKeepStart below is what is
   lost when the settings change during that start. *)
PlayingRuns ==
  Open /\ ctl.state = "playing" /\ ctl.network = "ready" /\ ~skipped
    => ((pipe.target = "playing") <=> (ctl.startup = "complete"))

(* While a recording starves its clock is stopped, whatever the viewer or the
   controller starts meanwhile (recording_network, native_resume). *)
StarvedWaits == Open /\ ctl.network = "starved" => pipe.target = "paused"

(* What is shown is what the pipeline does, through queued changes, refusals,
   timeouts and outages in any order. *)
NativeAgrees == PausedHolds /\ PlayingRuns /\ StarvedWaits

(* Whether a stream plays or pauses is what the viewer asked for last, through
   queued changes, recoveries of expired positions and refusals; only a failed
   change pauses, only replaced storage resumes. *)
IntentKept ==
  Open /\ ctl.state # "ended" => PhaseResume(ctl) = wish.resume

(* The rate shown is the rate of the output: playback never continues at a rate
   nothing confirmed (docs/playback-speed-design.md: no playback at an unknown
   speed). *)
RateConfirmed ==
  Open /\ ctl.state \in {"playing", "paused"} /\ pipe.segment # "none" => ctl.rate = pipe.rate

(* What is shown, what was asked for last, what was confirmed last and what
   the pipeline does agree. *)
RequestsHold == NativeAgrees /\ IntentKept /\ RateConfirmed

(* A poll gives history up only where the viewer is: on the confirmed output of
   a move to live that nothing newer replaced, and running. *)
HistoryReleasedLive ==
  [][store.history /\ ~store'.history /\ requests' = requests
       => /\ wish.live /\ wish.resume = "playing"
          /\ pipe.segment = "new" /\ pipe.buffered /\ pipe.target = "playing"
          /\ ctl'.state = "playing"]_vars

(* Every seek is confirmed, fails or times out, the wait for the live reserve
   included. *)
SeekSettles == Seeking(ctl) ~> (~Seeking(ctl) \/ ~Open)

(* A live stream comes to play or is released (but see SettingsKeepStart). *)
StartsPlaying == session = "connecting" ~> (session # "connecting" \/ skipped)

(* A change of the retention settings is acted upon, once there is something
   to play. *)
RetentionHandled ==
  ctl.retention # "none" ~>
    (ctl.retention = "none" \/ skipped \/ ~Open \/ store.start = MaxEnd)

(* Nothing the viewer or the settings ask for stays undone: seeks, changes of
   the retention and the start of the stream. *)
RequestsSettle == SeekSettles /\ RetentionHandled /\ StartsPlaying

-----------------------------------------------------------------------------
(* What comments and documents say and the code does not do. *)

(* "Initial preroll owns the native PAUSED state until the reserve exists": a
   change of the settings that needs no correction ends the preroll without
   starting playback. *)
SettingsKeepStart ==
  Open /\ ctl.state = "playing" /\ pipe.target = "paused" /\ ctl.retention = "none"
    => ctl.startup = "awaiting"
=============================================================================
