--------------------------- MODULE TimelineProofs ---------------------------
(***************************************************************************)
(* Proofs about Timeline, for any positions, rates, retention modes and    *)
(* number of requests: types, RequestsHold and HistoryReleasedLive.        *)
(***************************************************************************)
EXTENDS Timeline, TLAPS
-----------------------------------------------------------------------------
(* The inductive invariant.                                                *)
Completions == {"none", "position", "live", "caught_up", "stalled"}
AnyRate == Rates \cup {NoRate}
Nexts == [target : [at : Time], rate : AnyRate, completion : Completions]
Seeks == [target : Time, resume : {"none", "playing", "paused"}, next : Nexts, rate : AnyRate,
          completion : Completions, clock : {"none", "preroll", "preserve"}, late : BOOLEAN]
Controllers ==
  [state : {"playing", "seeking", "ended"} \cup Stopped, seek : Seeks, rate : Rates,
   network : {"ready", "starved"}, startup : {"awaiting", "complete"},
   livePosition : {"forward", "recording", "near", "behind"},
   position : Time, range : RangeType, receive : RangeType,
   retention : {"none", "live", "clamp"}]
Pipelines ==
  [target : {"playing", "paused"}, phase : {"starting", "async", "settled"},
   pos : 0 .. MaxEnd, speed : Rates, rate : AnyRate, segment : {"none", "old", "new"},
   buffered : BOOLEAN, eos : BOOLEAN, bus : {"none", "old", "new", "stale"},
   todo : [target : Time, rate : AnyRate], flushed : BOOLEAN,
   expired : {"no", "reported", "taken"}, announced : BOOLEAN]
Stores ==
  [source : Sources, start : 0 .. MaxEnd, end : 0 .. MaxEnd, history : BOOLEAN,
   mode : Modes \cup {"off"}]
Wishes == [resume : {"playing", "paused"}, live : BOOLEAN]

(* A seek under way says where to, how to go on and at which rate. *)
SeekOK(k) ==
  /\ k.target \in 0 .. MaxEnd /\ k.resume \in {"playing", "paused"} /\ k.rate \in Rates
  /\ k.next # NoNext => k.next.rate \in Rates

ControllerOK(c) ==
  /\ c \in Controllers
  /\ (c.state = "seeking") <=> (c.seek # NoSeek)
  /\ Seeking(c) => SeekOK(c.seek)

(* Output has the speed of the pipeline, and the last accepted seek is carried
   out once its segment is there. *)
PipeOK(p) ==
  /\ p \in Pipelines
  /\ p.segment # "none" => p.rate = p.speed
  /\ p.segment = "new" => p.todo = NoSegment
  /\ p.todo # NoSegment => p.todo.target \in 0 .. MaxEnd /\ p.todo.rate \in Rates

StoreOK ==
  /\ store \in Stores /\ store.start <= store.end
  /\ ~Live => store.start = 0 /\ store.end = MaxEnd /\ store.mode = "off" /\ ~store.history

Types ==
  /\ ControllerOK(ctl) /\ PipeOK(pipe) /\ StoreOK
  /\ session \in {"connecting", "playing", "ended", "rejected", "timed_out", "unavailable"}
  /\ wish \in Wishes /\ skipped \in BOOLEAN /\ (polled => Live)

(* The native state follows what is shown and what a seek resumes to; only a
   live stream has a reserve to wait for, only a recording starves. *)
Resumes(c) ==
  \/ c.state = "playing" /\ c.startup = "complete"
  \/ Seeking(c) /\ c.seek.resume = "playing" /\ c.seek.next = NoNext /\ c.seek.clock # "preroll"

Native(c, p, over) ==
  /\ PhaseResume(c) = "paused" \/ c.network = "starved" => p.target = "paused"
  /\ c.network = "starved" => ~Live
  /\ Seeking(c) /\ (c.seek.clock = "preroll" \/ c.seek.next.completion = "live") => Live
  /\ c.network = "ready" /\ Resumes(c) /\ (Seeking(c) \/ ~over) => p.target = "playing"

(* The initial preroll is nobody else's. *)
Starting(c, p) ==
  c.startup = "awaiting" =>
    /\ Live /\ c.state = "playing" /\ p.target = "paused" /\ ~p.announced
    /\ c.retention = "none"

(* No seek is under way unless one is shown, and the rate is that of the output. *)
Steady(c, p) ==
  c.state \in {"playing", "paused"} => p.todo = NoSegment /\ p.speed = c.rate

Sound(c, p, over) == Native(c, p, over) /\ Starting(c, p) /\ Steady(c, p)

ToLive == {"live", "caught_up"}
Follows(c, w) ==
  /\ PhaseResume(c) = w.resume
  /\ Seeking(c) => /\ c.seek.next = NoNext /\ c.seek.completion \in ToLive => w.live
                   /\ c.seek.next.completion \in ToLive => w.live

TimelineInv ==
  /\ Types
  /\ Open => /\ Sound(ctl, pipe, skipped) /\ Follows(ctl, wish)
             /\ ctl.startup = "awaiting" => session = "connecting"

-----------------------------------------------------------------------------
(* Numbers and ranges.                                                     *)
LEMMA Numbers ==
  /\ MaxEnd \in Nat /\ MaxEnd > 0 /\ Reserve \in Nat /\ Hysteresis \in Nat /\ Recovery \in Nat
  /\ 1 \in Rates /\ Rates \subseteq Nat /\ NoRate \notin Rates
  /\ NoTime \in Time /\ 0 .. MaxEnd \subseteq Time
  /\ \A t \in Time : t # NoTime => t \in 0 .. MaxEnd
BY TimelineAssumption DEF Time, NoTime, NoRate

LEMMA Extremes ==
  ASSUME NEW a \in Int, NEW b \in Int
  PROVE  /\ LeastOf(a, b) \in Int /\ LeastOf(a, b) <= a /\ LeastOf(a, b) <= b
         /\ MostOf(a, b) \in Int /\ MostOf(a, b) >= a /\ MostOf(a, b) >= b
         /\ (MostOf(a, b) = a \/ MostOf(a, b) = b)
BY DEF LeastOf, MostOf

LEMMA WindowIs ==
  ASSUME StoreOK
  PROVE  /\ Window \in RangeType /\ NoRange \in RangeType
         /\ store.start \in 0 .. MaxEnd /\ store.end \in 0 .. MaxEnd /\ store.start <= store.end
         /\ LiveTarget(Window) \in 0 .. MaxEnd
<1>1. /\ store.start \in 0 .. MaxEnd /\ store.end \in 0 .. MaxEnd /\ store.start <= store.end
  BY DEF StoreOK, Stores
<1>2. Window \in RangeType /\ NoRange \in RangeType
  BY <1>1, Numbers DEF Window, NoRange, RangeType
<1>3. LiveTarget(Window) \in 0 .. MaxEnd
  <2> DEFINE a == store.end - Reserve
  <2>1. a \in Int /\ a <= store.end /\ store.start \in Int
    BY <1>1, Numbers
  <2>2. LiveTarget(Window) = MostOf(a, store.start)
    BY DEF LiveTarget, Window
  <2> HIDE DEF a
  <2>3. MostOf(a, store.start) >= store.start
        /\ (MostOf(a, store.start) = a \/ MostOf(a, store.start) = store.start)
    BY <2>1, Extremes
  <2> QED BY <1>1, <2>1, <2>2, <2>3, Numbers
<1> QED BY <1>1, <1>2, <1>3

\* A target the viewer may name lies within what was received.
LEMMA TargetIs ==
  ASSUME StoreOK, HasWindow, NEW time \in 0 .. MaxEnd
  PROVE  Target(time) \in 0 .. MaxEnd
<1> DEFINE r == RecoveryTarget(Window)
           s == IF time < store.start THEN r ELSE time
           m == LeastOf(s, store.end - 1)
<1>1. /\ store.start \in 0 .. MaxEnd /\ store.end \in 0 .. MaxEnd /\ store.start < store.end
  BY WindowIs DEF HasWindow
<1>0. store.start \in Int /\ store.end \in Int /\ store.end - 1 \in Int
  BY <1>1, Numbers
<1>2. r \in Int
  <2> DEFINE half == (store.end - store.start) \div 2
  <2>1. half \in Int
    BY <1>0
  <2>2. r = store.start + LeastOf(Recovery, half)
    BY DEF RecoveryTarget, Window
  <2> HIDE DEF half
  <2>3. LeastOf(Recovery, half) \in Int
    BY <2>1, Numbers, Extremes
  <2> QED BY <2>2, <2>3, <1>0
<1>3. s \in Int
  BY <1>2, Numbers
<1> HIDE DEF s
<1>4. m \in Int /\ m <= store.end - 1
  BY <1>0, <1>3, Extremes
<1> HIDE DEF m
<1>5. MostOf(m, store.start) >= store.start
      /\ (MostOf(m, store.start) = m \/ MostOf(m, store.start) = store.start)
  BY <1>0, <1>4, Extremes
<1>6. Target(time) = MostOf(m, store.start)
  BY DEF Target, m, s
<1> QED BY <1>1, <1>4, <1>5, <1>6, Numbers

-----------------------------------------------------------------------------
(* The pipeline's operations.                                              *)
LEMMA PipeParts ==
  ASSUME NEW p, PipeOK(p)
  PROVE  /\ p.target \in {"playing", "paused"} /\ p.phase \in {"starting", "async", "settled"}
         /\ p.pos \in 0 .. MaxEnd /\ p.speed \in Rates /\ p.rate \in AnyRate
         /\ p.segment \in {"none", "old", "new"} /\ p.buffered \in BOOLEAN /\ p.eos \in BOOLEAN
         /\ p.bus \in {"none", "old", "new", "stale"} /\ p.todo \in [target : Time, rate : AnyRate]
         /\ p.flushed \in BOOLEAN /\ p.expired \in {"no", "reported", "taken"}
         /\ p.announced \in BOOLEAN
         /\ QueryPosition(p) \in Time /\ (QueryPosition(p) # NoTime => QueryPosition(p) \in 0 .. MaxEnd)
<1>1. /\ p.target \in {"playing", "paused"} /\ p.phase \in {"starting", "async", "settled"}
      /\ p.pos \in 0 .. MaxEnd /\ p.speed \in Rates /\ p.rate \in AnyRate
      /\ p.segment \in {"none", "old", "new"} /\ p.buffered \in BOOLEAN /\ p.eos \in BOOLEAN
      /\ p.bus \in {"none", "old", "new", "stale"} /\ p.todo \in [target : Time, rate : AnyRate]
      /\ p.flushed \in BOOLEAN /\ p.expired \in {"no", "reported", "taken"}
      /\ p.announced \in BOOLEAN
  BY DEF PipeOK, Pipelines
<1> QED BY <1>1, Numbers DEF QueryPosition

\* The parts most of the operations leave alone.
SamePipe(p, q) ==
  q.speed = p.speed /\ q.todo = p.todo /\ q.announced = p.announced

LEMMA SetStateIs ==
  ASSUME NEW p, PipeOK(p), NEW t \in {"playing", "paused"}
  PROVE  LET q == SetState(p, t) IN
         /\ PipeOK(q) /\ SamePipe(p, q) /\ q.target = t
         /\ q.segment = p.segment /\ q.rate = p.rate /\ q.buffered = p.buffered /\ q.eos = p.eos
         /\ q.pos = p.pos
<1>1. CASE p.target = t
  BY <1>1 DEF SetState, SamePipe
<1>2. CASE p.target # t
  <2> DEFINE f == IF p.phase = "starting" THEN p.phase ELSE "async"
             q == [p EXCEPT !.target = t, !.phase = f]
  <2>1. SetState(p, t) = q
    BY <1>2 DEF SetState
  <2>2. f \in {"starting", "async", "settled"}
    BY PipeParts
  <2> HIDE DEF f
  <2>3. /\ q \in Pipelines /\ q.target = t /\ q.speed = p.speed /\ q.todo = p.todo
        /\ q.announced = p.announced /\ q.segment = p.segment /\ q.rate = p.rate
        /\ q.buffered = p.buffered /\ q.eos = p.eos /\ q.pos = p.pos
    BY <2>2 DEF PipeOK, Pipelines
  <2> HIDE DEF q
  <2> QED BY <2>1, <2>3 DEF PipeOK, SamePipe
<1> QED BY <1>1, <1>2

LEMMA FlushIs ==
  ASSUME NEW p, PipeOK(p)
  PROVE  PipeOK(Flush(p)) /\ SamePipe(p, Flush(p)) /\ Flush(p).target = p.target
<1> DEFINE f == IF p.phase = "starting" THEN p.phase ELSE "async"
           b == IF p.bus = "none" THEN p.bus ELSE "stale"
           o == [p EXCEPT !.segment = "none", !.buffered = FALSE, !.eos = FALSE, !.rate = NoRate]
           q == [o EXCEPT !.phase = f, !.bus = b, !.flushed = TRUE]
<1>1. Flush(p) = q
  BY DEF Flush, PipeOK, Pipelines
<1>2. f \in {"starting", "async", "settled"} /\ b \in {"none", "old", "new", "stale"}
  BY PipeParts
<1> HIDE DEF f, b
<1>3. /\ o \in Pipelines /\ o.target = p.target /\ o.speed = p.speed /\ o.todo = p.todo
      /\ o.announced = p.announced /\ o.segment = "none"
  BY DEF PipeOK, Pipelines, AnyRate
<1> HIDE DEF o
<1>4. /\ q \in Pipelines /\ q.target = o.target /\ q.speed = o.speed /\ q.todo = o.todo
      /\ q.announced = o.announced /\ q.segment = "none"
  BY <1>2, <1>3 DEF Pipelines
<1> HIDE DEF q
<1> QED BY <1>1, <1>3, <1>4 DEF PipeOK, SamePipe

LEMMA AcceptIs ==
  ASSUME NEW p, PipeOK(p), NEW target \in 0 .. MaxEnd, NEW rate \in Rates
  PROVE  /\ PipeOK(Accept(p, target, rate)) /\ Accept(p, target, rate).target = p.target
         /\ Accept(p, target, rate).announced = p.announced
<1> DEFINE b == IF p.bus = "none" THEN p.bus ELSE IF p.bus = p.segment THEN "old" ELSE "stale"
           s == IF p.segment = "none" THEN p.segment ELSE "old"
           t == [target |-> target, rate |-> rate]
           q == [p EXCEPT !.todo = t, !.bus = b, !.segment = s, !.flushed = FALSE, !.expired = "no"]
<1>1. Accept(p, target, rate) = q
  BY DEF Accept
<1>2. /\ b \in {"none", "old", "new", "stale"} /\ s \in {"none", "old"}
      /\ (s # "none" => p.segment # "none")
      /\ t \in [target : Time, rate : AnyRate] /\ t.target = target /\ t.rate = rate
  BY PipeParts, Numbers DEF AnyRate
<1> HIDE DEF b, s, t
<1>3. /\ q \in Pipelines /\ q.target = p.target /\ q.announced = p.announced
      /\ q.segment = s /\ q.rate = p.rate /\ q.speed = p.speed /\ q.todo = t
  BY <1>2, ZenonT(60) DEF PipeOK, Pipelines
<1> HIDE DEF q
<1> QED BY <1>1, <1>2, <1>3 DEF PipeOK

LEMMA RefusalsIs ==
  ASSUME NEW p, PipeOK(p), NEW q \in Refusals(p)
  PROVE  PipeOK(q) /\ SamePipe(p, q) /\ q.target = p.target
<1>1. ASSUME NEW o, PipeOK(o), SamePipe(p, o), o.target = p.target
      PROVE  LET e == [o EXCEPT !.expired = "no"]
             IN  PipeOK(e) /\ SamePipe(p, e) /\ e.target = p.target
  <2> DEFINE e == [o EXCEPT !.expired = "no"]
  <2>1. /\ e \in Pipelines /\ e.target = o.target /\ e.speed = o.speed /\ e.todo = o.todo
        /\ e.announced = o.announced /\ e.segment = o.segment /\ e.rate = o.rate
    BY <1>1 DEF PipeOK, Pipelines
  <2> HIDE DEF e
  <2>2. PipeOK(e) /\ SamePipe(p, e) /\ e.target = p.target
    BY <1>1, <2>1 DEF PipeOK, SamePipe
  <2> QED BY <2>2 DEF e
<1>2. PipeOK(Flush(p)) /\ SamePipe(p, Flush(p)) /\ Flush(p).target = p.target
  BY FlushIs
<1>3. SamePipe(p, p)
  BY DEF SamePipe
<1> QED BY <1>1, <1>2, <1>3 DEF Refusals

-----------------------------------------------------------------------------
(* What the controller observes.                                           *)
LEMMA ControllerParts ==
  ASSUME NEW c, ControllerOK(c)
  PROVE  /\ c.state \in {"playing", "seeking", "ended", "paused", "expired", "failed"}
         /\ c.seek \in Seeks /\ c.rate \in Rates /\ c.network \in {"ready", "starved"}
         /\ c.startup \in {"awaiting", "complete"}
         /\ c.livePosition \in {"forward", "recording", "near", "behind"}
         /\ c.position \in Time /\ c.range \in RangeType /\ c.receive \in RangeType
         /\ c.retention \in {"none", "live", "clamp"}
         /\ (c.state = "seeking") <=> (c.seek # NoSeek)
         /\ c.state = "seeking" => SeekOK(c.seek)
BY DEF ControllerOK, Controllers, Stopped, Seeking

\* Positions and ranges are all that an observation changes.
SameCore(c, d) ==
  /\ d.state = c.state /\ d.seek = c.seek /\ d.rate = c.rate /\ d.network = c.network
  /\ d.startup = c.startup /\ d.retention = c.retention

LEMMA CoreIs ==
  ASSUME NEW c, NEW d, SameCore(c, d)
  PROVE  /\ Seeking(d) <=> Seeking(c)
         /\ PhaseResume(d) = PhaseResume(c)
         /\ \A p, over : Sound(c, p, over) => Sound(d, p, over)
         /\ \A w : Follows(c, w) => Follows(d, w)
         /\ RequestedRate(d) = RequestedRate(c) /\ SeekTarget(d) = SeekTarget(c)
BY DEF SameCore, Seeking, PhaseResume, Sound, Native, Resumes, Starting, Steady, Follows,
       RequestedRate, SeekTarget

\* An update of the observed parts.
LEMMA ObservationIs ==
  ASSUME NEW c, ControllerOK(c), NEW d,
         \/ \E t \in Time : d = [c EXCEPT !.position = t]
         \/ \E r \in RangeType : d = [c EXCEPT !.range = r]
         \/ \E r \in RangeType : d = [c EXCEPT !.receive = r]
         \/ \E l \in {"forward", "recording", "near", "behind"} : d = [c EXCEPT !.livePosition = l]
  PROVE  ControllerOK(d) /\ SameCore(c, d)
<1>1. c \in Controllers
  BY DEF ControllerOK
<1>2. CASE \E t \in Time : d = [c EXCEPT !.position = t]
  <2>1. d \in Controllers /\ SameCore(c, d)
    BY <1>1, <1>2 DEF Controllers, SameCore
  <2> QED BY <2>1 DEF ControllerOK, SameCore, Seeking
<1>3. CASE \E r \in RangeType : d = [c EXCEPT !.range = r]
  <2>1. d \in Controllers /\ SameCore(c, d)
    BY <1>1, <1>3 DEF Controllers, SameCore
  <2> QED BY <2>1 DEF ControllerOK, SameCore, Seeking
<1>4. CASE \E r \in RangeType : d = [c EXCEPT !.receive = r]
  <2>1. d \in Controllers /\ SameCore(c, d)
    BY <1>1, <1>4 DEF Controllers, SameCore
  <2> QED BY <2>1 DEF ControllerOK, SameCore, Seeking
<1>5. CASE \E l \in {"forward", "recording", "near", "behind"} : d = [c EXCEPT !.livePosition = l]
  <2>1. d \in Controllers /\ SameCore(c, d)
    BY <1>1, <1>5 DEF Controllers, SameCore
  <2> QED BY <2>1 DEF ControllerOK, SameCore, Seeking
<1> QED BY <1>2, <1>3, <1>4, <1>5

LEMMA CoreTwice ==
  ASSUME NEW c, NEW d, NEW e, SameCore(c, d), SameCore(d, e)
  PROVE  SameCore(c, e)
BY DEF SameCore

LEMMA SamePositionIs ==
  ASSUME NEW c, ControllerOK(c), NEW p, PipeOK(p)
  PROVE  ControllerOK(SamplePosition(c, p)) /\ SameCore(c, SamplePosition(c, p))
<1>1. CASE QueryPosition(p) = NoTime
  BY <1>1 DEF SamplePosition, SameCore
<1>2. CASE QueryPosition(p) # NoTime
  <2>1. SamplePosition(c, p) = [c EXCEPT !.position = QueryPosition(p)] /\ QueryPosition(p) \in Time
    BY <1>2, PipeParts DEF SamplePosition
  <2> HIDE DEF SamplePosition
  <2> QED BY <2>1, ObservationIs
<1> QED BY <1>1, <1>2

LEMMA SampleIs ==
  ASSUME StoreOK, NEW c, ControllerOK(c), NEW p, PipeOK(p)
  PROVE  ControllerOK(Sample(c, p)) /\ SameCore(c, Sample(c, p))
<1> DEFINE placed == IF Seeking(c) THEN c ELSE SamplePosition(c, p)
           r == IF Seekable THEN Window ELSE NoRange
<1>1. ControllerOK(placed) /\ SameCore(c, placed)
  BY SamePositionIs DEF SameCore
<1>2. Sample(c, p) = [placed EXCEPT !.range = r]
  BY DEF Sample
<1>3. r \in RangeType
  BY WindowIs
<1> HIDE DEF placed, r
<1>4. ControllerOK(Sample(c, p)) /\ SameCore(placed, Sample(c, p))
  BY <1>1, <1>2, <1>3, ObservationIs
<1> QED BY <1>1, <1>4, CoreTwice

LEMMA ObserveLiveIs ==
  ASSUME NEW c, ControllerOK(c), NEW range, NEW history
  PROVE  ControllerOK(ObserveLive(c, range, history)) /\ SameCore(c, ObserveLive(c, range, history))
<1> DEFINE o == ObserveLive(c, range, history)
<1>1. o = c \/ \E l \in {"forward", "near", "behind"} : o = [c EXCEPT !.livePosition = l]
  BY DEF ObserveLive
<1> HIDE DEF o
<1>2. CASE o = c
  BY <1>2 DEF SameCore, o
<1>3. CASE o # c
  <2>1. \E l \in {"forward", "recording", "near", "behind"} : o = [c EXCEPT !.livePosition = l]
    BY <1>1, <1>3
  <2>2. ControllerOK(o) /\ SameCore(c, o)
    BY <2>1, ObservationIs
  <2> QED BY <2>2 DEF o
<1> QED BY <1>2, <1>3

LEMMA PreparedIs ==
  ASSUME StoreOK, NEW c, ControllerOK(c), NEW p, PipeOK(p)
  PROVE  ControllerOK(Prepared(c, p)) /\ SameCore(c, Prepared(c, p))
<1> DEFINE s == Sample(c, p)
<1>1. ControllerOK(s) /\ SameCore(c, s)
  BY SampleIs
<1> HIDE DEF s
<1>2. Prepared(c, p) = s \/ Prepared(c, p) = ObserveLive(s, Window, TRUE)
  BY DEF Prepared, s
<1>3. ControllerOK(ObserveLive(s, Window, TRUE)) /\ SameCore(s, ObserveLive(s, Window, TRUE))
  BY <1>1, ObserveLiveIs
<1>4. SameCore(c, ObserveLive(s, Window, TRUE))
  BY <1>1, <1>3, CoreTwice
<1> HIDE DEF Prepared
<1>5. CASE Prepared(c, p) = s
  BY ONLY <1>5, <1>1
<1>6. CASE Prepared(c, p) = ObserveLive(s, Window, TRUE)
  BY ONLY <1>6, <1>3, <1>4
<1> QED BY <1>2, <1>5, <1>6

LEMMA ObservedIs ==
  ASSUME NEW c, ControllerOK(c), NEW p, PipeOK(p), NEW range \in RangeType, NEW history
  PROVE  ControllerOK(Observed(c, p, range, history)) /\ SameCore(c, Observed(c, p, range, history))
<1> DEFINE r == IF history THEN range ELSE NoRange
           a == [c EXCEPT !.receive = range]
           b == [a EXCEPT !.range = r]
           d == IF b.state = "playing" THEN SamplePosition(b, p) ELSE b
<1>1. r \in RangeType
  BY Numbers DEF NoRange, RangeType
<1>2. b = [c EXCEPT !.receive = range, !.range = r]
  BY DEF ControllerOK, Controllers
<1> HIDE DEF r
<1>3. ControllerOK(a) /\ SameCore(c, a)
  BY ObservationIs
<1> HIDE DEF a
<1>4. ControllerOK(b) /\ SameCore(a, b)
  BY <1>1, <1>3, ObservationIs
<1>5. Observed(c, p, range, history) = ObserveLive(d, range, history)
  BY <1>2 DEF Observed, r
<1> HIDE DEF b
<1>6. ControllerOK(d) /\ SameCore(b, d)
  BY <1>4, SamePositionIs DEF SameCore
<1> HIDE DEF d
<1>7. ControllerOK(ObserveLive(d, range, history)) /\ SameCore(d, ObserveLive(d, range, history))
  BY <1>6, ObserveLiveIs
<1> QED BY <1>3, <1>4, <1>5, <1>6, <1>7, CoreTwice

-----------------------------------------------------------------------------
(* Changes of position or rate: the pipeline takes them or refuses.        *)
LEMMA SeekKind ==
  ASSUME NEW k, k \in Seeks, SeekOK(k)
  PROVE  k # NoSeek
BY DEF SeekOK, NoSeek

\* The start of the stream and the settings are marked as dealt with.
LEMMA CompleteIs ==
  ASSUME NEW c, ControllerOK(c), NEW d, d = [c EXCEPT !.startup = "complete"]
  PROVE  /\ ControllerOK(d) /\ d.startup = "complete" /\ d.retention = c.retention
         /\ d.state = c.state /\ d.seek = c.seek /\ d.rate = c.rate /\ d.network = c.network
<1>1. /\ d \in Controllers /\ d.startup = "complete" /\ d.retention = c.retention
      /\ d.state = c.state /\ d.seek = c.seek /\ d.rate = c.rate /\ d.network = c.network
  BY DEF ControllerOK, Controllers
<1> QED BY <1>1 DEF ControllerOK, Seeking

LEMMA HandledIs ==
  ASSUME NEW c, ControllerOK(c), NEW d, d = [c EXCEPT !.retention = "none"]
  PROVE  /\ ControllerOK(d) /\ d.startup = c.startup /\ d.retention = "none"
         /\ d.state = c.state /\ d.seek = c.seek /\ d.rate = c.rate /\ d.network = c.network
<1>1. /\ d \in Controllers /\ d.startup = c.startup /\ d.retention = "none"
      /\ d.state = c.state /\ d.seek = c.seek /\ d.rate = c.rate /\ d.network = c.network
  BY DEF ControllerOK, Controllers
<1> QED BY <1>1 DEF ControllerOK, Seeking

Preroll(resume, completion) == completion = "live" /\ resume = "playing"

\* The change is under way: d and q follow c and p.
Begun(d, q, c, p, target, resume, rate, completion) ==
  /\ d.state = "seeking"
  /\ d.seek = [target |-> target, resume |-> resume, next |-> NoNext, rate |-> rate,
               completion |-> completion,
               clock |-> IF Preroll(resume, completion) THEN "preroll" ELSE "preserve",
               late |-> FALSE]
  /\ d.network = c.network
  /\ q.announced = p.announced
  /\ q.target = IF Preroll(resume, completion) THEN "paused" ELSE NativeResume(c, resume)

\* The change was refused: nothing else happened, or playback failed.
Declined(d, q, c, p, live) ==
  /\ SamePipe(p, q)
  /\ \/ /\ SameCore(c, d)
        /\ q.target = IF live
                      THEN IF c.state \in Stopped THEN "paused" ELSE NativeResume(c, "playing")
                      ELSE p.target
     \/ /\ d.state = "failed" /\ d.seek = NoSeek /\ q.target = "paused"
        /\ d.network = c.network /\ d.startup = c.startup /\ d.retention = c.retention

SameStart(c, d) == d.startup = c.startup /\ d.retention = c.retention
Taken(o) == o.result = "ok" /\ o.live = FALSE
Refused(o) == o.result = "rejected" /\ o.live = FALSE

NativeKinds == {"playing", "paused"}

LEMMA NativeResumeIs ==
  ASSUME NEW c, NEW resume
  PROVE  NativeResume(c, resume) \in NativeKinds
BY DEF NativeResume, NativeKinds

LEMMA NoSeekIs == NoSeek \in Seeks /\ NoNext \in Nexts
BY Numbers DEF NoSeek, Seeks, NoNext, Nexts, Current, Time, AnyRate, Completions

LEMMA RejectedIs ==
  ASSUME NEW c, ControllerOK(c), NEW p, PipeOK(p), NEW live \in BOOLEAN, NEW rate,
         NEW r, PipeOK(r), SamePipe(p, r), r.target = IF live THEN "paused" ELSE p.target
  PROVE  LET o == Rejected(c, r, live, rate) IN
         /\ Refused(o)
         /\ ControllerOK(o.ctl) /\ PipeOK(o.pipe) /\ Declined(o.ctl, o.pipe, c, p, live)
         /\ SameStart(c, o.ctl)
<1> DEFINE t == IF c.state \in Stopped THEN "paused" ELSE NativeResume(c, "playing")
           back == IF live THEN SetState(r, t) ELSE r
           o == Rejected(c, r, live, rate)
           d == [c EXCEPT !.state = "failed", !.seek = NoSeek]
<1>1. t \in {"playing", "paused"}
  BY NativeResumeIs DEF NativeKinds
<1> HIDE DEF t
<1>2. PipeOK(back) /\ SamePipe(p, back) /\ back.target = IF live THEN t ELSE p.target
  BY <1>1, SetStateIs DEF SamePipe
<1> HIDE DEF back
<1>3. CASE rate # c.rate /\ r.rate # c.rate
  <2>1. o = Fail(d, SetState(back, "paused"), "rejected")
    BY <1>3 DEF Rejected, back, t
  <2>2. /\ d \in Controllers /\ d.state = "failed" /\ d.seek = NoSeek
        /\ d.network = c.network /\ d.startup = c.startup /\ d.retention = c.retention
    BY NoSeekIs DEF ControllerOK, Controllers, Stopped
  <2> HIDE DEF d
  <2>3. /\ ControllerOK(d) /\ d.state = "failed" /\ d.seek = NoSeek
        /\ d.network = c.network /\ d.startup = c.startup /\ d.retention = c.retention
    BY <2>2 DEF ControllerOK, Seeking
  <2>4. /\ PipeOK(SetState(back, "paused")) /\ SamePipe(p, SetState(back, "paused"))
        /\ SetState(back, "paused").target = "paused"
    BY <1>2, SetStateIs DEF SamePipe
  <2>5. o.ctl = d /\ o.pipe = SetState(back, "paused") /\ o.result = "rejected" /\ o.live = FALSE
    BY <2>1 DEF Fail
  <2> HIDE DEF o
  <2>6. Declined(o.ctl, o.pipe, c, p, live)
    BY <2>3, <2>4, <2>5 DEF Declined
  <2> QED BY <2>3, <2>4, <2>5, <2>6 DEF o, Refused, SameStart
<1>4. CASE ~(rate # c.rate /\ r.rate # c.rate)
  <2>1. o = Fail(c, back, "rejected")
    BY <1>4 DEF Rejected, back, t
  <2>2. o.ctl = c /\ o.pipe = back /\ o.result = "rejected" /\ o.live = FALSE
    BY <2>1 DEF Fail
  <2> HIDE DEF o
  <2>3. Declined(o.ctl, o.pipe, c, p, live)
    BY <1>2, <2>2 DEF Declined, SameCore, t
  <2> QED BY <1>2, <2>2, <2>3 DEF o, Refused, SameStart
<1> QED BY <1>3, <1>4

LEMMA StartedIs ==
  ASSUME NEW c, ControllerOK(c), NEW p, PipeOK(p), NEW r, PipeOK(r), SamePipe(p, r),
         NEW target \in 0 .. MaxEnd, NEW resume \in {"playing", "paused"}, NEW rate \in Rates,
         NEW completion \in Completions
  PROVE  LET o == Started(c, r, target, resume, rate, completion) IN
         /\ Taken(o)
         /\ ControllerOK(o.ctl) /\ PipeOK(o.pipe)
         /\ Begun(o.ctl, o.pipe, c, p, target, resume, rate, completion)
         /\ SameStart(c, o.ctl)
<1> DEFINE o == Started(c, r, target, resume, rate, completion)
           live == completion = "live" /\ resume = "playing"
           k == [target |-> target, resume |-> resume, next |-> NoNext,
                 rate |-> rate, completion |-> completion,
                 clock |-> IF live THEN "preroll" ELSE "preserve", late |-> FALSE]
           d == [c EXCEPT !.state = "seeking", !.seek = k]
           a == Accept(r, target, rate)
           t == IF live THEN "paused" ELSE NativeResume(c, resume)
           q == SetState(a, t)
<1>1. o = Done(d, q)
  BY DEF Started
<1>2. k \in Seeks /\ SeekOK(k) /\ k # NoSeek
  <2>1. (IF live THEN "preroll" ELSE "preserve") \in {"none", "preroll", "preserve"}
    OBVIOUS
  <2>2. target \in Time /\ rate \in AnyRate /\ NoNext \in Nexts
    BY Numbers, NoSeekIs DEF AnyRate
  <2> HIDE DEF live
  <2>3. k \in Seeks
    BY <2>1, <2>2 DEF Seeks
  <2>4. SeekOK(k)
    BY DEF SeekOK
  <2> QED BY <2>3, <2>4, SeekKind
<1>3. t \in {"playing", "paused"}
  BY NativeResumeIs DEF NativeKinds
<1>4. PipeOK(a) /\ a.announced = p.announced
  BY AcceptIs DEF SamePipe
<1> HIDE DEF a
<1>5. PipeOK(q) /\ q.announced = p.announced /\ q.target = t
  BY <1>3, <1>4, SetStateIs DEF SamePipe
<1>7. k = [target |-> target, resume |-> resume, next |-> NoNext, rate |-> rate,
           completion |-> completion,
           clock |-> IF Preroll(resume, completion) THEN "preroll" ELSE "preserve",
           late |-> FALSE]
      /\ t = IF Preroll(resume, completion) THEN "paused" ELSE NativeResume(c, resume)
  BY DEF Preroll
<1> HIDE DEF k, q, t
<1>6. /\ d \in Controllers /\ d.state = "seeking" /\ d.seek = k /\ d.network = c.network
      /\ d.startup = c.startup /\ d.retention = c.retention
  BY <1>2 DEF ControllerOK, Controllers
<1> HIDE DEF d
<1>8. /\ ControllerOK(d) /\ d.state = "seeking" /\ d.seek = k /\ d.network = c.network
      /\ d.startup = c.startup /\ d.retention = c.retention
  BY <1>2, <1>6 DEF ControllerOK, Seeking
<1>9. o.ctl = d /\ o.pipe = q /\ o.result = "ok" /\ o.live = FALSE
  BY <1>1 DEF Done
<1> HIDE DEF o
<1>10. Begun(o.ctl, o.pipe, c, p, target, resume, rate, completion)
  BY <1>5, <1>7, <1>8, <1>9 DEF Begun
<1> QED BY <1>5, <1>8, <1>9, <1>10 DEF o, Taken, SameStart


DeclinedChange(d, q, c, p, resume, completion) ==
  \E live \in BOOLEAN : Declined(d, q, c, p, live) /\ (live => Preroll(resume, completion))

Outcome(o, c, p, target, resume, rate, completion) ==
  /\ ControllerOK(o.ctl) /\ PipeOK(o.pipe) /\ SameStart(c, o.ctl)
  /\ \/ Taken(o) /\ Begun(o.ctl, o.pipe, c, p, target, resume, rate, completion)
     \/ Refused(o) /\ DeclinedChange(o.ctl, o.pipe, c, p, resume, completion)

\* Every outcome of a change is one of these, and all parts stay well formed.
LEMMA StartChangeIs ==
  ASSUME StoreOK, NEW c, ControllerOK(c), NEW p, PipeOK(p),
         NEW target, Live \/ target \in 0 .. MaxEnd,
         NEW resume \in {"playing", "paused"}, NEW rate \in Rates, NEW completion \in Completions,
         NEW o \in StartChange(c, p, target, resume, rate, completion)
  PROVE  Outcome(o, c, p, target, resume, rate, completion)
<1> DEFINE live == completion = "live" /\ resume = "playing"
           q == IF live THEN SetState(p, "paused") ELSE p
<1>1. /\ live \in BOOLEAN /\ live = Preroll(resume, completion)
      /\ PipeOK(q) /\ SamePipe(p, q) /\ q.target = IF live THEN "paused" ELSE p.target
  BY SetStateIs DEF SamePipe, Preroll
<1>2. \/ \E r \in Refusals(q) : o = Rejected(c, r, live, rate)
      \/ Accepts(target) /\ o = Started(c, q, target, resume, rate, completion)
  BY DEF StartChange
<1> HIDE DEF live, q
<1>3. CASE \E r \in Refusals(q) : o = Rejected(c, r, live, rate)
  <2>1. PICK r \in Refusals(q) : o = Rejected(c, r, live, rate)
    BY <1>3
  <2>2. PipeOK(r) /\ SamePipe(q, r) /\ r.target = q.target
    BY <1>1, RefusalsIs
  <2>3. SamePipe(p, r) /\ r.target = IF live THEN "paused" ELSE p.target
    BY <1>1, <2>2 DEF SamePipe
  <2>4. /\ Refused(o)
        /\ ControllerOK(o.ctl) /\ PipeOK(o.pipe) /\ Declined(o.ctl, o.pipe, c, p, live)
        /\ SameStart(c, o.ctl)
    BY <1>1, <2>1, <2>2, <2>3, RejectedIs
  <2> QED BY <1>1, <2>4 DEF DeclinedChange, Outcome
<1>4. CASE Accepts(target) /\ o = Started(c, q, target, resume, rate, completion)
  <2>1. target \in 0 .. MaxEnd
    <3>1. /\ store.start \in 0 .. MaxEnd /\ store.end \in 0 .. MaxEnd
      BY WindowIs
    <3> QED BY <1>4, <3>1, Numbers DEF Accepts
  <2>2. /\ Taken(o)
        /\ ControllerOK(o.ctl) /\ PipeOK(o.pipe)
        /\ Begun(o.ctl, o.pipe, c, p, target, resume, rate, completion)
        /\ SameStart(c, o.ctl)
    BY ONLY <1>1, <1>4, <2>1, StartedIs, ControllerOK(c), PipeOK(p),
      resume \in {"playing", "paused"}, rate \in Rates, completion \in Completions
  <2> QED BY <2>2 DEF Outcome
<1> QED BY <1>2, <1>3, <1>4

\* The stream's start is over once a change was taken.
LEMMA CompletedIs ==
  ASSUME StoreOK, NEW c, ControllerOK(c), NEW p, PipeOK(p),
         NEW target, Live \/ target \in 0 .. MaxEnd,
         NEW resume \in {"playing", "paused"}, NEW rate \in Rates, NEW completion \in Completions,
         NEW o \in Completed(StartChange(c, p, target, resume, rate, completion)),
         c.startup = "complete"
  PROVE  Outcome(o, c, p, target, resume, rate, completion)
<1>1. PICK e \in StartChange(c, p, target, resume, rate, completion) :
        o = IF e.result = "ok" THEN [e EXCEPT !.ctl.startup = "complete"] ELSE e
  BY DEF Completed
<1>2. Outcome(e, c, p, target, resume, rate, completion)
  BY StartChangeIs
<1>3. o = e
  <2>1. [e.ctl EXCEPT !.startup = "complete"] = e.ctl
    BY <1>2 DEF Outcome, ControllerOK, Controllers, SameStart
  <2>2. e = [ctl |-> e.ctl, pipe |-> e.pipe, result |-> e.result, live |-> e.live]
    BY DEF StartChange, Rejected, Started, Done, Fail
  <2> QED BY <1>1, <2>1, <2>2
<1> QED BY <1>2, <1>3

-----------------------------------------------------------------------------
(* A change under way is sound, and so is what a refused one leaves.       *)
LEMMA BegunSound ==
  ASSUME NEW c, NEW p, NEW d, NEW q, NEW target, NEW resume \in {"playing", "paused"}, NEW rate,
         NEW completion, Begun(d, q, c, p, target, resume, rate, completion),
         c.network \in {"ready", "starved"}, c.network = "starved" => ~Live,
         completion = "live" => Live, d.startup = "complete", NEW over, NEW w
  PROVE  /\ Sound(d, q, over)
         /\ w.resume = resume /\ (completion \in ToLive => w.live) => Follows(d, w)
<1> DEFINE k == d.seek
<1>1. /\ k.resume = resume /\ k.next = NoNext /\ k.completion = completion
      /\ (k.clock = "preroll") <=> Preroll(resume, completion)
      /\ Preroll(resume, completion) => Live
  BY DEF Begun, Preroll
<1>2. PhaseResume(d) = resume /\ Seeking(d) /\ d.network = c.network
  BY <1>1 DEF Begun, PhaseResume, Seeking, Stopped
<1>3. q.target = IF Preroll(resume, completion) THEN "paused" ELSE NativeResume(c, resume)
  BY DEF Begun
<1>4. Native(d, q, over)
  <2>1. NoNext.completion = "none"
    BY DEF NoNext
  <2> QED BY <1>1, <1>2, <1>3, <2>1 DEF Native, Resumes, NativeResume, Seeking
<1>5. Sound(d, q, over)
  BY <1>2, <1>4 DEF Sound, Starting, Steady, Begun
<1>6. NoNext.completion \notin ToLive
  BY DEF NoNext, ToLive
<1> QED BY <1>1, <1>2, <1>5, <1>6 DEF Follows

LEMMA DeclinedSound ==
  ASSUME NEW c, NEW p, NEW d, NEW q, NEW live \in BOOLEAN, NEW over,
         Declined(d, q, c, p, live), c.network \in {"ready", "starved"},
         Sound(c, p, over), ~Seeking(c), c.startup = "complete", live => Live
  PROVE  /\ Sound(d, q, over) /\ d.startup = "complete"
         /\ \A w \in Wishes : Follows(c, w) => Follows(d, Overridden(w, d))
<1>1. CASE /\ SameCore(c, d)
           /\ q.target = IF live
                         THEN IF c.state \in Stopped THEN "paused" ELSE NativeResume(c, "playing")
                         ELSE p.target
  <2>1. /\ d.state = c.state /\ d.seek = c.seek /\ d.network = c.network /\ d.startup = c.startup
        /\ d.rate = c.rate /\ d.retention = c.retention
    BY <1>1 DEF SameCore
  <2>2. PhaseResume(d) = IF c.state \in Stopped THEN "paused" ELSE "playing"
    BY <2>1 DEF PhaseResume, Seeking
  <2>3. Native(d, q, over)
    BY <1>1, <2>1, <2>2 DEF Sound, Native, Resumes, NativeResume, PhaseResume, Seeking, Stopped
  <2>4. Sound(d, q, over)
    BY <2>1, <2>3 DEF Sound, Starting, Steady, Declined, SamePipe
  <2>5. \A w \in Wishes : Follows(c, w) => Follows(d, Overridden(w, d))
    BY <2>1, <2>2 DEF Follows, Overridden, PhaseResume, Seeking, Stopped
  <2> QED BY <2>1, <2>4, <2>5
<1>2. CASE /\ d.state = "failed" /\ d.seek = NoSeek /\ q.target = "paused"
           /\ d.network = c.network /\ d.startup = c.startup /\ d.retention = c.retention
  <2>1. Native(d, q, over)
    BY <1>2 DEF Sound, Native, Resumes, PhaseResume, Seeking, Stopped
  <2>2. Sound(d, q, over)
    BY <1>2, <2>1 DEF Sound, Starting, Steady
  <2>3. \A w \in Wishes : Follows(c, w) => Follows(d, Overridden(w, d))
    BY <1>2 DEF Follows, Overridden, PhaseResume, Seeking, Stopped, Wishes
  <2> QED BY <1>2, <2>2, <2>3
<1> QED BY <1>1, <1>2 DEF Declined


-----------------------------------------------------------------------------
(* The viewer's requests.  A request finds the controller, the pipeline and  *)
(* the wish in agreement and leaves them so, with the wish replaced if the   *)
(* answer is ok.                                                             *)
Agree(c, p, w, over) ==
  /\ ControllerOK(c) /\ PipeOK(p) /\ c.startup = "complete" /\ w \in Wishes
  /\ Sound(c, p, over) /\ Follows(c, w)

Heeded(o, w, v) == Overridden(IF o.result = "ok" THEN v ELSE w, o.ctl)

Answers(o, w, v, over) ==
  /\ ControllerOK(o.ctl) /\ PipeOK(o.pipe) /\ o.ctl.startup = "complete"
  /\ Sound(o.ctl, o.pipe, over) /\ Follows(o.ctl, Heeded(o, w, v))

LEMMA RestOf ==
  ASSUME NEW c, NEW p, NEW w, NEW over, Agree(c, p, w, over)
  PROVE  c.network \in {"ready", "starved"} /\ (c.network = "starved" => ~Live)
BY ControllerParts DEF Agree, Sound, Native

\* What a pause or an end says, the wish already said.
LEMMA StillFollows ==
  ASSUME NEW c, NEW w \in Wishes, Follows(c, w)
  PROVE  Follows(c, Overridden(w, c))
<1>1. CASE c.state = "failed"
  BY <1>1 DEF Follows, Overridden, PhaseResume, Seeking, Stopped, Wishes
<1>2. CASE c.state = "ended"
  BY <1>2 DEF Follows, Overridden, PhaseResume, Seeking, Stopped, Wishes
<1>3. CASE c.state \notin {"failed", "ended"}
  BY <1>3 DEF Overridden
<1> QED BY <1>1, <1>2, <1>3

LEMMA AgreeTwice ==
  ASSUME NEW c, NEW p, NEW w, NEW over, Agree(c, p, w, over), NEW d, ControllerOK(d), SameCore(c, d)
  PROVE  Agree(d, p, w, over)
BY CoreIs DEF Agree, SameCore

\* A request that is turned down, or asks for what is there.
LEMMA NothingDone ==
  ASSUME NEW c, NEW p, NEW w, NEW over, Agree(c, p, w, over),
         NEW o, o.ctl = c, o.pipe = p, NEW v, o.result # "ok" \/ v = w
  PROVE  Answers(o, w, v, over)
<1>1. Heeded(o, w, v) = Overridden(w, c)
  BY DEF Heeded
<1>2. Follows(c, Overridden(w, c))
  BY StillFollows DEF Agree
<1> QED BY <1>1, <1>2 DEF Agree, Answers

LEMMA ChangeAnswers ==
  ASSUME NEW c, NEW p, NEW w, NEW over, Agree(c, p, w, over), ~Seeking(c),
         NEW target, NEW resume \in {"playing", "paused"}, NEW rate, NEW completion,
         NEW o, Outcome(o, c, p, target, resume, rate, completion), completion = "live" => Live,
         NEW v, Taken(o) => v.resume = resume /\ (completion \in ToLive => v.live)
  PROVE  Answers(o, w, v, over)
<1>1. ControllerOK(o.ctl) /\ PipeOK(o.pipe) /\ o.ctl.startup = "complete"
  BY DEF Outcome, SameStart, Agree
<1>2. CASE Taken(o) /\ Begun(o.ctl, o.pipe, c, p, target, resume, rate, completion)
  <2>1. Sound(o.ctl, o.pipe, over) /\ Follows(o.ctl, v)
    BY <1>1, <1>2, BegunSound, RestOf
  <2>2. o.ctl.state = "seeking"
    BY <1>2 DEF Begun
  <2>3. Heeded(o, w, v) = v
    BY <1>2, <2>2 DEF Heeded, Overridden, Taken
  <2> QED BY <1>1, <2>1, <2>3 DEF Answers
<1>3. CASE Refused(o) /\ DeclinedChange(o.ctl, o.pipe, c, p, resume, completion)
  <2>1. PICK live \in BOOLEAN : /\ Declined(o.ctl, o.pipe, c, p, live)
                                /\ live => Preroll(resume, completion)
    BY <1>3 DEF DeclinedChange
  <2>2. live => Live
    BY <2>1 DEF Preroll
  <2>3. Sound(c, p, over) /\ c.startup = "complete" /\ w \in Wishes /\ Follows(c, w)
    BY DEF Agree
  <2>4. /\ Sound(o.ctl, o.pipe, over)
        /\ \A u \in Wishes : Follows(c, u) => Follows(o.ctl, Overridden(u, o.ctl))
    BY <2>1, <2>2, <2>3, RestOf, DeclinedSound
  <2>5. Heeded(o, w, v) = Overridden(w, o.ctl)
    BY <1>3 DEF Heeded, Refused
  <2> QED BY <1>1, <2>3, <2>4, <2>5 DEF Answers
<1> QED BY <1>2, <1>3 DEF Outcome

Queued(c, target, rate, completion, resume) ==
  [c EXCEPT !.seek.next = [target |-> target, rate |-> rate, completion |-> completion],
            !.startup = "complete", !.seek.resume = resume]

LEMMA QueueIs ==
  ASSUME NEW c, ControllerOK(c), NEW target, NEW rate, NEW completion
  PROVE  Queue(c, target, rate, completion)
           = Queued(c, target, rate, completion, c.seek.resume)
<1> DEFINE n == [target |-> target, rate |-> rate, completion |-> completion]
<1>1. c \in Controllers /\ c.seek \in Seeks
  BY DEF ControllerOK, Controllers
<1>2. Queue(c, target, rate, completion) = [c EXCEPT !.seek.next = n, !.startup = "complete"]
  BY DEF Queue
<1> HIDE DEF n
<1>3. [c EXCEPT !.seek.next = n, !.startup = "complete"]
        = [c EXCEPT !.seek.next = n, !.startup = "complete", !.seek.resume = c.seek.resume]
  BY <1>1 DEF Controllers, Seeks
<1> QED BY <1>2, <1>3 DEF Queued, n

\* A change waits for the seek under way; it may take the pause with it.
LEMMA QueuedAnswers ==
  ASSUME NEW c, NEW p, NEW w, NEW over, Agree(c, p, w, over), Seeking(c),
         NEW target \in [at : Time], NEW rate \in Rates, NEW completion \in {"position", "live"},
         completion = "live" => Live, NEW resume \in {c.seek.resume, "playing"},
         NEW o, o = Done(Queued(c, target, rate, completion, resume), p),
         NEW v, v.resume = resume, completion = "live" => v.live
  PROVE  Answers(o, w, v, over)
<1> DEFINE n == [target |-> target, rate |-> rate, completion |-> completion]
           k == [c.seek EXCEPT !.next = n, !.resume = resume]
           d == [c EXCEPT !.seek = k, !.startup = "complete"]
<1>0. c \in Controllers /\ c.seek \in Seeks /\ SeekOK(c.seek) /\ c.state = "seeking"
  BY DEF Agree, ControllerOK, Controllers, Seeking
<1>1. o.ctl = d /\ o.pipe = p /\ o.result = "ok"
  BY <1>0 DEF Controllers, Seeks, Queued, Done
<1>2. n \in Nexts /\ n # NoNext
  BY DEF Nexts, NoNext, AnyRate, Completions
<1> HIDE DEF n
<1>3. resume \in {"playing", "paused"}
  BY <1>0 DEF SeekOK
<1>4. /\ k \in Seeks /\ k.next = n /\ k.resume = resume /\ k.clock = c.seek.clock
      /\ k.target = c.seek.target /\ k.rate = c.seek.rate
  BY <1>0, <1>2, <1>3 DEF Seeks
<1> HIDE DEF k
<1>5. SeekOK(k) /\ k # NoSeek
  <2>1. n.rate \in Rates
    BY DEF n
  <2>2. SeekOK(k)
    BY <1>0, <1>3, <1>4, <2>1 DEF SeekOK
  <2> QED BY <1>4, <2>2, SeekKind
<1>6. /\ d \in Controllers /\ d.state = "seeking" /\ d.seek = k /\ d.network = c.network
      /\ d.startup = "complete"
  BY <1>0, <1>4 DEF Controllers
<1> HIDE DEF d
<1>7. ControllerOK(d)
  BY <1>5, <1>6 DEF ControllerOK, Seeking
<1>8. Seeking(d) /\ PhaseResume(d) = resume
  BY <1>3, <1>4, <1>6 DEF Seeking, PhaseResume, Stopped
<1>9. n.completion = completion
  BY DEF n
<1>10. Native(d, p, over)
  BY <1>0, <1>2, <1>3, <1>4, <1>6, <1>8, <1>9 DEF Agree, Sound, Native, Resumes, PhaseResume, Seeking, Stopped
<1>11. Sound(d, p, over)
  BY <1>6, <1>10 DEF Sound, Starting, Steady
<1>12. Follows(d, v)
  BY <1>2, <1>4, <1>6, <1>8, <1>9 DEF Follows, ToLive
<1>13. Heeded(o, w, v) = v
  BY <1>1, <1>6 DEF Heeded, Overridden
<1> QED BY <1>1, <1>6, <1>7, <1>11, <1>12, <1>13 DEF Answers, Agree


LEMMA RecoveryTargetIs ==
  ASSUME StoreOK, ~Live
  PROVE  RecoveryTarget(Window) \in 0 .. MaxEnd
<1> DEFINE half == MaxEnd \div 2
<1>1. store.start = 0 /\ store.end = MaxEnd
  BY DEF StoreOK
<1>2. half \in Int /\ half >= 0 /\ half <= MaxEnd
  BY Numbers
<1>3. RecoveryTarget(Window) = 0 + LeastOf(Recovery, half)
  BY <1>1, Numbers DEF RecoveryTarget, Window
<1> HIDE DEF half
<1> QED BY <1>2, <1>3, Numbers DEF LeastOf

LEMMA RequestedRateIs ==
  ASSUME NEW c, ControllerOK(c)
  PROVE  RequestedRate(c) \in Rates
BY ControllerParts DEF RequestedRate, Seeking, SeekOK

Resumed(c, resume) ==
  [c EXCEPT !.startup = "complete", !.state = IF Seeking(c) THEN @ ELSE resume,
            !.seek = IF Seeking(c) THEN [@ EXCEPT !.resume = resume] ELSE @]

\* Pause and play on a stream that plays, pauses or seeks.
LEMMA ResumedIs ==
  ASSUME NEW c, NEW p, NEW w, NEW over, Agree(c, p, w, over),
         c.state \in {"playing", "paused", "seeking"},
         NEW resume \in {"playing", "paused"},
         NEW d, d = Resumed(c, resume), NEW q, q = SetState(p, NativeResume(c, resume)),
         NEW v \in Wishes, v.resume = resume, v.live = w.live
  PROVE  /\ ControllerOK(d) /\ PipeOK(q) /\ d.startup = "complete" /\ Sound(d, q, over)
         /\ Follows(d, v) /\ d.state \in {"playing", "paused", "seeking"}
         /\ (d.seek # c.seek => d.state = c.state)
<1> DEFINE s == IF Seeking(c) THEN c.state ELSE resume
           k == IF Seeking(c) THEN [c.seek EXCEPT !.resume = resume] ELSE c.seek
<1>0. c \in Controllers /\ c.seek \in Seeks /\ (Seeking(c) => SeekOK(c.seek))
      /\ (Seeking(c) <=> c.seek # NoSeek)
  BY DEF Agree, ControllerOK, Controllers, Seeking
<1>1. d = [c EXCEPT !.startup = "complete", !.state = s, !.seek = k]
  BY DEF Resumed
<1>2. s \in {"playing", "paused", "seeking"} /\ (s = "seeking" <=> Seeking(c))
  BY DEF Seeking
<1>3. k \in Seeks /\ (Seeking(c) => SeekOK(k)) /\ (Seeking(c) <=> k # NoSeek)
  <2>1. CASE Seeking(c)
    <3>1. k \in Seeks /\ k.resume = resume /\ k.target = c.seek.target /\ k.rate = c.seek.rate
          /\ k.next = c.seek.next
      BY <1>0, <2>1 DEF Seeks
    <3> HIDE DEF k
    <3>2. SeekOK(k)
      BY <1>0, <2>1, <3>1 DEF SeekOK
    <3> QED BY <2>1, <3>1, <3>2, SeekKind
  <2>2. CASE ~Seeking(c)
    BY <1>0, <2>2
  <2> QED BY <2>1, <2>2
<1>4. Seeking(c) => /\ k.resume = resume /\ k.next = c.seek.next /\ k.clock = c.seek.clock
                    /\ k.completion = c.seek.completion
  BY <1>0 DEF Seeks
<1>5. ~Seeking(c) => k = c.seek
  OBVIOUS
<1> HIDE DEF s, k
<1>6. /\ d \in Controllers /\ d.startup = "complete" /\ d.state = s /\ d.seek = k
      /\ d.network = c.network /\ d.rate = c.rate
  BY <1>0, <1>1, <1>2, <1>3 DEF Controllers, Stopped
<1>7. ControllerOK(d)
  BY <1>2, <1>3, <1>6 DEF ControllerOK, Seeking
<1>8. NativeResume(c, resume) \in {"playing", "paused"}
  BY NativeResumeIs DEF NativeKinds
<1>9. PipeOK(q) /\ SamePipe(p, q) /\ q.target = NativeResume(c, resume)
  BY <1>8, SetStateIs DEF Agree
<1>10. Seeking(d) <=> Seeking(c)
  BY <1>2, <1>6 DEF Seeking
<1>11. PhaseResume(d) = resume
  BY <1>2, <1>4, <1>6, <1>10 DEF PhaseResume, Stopped, Seeking, s
<1>12. Native(d, q, over)
  <2>1. d.network \in {"ready", "starved"} /\ (d.network = "starved" => ~Live)
    BY <1>6, RestOf
  <2>2. resume = "paused" \/ d.network = "starved" => q.target = "paused"
    BY <1>6, <1>9 DEF NativeResume
  <2>3. Seeking(d) /\ (d.seek.clock = "preroll" \/ d.seek.next.completion = "live") => Live
    BY <1>4, <1>6, <1>10 DEF Agree, Sound, Native
  <2>4. Resumes(d) => resume = "playing"
    BY <1>2, <1>4, <1>6, <1>10 DEF Resumes, Seeking, s
  <2>5. d.network = "ready" /\ Resumes(d) => q.target = "playing"
    BY <1>6, <1>9, <2>4 DEF NativeResume
  <2> QED BY <1>11, <2>1, <2>2, <2>3, <2>5 DEF Native
<1>13. Steady(d, q)
  BY <1>2, <1>6, <1>9 DEF Agree, Sound, Steady, SamePipe, s, Seeking
<1>14. Sound(d, q, over)
  BY <1>6, <1>12, <1>13 DEF Sound, Starting
<1>15. Follows(d, v)
  BY <1>4, <1>6, <1>10, <1>11 DEF Agree, Follows
<1>16. d.seek # c.seek => d.state = c.state
  BY <1>5, <1>6 DEF s
<1> QED BY <1>2, <1>6, <1>7, <1>9, <1>14, <1>15, <1>16

LEMMA PauseAnswers ==
  ASSUME StoreOK, NEW c, NEW p, NEW w, NEW over, Agree(c, p, w, over),
         NEW resume \in {"playing", "paused"}, NEW o \in Pause(c, p, resume),
         NEW v \in Wishes, v.resume = resume,
         v.live = IF resume = "playing" /\ o.ctl.seek # c.seek /\ o.ctl.state # c.state
                  THEN o.ctl.seek.completion = "caught_up" ELSE w.live
  PROVE  Answers(o, w, v, over)
<1> DEFINE here == IF QueryPosition(p) # NoTime THEN QueryPosition(p) ELSE c.position
<1>0. ControllerOK(c) /\ PipeOK(p) /\ c.startup = "complete"
  BY DEF Agree
<1>1. c.state \in {"playing", "seeking", "ended", "paused", "expired", "failed"}
      /\ c.position \in Time /\ QueryPosition(p) \in Time
  BY <1>0, ControllerParts, PipeParts
<1>2. ASSUME NEW e, e = Fail(c, p, "unavailable"), o = e
      PROVE  Answers(o, w, v, over)
  <2>1. o.ctl = c /\ o.pipe = p /\ o.result # "ok"
    BY <1>2 DEF Fail
  <2> QED BY <2>1, NothingDone
<1>3. ASSUME NEW d, ControllerOK(d), SameCore(c, d), ~Seeking(c), NEW target,
             NEW completion \in {"position", "caught_up"},
             Outcome(o, d, p, target, resume, 1, completion),
             resume = "playing"
      PROVE  Answers(o, w, v, over)
  <2>1. Agree(d, p, w, over) /\ ~Seeking(d)
    BY <1>3, AgreeTwice, CoreIs
  <2>2. ASSUME Taken(o) PROVE v.resume = resume /\ (completion \in ToLive => v.live)
    <3>1. Begun(o.ctl, o.pipe, d, p, target, resume, 1, completion) /\ ControllerOK(o.ctl)
      BY <1>3, <2>2 DEF Outcome, Taken, Refused
    <3>2. o.ctl.seek.completion = completion /\ o.ctl.state = "seeking"
      BY <3>1 DEF Begun
    <3>3. o.ctl.seek # NoSeek /\ c.seek = NoSeek /\ c.state # "seeking"
      BY <1>0, <1>3, <3>1, <3>2 DEF ControllerOK, Seeking
    <3> QED BY <1>3, <3>2, <3>3 DEF ToLive
  <2> QED BY <1>3, <2>1, <2>2, ChangeAnswers
<1>4. CASE c.state = "ended"
  BY <1>2, <1>4 DEF Pause, Unavailable
<1>5. CASE c.state = "failed" /\ resume = "playing"
  <2>1. here = NoTime => o = Fail(c, p, "unavailable")
    BY <1>5 DEF Pause, Unavailable
  <2>2. here # NoTime => o \in StartChange(c, p, here, resume, 1, "position")
    BY <1>5 DEF Pause
  <2>3. here # NoTime => here \in 0 .. MaxEnd
    BY <1>1, Numbers
  <2> HIDE DEF here
  <2>4. ASSUME here # NoTime PROVE Outcome(o, c, p, here, resume, 1, "position")
    <3>1. "position" \in Completions /\ 1 \in Rates
      BY Numbers DEF Completions
    <3> QED BY <1>0, <2>2, <2>3, <2>4, <3>1, StartChangeIs
  <2>5. SameCore(c, c) /\ ~Seeking(c)
    BY <1>5 DEF SameCore, Seeking
  <2> QED BY <1>0, <1>2, <1>3, <1>5, <2>1, <2>4, <2>5
<1>6. CASE c.state = "failed" /\ resume = "paused"
  <2>1. o = Done(c, p)
    BY <1>6 DEF Pause
  <2>2. o.ctl = c /\ o.pipe = p
    BY <2>1 DEF Done
  <2>3. PhaseResume(c) = "paused" /\ ~Seeking(c)
    BY <1>6 DEF PhaseResume, Seeking, Stopped
  <2>4. Follows(c, v)
    BY <1>6, <2>3 DEF Follows
  <2>5. Follows(c, Heeded(o, w, v))
    BY <2>1, <2>2, <2>4, StillFollows DEF Heeded, Done
  <2> QED BY <1>0, <2>2, <2>5 DEF Answers, Agree
<1>7. CASE c.state = "expired" /\ resume = "playing"
  <2>1. ControllerOK(Sample(c, p)) /\ SameCore(c, Sample(c, p))
    BY <1>0, SampleIs
  <2>2. CASE ~Seekable
    <3>1. o = Fail(Sample(c, p), p, "unavailable")
      BY <1>7, <2>2 DEF Pause, Unavailable
    <3>2. o.ctl = Sample(c, p) /\ o.pipe = p /\ o.result # "ok"
      BY <3>1 DEF Fail
    <3>3. Agree(Sample(c, p), p, w, over)
      BY <2>1, AgreeTwice
    <3> QED BY <3>2, <3>3, NothingDone
  <2>3. CASE Seekable
    <3>1. o \in Completed(StartChange(Sample(c, p), p, RecoveryTarget(Window), resume, 1, "position"))
      BY <1>7, <2>3 DEF Pause
    <3>2. "position" \in Completions /\ 1 \in Rates
      BY Numbers DEF Completions
    <3>3. Live \/ RecoveryTarget(Window) \in 0 .. MaxEnd
      BY RecoveryTargetIs
    <3>4. Sample(c, p).startup = "complete"
      BY <1>0, <2>1 DEF SameCore
    <3>5. Outcome(o, Sample(c, p), p, RecoveryTarget(Window), resume, 1, "position")
      BY <1>0, <2>1, <3>1, <3>2, <3>3, <3>4, CompletedIs
    <3>6. ~Seeking(c)
      BY <1>7 DEF Seeking
    <3> QED BY <1>3, <1>7, <2>1, <3>5, <3>6
  <2> QED BY <2>2, <2>3
<1>8. CASE c.state = "expired" /\ resume = "paused"
  <2>1. o = Done([c EXCEPT !.startup = "complete"], p)
    BY <1>8 DEF Pause
  <2>2. [c EXCEPT !.startup = "complete"] = c
    BY <1>0 DEF ControllerOK, Controllers
  <2>3. o.ctl = c /\ o.pipe = p /\ o.result = "ok"
    BY <2>1, <2>2 DEF Done
  <2>4. PhaseResume(c) = "paused" /\ ~Seeking(c)
    BY <1>8 DEF PhaseResume, Seeking, Stopped
  <2>5. Follows(c, v)
    BY <1>8, <2>4 DEF Follows
  <2>6. Follows(c, Heeded(o, w, v))
    BY <2>3, <2>5, StillFollows DEF Heeded
  <2> QED BY <1>0, <2>3, <2>6 DEF Answers, Agree
<1>9. CASE c.state \in {"playing", "paused", "seeking"} /\ resume = "playing" /\ Faster(c)
  <2>1. ~Seeking(c) /\ SameCore(c, c)
    BY <1>9 DEF Faster, SameCore
  <2>2. QueryPosition(p) = NoTime => o = Fail(c, p, "unavailable")
    BY <1>9 DEF Pause, Unavailable
  <2>3. QueryPosition(p) # NoTime =>
          o \in StartChange(c, p, QueryPosition(p), resume, 1, "caught_up")
    BY <1>9 DEF Pause
  <2>4. QueryPosition(p) # NoTime => QueryPosition(p) \in 0 .. MaxEnd
    BY <1>0, PipeParts
  <2>5. "caught_up" \in Completions /\ 1 \in Rates
    BY Numbers DEF Completions
  <2>6. QueryPosition(p) # NoTime => Outcome(o, c, p, QueryPosition(p), resume, 1, "caught_up")
    BY <1>0, <2>3, <2>4, <2>5, StartChangeIs
  <2> QED BY <1>0, <1>2, <1>3, <1>9, <2>1, <2>2, <2>6
<1>10. CASE /\ c.state \in {"playing", "paused", "seeking"}
            /\ ~(resume = "playing" /\ Faster(c))
  <2> DEFINE k == Resumed(c, resume)
             q == SetState(p, NativeResume(c, resume))
             d == IF Seeking(c) THEN k ELSE SamplePosition(k, p)
             u == [v EXCEPT !.live = w.live]
  <2>1. o = Done(d, q)
    BY <1>10 DEF Pause, Resumed
  <2>2. u \in Wishes /\ u.resume = resume /\ u.live = w.live /\ w.live \in BOOLEAN
        /\ (v.live = w.live => u = v)
    BY DEF Wishes, Agree
  <2> HIDE DEF k, q, u
  <2>4. /\ ControllerOK(k) /\ PipeOK(q) /\ k.startup = "complete" /\ Sound(k, q, over)
        /\ Follows(k, u) /\ k.state \in {"playing", "paused", "seeking"}
        /\ (k.seek # c.seek => k.state = c.state)
    BY <1>10, <2>2, ResumedIs DEF k, q
  <2>5. ControllerOK(d) /\ SameCore(k, d)
    BY <1>0, <2>4, SamePositionIs DEF SameCore
  <2>6. o.ctl = d /\ o.pipe = q /\ o.result = "ok"
    BY <2>1 DEF Done
  <2> HIDE DEF d
  <2>7. d.startup = "complete" /\ d.state = k.state /\ d.seek = k.seek
    BY <2>4, <2>5 DEF SameCore
  <2>8. Sound(d, q, over) /\ Follows(d, u)
    BY <2>4, <2>5, CoreIs
  <2>9. u = v
    BY <2>2, <2>4, <2>6, <2>7
  <2>10. Heeded(o, w, v) = v
    BY <2>4, <2>6, <2>7 DEF Heeded, Overridden
  <2> QED BY <2>4, <2>5, <2>6, <2>7, <2>8, <2>9, <2>10 DEF Answers
<1> QED BY <1>1, <1>4, <1>5, <1>6, <1>7, <1>8, <1>9, <1>10


LEMMA ReturnAnswers ==
  ASSUME StoreOK, Live, NEW b, NEW p, NEW w, NEW over, Agree(b, p, w, over),
         NEW o \in ReturnToLive(b, p), NEW v, v.resume = "playing", v.live
  PROVE  Answers(o, w, v, over)
<1> DEFINE c == [b EXCEPT !.receive = Window]
           target == LiveTarget(Window)
<1>1. Window \in RangeType /\ target \in 0 .. MaxEnd
  BY WindowIs
<1>2. ControllerOK(c) /\ SameCore(b, c)
  BY <1>1, ObservationIs DEF Agree
<1>3. /\ Seeking(c) => o = Done([Queue(c, At(target), 1, "live") EXCEPT !.seek.resume = "playing"], p)
      /\ ~Seeking(c) => o \in Completed(StartChange(c, p, target, "playing", 1, "live"))
  BY DEF ReturnToLive
<1> HIDE DEF c, target
<1>4. Agree(c, p, w, over)
  BY <1>2, AgreeTwice
<1>5. CASE Seeking(c)
  <2>1. At(target) \in [at : Time]
    BY <1>1, Numbers DEF At
  <2>2. o = Done(Queued(c, At(target), 1, "live", "playing"), p)
    BY <1>3, <1>5 DEF Queue, Queued
  <2> QED BY <1>4, <1>5, <2>1, <2>2, Numbers, QueuedAnswers
<1>6. CASE ~Seeking(c)
  <2>1. "live" \in Completions /\ 1 \in Rates /\ c.startup = "complete"
    BY <1>4, Numbers DEF Completions, Agree
  <2>2. Outcome(o, c, p, target, "playing", 1, "live")
    BY <1>1, <1>3, <1>4, <1>6, <2>1, CompletedIs DEF Agree
  <2> QED BY <1>4, <1>6, <2>2, ChangeAnswers
<1> QED BY <1>5, <1>6

LEMMA RateAnswers ==
  ASSUME StoreOK, NEW c, NEW p, NEW w, NEW over, Agree(c, p, w, over),
         NEW rate \in Rates, NEW o \in SetRate(c, p, rate), NEW v,
         v.resume = w.resume, o.ctl.seek = c.seek => v = w
  PROVE  Answers(o, w, v, over)
<1>0. ControllerOK(c) /\ PipeOK(p) /\ c.startup = "complete" /\ Follows(c, w)
  BY DEF Agree
<1>1. \/ o = Fail(c, p, "rate_unavailable") \/ o = Done(c, p) \/ o = Fail(c, p, "unavailable")
      \/ /\ Seeking(c) /\ o = Done(Queue(c, c.seek.next.target, rate, "position"), p)
      \/ /\ ~Seeking(c) /\ c.state \notin {"ended", "expired", "failed"}
         /\ QueryPosition(p) # NoTime
         /\ o \in Completed(StartChange(c, p, QueryPosition(p), c.state, rate, "position"))
  BY DEF SetRate, Unavailable
<1>2. CASE o = Fail(c, p, "rate_unavailable") \/ o = Fail(c, p, "unavailable")
  <2>1. o.ctl = c /\ o.pipe = p /\ o.result # "ok"
    BY <1>2 DEF Fail
  <2> QED BY <2>1, NothingDone
<1>3. CASE o = Done(c, p)
  <2>1. o.ctl = c /\ o.pipe = p
    BY <1>3 DEF Done
  <2> QED BY <2>1, NothingDone
<1>4. CASE Seeking(c) /\ o = Done(Queue(c, c.seek.next.target, rate, "position"), p)
  <2>1. /\ c.seek.next.target \in [at : Time] /\ c.seek.resume = PhaseResume(c)
        /\ c.seek \in Seeks /\ c \in Controllers
    <3>1. c.seek \in Seeks /\ c \in Controllers /\ SeekOK(c.seek)
      BY <1>0, <1>4 DEF ControllerOK, Controllers
    <3> QED BY <1>4, <3>1 DEF Seeks, Nexts, SeekOK, PhaseResume, Seeking, Stopped
  <2>3. o = Done(Queued(c, c.seek.next.target, rate, "position", c.seek.resume), p)
    BY <1>0, <1>4, QueueIs
  <2>4. v.resume = c.seek.resume
    BY <1>0, <2>1 DEF Follows
  <2> QED BY <1>4, <2>1, <2>3, <2>4, QueuedAnswers
<1>5. CASE /\ ~Seeking(c) /\ c.state \notin {"ended", "expired", "failed"}
           /\ QueryPosition(p) # NoTime
           /\ o \in Completed(StartChange(c, p, QueryPosition(p), c.state, rate, "position"))
  <2>1. "position" \in Completions /\ QueryPosition(p) \in 0 .. MaxEnd
    BY <1>0, <1>5, PipeParts DEF Completions
  <2>2. c.state \in {"playing", "paused"}
    BY <1>0, <1>5, ControllerParts DEF Seeking
  <2>3. Outcome(o, c, p, QueryPosition(p), c.state, rate, "position")
    BY <1>0, <1>5, <2>1, <2>2, CompletedIs
  <2>4. v.resume = c.state
    BY <1>0, <1>5, <2>2 DEF Follows, PhaseResume, Stopped
  <2>5. "position" # "live" /\ "position" \notin ToLive
    BY DEF ToLive
  <2> QED BY <1>5, <2>2, <2>3, <2>4, <2>5, ChangeAnswers
<1> QED BY <1>1, <1>2, <1>3, <1>4, <1>5

LEMMA ApplyAnswers ==
  ASSUME StoreOK, NEW c, NEW p, NEW w, NEW over, Agree(c, p, w, over),
         NEW target \in 0 .. MaxEnd, NEW o \in Apply(c, p, target), NEW v,
         v.resume = IF c.state = "ended" THEN "playing" ELSE w.resume
  PROVE  Answers(o, w, v, over)
<1> DEFINE rate == IF c.state = "failed" THEN 1 ELSE RequestedRate(c)
           resume == IF c.state \in Stopped THEN "paused" ELSE "playing"
<1>0. ControllerOK(c) /\ PipeOK(p) /\ c.startup = "complete" /\ Follows(c, w)
  BY DEF Agree
<1>1. rate \in Rates
  BY <1>0, Numbers, RequestedRateIs
<1>2. /\ Seeking(c) => o = Done(Queue(c, At(target), rate, "position"), p)
      /\ ~Seeking(c) => o \in Completed(StartChange(c, p, target, resume, rate, "position"))
  BY DEF Apply
<1> HIDE DEF rate
<1>3. CASE Seeking(c)
  <2>1. /\ c.seek.resume = PhaseResume(c) /\ c.state # "ended"
        /\ c.seek \in Seeks /\ c \in Controllers
    <3>1. c.seek \in Seeks /\ c \in Controllers /\ SeekOK(c.seek)
      BY <1>0, <1>3 DEF ControllerOK, Controllers
    <3> QED BY <1>3, <3>1 DEF SeekOK, PhaseResume, Seeking, Stopped
  <2>3. o = Done(Queued(c, At(target), rate, "position", c.seek.resume), p)
    BY <1>0, <1>2, <1>3, QueueIs
  <2>4. v.resume = c.seek.resume
    BY <1>0, <2>1 DEF Follows
  <2>5. At(target) \in [at : Time]
    BY Numbers DEF At
  <2> QED BY <1>1, <1>3, <2>3, <2>4, <2>5, QueuedAnswers
<1>4. CASE ~Seeking(c)
  <2>1. "position" \in Completions /\ resume \in {"playing", "paused"}
    BY DEF Completions
  <2>2. v.resume = resume
    BY <1>0, <1>4 DEF Follows, PhaseResume, Stopped
  <2> HIDE DEF resume
  <2>3. Outcome(o, c, p, target, resume, rate, "position")
    BY <1>0, <1>1, <1>2, <1>4, <2>1, CompletedIs
  <2>4. "position" # "live" /\ "position" \notin ToLive
    BY DEF ToLive
  <2> QED BY <1>4, <2>1, <2>2, <2>3, <2>4, ChangeAnswers
<1> QED BY <1>3, <1>4

-----------------------------------------------------------------------------
(* Steps.                                                                  *)
Sessions == {"connecting", "playing", "ended", "rejected", "timed_out", "unavailable"}

\* What a step owes, said of the next values.
LEMMA StepIs ==
  ASSUME ControllerOK(ctl'), PipeOK(pipe'), StoreOK', Live' <=> Live,
         session' \in Sessions, wish' \in Wishes, skipped' \in BOOLEAN, polled' => Live,
         Open' => /\ Sound(ctl', pipe', skipped') /\ Follows(ctl', wish')
                  /\ ctl'.startup = "awaiting" => session' = "connecting"
  PROVE  TimelineInv'
<1>1. Types'
  BY DEF Types, Sessions
<1>2. Sound(ctl', pipe', skipped') => Sound(ctl, pipe, skipped)'
  BY DEF Sound, Native, Starting, Steady, Resumes
<1>3. Follows(ctl', wish') => Follows(ctl, wish)'
  BY DEF Follows
<1> QED BY <1>1, <1>2, <1>3 DEF TimelineInv

LEMMA InvParts ==
  ASSUME TimelineInv
  PROVE  /\ ControllerOK(ctl) /\ PipeOK(pipe) /\ StoreOK /\ session \in Sessions
         /\ wish \in Wishes /\ skipped \in BOOLEAN /\ (polled => Live)
         /\ Open => /\ Sound(ctl, pipe, skipped) /\ Follows(ctl, wish)
                    /\ ctl.startup = "awaiting" => session = "connecting"
BY DEF TimelineInv, Types, Sessions

LEMMA TransportAgrees ==
  ASSUME TimelineInv, Transport
  PROVE  Agree(ctl, pipe, wish, skipped)
<1>1. session = "playing" /\ Open
  BY DEF Transport, Request
<1>2. ctl.startup \in {"awaiting", "complete"} /\ ctl.startup # "awaiting"
  BY <1>1, InvParts, ControllerParts
<1> QED BY <1>1, <1>2, InvParts DEF Agree

\* An answered request keeps the invariant, as the store keeps its shape.
LEMMA AnsweredStep ==
  ASSUME TimelineInv, Transport, NEW o, NEW v \in Wishes, Answers(o, wish, v, skipped),
         ctl' = o.ctl, pipe' = o.pipe, Asked(o, v), StoreOK', Live' <=> Live
  PROVE  TimelineInv'
<1>1. /\ session' = session /\ polled' = polled /\ skipped' = skipped
      /\ wish' = Heeded(o, wish, v)
  BY DEF Transport, Asked, Heeded
<1>2. \A u \in Wishes : Overridden(u, o.ctl) \in Wishes
  BY DEF Overridden, Wishes
<1>3. wish' \in Wishes
  BY <1>1, <1>2, InvParts DEF Heeded
<1>4. /\ ControllerOK(ctl') /\ PipeOK(pipe') /\ ctl'.startup = "complete"
      /\ Sound(ctl', pipe', skipped') /\ Follows(ctl', wish')
  BY <1>1 DEF Answers
<1> QED BY <1>1, <1>3, <1>4, InvParts, StepIs

LEMMA PreparedAgrees ==
  ASSUME StoreOK, NEW c, NEW p, NEW w, NEW over, Agree(c, p, w, over)
  PROVE  Agree(Prepared(c, p), p, w, over) /\ SameCore(c, Prepared(c, p))
BY PreparedIs, AgreeTwice DEF Agree

LEMMA SameStore ==
  ASSUME StoreOK, UNCHANGED store
  PROVE  StoreOK' /\ (Live' <=> Live)
BY DEF StoreOK, Live

LEMMA PauseStep ==
  ASSUME TimelineInv, PauseRequest
  PROVE  TimelineInv'
<1>1. PICK o \in Pause(ctl, pipe, "paused") :
        /\ ctl' = o.ctl /\ pipe' = o.pipe
        /\ store' = IF o.result = "ok" /\ store.mode = "on_pause"
                    THEN [store EXCEPT !.history = TRUE] ELSE store
        /\ Asked(o, [wish EXCEPT !.resume = "paused"])
  BY DEF PauseRequest
<1>2. Transport /\ Agree(ctl, pipe, wish, skipped)
  BY TransportAgrees DEF PauseRequest
<1> DEFINE v == [wish EXCEPT !.resume = "paused"]
<1>3. v \in Wishes /\ v.resume = "paused" /\ v.live = wish.live
  BY InvParts DEF Wishes
<1> HIDE DEF v
<1>4. Answers(o, wish, v, skipped)
  BY <1>2, <1>3, InvParts, PauseAnswers
<1>5. StoreOK' /\ (Live' <=> Live)
  BY <1>1, InvParts DEF StoreOK, Stores, Live
<1> QED BY <1>1, <1>2, <1>3, <1>4, <1>5, AnsweredStep DEF v

LEMMA PlayStep ==
  ASSUME TimelineInv, PlayRequest
  PROVE  TimelineInv'
<1>1. PICK o \in Pause(ctl, pipe, "playing") :
        /\ ctl' = o.ctl /\ pipe' = o.pipe
        /\ Asked(o, [resume |-> "playing",
                     live |-> IF o.ctl.seek # ctl.seek /\ o.ctl.state # ctl.state
                              THEN o.ctl.seek.completion = "caught_up" ELSE wish.live])
  BY DEF PlayRequest
<1>2. Transport /\ Agree(ctl, pipe, wish, skipped)
  BY TransportAgrees DEF PlayRequest
<1> DEFINE l == IF o.ctl.seek # ctl.seek /\ o.ctl.state # ctl.state
                THEN o.ctl.seek.completion = "caught_up" ELSE wish.live
           v == [resume |-> "playing", live |-> l]
<1>3. l \in BOOLEAN
  BY InvParts DEF Wishes
<1>4. v \in Wishes /\ v.resume = "playing"
      /\ v.live = IF "playing" = "playing" /\ o.ctl.seek # ctl.seek /\ o.ctl.state # ctl.state
                  THEN o.ctl.seek.completion = "caught_up" ELSE wish.live
  BY <1>3 DEF Wishes
<1> HIDE DEF v
<1>5. Answers(o, wish, v, skipped)
  BY <1>2, <1>4, InvParts, PauseAnswers
<1>6. UNCHANGED store
  BY DEF PlayRequest
<1> QED BY <1>1, <1>2, <1>4, <1>5, <1>6, InvParts, SameStore, AnsweredStep DEF v

LEMMA ReturnStep ==
  ASSUME TimelineInv, ReturnRequest
  PROVE  TimelineInv'
<1>1. PICK o \in ReturnToLive(Prepared(ctl, pipe), pipe) :
        /\ ctl' = o.ctl /\ pipe' = o.pipe
        /\ Asked(o, [resume |-> "playing", live |-> TRUE])
  BY DEF ReturnRequest
<1>2. Transport /\ Agree(Prepared(ctl, pipe), pipe, wish, skipped) /\ Live
  BY TransportAgrees, PreparedAgrees, InvParts DEF ReturnRequest
<1> DEFINE v == [resume |-> "playing", live |-> TRUE]
<1>3. v \in Wishes /\ v.resume = "playing" /\ v.live
  BY DEF Wishes
<1> HIDE DEF v
<1>4. Answers(o, wish, v, skipped)
  BY <1>2, <1>3, InvParts, ReturnAnswers
<1>5. UNCHANGED store
  BY DEF ReturnRequest
<1> QED BY <1>1, <1>2, <1>3, <1>4, <1>5, InvParts, SameStore, AnsweredStep DEF v

LEMMA RateStep ==
  ASSUME TimelineInv, RateRequest
  PROVE  TimelineInv'
<1>1. PICK rate \in Rates : \E o \in SetRate(Prepared(ctl, pipe), pipe, rate) :
        /\ ctl' = o.ctl /\ pipe' = o.pipe
        /\ Asked(o, [wish EXCEPT !.live = @ /\ o.ctl.seek = ctl.seek])
  BY DEF RateRequest
<1>2. PICK o \in SetRate(Prepared(ctl, pipe), pipe, rate) :
        /\ ctl' = o.ctl /\ pipe' = o.pipe
        /\ Asked(o, [wish EXCEPT !.live = @ /\ o.ctl.seek = ctl.seek])
  BY <1>1
<1>3. /\ Transport /\ Agree(Prepared(ctl, pipe), pipe, wish, skipped)
      /\ SameCore(ctl, Prepared(ctl, pipe))
  BY TransportAgrees, PreparedAgrees, InvParts DEF RateRequest
<1> DEFINE v == [wish EXCEPT !.live = @ /\ o.ctl.seek = ctl.seek]
<1>4. v \in Wishes /\ v.resume = wish.resume /\ (o.ctl.seek = ctl.seek => v = wish)
  BY InvParts DEF Wishes
<1>5. Prepared(ctl, pipe).seek = ctl.seek
  BY <1>3 DEF SameCore
<1> HIDE DEF v
<1>6. Answers(o, wish, v, skipped)
  BY <1>3, <1>4, <1>5, InvParts, RateAnswers
<1>7. UNCHANGED store
  BY DEF RateRequest
<1> QED BY <1>2, <1>3, <1>4, <1>6, <1>7, InvParts, SameStore, AnsweredStep DEF v

LEMMA SeekStep ==
  ASSUME TimelineInv, SeekRequest
  PROVE  TimelineInv'
<1>1. PICK time \in 0 .. MaxEnd : \E o \in Apply(Prepared(ctl, pipe), pipe, Target(time)) :
        /\ ctl' = o.ctl /\ pipe' = o.pipe
        /\ Asked(o, [live |-> FALSE,
                     resume |-> IF ctl.state = "ended" THEN "playing" ELSE wish.resume])
  BY DEF SeekRequest
<1>2. PICK o \in Apply(Prepared(ctl, pipe), pipe, Target(time)) :
        /\ ctl' = o.ctl /\ pipe' = o.pipe
        /\ Asked(o, [live |-> FALSE,
                     resume |-> IF ctl.state = "ended" THEN "playing" ELSE wish.resume])
  BY <1>1
<1>3. /\ Transport /\ Agree(Prepared(ctl, pipe), pipe, wish, skipped)
      /\ SameCore(ctl, Prepared(ctl, pipe)) /\ HasWindow
  BY TransportAgrees, PreparedAgrees, InvParts DEF SeekRequest
<1>4. Target(time) \in 0 .. MaxEnd
  BY <1>3, InvParts, TargetIs
<1> DEFINE v == [live |-> FALSE,
                 resume |-> IF ctl.state = "ended" THEN "playing" ELSE wish.resume]
<1>5. v \in Wishes /\ v.resume = IF ctl.state = "ended" THEN "playing" ELSE wish.resume
  BY InvParts DEF Wishes
<1>6. Prepared(ctl, pipe).state = ctl.state
  BY <1>3 DEF SameCore
<1> HIDE DEF v
<1>7. Answers(o, wish, v, skipped)
  BY <1>3, <1>4, <1>5, <1>6, InvParts, ApplyAnswers
<1>8. UNCHANGED store
  BY DEF SeekRequest
<1> QED BY <1>2, <1>3, <1>5, <1>7, <1>8, InvParts, SameStore, AnsweredStep DEF v

LEMMA ConfigureStep ==
  ASSUME TimelineInv, Configure
  PROVE  TimelineInv'
<1>1. PICK mode \in Modes, replaced \in BOOLEAN, less \in BOOLEAN :
       LET history == IF mode = store.mode /\ ~replaced THEN store.history ELSE mode = "always"
           narrower == less \/ (history /\ ~store.history)
           change == IF replaced THEN "live" ELSE IF narrower THEN "clamp" ELSE "none"
       IN  /\ replaced => store.history \/ history
           /\ (store.history /\ mode # store.mode) => replaced
           /\ less => store.history /\ history
           /\ \E start \in store.start .. store.end :
                /\ replaced => start = store.end
                /\ ~replaced /\ change = "none" => start = store.start
                /\ ~replaced /\ HasWindow => start < store.end
                /\ store' = [store EXCEPT !.start = start, !.mode = mode, !.history = history]
           /\ ctl' = IF change = "none" THEN ctl
                     ELSE [ctl EXCEPT !.startup = "complete",
                                      !.retention = IF @ = "live" THEN "live" ELSE change,
                                      !.range = IF ctl.retention = "live" \/ change = "live"
                                                THEN NoRange ELSE @]
           /\ skipped' = (skipped \/ (change # "none" /\ ctl.startup = "awaiting"))
  BY DEF Configure
<1> DEFINE history == IF mode = store.mode /\ ~replaced THEN store.history ELSE mode = "always"
           narrower == less \/ (history /\ ~store.history)
           change == IF replaced THEN "live" ELSE IF narrower THEN "clamp" ELSE "none"
           g == IF ctl.retention = "live" \/ change = "live" THEN NoRange ELSE ctl.range
           r == IF ctl.retention = "live" THEN "live" ELSE change
           d == [ctl EXCEPT !.startup = "complete", !.retention = r, !.range = g]
<1>2. /\ Live /\ Open /\ pipe' = pipe /\ session' = session /\ polled' = polled /\ wish' = wish
  BY DEF Configure, Request
<1>3. StoreOK' /\ (Live' <=> Live)
  <2>1. history \in BOOLEAN
    BY InvParts DEF StoreOK, Stores
  <2>2. PICK start \in store.start .. store.end :
          store' = [store EXCEPT !.start = start, !.mode = mode, !.history = history]
    BY <1>1
  <2> HIDE DEF history
  <2>3. start \in 0 .. MaxEnd /\ start <= store.end
    BY InvParts, WindowIs, Numbers
  <2>4. store' \in Stores /\ store'.source = store.source /\ store'.start = start
        /\ store'.end = store.end
    BY <2>1, <2>2, <2>3, InvParts DEF StoreOK, Stores
  <2> QED BY <1>2, <2>3, <2>4 DEF StoreOK, Live
<1>4. change \in {"none", "live", "clamp"}
  OBVIOUS
<1>5. /\ ctl' = IF change = "none" THEN ctl ELSE d
      /\ skipped' = (skipped \/ (change # "none" /\ ctl.startup = "awaiting"))
  BY <1>1
<1> HIDE DEF change
<1>6. r \in {"none", "live", "clamp"} /\ g \in RangeType
  BY <1>4, InvParts, ControllerParts, WindowIs
<1>7. skipped' \in BOOLEAN
  BY <1>5
<1> HIDE DEF r, g
<1>8. CASE change = "none"
  <2>1. ctl' = ctl /\ skipped' = skipped
    BY <1>5, <1>8, InvParts
  <2> QED BY <1>2, <1>3, <2>1, InvParts, StepIs
<1>9. CASE change # "none"
  <2>1. /\ d \in Controllers /\ d.state = ctl.state /\ d.seek = ctl.seek /\ d.rate = ctl.rate
        /\ d.network = ctl.network /\ d.startup = "complete"
    BY <1>6, InvParts DEF ControllerOK, Controllers
  <2> HIDE DEF d
  <2>2. ControllerOK(d) /\ (Seeking(d) <=> Seeking(ctl)) /\ PhaseResume(d) = PhaseResume(ctl)
    BY <2>1, InvParts DEF ControllerOK, Seeking, PhaseResume
  <2>3. Follows(d, wish)
    BY <1>2, <2>1, <2>2, InvParts DEF Follows
  <2>4. ctl.startup = "awaiting" => skipped' /\ ctl.state = "playing"
    BY <1>2, <1>5, <1>9, InvParts DEF Sound, Starting
  <2>5. skipped => skipped'
    BY <1>5
  <2>6. Native(d, pipe, skipped')
    <3>1. Sound(ctl, pipe, skipped)
      BY <1>2, InvParts
    <3>2. ctl.startup \in {"awaiting", "complete"}
      BY InvParts, ControllerParts
    <3>3. CASE ctl.startup = "awaiting"
      BY <2>1, <2>2, <2>4, <3>1, <3>3 DEF Sound, Native, Resumes, Seeking
    <3>4. CASE ctl.startup = "complete"
      <4>1. Resumes(d) <=> Resumes(ctl)
        BY <2>1, <2>2, <3>4 DEF Resumes
      <4> QED BY <2>1, <2>2, <2>5, <3>1, <4>1 DEF Sound, Native
    <3> QED BY <3>2, <3>3, <3>4
  <2>7. Sound(d, pipe, skipped')
    BY <1>2, <2>1, <2>6, InvParts DEF Sound, Starting, Steady
  <2>8. ctl' = d
    BY <1>5, <1>9
  <2> QED BY <1>2, <1>3, <1>7, <2>1, <2>2, <2>3, <2>7, <2>8, InvParts, StepIs
<1> QED BY <1>8, <1>9


\* The pipeline moves: the controller and the wish do not.
LEMMA PipeMoves ==
  ASSUME TimelineInv, Moves, UNCHANGED <<ctl, store>>,
         PipeOK(pipe'), pipe'.target = pipe.target,
         pipe.todo = NoSegment => pipe'.todo = NoSegment /\ pipe'.speed = pipe.speed,
         Steady(ctl, pipe) => Steady(ctl, pipe'),
         pipe.target = "paused" => pipe'.announced = pipe.announced
  PROVE  TimelineInv'
<1>1. /\ session' = session /\ polled' = polled /\ wish' = wish /\ skipped' = skipped
      /\ Open /\ ctl' = ctl
  BY DEF Moves
<1>2. Native(ctl, pipe, skipped) => Native(ctl, pipe', skipped)
  BY DEF Native
<1>3. Starting(ctl, pipe) => Starting(ctl, pipe')
  BY DEF Starting
<1>4. Sound(ctl', pipe', skipped')
  BY <1>1, <1>2, <1>3, InvParts DEF Sound
<1> QED BY <1>1, <1>4, InvParts, SameStore, StepIs

LEMMA PipeStep ==
  ASSUME TimelineInv, UNCHANGED store,
         PipeFlush \/ PipeSegment \/ PipeBuffer \/ PipeSettles \/ PipeAdvances \/ PipeEos
         \/ ReaderExpires
  PROVE  TimelineInv'
<1>1. PipeOK(pipe) /\ StoreOK /\ pipe \in Pipelines
  BY InvParts DEF PipeOK
<1>2. CASE PipeFlush
  <2>1. PipeOK(pipe') /\ SamePipe(pipe, pipe') /\ pipe'.target = pipe.target
    BY <1>1, <1>2, FlushIs DEF PipeFlush
  <2>2. Steady(ctl, pipe) => Steady(ctl, pipe')
    BY <2>1 DEF Steady, SamePipe
  <2> QED BY <1>2, <2>1, <2>2, PipeMoves DEF PipeFlush, SamePipe
<1>3. CASE PipeSegment
  <2>1. PICK rate \in {pipe.speed} \cup (IF pipe.todo = NoSegment THEN {} ELSE {pipe.todo.rate}) :
          pipe' = [pipe EXCEPT !.segment = IF pipe.todo = NoSegment THEN "old" ELSE "new",
                               !.pos = ReaderAt, !.rate = rate, !.speed = rate,
                               !.todo = NoSegment]
    BY <1>3 DEF PipeSegment
  <2> DEFINE s == IF pipe.todo = NoSegment THEN "old" ELSE "new"
  <2>2. ReaderAt \in 0 .. MaxEnd
    <3>1. ReaderAt \in store.start .. store.end
      BY <1>3 DEF PipeSegment
    <3>2. store.start \in 0 .. MaxEnd /\ store.end \in 0 .. MaxEnd
      BY <1>1, WindowIs
    <3> QED BY <3>1, <3>2, Numbers
  <2>3. rate \in Rates /\ (pipe.todo = NoSegment => rate = pipe.speed)
    BY <1>1, PipeParts DEF PipeOK
  <2>4. NoSegment \in [target : Time, rate : AnyRate]
    BY Numbers DEF NoSegment, Time, AnyRate
  <2>5. /\ pipe' \in Pipelines /\ pipe'.target = pipe.target /\ pipe'.rate = rate
        /\ pipe'.speed = rate /\ pipe'.todo = NoSegment /\ pipe'.announced = pipe.announced
    BY <1>1, <2>1, <2>2, <2>3, <2>4, ZenonT(60) DEF Pipelines, AnyRate
  <2>6. PipeOK(pipe')
    BY <2>5 DEF PipeOK
  <2>7. Steady(ctl, pipe) => Steady(ctl, pipe')
    BY <2>3, <2>5 DEF Steady
  <2> QED BY <1>3, <2>3, <2>5, <2>6, <2>7, PipeMoves DEF PipeSegment
<1>4. ASSUME Moves, UNCHANGED ctl, PipeOK(pipe'), pipe'.target = pipe.target,
             pipe'.todo = pipe.todo, pipe'.speed = pipe.speed,
             pipe.target = "paused" => pipe'.announced = pipe.announced
      PROVE  TimelineInv'
  <2>1. Steady(ctl, pipe) => Steady(ctl, pipe')
    BY <1>4 DEF Steady
  <2> QED BY <1>4, <2>1, PipeMoves
<1>5. CASE PipeBuffer
  <2>1. pipe' = [pipe EXCEPT !.buffered = TRUE] /\ Moves /\ UNCHANGED ctl
    BY <1>5 DEF PipeBuffer
  <2>2. /\ PipeOK(pipe') /\ pipe'.target = pipe.target /\ pipe'.todo = pipe.todo
        /\ pipe'.speed = pipe.speed /\ pipe'.announced = pipe.announced
    BY <1>1, <2>1 DEF PipeOK, Pipelines
  <2> QED BY <1>4, <2>1, <2>2
<1>6. CASE PipeSettles
  <2>1. pipe' = [pipe EXCEPT !.phase = "settled", !.announced = @ \/ pipe.target = "playing"]
        /\ Moves /\ UNCHANGED ctl
    BY <1>6 DEF PipeSettles
  <2> DEFINE a == pipe.announced \/ pipe.target = "playing"
  <2>2. a \in BOOLEAN /\ pipe' = [pipe EXCEPT !.phase = "settled", !.announced = a]
        /\ (pipe.target = "paused" => a = pipe.announced)
    BY <1>1, <2>1, PipeParts
  <2> HIDE DEF a
  <2>3. /\ PipeOK(pipe') /\ pipe'.target = pipe.target /\ pipe'.todo = pipe.todo
        /\ pipe'.speed = pipe.speed /\ pipe'.announced = a
    BY <1>1, <2>2 DEF PipeOK, Pipelines
  <2> QED BY <1>4, <2>1, <2>2, <2>3
<1>7. CASE PipeAdvances
  <2>1. pipe' = [pipe EXCEPT !.pos = @ + 1] /\ Moves /\ UNCHANGED ctl /\ pipe.pos < store.end
    BY <1>7 DEF PipeAdvances
  <2>2. pipe.pos + 1 \in 0 .. MaxEnd
    <3>1. pipe.pos \in 0 .. MaxEnd /\ store.end \in 0 .. MaxEnd
      BY <1>1, PipeParts, WindowIs
    <3> QED BY <2>1, <3>1, Numbers
  <2>3. /\ PipeOK(pipe') /\ pipe'.target = pipe.target /\ pipe'.todo = pipe.todo
        /\ pipe'.speed = pipe.speed /\ pipe'.announced = pipe.announced
    BY <1>1, <2>1, <2>2 DEF PipeOK, Pipelines
  <2> QED BY <1>4, <2>1, <2>3
<1>8. CASE PipeEos
  <2>1. pipe' = [pipe EXCEPT !.eos = TRUE, !.bus = pipe.segment] /\ Moves /\ UNCHANGED ctl
    BY <1>8 DEF PipeEos
  <2>2. pipe.segment \in {"none", "old", "new", "stale"}
    BY <1>1, PipeParts
  <2>3. /\ PipeOK(pipe') /\ pipe'.target = pipe.target /\ pipe'.todo = pipe.todo
        /\ pipe'.speed = pipe.speed /\ pipe'.announced = pipe.announced
    BY <1>1, <2>1, <2>2 DEF PipeOK, Pipelines
  <2> QED BY <1>4, <2>1, <2>3
<1>9. CASE ReaderExpires
  <2>1. pipe' = [pipe EXCEPT !.expired = "reported"] /\ Moves /\ UNCHANGED ctl
    BY <1>9 DEF ReaderExpires
  <2>2. /\ PipeOK(pipe') /\ pipe'.target = pipe.target /\ pipe'.todo = pipe.todo
        /\ pipe'.speed = pipe.speed /\ pipe'.announced = pipe.announced
    BY <1>1, <2>1 DEF PipeOK, Pipelines
  <2> QED BY <1>4, <2>1, <2>2
<1> QED BY <1>2, <1>3, <1>5, <1>6, <1>7, <1>8, <1>9

\* The window grows and is evicted at its start.
LEMMA StoreStep ==
  ASSUME TimelineInv, Receive \/ Evict
  PROVE  TimelineInv'
<1>1. /\ Open /\ Live /\ ctl' = ctl /\ pipe' = pipe /\ session' = session /\ polled' = polled
      /\ wish' = wish /\ skipped' = skipped
  BY DEF Receive, Evict, Moves
<1>2. store \in Stores /\ store.start <= store.end
  BY InvParts DEF StoreOK
<1>3. store.start \in 0 .. MaxEnd /\ store.end \in 0 .. MaxEnd
  BY InvParts, WindowIs
<1>4. /\ store' \in Stores /\ store'.start <= store'.end /\ store'.source = store.source
  <2>1. CASE Receive
    <3>1. store.end < MaxEnd /\ store' = [store EXCEPT !.end = @ + 1]
      BY <2>1 DEF Receive
    <3>2. store.end + 1 \in 0 .. MaxEnd /\ store.start <= store.end + 1
      BY <1>2, <1>3, <3>1, Numbers
    <3> QED BY <1>2, <3>1, <3>2 DEF Stores
  <2>2. CASE Evict
    <3>1. store.start + 1 < store.end /\ store' = [store EXCEPT !.start = @ + 1]
      BY <2>2 DEF Evict
    <3>2. store.start + 1 \in 0 .. MaxEnd /\ store.start + 1 <= store.end
      BY <1>2, <1>3, <3>1, Numbers
    <3> QED BY <1>2, <3>1, <3>2 DEF Stores
  <2> QED BY <2>1, <2>2
<1>5. StoreOK' /\ (Live' <=> Live)
  BY <1>1, <1>4 DEF StoreOK, Live
<1> QED BY <1>1, <1>5, InvParts, StepIs

\* Only the deadline of a seek changes.
Late(c, late) == [c EXCEPT !.seek.late = late]

LEMMA LateIs ==
  ASSUME NEW c, ControllerOK(c), Seeking(c), NEW late \in BOOLEAN,
         NEW d, d = Late(c, late)
  PROVE  /\ ControllerOK(d) /\ d.startup = c.startup /\ d.network = c.network
         /\ d.state = c.state /\ d.rate = c.rate /\ d.retention = c.retention
         /\ \A p, over : Sound(c, p, over) => Sound(d, p, over)
         /\ \A w : Follows(c, w) => Follows(d, w)
<1> DEFINE k == [c.seek EXCEPT !.late = late]
<1>1. c \in Controllers /\ c.seek \in Seeks /\ SeekOK(c.seek) /\ c.state = "seeking"
  BY DEF ControllerOK, Controllers, Seeking
<1>2. d = [c EXCEPT !.seek = k]
  BY <1>1 DEF Late, Controllers, Seeks
<1>3. /\ k \in Seeks /\ k.target = c.seek.target /\ k.resume = c.seek.resume
      /\ k.next = c.seek.next /\ k.rate = c.seek.rate /\ k.completion = c.seek.completion
      /\ k.clock = c.seek.clock
  BY <1>1 DEF Seeks
<1> HIDE DEF k
<1>4. SeekOK(k) /\ k # NoSeek
  <2>1. SeekOK(k)
    BY <1>1, <1>3 DEF SeekOK
  <2> QED BY <1>3, <2>1, SeekKind
<1>5. /\ d \in Controllers /\ d.startup = c.startup /\ d.network = c.network
      /\ d.state = c.state /\ d.rate = c.rate /\ d.retention = c.retention /\ d.seek = k
  BY <1>1, <1>2, <1>3 DEF Controllers
<1>6. ControllerOK(d)
  BY <1>1, <1>4, <1>5 DEF ControllerOK, Seeking
<1>7. Seeking(d) /\ PhaseResume(d) = PhaseResume(c)
  BY <1>1, <1>3, <1>5 DEF Seeking, PhaseResume
<1>8. \A p, over : Sound(c, p, over) => Sound(d, p, over)
  BY <1>1, <1>3, <1>5, <1>7 DEF Sound, Native, Resumes, Starting, Steady, Seeking
<1>9. \A w : Follows(c, w) => Follows(d, w)
  BY <1>3, <1>5, <1>7 DEF Follows
<1> QED BY <1>5, <1>6, <1>8, <1>9

LEMMA DeadlineStep ==
  ASSUME TimelineInv, Deadline
  PROVE  TimelineInv'
<1>1. /\ Open /\ Seeking(ctl) /\ ctl' = Late(ctl, TRUE) /\ pipe' = pipe
      /\ UNCHANGED store /\ session' = session /\ polled' = polled
      /\ wish' = wish /\ skipped' = skipped
  BY DEF Deadline, Moves, Late
<1>2. /\ ControllerOK(ctl') /\ ctl'.startup = ctl.startup
      /\ Sound(ctl', pipe, skipped) /\ Follows(ctl', wish)
  BY <1>1, InvParts, LateIs
<1> QED BY <1>1, <1>2, InvParts, SameStore, StepIs

LEMMA InitStep == Init => TimelineInv
<1> SUFFICES ASSUME Init PROVE TimelineInv
  OBVIOUS
<1>1. PICK source \in Sources, mode \in Modes :
        store = [source |-> source, start |-> 0,
                 mode |-> IF source = "live" THEN mode ELSE "off",
                 end |-> IF source = "live" THEN 0 ELSE MaxEnd,
                 history |-> source = "live" /\ mode = "always"]
  BY DEF Init
<1>2. StoreOK
  <2>1. store \in Stores
    BY <1>1, Numbers DEF Stores
  <2>2. store.start <= store.end
    BY <1>1, Numbers
  <2> QED BY <1>1, <2>1, <2>2 DEF StoreOK, Live
<1>3. ctl.state = "playing" /\ ctl.seek = NoSeek /\ ctl.rate = 1 /\ ctl.network = "ready"
      /\ ctl.startup = (IF Live THEN "awaiting" ELSE "complete") /\ ctl.retention = "none"
      /\ ctl.livePosition \in {"forward", "recording"}
      /\ ctl.position = NoTime /\ ctl.range = NoRange /\ ctl.receive = NoRange
      /\ ctl = [state |-> "playing", seek |-> NoSeek, rate |-> 1, network |-> "ready",
                startup |-> ctl.startup, livePosition |-> ctl.livePosition,
                position |-> NoTime, range |-> NoRange, receive |-> NoRange,
                retention |-> "none"]
  BY DEF Init
<1>4. ControllerOK(ctl)
  <2>1. ctl.startup \in {"awaiting", "complete"}
    BY <1>3
  <2>2. NoTime \in Time /\ NoRange \in RangeType /\ NoSeek \in Seeks /\ 1 \in Rates
    BY <1>2, WindowIs, Numbers, NoSeekIs
  <2>3. ctl \in Controllers
    BY <1>3, <2>1, <2>2 DEF Controllers
  <2> QED BY <1>3, <2>3 DEF ControllerOK, Seeking
<1>5. /\ pipe.target = (IF Live THEN "paused" ELSE "playing") /\ pipe.speed = 1
      /\ pipe.segment = "none" /\ pipe.todo = NoSegment /\ pipe.announced = FALSE
      /\ pipe = [target |-> pipe.target, phase |-> "starting",
                 pos |-> 0, speed |-> 1, rate |-> NoRate, segment |-> "none", buffered |-> FALSE,
                 eos |-> FALSE, bus |-> "none", todo |-> NoSegment, flushed |-> TRUE,
                 expired |-> "no", announced |-> FALSE]
  BY DEF Init
<1>6. PipeOK(pipe)
  <2>1. pipe.target \in {"playing", "paused"} /\ 0 \in 0 .. MaxEnd
    BY <1>5, Numbers
  <2>2. NoSegment \in [target : Time, rate : AnyRate] /\ NoRate \in AnyRate /\ 1 \in Rates
    BY Numbers DEF NoSegment, Time, AnyRate
  <2> DEFINE t == pipe.target
  <2>3. [target |-> t, phase |-> "starting",
         pos |-> 0, speed |-> 1, rate |-> NoRate, segment |-> "none", buffered |-> FALSE,
         eos |-> FALSE, bus |-> "none", todo |-> NoSegment, flushed |-> TRUE,
         expired |-> "no", announced |-> FALSE] \in Pipelines
    <3> HIDE DEF t
    <3>1. t \in {"playing", "paused"}
      BY <2>1 DEF t
    <3> QED BY <2>1, <2>2, <3>1 DEF Pipelines
  <2>4. pipe \in Pipelines
    BY <1>5, <2>3
  <2> QED BY <1>5, <2>4 DEF PipeOK
<1>7. session = "connecting" /\ polled = FALSE /\ skipped = FALSE
      /\ wish = [resume |-> "playing", live |-> Live]
  BY DEF Init
<1>8. wish \in Wishes /\ wish.resume = "playing"
  BY <1>7 DEF Wishes, Live
<1>9. PhaseResume(ctl) = "playing" /\ ~Seeking(ctl)
  BY <1>3 DEF PhaseResume, Seeking, Stopped
<1>10. Sound(ctl, pipe, skipped)
  <2>1. Native(ctl, pipe, skipped)
    BY <1>3, <1>5, <1>9 DEF Native, Resumes
  <2> QED BY <1>3, <1>5, <2>1 DEF Sound, Starting, Steady
<1>11. Follows(ctl, wish)
  BY <1>8, <1>9 DEF Follows
<1> QED BY <1>2, <1>4, <1>6, <1>7, <1>8, <1>10, <1>11 DEF TimelineInv, Types


-----------------------------------------------------------------------------
(* The first half of a poll.                                               *)
Results == {"ok", "rate_timed_out", "rejected", "timed_out", "unavailable"}

Formed(o, c) ==
  /\ o = [ctl |-> o.ctl, pipe |-> o.pipe, result |-> o.result, live |-> o.live]
  /\ ControllerOK(o.ctl) /\ PipeOK(o.pipe) /\ o.result \in Results
  /\ o.ctl.startup = c.startup

\* What a poll that does not release the stream leaves.
Kept(o, w, over) ==
  ~Released(o.result) =>
    Sound(o.ctl, o.pipe, over) /\ Follows(o.ctl, Overridden(w, o.ctl))

LEMMA SampledIs ==
  ASSUME StoreOK, NEW c, NEW o, Formed(o, c), NEW e \in Sampled(o), NEW w, NEW over
  PROVE  Formed(e, c) /\ (Kept(o, w, over) => Kept(e, w, over))
<1>1. CASE e = o
  BY <1>1
<1>2. CASE e = [o EXCEPT !.ctl = Sample(o.ctl, o.pipe)]
  <2> DEFINE s == Sample(o.ctl, o.pipe)
  <2>1. ControllerOK(s) /\ SameCore(o.ctl, s)
    BY SampleIs DEF Formed
  <2> HIDE DEF s
  <2>2. e.ctl = s /\ e.pipe = o.pipe /\ e.result = o.result /\ e.live = o.live
        /\ e = [ctl |-> e.ctl, pipe |-> e.pipe, result |-> e.result, live |-> e.live]
    BY <1>2 DEF Formed, s
  <2>3. Formed(e, c)
    BY <2>1, <2>2 DEF Formed, SameCore
  <2>4. Overridden(w, s) = Overridden(w, o.ctl)
    BY <2>1 DEF Overridden, SameCore
  <2>5. Sound(o.ctl, o.pipe, over) => Sound(s, o.pipe, over)
    BY <2>1, CoreIs
  <2>6. \A u : Follows(o.ctl, u) => Follows(s, u)
    BY <2>1, CoreIs
  <2> QED BY <2>2, <2>3, <2>4, <2>5, <2>6 DEF Kept
<1> QED BY <1>1, <1>2 DEF Sampled

LEMMA DoneIs ==
  ASSUME NEW c, ControllerOK(c), NEW p, PipeOK(p), NEW w, NEW over
  PROVE  /\ Formed(Done(c, p), c)
         /\ Sound(c, p, over) /\ Follows(c, Overridden(w, c)) => Kept(Done(c, p), w, over)
<1>1. /\ Done(c, p).ctl = c /\ Done(c, p).pipe = p /\ Done(c, p).result = "ok"
      /\ Done(c, p) = [ctl |-> Done(c, p).ctl, pipe |-> Done(c, p).pipe,
                       result |-> Done(c, p).result, live |-> Done(c, p).live]
  BY DEF Done
<1> QED BY <1>1 DEF Formed, Kept, Results

LEMMA FailIs ==
  ASSUME NEW c, ControllerOK(c), NEW p, PipeOK(p), NEW w, NEW over,
         NEW error \in {"unavailable", "timed_out"}
  PROVE  Formed(Fail(c, p, error), c) /\ Kept(Fail(c, p, error), w, over)
<1>1. /\ Fail(c, p, error).ctl = c /\ Fail(c, p, error).pipe = p /\ Fail(c, p, error).result = error
      /\ Fail(c, p, error) = [ctl |-> Fail(c, p, error).ctl, pipe |-> Fail(c, p, error).pipe,
                       result |-> Fail(c, p, error).result, live |-> Fail(c, p, error).live]
  BY DEF Fail
<1> QED BY <1>1 DEF Formed, Kept, Results, Released

\* An unanswered seek: playback fails and is shown as paused.
LEMMA FailedPauseIs ==
  ASSUME NEW c, ControllerOK(c), NEW p, PipeOK(p), NEW w \in Wishes, NEW over,
         Seeking(c), Sound(c, p, over), NEW error \in {"rate_timed_out", "timed_out"}
  PROVE  LET o == FailedPause(c, p, error) IN Formed(o, c) /\ Kept(o, w, over)
<1> DEFINE d == [c EXCEPT !.state = "failed", !.seek = NoSeek]
           q == SetState(p, "paused")
           o == FailedPause(c, p, error)
<1>1. /\ d \in Controllers /\ d.state = "failed" /\ d.seek = NoSeek
      /\ d.network = c.network /\ d.startup = c.startup
  BY NoSeekIs DEF ControllerOK, Controllers, Stopped
<1>2. PipeOK(q) /\ q.target = "paused"
  BY SetStateIs
<1>3. /\ o.ctl = d /\ o.pipe = q /\ o.result = error
      /\ o = [ctl |-> o.ctl, pipe |-> o.pipe, result |-> o.result, live |-> o.live]
  BY DEF FailedPause, Fail
<1> HIDE DEF d, q, o
<1>4. ControllerOK(d) /\ ~Seeking(d) /\ PhaseResume(d) = "paused"
  BY <1>1 DEF ControllerOK, Seeking, PhaseResume, Stopped
<1>5. c.startup # "awaiting"
  BY DEF Sound, Starting, Seeking
<1>6. Sound(d, q, over)
  BY <1>1, <1>2, <1>4, <1>5 DEF Sound, Native, Resumes, Starting, Steady
<1>7. Follows(d, Overridden(w, d))
  BY <1>1, <1>4 DEF Follows, Overridden, Wishes
<1>8. Formed(o, c)
  BY <1>1, <1>2, <1>3, <1>4 DEF Formed, Results
<1> QED BY <1>3, <1>6, <1>7, <1>8 DEF Kept, o

\* The reserve of a live start is there.
LEMMA ReserveIs ==
  ASSUME StoreOK, NEW c, ControllerOK(c), NEW p, PipeOK(p), NEW w \in Wishes, NEW over,
         Seeking(c), Sound(c, p, over), Follows(c, w), AwaitsReserve(c, p),
         NEW o \in PollReserve(c, p)
  PROVE  Formed(o, c) /\ Kept(o, w, over)
<1>1. \/ o = FailedPause(c, p, "timed_out")
      \/ o = Done([c EXCEPT !.seek.clock = "preserve"], SetState(p, "playing"))
      \/ o = Done(c, p)
  BY DEF PollReserve
<1>2. Follows(c, Overridden(w, c))
  BY StillFollows
<1>3. CASE o = FailedPause(c, p, "timed_out")
  BY <1>3, FailedPauseIs
<1>4. CASE o = Done(c, p)
  BY <1>2, <1>4, DoneIs
<1>5. CASE o = Done([c EXCEPT !.seek.clock = "preserve"], SetState(p, "playing"))
  <2> DEFINE k == [c.seek EXCEPT !.clock = "preserve"]
             d == [c EXCEPT !.seek = k]
             q == SetState(p, "playing")
  <2>1. c \in Controllers /\ c.seek \in Seeks /\ SeekOK(c.seek) /\ c.state = "seeking"
    BY DEF ControllerOK, Controllers, Seeking
  <2>2. [c EXCEPT !.seek.clock = "preserve"] = d
    BY <2>1 DEF Controllers, Seeks
  <2>3. /\ k \in Seeks /\ k.target = c.seek.target /\ k.resume = c.seek.resume
        /\ k.next = c.seek.next /\ k.rate = c.seek.rate /\ k.completion = c.seek.completion
    BY <2>1 DEF Seeks
  <2>4. c.seek.next = NoNext /\ c.seek.resume = "playing" /\ c.seek.clock = "preroll"
    BY DEF AwaitsReserve
  <2> HIDE DEF k
  <2>5. SeekOK(k) /\ k # NoSeek
    <3>1. SeekOK(k)
      BY <2>1, <2>3 DEF SeekOK
    <3> QED BY <2>3, <3>1, SeekKind
  <2>6. /\ d \in Controllers /\ d.state = "seeking" /\ d.seek = k /\ d.network = c.network
        /\ d.startup = c.startup
    BY <2>1, <2>3 DEF Controllers
  <2> HIDE DEF d
  <2>7. ControllerOK(d) /\ Seeking(d) /\ PhaseResume(d) = "playing"
    BY <2>3, <2>4, <2>5, <2>6 DEF ControllerOK, Seeking, PhaseResume, Stopped
  <2>8. PipeOK(q) /\ q.target = "playing"
    BY SetStateIs
  <2> HIDE DEF q
  <2>9. Live /\ c.network = "ready" /\ c.startup # "awaiting"
    BY <2>1, <2>4, ControllerParts DEF Sound, Native, Starting, Seeking
  <2>10. Sound(d, q, over)
    BY <2>6, <2>7, <2>8, <2>9 DEF Sound, Native, Starting, Steady
  <2>11. PhaseResume(c) = "playing"
    BY <2>1, <2>4 DEF PhaseResume, Stopped
  <2>12. Follows(d, w)
    BY <2>1, <2>3, <2>4, <2>6, <2>7, <2>11 DEF Follows, Seeking
  <2>13. Follows(d, Overridden(w, d))
    BY <2>12, StillFollows
  <2>14. o = Done(d, q)
    BY <1>5, <2>2 DEF q
  <2>15. Formed(o, d) /\ Kept(o, w, over)
    BY <2>7, <2>8, <2>10, <2>13, <2>14, DoneIs
  <2> QED BY <2>6, <2>15 DEF Formed
<1> QED BY <1>1, <1>3, <1>4, <1>5

\* The confirmed seek is over.
LEMMA LandedIs ==
  ASSUME NEW c, ControllerOK(c), NEW p, PipeOK(p), NEW w \in Wishes, NEW over,
         Seeking(c), Sound(c, p, over), Follows(c, w),
         AtEos(p) \/ Confirmed(c, p), ~AwaitsReserve(c, p)
  PROVE  LET d == Landed(c, p) IN
         /\ ControllerOK(d) /\ ~Seeking(d) /\ d.network = c.network /\ d.startup = c.startup
         /\ c.seek.next = NoNext => Sound(d, p, over) /\ Follows(d, Overridden(w, d))
<1> DEFINE k == c.seek
           l == IF k.next = NoNext /\ k.completion \in {"live", "caught_up"} THEN "near"
                ELSE c.livePosition
           s == IF AtEos(p) /\ k.next = NoNext THEN "ended" ELSE k.resume
           d == Landed(c, p)
<1>1. c \in Controllers /\ SeekOK(c.seek) /\ c.state = "seeking"
  BY DEF ControllerOK, Seeking
<1>2. d = [c EXCEPT !.rate = k.rate, !.seek = NoSeek, !.livePosition = l, !.state = s]
  BY DEF Landed
<1>3. /\ s \in {"ended", "playing", "paused"} /\ k.rate \in Rates
      /\ l \in {"forward", "recording", "near", "behind"}
  BY <1>1, ControllerParts DEF SeekOK
<1> HIDE DEF s, l
<1>4. /\ d \in Controllers /\ d.rate = k.rate /\ d.seek = NoSeek /\ d.state = s
      /\ d.network = c.network /\ d.startup = c.startup
  BY <1>1, <1>2, <1>3, NoSeekIs DEF Controllers, Stopped
<1> HIDE DEF d
<1>5. ControllerOK(d) /\ ~Seeking(d)
  BY <1>3, <1>4 DEF ControllerOK, Seeking
<1>6. c.startup # "awaiting"
  BY <1>1 DEF Sound, Starting
<1>7. PhaseResume(c) = k.resume
  BY <1>1 DEF PhaseResume, SeekOK, Seeking, Stopped
<1>8. PhaseResume(d) = IF s = "paused" THEN "paused" ELSE "playing"
  BY <1>3, <1>4, <1>5 DEF PhaseResume, Stopped
<1>9. ASSUME k.next = NoNext
      PROVE  Sound(d, p, over) /\ Follows(d, Overridden(w, d))
  <2>1. s = IF AtEos(p) THEN "ended" ELSE k.resume
    BY <1>9 DEF s
  <2>2. ~AtEos(p) => /\ p.segment = "new" /\ p.buffered /\ p.rate = k.rate
                     /\ (k.resume = "playing" => k.clock # "preroll")
    BY <1>9 DEF Confirmed, AwaitsReserve
  <2>3. ~AtEos(p) => p.todo = NoSegment /\ p.speed = k.rate
    BY <2>2 DEF PipeOK
  <2>4. Steady(d, p)
    BY <1>4, <2>1, <2>3 DEF Steady
  <2>5. Native(d, p, over)
    <3>1. s = "paused" => PhaseResume(c) = "paused"
      BY <1>7, <2>1
    <3>2. PhaseResume(d) = "paused" \/ d.network = "starved" => p.target = "paused"
      BY <1>4, <1>8, <3>1 DEF Sound, Native
    <3>3. Resumes(d) => Resumes(c)
      BY <1>4, <1>5, <1>9, <2>1, <2>2 DEF Resumes
    <3> QED BY <1>4, <1>5, <3>2, <3>3 DEF Sound, Native
  <2>6. Sound(d, p, over)
    BY <1>4, <1>6, <2>4, <2>5 DEF Sound, Starting
  <2>7. Follows(d, Overridden(w, d))
    <3>1. CASE s = "ended"
      BY <1>4, <1>5, <1>8, <3>1 DEF Follows, Overridden, Wishes
    <3>2. CASE s # "ended"
      <4>1. s = k.resume /\ PhaseResume(d) = w.resume
        BY <1>1, <1>7, <1>8, <2>1, <3>2 DEF Follows, SeekOK
      <4> QED BY <1>3, <1>4, <1>5, <3>2, <4>1 DEF Follows, Overridden
    <3> QED BY <3>1, <3>2
  <2> QED BY <2>6, <2>7
<1> QED BY <1>4, <1>5, <1>9 DEF d


LEMMA ShapeIs ==
  ASSUME NEW c, NEW p, NEW target, NEW resume, NEW rate, NEW completion,
         NEW o \in StartChange(c, p, target, resume, rate, completion)
  PROVE  o = [ctl |-> o.ctl, pipe |-> o.pipe, result |-> o.result, live |-> o.live]
BY DEF StartChange, Rejected, Started, Done, Fail

\* A change of a poll: it is under way, or the stream is released.
LEMMA ChangeIs ==
  ASSUME StoreOK, NEW c, ControllerOK(c), NEW p, PipeOK(p),
         NEW target, Live \/ target \in 0 .. MaxEnd,
         NEW resume \in {"playing", "paused"}, NEW rate \in Rates, NEW completion \in Completions,
         NEW o \in StartChange(c, p, target, resume, rate, completion),
         c.network = "starved" => ~Live, completion = "live" => Live, c.startup = "complete",
         NEW w, Taken(o) => w.resume = resume /\ (completion \in ToLive => w.live), NEW over
  PROVE  Formed(o, c) /\ Kept(o, w, over)
<1>1. Outcome(o, c, p, target, resume, rate, completion)
  BY StartChangeIs
<1>2. o = [ctl |-> o.ctl, pipe |-> o.pipe, result |-> o.result, live |-> o.live]
  BY ShapeIs
<1>3. o.result \in Results /\ o.ctl.startup = c.startup
  BY <1>1 DEF Outcome, Taken, Refused, Results, SameStart
<1>4. Formed(o, c)
  BY <1>1, <1>2, <1>3 DEF Formed, Outcome
<1>5. CASE Taken(o) /\ Begun(o.ctl, o.pipe, c, p, target, resume, rate, completion)
  <2>1. o.ctl.startup = "complete" /\ c.network \in {"ready", "starved"}
    BY <1>3, ControllerParts
  <2>2. Sound(o.ctl, o.pipe, over) /\ Follows(o.ctl, w)
    BY <1>5, <2>1, BegunSound
  <2>3. o.ctl.state = "seeking"
    BY <1>5 DEF Begun
  <2>4. Overridden(w, o.ctl) = w
    BY <2>3 DEF Overridden
  <2> QED BY <1>4, <1>5, <2>2, <2>4 DEF Kept
<1>6. CASE Refused(o)
  <2>1. o.result = "rejected"
    BY <1>6 DEF Refused
  <2> QED BY <1>4, <2>1 DEF Kept, Released
<1> QED BY <1>1, <1>5, <1>6 DEF Outcome

LEMMA LandingIs ==
  ASSUME StoreOK, NEW c, ControllerOK(c), NEW p, PipeOK(p), NEW w \in Wishes, NEW over,
         Seeking(c), Sound(c, p, over), Follows(c, w),
         AtEos(p) \/ Confirmed(c, p), ~AwaitsReserve(c, p), NEW e \in PollLanded(c, p)
  PROVE  Formed(e, c) /\ Kept(e, w, over)
<1> DEFINE k == c.seek
           d == Landed(c, p)
           target == IF k.next.target = Current THEN QueryPosition(p) ELSE k.next.target.at
<1>1. PICK o \in PollNext(c, p) : e = [o EXCEPT !.live = o.result = "ok" /\ ReachedLive(c, p)]
  BY DEF PollLanded
<1>2. /\ ControllerOK(d) /\ ~Seeking(d) /\ d.network = c.network /\ d.startup = c.startup
      /\ k.next = NoNext => Sound(d, p, over) /\ Follows(d, Overridden(w, d))
  BY LandedIs
<1>3. /\ k.next = NoNext => o = Done(d, p)
      /\ k.next # NoNext /\ target = NoTime => o = Fail(d, p, "unavailable")
      /\ k.next # NoNext /\ target # NoTime =>
           o \in StartChange(d, p, target, k.resume, k.next.rate, k.next.completion)
  BY DEF PollNext
<1>4. k \in Seeks /\ SeekOK(k)
  BY ControllerParts DEF Seeking
<1>5. target # NoTime => target \in 0 .. MaxEnd
  <2>1. k.next.target \in [at : Time]
    BY <1>4 DEF Seeks, Nexts
  <2>2. k.next.target.at \in Time
    BY <2>1
  <2> QED BY <2>2, PipeParts, Numbers
<1> HIDE DEF d, target, k
<1>6. Formed(o, d) /\ Kept(o, w, over)
  <2>1. CASE k.next = NoNext
    BY <1>2, <1>3, <2>1, DoneIs
  <2>2. CASE k.next # NoNext /\ target = NoTime
    BY <1>2, <1>3, <2>2, FailIs
  <2>3. CASE k.next # NoNext /\ target # NoTime
    <3>1. /\ k.resume \in {"playing", "paused"} /\ k.next.rate \in Rates
          /\ k.next.completion \in Completions
      BY <1>4, <2>3 DEF SeekOK, Seeks, Nexts
    <3>2. /\ c.network = "starved" => ~Live
          /\ k.next.completion = "live" => Live
      BY DEF Sound, Native, k
    <3>3. c.startup = "complete"
      BY ControllerParts DEF Sound, Starting, Seeking
    <3>4. w.resume = k.resume /\ (k.next.completion \in ToLive => w.live)
      <4>1. PhaseResume(c) = k.resume
        BY <3>1 DEF PhaseResume, Seeking, Stopped, k
      <4> QED BY <4>1 DEF Follows, k
    <3> QED BY <1>2, <1>3, <1>5, <2>3, <3>1, <3>2, <3>3, <3>4, ChangeIs
  <2> QED BY <2>1, <2>2, <2>3
<1>7. /\ e.ctl = o.ctl /\ e.pipe = o.pipe /\ e.result = o.result
      /\ e = [ctl |-> e.ctl, pipe |-> e.pipe, result |-> e.result, live |-> e.live]
  BY <1>1, <1>6 DEF Formed
<1> QED BY <1>2, <1>6, <1>7 DEF Formed, Kept

LEMMA PollIs ==
  ASSUME StoreOK, NEW c, ControllerOK(c), NEW p, PipeOK(p), NEW w \in Wishes, NEW over,
         Sound(c, p, over), Follows(c, Overridden(w, c)),
         NEW o \in Poll(c, p)
  PROVE  Formed(o, c) /\ Kept(o, w, over)
<1>1. CASE ~Seeking(c)
  <2>1. o \in Sampled(Done(c, p))
    BY <1>1 DEF Poll
  <2>2. Formed(Done(c, p), c) /\ Kept(Done(c, p), w, over)
    BY DoneIs
  <2> QED BY <2>1, <2>2, SampledIs
<1>2. CASE Seeking(c)
  <2>0. Overridden(w, c) = w
    BY <1>2 DEF Overridden, Seeking
  <2>1. Follows(c, w)
    BY <2>0
  <2>2. CASE AwaitsReserve(c, p)
    <3>1. o \in PollReserve(c, p)
      BY <1>2, <2>2 DEF Poll
    <3> QED BY <1>2, <2>1, <2>2, <3>1, ReserveIs
  <2>3. CASE ~AwaitsReserve(c, p) /\ (AtEos(p) \/ (Confirmed(c, p) /\ p.phase = "settled"))
    <3>1. o \in UNION {Sampled(e) : e \in PollLanded(c, p)}
      BY <1>2, <2>3 DEF Poll
    <3>2. PICK e \in PollLanded(c, p) : o \in Sampled(e)
      BY <3>1
    <3>3. Formed(e, c) /\ Kept(e, w, over)
      BY <1>2, <2>1, <2>3, LandingIs
    <3> QED BY <3>2, <3>3, SampledIs
  <2>4. CASE /\ ~AwaitsReserve(c, p) /\ ~(AtEos(p) \/ (Confirmed(c, p) /\ p.phase = "settled"))
             /\ c.seek.late
    <3> DEFINE error == IF c.seek.rate # c.rate THEN "rate_timed_out" ELSE "timed_out"
    <3>1. o = FailedPause(c, p, error)
      BY <1>2, <2>4 DEF Poll
    <3>2. error \in {"rate_timed_out", "timed_out"}
      OBVIOUS
    <3> HIDE DEF error
    <3> QED BY <1>2, <3>1, <3>2, FailedPauseIs
  <2>5. CASE /\ ~AwaitsReserve(c, p) /\ ~(AtEos(p) \/ (Confirmed(c, p) /\ p.phase = "settled"))
             /\ ~c.seek.late
    <3>1. o \in Sampled(Done(c, p))
      BY <1>2, <2>5 DEF Poll
    <3>2. Formed(Done(c, p), c) /\ Kept(Done(c, p), w, over)
      BY DoneIs
    <3> QED BY <3>1, <3>2, SampledIs
  <2> QED BY <2>2, <2>3, <2>4, <2>5
<1> QED BY <1>1, <1>2

\* Network outages of a recording.
LEMMA NetworkIs ==
  ASSUME NEW c, ControllerOK(c), NEW p, PipeOK(p), NEW over, Sound(c, p, over),
         NEW starved \in BOOLEAN, starved => ~Live,
         NEW d, NEW q, RecordingNetwork(c, p, starved) = <<d, q>>
  PROVE  /\ ControllerOK(d) /\ PipeOK(q) /\ Sound(d, q, over) /\ d.startup = c.startup
         /\ d.state = c.state /\ d.seek = c.seek
         /\ \A w : Follows(c, w) => Follows(d, w)
<1>0. \A n \in {"ready", "starved"} :
        LET e == [c EXCEPT !.network = n] IN
        /\ ControllerOK(e) /\ e.network = n /\ e.state = c.state /\ e.seek = c.seek
        /\ e.startup = c.startup /\ e.rate = c.rate /\ e.retention = c.retention
  <2> TAKE n \in {"ready", "starved"}
  <2> DEFINE e == [c EXCEPT !.network = n]
  <2>1. /\ e \in Controllers /\ e.network = n /\ e.state = c.state /\ e.seek = c.seek
        /\ e.startup = c.startup /\ e.rate = c.rate /\ e.retention = c.retention
    BY DEF ControllerOK, Controllers
  <2> HIDE DEF e
  <2>2. ControllerOK(e)
    BY <2>1 DEF ControllerOK, Seeking
  <2> QED BY <2>1, <2>2 DEF e
<1>1. ASSUME d.state = c.state, d.seek = c.seek
      PROVE  /\ (Seeking(d) <=> Seeking(c)) /\ PhaseResume(d) = PhaseResume(c)
             /\ \A w : Follows(c, w) => Follows(d, w)
  BY <1>1 DEF Seeking, PhaseResume, Follows
<1>2. CASE c.network = "ready" /\ starved
  <2>1. d = [c EXCEPT !.network = "starved"] /\ q = SetState(p, "paused")
    BY <1>2 DEF RecordingNetwork, NetworkStarves
  <2>2. /\ ControllerOK(d) /\ d.network = "starved" /\ d.state = c.state /\ d.seek = c.seek
        /\ d.startup = c.startup /\ d.rate = c.rate /\ d.retention = c.retention
    BY <1>0, <2>1
  <2>3. PipeOK(q) /\ SamePipe(p, q) /\ q.target = "paused"
    BY <2>1, SetStateIs
  <2>4. Native(d, q, over)
    BY <1>1, <1>2, <2>2, <2>3 DEF Sound, Native
  <2>5. Sound(d, q, over)
    BY <1>2, <2>2, <2>3, <2>4 DEF Sound, Starting, Steady, SamePipe
  <2> QED BY <1>1, <2>2, <2>3, <2>5
<1>3. CASE c.network = "starved" /\ ~starved
  <2> DEFINE plays == c.state = "playing" \/ (Seeking(c) /\ c.seek.resume = "playing")
  <2>1. /\ d = [c EXCEPT !.network = "ready"]
        /\ q = IF plays THEN SetState(p, "playing") ELSE p
    BY <1>3 DEF RecordingNetwork, NetworkReturns
  <2>2. /\ ControllerOK(d) /\ d.network = "ready" /\ d.state = c.state /\ d.seek = c.seek
        /\ d.startup = c.startup /\ d.rate = c.rate /\ d.retention = c.retention
    BY <1>0, <2>1
  <2>3. /\ PipeOK(q) /\ SamePipe(p, q)
        /\ q.target = IF plays THEN "playing" ELSE p.target
    BY <2>1, SetStateIs DEF SamePipe
  <2>4. plays => PhaseResume(d) = "playing"
    BY <1>1, <2>2 DEF PhaseResume, Seeking, Stopped
  <2>5. Resumes(d) => plays
    BY <2>2 DEF Resumes, Seeking
  <2> HIDE DEF plays
  <2>6. Native(d, q, over)
    BY <1>1, <1>3, <2>2, <2>3, <2>4, <2>5 DEF Sound, Native
  <2>7. ~Live
    BY <1>3 DEF Sound, Native
  <2>8. Sound(d, q, over)
    BY <2>2, <2>3, <2>6, <2>7 DEF Sound, Starting, Steady, SamePipe
  <2> QED BY <1>1, <2>2, <2>3, <2>8
<1>4. CASE ~(c.network = "ready" /\ starved) /\ ~(c.network = "starved" /\ ~starved)
  <2>1. d = c /\ q = p
    BY <1>4 DEF RecordingNetwork
  <2> QED BY <2>1
<1> QED BY <1>2, <1>3, <1>4

LEMMA RecoveringIs ==
  ASSUME NEW c, ControllerOK(c)
  PROVE  /\ ControllerOK(AwaitRecovery(c)) /\ AwaitRecovery(c).startup = c.startup
         /\ \A p, over : Sound(c, p, over) => Sound(AwaitRecovery(c), p, over)
         /\ \A w : Follows(c, w) => Follows(AwaitRecovery(c), w)
<1>1. CASE Seeking(c)
  <2>1. AwaitRecovery(c) = Late(c, FALSE)
    BY <1>1 DEF AwaitRecovery, Late
  <2> QED BY <1>1, <2>1, LateIs
<1>2. CASE ~Seeking(c)
  BY <1>2 DEF AwaitRecovery
<1> QED BY <1>1, <1>2

LEMMA EndedIs ==
  ASSUME NEW c, ControllerOK(c)
  PROVE  /\ ControllerOK(Ended(c)) /\ ~Seeking(Ended(c)) /\ Ended(c).startup = c.startup
         /\ \A w \in Wishes : Follows(Ended(c), Overridden(w, Ended(c)))
         /\ \A p, over : ~Live /\ Sound(c, p, over) => Sound(Ended(c), p, over)
<1> DEFINE r == IF Seeking(c) THEN c.seek.rate ELSE c.rate
           d == Ended(c)
<1>1. d = [c EXCEPT !.state = "ended", !.rate = r, !.seek = NoSeek]
  BY DEF Ended
<1>2. r \in Rates
  BY ControllerParts DEF Seeking, SeekOK
<1> HIDE DEF r, d
<1>3. /\ d \in Controllers /\ d.state = "ended" /\ d.seek = NoSeek
      /\ d.network = c.network /\ d.startup = c.startup
  BY <1>1, <1>2, NoSeekIs DEF ControllerOK, Controllers, Stopped
<1>4. ControllerOK(d) /\ ~Seeking(d) /\ PhaseResume(d) = "playing"
  BY <1>3 DEF ControllerOK, Seeking, PhaseResume, Stopped
<1>5. \A w \in Wishes : Follows(d, Overridden(w, d))
  BY <1>3, <1>4 DEF Follows, Overridden, Wishes
<1>6. \A p, over : ~Live /\ Sound(c, p, over) => Sound(d, p, over)
  BY <1>3, <1>4 DEF Sound, Native, Resumes, Starting, Steady
<1> QED BY <1>3, <1>4, <1>5, <1>6 DEF d

\* What the bus and the announcement say is forgotten once heard.
LEMMA HeardIs ==
  ASSUME NEW p, PipeOK(p)
  PROVE  LET a == [p EXCEPT !.announced = FALSE]
             b == [p EXCEPT !.bus = "none"]
         IN  /\ PipeOK(a) /\ PipeOK(b)
             /\ \A c, over : Sound(c, p, over) => Sound(c, a, over) /\ Sound(c, b, over)
<1> DEFINE a == [p EXCEPT !.announced = FALSE]
           b == [p EXCEPT !.bus = "none"]
<1>1. /\ a \in Pipelines /\ a.target = p.target /\ a.segment = p.segment /\ a.rate = p.rate
      /\ a.speed = p.speed /\ a.todo = p.todo /\ a.announced = FALSE
  BY DEF PipeOK, Pipelines
<1>2. /\ b \in Pipelines /\ b.target = p.target /\ b.segment = p.segment /\ b.rate = p.rate
      /\ b.speed = p.speed /\ b.todo = p.todo /\ b.announced = p.announced
  BY DEF PipeOK, Pipelines
<1> HIDE DEF a, b
<1>3. PipeOK(a) /\ PipeOK(b)
  BY <1>1, <1>2 DEF PipeOK
<1>4. \A c, over : Sound(c, p, over) => Sound(c, a, over)
  BY <1>1 DEF Sound, Native, Starting, Steady
<1>5. \A c, over : Sound(c, p, over) => Sound(c, b, over)
  BY <1>2 DEF Sound, Native, Starting, Steady
<1> QED BY <1>3, <1>4, <1>5 DEF a, b


LEMMA ReleasedIs ==
  ASSUME NEW r \in Results, Released(r)
  PROVE  r \in Sessions /\ r \notin {"connecting", "playing"}
BY DEF Results, Released, Sessions

LEMMA OverriddenIs ==
  ASSUME NEW w \in Wishes, NEW c
  PROVE  Overridden(w, c) \in Wishes
BY DEF Overridden, Wishes

LEMMA SessionPollStep ==
  ASSUME TimelineInv, SessionPoll
  PROVE  TimelineInv'
<1> DEFINE heard == [pipe EXCEPT !.announced = FALSE]
<1>1. PICK starved \in IF Live THEN {FALSE} ELSE BOOLEAN, reconnecting \in BOOLEAN :
       /\ starved => reconnecting
       /\ reconnecting => ~Live
       /\ LET heard_1 == [pipe EXCEPT !.announced = FALSE]
              networked == RecordingNetwork(ctl, heard_1, starved)
              waiting == IF reconnecting THEN AwaitRecovery(networked[1]) ELSE networked[1]
              p == networked[2]
              ended == Ends(waiting, p)
              c == IF ended THEN Ended(waiting) ELSE waiting
          IN  \E o \in Poll(c, [p EXCEPT !.bus = "none"]) :
                /\ ctl' = o.ctl /\ pipe' = o.pipe
                /\ store' = IF o.live THEN FinishPause(store) ELSE store
                /\ wish' = Overridden(wish, o.ctl)
                /\ polled' = (Live /\ HasWindow /\ o.result = "ok")
                /\ session' = IF Released(o.result) THEN o.result
                              ELSE IF ended /\ Live THEN "ended"
                              ELSE IF pipe.announced /\ pipe.bus = "none" /\ o.result = "ok"
                              THEN "playing" ELSE session
  BY DEF SessionPoll
<1> DEFINE d == RecordingNetwork(ctl, heard, starved)[1]
           p == RecordingNetwork(ctl, heard, starved)[2]
           waiting == IF reconnecting THEN AwaitRecovery(d) ELSE d
           ended == Ends(waiting, p)
           c == IF ended THEN Ended(waiting) ELSE waiting
           q == [p EXCEPT !.bus = "none"]
<1>2. PICK o \in Poll(c, q) :
        /\ ctl' = o.ctl /\ pipe' = o.pipe
        /\ store' = IF o.live THEN FinishPause(store) ELSE store
        /\ wish' = Overridden(wish, o.ctl)
        /\ polled' = (Live /\ HasWindow /\ o.result = "ok")
        /\ session' = IF Released(o.result) THEN o.result
                      ELSE IF ended /\ Live THEN "ended"
                      ELSE IF pipe.announced /\ pipe.bus = "none" /\ o.result = "ok"
                      THEN "playing" ELSE session
  BY <1>1
<1>3. Open /\ skipped' = skipped
  BY DEF SessionPoll
<1>4. PipeOK(heard) /\ Sound(ctl, heard, skipped)
  BY <1>3, InvParts, HeardIs
<1> HIDE DEF heard
<1>5. RecordingNetwork(ctl, heard, starved) = <<d, p>>
  BY DEF RecordingNetwork, NetworkStarves, NetworkReturns
<1> HIDE DEF d, p
<1>6. starved \in BOOLEAN /\ (starved => ~Live)
  BY <1>1
<1>7. /\ ControllerOK(d) /\ PipeOK(p) /\ Sound(d, p, skipped) /\ d.startup = ctl.startup
      /\ Follows(d, wish)
  BY <1>3, <1>4, <1>5, <1>6, InvParts, NetworkIs
<1>8. /\ ControllerOK(waiting) /\ Sound(waiting, p, skipped) /\ waiting.startup = ctl.startup
      /\ Follows(waiting, wish)
  BY <1>7, RecoveringIs
<1> HIDE DEF waiting
<1>9. PipeOK(q) /\ Sound(waiting, q, skipped)
  BY <1>7, <1>8, HeardIs
<1> HIDE DEF q
<1>10. /\ ControllerOK(c) /\ c.startup = ctl.startup /\ (ended => ~Seeking(c))
       /\ Follows(c, Overridden(wish, c)) /\ (~(ended /\ Live) => Sound(c, q, skipped))
  <2>1. CASE ended
    BY <1>8, <1>9, <2>1, InvParts, EndedIs
  <2>2. CASE ~ended
    <3>1. c = waiting
      BY <2>2
    <3> QED BY <1>8, <1>9, <2>2, <3>1, InvParts, StillFollows
  <2> QED BY <2>1, <2>2
<1> HIDE DEF ended, c
<1>11. /\ Formed(o, c)
       /\ ~(ended /\ Live) => Kept(o, wish, skipped)
  <2>1. CASE ended /\ Live
    <3>1. o \in Sampled(Done(c, q))
      BY <1>10, <2>1 DEF Poll
    <3>2. Formed(Done(c, q), c)
      BY <1>9, <1>10, DoneIs
    <3> QED BY <2>1, <3>1, <3>2, InvParts, SampledIs
  <2>2. CASE ~(ended /\ Live)
    BY <1>9, <1>10, <2>2, InvParts, PollIs
  <2> QED BY <2>1, <2>2
<1>12. ControllerOK(ctl') /\ PipeOK(pipe') /\ o.result \in Results /\ ctl'.startup = ctl.startup
  BY <1>2, <1>10, <1>11 DEF Formed
<1>13. StoreOK' /\ (Live' <=> Live)
  <2>1. CASE store' = store
    BY <2>1, InvParts, SameStore
  <2>2. CASE store' = [store EXCEPT !.history = FALSE]
    <3>1. /\ store' \in Stores /\ store'.source = store.source /\ store'.start = store.start
          /\ store'.end = store.end /\ store'.mode = store.mode /\ ~store'.history
      BY <2>2, InvParts DEF StoreOK, Stores
    <3> QED BY <3>1, InvParts DEF StoreOK, Live
  <2> QED BY <1>2, <2>1, <2>2 DEF FinishPause
<1>14. session' \in Sessions
  BY <1>2, <1>12, InvParts, ReleasedIs DEF Sessions
<1>15. wish' \in Wishes
  BY <1>2, InvParts, OverriddenIs
<1>16. ASSUME Open'
       PROVE  /\ Sound(ctl', pipe', skipped') /\ Follows(ctl', wish')
              /\ ctl'.startup = "awaiting" => session' = "connecting"
  <2>1. session' \in {"connecting", "playing"}
    BY <1>16 DEF Open
  <2>2. ~Released(o.result) /\ ~(ended /\ Live)
    BY <1>2, <1>12, <2>1, ReleasedIs
  <2>3. Sound(ctl', pipe', skipped') /\ Follows(ctl', wish')
    BY <1>2, <1>3, <1>11, <2>2 DEF Kept
  <2>4. ctl.startup = "awaiting" => session = "connecting" /\ ~pipe.announced
    BY <1>3, InvParts DEF Sound, Starting
  <2>5. ctl'.startup = "awaiting" => session' = "connecting"
    BY <1>2, <1>12, <2>2, <2>4
  <2> QED BY <2>3, <2>5
<1>17. polled' => Live
  BY <1>2
<1>18. skipped' \in BOOLEAN
  BY <1>3, InvParts
<1> QED BY <1>12, <1>13, <1>14, <1>15, <1>16, <1>17, <1>18, StepIs

-----------------------------------------------------------------------------
(* The second half of a poll.                                              *)
RetainedWish(o, b, w) ==
  LET changed == o.ctl.seek # b.seek
  IN  [resume |-> IF changed /\ b.retention = "live" THEN "playing" ELSE w.resume,
       live |-> IF changed THEN o.ctl.seek.completion \in {"live", "caught_up"} ELSE w.live]

Well(o, b, w, over) ==
  /\ ControllerOK(o.ctl) /\ PipeOK(o.pipe) /\ o.result \in Results
  /\ o.ctl.startup = "awaiting" => b.startup = "awaiting"
  /\ Kept(o, RetainedWish(o, b, w), over)

\* What the second half finds.
Ready(b, p, w, over) ==
  /\ StoreOK /\ Live /\ ControllerOK(b) /\ PipeOK(p) /\ w \in Wishes
  /\ Sound(b, p, over) /\ Follows(b, w)

\* c is b with other positions and, perhaps, the start of the stream over.
SameMove(b, c) ==
  /\ c.state = b.state /\ c.seek = b.seek /\ c.rate = b.rate /\ c.network = b.network

LEMMA MoveIs ==
  ASSUME NEW b, NEW p, NEW w, NEW over, Ready(b, p, w, over),
         NEW c, ControllerOK(c), SameMove(b, c), c.startup = "complete", NEW q, PipeOK(q),
         NEW target, NEW resume, NEW completion \in Completions,
         resume = IF b.retention = "live" THEN "playing" ELSE PhaseResume(b),
         NEW o \in StartChange(c, q, target, resume, 1, completion)
  PROVE  Formed(o, c) /\ Kept(o, RetainedWish(o, b, w), over)
<1> DEFINE u == RetainedWish(o, b, w)
<1>1. /\ StoreOK /\ Live /\ ControllerOK(b) /\ w \in Wishes /\ Sound(b, p, over) /\ Follows(b, w)
  BY DEF Ready
<1>2. resume \in {"playing", "paused"} /\ 1 \in Rates
  BY Numbers DEF PhaseResume
<1>3. Outcome(o, c, q, target, resume, 1, completion)
  BY <1>1, <1>2, StartChangeIs
<1>4. ASSUME Taken(o)
      PROVE  u.resume = resume /\ (completion \in ToLive => u.live)
  <2>1. Begun(o.ctl, o.pipe, c, q, target, resume, 1, completion)
    BY <1>3, <1>4 DEF Outcome, Taken, Refused
  <2>2. o.ctl.seek.resume = resume /\ o.ctl.seek.completion = completion
        /\ o.ctl.seek.next = NoNext /\ o.ctl.state = "seeking"
    BY <2>1 DEF Begun
  <2>3. o.ctl.seek # NoSeek
    BY <1>3, <2>2 DEF Outcome, ControllerOK, Seeking
  <2>4. CASE o.ctl.seek # b.seek
    <3>1. u.resume = (IF b.retention = "live" THEN "playing" ELSE w.resume)
          /\ u.live = (completion \in {"live", "caught_up"})
      BY <2>2, <2>4 DEF RetainedWish
    <3> QED BY <1>1, <3>1 DEF Follows, ToLive
  <2>5. CASE o.ctl.seek = b.seek
    <3>1. Seeking(b)
      BY <1>1, <2>3, <2>5 DEF ControllerOK, Seeking
    <3>2. u.resume = w.resume /\ u.live = w.live
      BY <2>5 DEF RetainedWish
    <3>3. PhaseResume(b) = resume
      BY <1>2, <2>2, <2>5, <3>1 DEF PhaseResume, Seeking, Stopped
    <3> QED BY <1>1, <2>2, <2>5, <3>1, <3>2, <3>3 DEF Follows
  <2> QED BY <2>4, <2>5
<1>5. c.network = "starved" => ~Live
  BY <1>1 DEF SameMove, Sound, Native
<1> HIDE DEF u
<1>6. Formed(o, c) /\ Kept(o, u, over)
  BY <1>1, <1>2, <1>4, <1>5, ChangeIs
<1> QED BY <1>6 DEF u

\* The settings' change is done once the pipeline took it.
LEMMA FinishIs ==
  ASSUME NEW b, NEW w, NEW over, NEW o, NEW c, Formed(o, c), c.startup = "complete",
         Kept(o, RetainedWish(o, b, w), over),
         NEW e, e = IF o.result = "ok" THEN [o EXCEPT !.ctl.retention = "none"] ELSE o
  PROVE  Well(e, b, w, over)
<1>1. CASE o.result = "ok"
  <2> DEFINE d == [o.ctl EXCEPT !.retention = "none"]
  <2>1. e.ctl = d /\ e.pipe = o.pipe /\ e.result = o.result
    BY <1>1 DEF Formed
  <2>2. /\ ControllerOK(d) /\ d.startup = "complete"
        /\ d.state = o.ctl.state /\ d.seek = o.ctl.seek /\ d.rate = o.ctl.rate
        /\ d.network = o.ctl.network
    BY HandledIs DEF Formed
  <2> HIDE DEF d
  <2>3. /\ o.ctl.startup = "complete" /\ PhaseResume(d) = PhaseResume(o.ctl)
        /\ (Seeking(d) <=> Seeking(o.ctl))
    BY <2>2 DEF Formed, PhaseResume, Seeking
  <2>4. Sound(o.ctl, o.pipe, over) => Sound(d, o.pipe, over)
    BY <2>2, <2>3 DEF Sound, Native, Resumes, Starting, Steady
  <2>5. \A u : Follows(o.ctl, Overridden(u, o.ctl)) => Follows(d, Overridden(u, d))
    <3>1. \A u : Overridden(u, d) = Overridden(u, o.ctl)
      BY <2>2 DEF Overridden
    <3>2. \A u : Follows(o.ctl, u) => Follows(d, u)
      BY <2>2, <2>3 DEF Follows
    <3> QED BY <3>1, <3>2
  <2>6. RetainedWish(e, b, w) = RetainedWish(o, b, w)
    BY <2>1, <2>2 DEF RetainedWish
  <2>7. Kept(e, RetainedWish(e, b, w), over)
    BY <2>1, <2>4, <2>5, <2>6 DEF Kept
  <2> QED BY <2>1, <2>2, <2>7 DEF Well, Formed
<1>2. CASE o.result # "ok"
  BY <1>2 DEF Well, Formed
<1> QED BY <1>1, <1>2


\* A poll that starts no seek follows the wish.
LEMMA QuietIs ==
  ASSUME NEW b, NEW w \in Wishes, NEW over, NEW d, ControllerOK(d), NEW q, PipeOK(q),
         Sound(d, q, over), Follows(d, w), d.seek = b.seek,
         d.startup = "awaiting" => b.startup = "awaiting"
  PROVE  Well(Done(d, q), b, w, over)
<1> DEFINE o == Done(d, q)
           u == RetainedWish(o, b, w)
<1>1. o.ctl = d /\ o.pipe = q /\ o.result = "ok"
  BY DEF Done
<1>2. u = [resume |-> w.resume, live |-> w.live]
  BY <1>1 DEF RetainedWish
<1>3. u = w
  BY <1>2 DEF Wishes
<1>4. Follows(d, Overridden(w, d))
  BY StillFollows
<1> HIDE DEF o, u
<1>5. Kept(o, u, over)
  BY <1>1, <1>3, <1>4 DEF Kept
<1> QED BY <1>1, <1>5 DEF Well, Results, o, u

LEMMA RetainedChangeIs ==
  ASSUME NEW b, NEW p, NEW w, NEW over, Ready(b, p, w, over), b.retention # "none",
         NEW c, ControllerOK(c), SameCore(b, c), NEW q, PipeOK(q), Sound(b, q, over),
         NEW expired, NEW o \in RetainedChange(c, q, Window, store.history, expired)
  PROVE  Well(o, b, w, over)
<1> DEFINE r == IF store.history THEN Window ELSE NoRange
           s == Sample(c, q)
           sampled == [s EXCEPT !.range = r]
           handled == [sampled EXCEPT !.retention = "none"]
           finish(e) == IF e.result = "ok" THEN [e EXCEPT !.ctl.retention = "none"] ELSE e
           resume == IF c.retention = "live" THEN "playing" ELSE PhaseResume(c)
<1>1. /\ StoreOK /\ Live /\ ControllerOK(b) /\ w \in Wishes /\ Follows(b, w)
  BY DEF Ready
<1>2. Sound(c, q, over) /\ Follows(c, w) /\ PhaseResume(c) = PhaseResume(b)
  BY <1>1, CoreIs
<1>3. b.startup = "complete"
  BY <1>1, ControllerParts DEF Sound, Starting
<1>4. \/ o = Done(c, q)
      \/ o \in {finish(e) : e \in StartChange(sampled, q, LiveTarget(Window), "playing", 1, "live")}
         /\ c.retention = "live"
      \/ o \in {finish(e) : e \in StartChange(sampled, q, RecoveryTarget(Window),
                                              PhaseResume(c), 1, "position")}
         /\ c.retention = "clamp"
      \/ o = Done(handled, q)
  BY DEF RetainedChange
<1>5. ControllerOK(s) /\ SameCore(c, s)
  BY <1>1, SampleIs
<1> HIDE DEF s
<1>6. r \in RangeType
  BY <1>1, WindowIs
<1> HIDE DEF r
<1>7. ControllerOK(sampled) /\ SameCore(s, sampled)
  BY <1>5, <1>6, ObservationIs
<1> HIDE DEF sampled
<1>8. SameMove(b, sampled) /\ sampled.startup = "complete" /\ SameCore(c, sampled)
  BY <1>3, <1>5, <1>7 DEF SameCore, SameMove
<1>9. CASE o = Done(c, q)
  <2>1. c.seek = b.seek /\ c.startup = b.startup
    BY DEF SameCore
  <2> QED BY <1>1, <1>2, <1>9, <2>1, QuietIs
<1>10. CASE o = Done(handled, q)
  <2>1. /\ ControllerOK(handled) /\ handled.startup = sampled.startup
        /\ handled.state = sampled.state /\ handled.seek = sampled.seek
        /\ handled.rate = sampled.rate /\ handled.network = sampled.network
    BY <1>7, HandledIs
  <2> HIDE DEF handled
  <2>2. Sound(sampled, q, over) /\ Follows(sampled, w)
    BY <1>2, <1>8, CoreIs
  <2>3. PhaseResume(handled) = PhaseResume(sampled) /\ (Seeking(handled) <=> Seeking(sampled))
    BY <2>1 DEF PhaseResume, Seeking
  <2>4. Sound(handled, q, over)
    BY <1>8, <2>1, <2>2, <2>3 DEF Sound, Native, Resumes, Starting, Steady
  <2>5. Follows(handled, w)
    BY <2>1, <2>2, <2>3 DEF Follows
  <2>6. handled.seek = b.seek
    BY <1>8, <2>1 DEF SameMove
  <2> QED BY <1>1, <1>3, <1>8, <1>10, <2>1, <2>4, <2>5, <2>6, QuietIs
<1>11. CASE /\ o \in {finish(e) : e \in StartChange(sampled, q, LiveTarget(Window), "playing", 1, "live")}
            /\ c.retention = "live"
  <2>1. PICK e \in StartChange(sampled, q, LiveTarget(Window), "playing", 1, "live") : o = finish(e)
    BY <1>11
  <2>2. "playing" = IF b.retention = "live" THEN "playing" ELSE PhaseResume(b)
    BY <1>11 DEF SameCore
  <2>3. "live" \in Completions
    BY DEF Completions
  <2>4. Formed(e, sampled) /\ Kept(e, RetainedWish(e, b, w), over)
    BY <1>7, <1>8, <2>2, <2>3, MoveIs
  <2> QED BY <1>8, <2>1, <2>4, FinishIs
<1>12. CASE /\ o \in {finish(e) : e \in StartChange(sampled, q, RecoveryTarget(Window),
                                                    PhaseResume(c), 1, "position")}
            /\ c.retention = "clamp"
  <2>1. PICK e \in StartChange(sampled, q, RecoveryTarget(Window), PhaseResume(c), 1, "position") :
          o = finish(e)
    BY <1>12
  <2>2. PhaseResume(c) = IF b.retention = "live" THEN "playing" ELSE PhaseResume(b)
    BY <1>2, <1>12 DEF SameCore
  <2>3. "position" \in Completions
    BY DEF Completions
  <2>4. Formed(e, sampled) /\ Kept(e, RetainedWish(e, b, w), over)
    BY <1>7, <1>8, <2>2, <2>3, MoveIs
  <2> QED BY <1>8, <2>1, <2>4, FinishIs
<1> QED BY <1>4, <1>9, <1>10, <1>11, <1>12

LEMMA AlignIs ==
  ASSUME NEW b, NEW p, NEW w, NEW over, Ready(b, p, w, over), b.startup = "awaiting",
         b.state = "playing",
         NEW c, ControllerOK(c), SameCore(b, c), NEW q, PipeOK(q), Sound(b, q, over)
  PROVE  Well(AlignLiveStart(c, q, Window), b, w, over)
<1>1. /\ Live /\ ControllerOK(b) /\ w \in Wishes /\ Follows(b, w)
  BY DEF Ready
<1>2. Sound(c, q, over) /\ Follows(c, w) /\ c.state = "playing" /\ c.seek = b.seek
      /\ c.startup = b.startup
  BY <1>1, CoreIs DEF SameCore
<1>3. CASE ~CanResumeLive(q, Window)
  <2>1. AlignLiveStart(c, q, Window) = Done(c, q)
    BY <1>3 DEF AlignLiveStart
  <2> QED BY <1>1, <1>2, <2>1, QuietIs
<1>4. CASE CanResumeLive(q, Window)
  <2> DEFINE d == [c EXCEPT !.startup = "complete"]
             n == SetState(q, "playing")
  <2>1. AlignLiveStart(c, q, Window) = Done(d, n)
    BY <1>4 DEF AlignLiveStart
  <2>2. /\ ControllerOK(d) /\ d.startup = "complete" /\ d.retention = c.retention
        /\ d.state = c.state /\ d.seek = c.seek /\ d.rate = c.rate /\ d.network = c.network
    BY CompleteIs
  <2> HIDE DEF d
  <2>3. PipeOK(n) /\ SamePipe(q, n) /\ n.target = "playing"
    BY SetStateIs
  <2> HIDE DEF n
  <2>4. PhaseResume(d) = "playing" /\ ~Seeking(d) /\ PhaseResume(c) = "playing"
    BY <1>2, <2>2 DEF PhaseResume, Seeking, Stopped
  <2>5. d.network # "starved"
    BY <1>1, <1>2, <2>2 DEF Sound, Native
  <2>6. Sound(d, n, over)
    BY <1>2, <2>2, <2>3, <2>4, <2>5 DEF Sound, Native, Starting, Steady, SamePipe
  <2>7. Follows(d, w)
    BY <1>2, <2>4 DEF Follows
  <2> QED BY <1>1, <1>2, <2>1, <2>2, <2>3, <2>6, <2>7, QuietIs
<1> QED BY <1>3, <1>4

LEMMA ExpiredIs ==
  ASSUME NEW b, NEW p, NEW w, NEW over, Ready(b, p, w, over),
         NEW c, ControllerOK(c), SameCore(b, c), c.state \in Stopped,
         NEW q, PipeOK(q), Sound(b, q, over)
  PROVE  Well(Done([c EXCEPT !.state = "expired"], q), b, w, over)
<1> DEFINE d == [c EXCEPT !.state = "expired"]
<1>1. /\ ControllerOK(b) /\ w \in Wishes /\ Follows(b, w)
  BY DEF Ready
<1>2. Sound(c, q, over) /\ Follows(c, w) /\ c.seek = b.seek /\ c.startup = b.startup
  BY <1>1, CoreIs DEF SameCore
<1>3. c.seek = NoSeek /\ c.state # "playing" /\ PhaseResume(c) = "paused"
  BY DEF ControllerOK, Stopped, Seeking, PhaseResume
<1>4. /\ d \in Controllers /\ d.state = "expired" /\ d.seek = c.seek /\ d.network = c.network
      /\ d.startup = c.startup
  BY DEF ControllerOK, Controllers, Stopped
<1> HIDE DEF d
<1>5. ControllerOK(d) /\ ~Seeking(d) /\ PhaseResume(d) = "paused"
  BY <1>3, <1>4 DEF ControllerOK, Seeking, PhaseResume, Stopped
<1>6. Sound(d, q, over)
  BY <1>2, <1>3, <1>4, <1>5 DEF Sound, Native, Resumes, Starting, Steady
<1>7. Follows(d, w)
  BY <1>2, <1>3, <1>5 DEF Follows
<1>8. Well(Done(d, q), b, w, over)
  BY <1>1, <1>2, <1>4, <1>5, <1>6, <1>7, QuietIs
<1> QED BY <1>8 DEF d

LEMMA RecoverIs ==
  ASSUME NEW b, NEW p, NEW w, NEW over, Ready(b, p, w, over), b.retention = "none",
         NEW c, ControllerOK(c), SameCore(b, c), c.state \notin Stopped, NEW q, PipeOK(q),
         NEW o \in RecoverExpired(c, q, Window, store.history)
  PROVE  Well(o, b, w, over)
<1> DEFINE recovery == IF store.history THEN RecoveryTarget(Window) ELSE LiveTarget(Window)
           target == IF Seeking(c) THEN MostOf(SeekTarget(c), recovery) ELSE recovery
           resume == IF Seeking(c) THEN c.seek.resume ELSE "playing"
           completion == IF store.history THEN "position" ELSE "live"
           d == [c EXCEPT !.startup = "complete"]
<1>1. o \in StartChange(d, q, target, resume, 1, completion)
  BY DEF RecoverExpired
<1>2. resume = PhaseResume(b)
  <2>1. PhaseResume(c) = resume
    <3>1. Seeking(c) => c.seek.resume \in {"playing", "paused"}
      BY ControllerParts DEF Seeking, SeekOK
    <3> QED BY <3>1 DEF PhaseResume
  <2> QED BY <2>1, CoreIs
<1>3. completion \in Completions
  BY DEF Completions
<1>4. ControllerOK(d) /\ SameMove(b, d) /\ d.startup = "complete"
  <2>1. /\ ControllerOK(d) /\ d.startup = "complete" /\ d.retention = c.retention
        /\ d.state = c.state /\ d.seek = c.seek /\ d.rate = c.rate /\ d.network = c.network
    BY CompleteIs
  <2> HIDE DEF d
  <2> QED BY <2>1 DEF SameMove, SameCore
<1> HIDE DEF d, target, resume, completion
<1>5. Formed(o, d) /\ Kept(o, RetainedWish(o, b, w), over)
  BY <1>1, <1>2, <1>3, <1>4, MoveIs
<1> QED BY <1>4, <1>5 DEF Well, Formed

LEMMA CatchUpIs ==
  ASSUME NEW b, NEW p, NEW w, NEW over, Ready(b, p, w, over), b.retention = "none",
         b.startup = "complete",
         NEW c, ControllerOK(c), SameCore(b, c), NEW q, PipeOK(q), Sound(b, q, over),
         NEW o \in CatchUp(c, q)
  PROVE  Well(o, b, w, over)
<1>1. /\ ControllerOK(b) /\ w \in Wishes /\ Follows(b, w)
  BY DEF Ready
<1>2. Sound(c, q, over) /\ Follows(c, w) /\ c.seek = b.seek /\ c.startup = "complete"
      /\ PhaseResume(c) = PhaseResume(b)
  BY <1>1, CoreIs DEF SameCore
<1>3. \/ o = Done(c, q)
      \/ c.state = "playing" /\ \E completion \in {"stalled", "caught_up"} :
           o \in StartChange(c, q, QueryPosition(q), "playing", 1, completion)
  BY DEF CatchUp
<1>4. CASE o = Done(c, q)
  BY <1>1, <1>2, <1>4, QuietIs
<1>5. CASE c.state = "playing" /\ \E completion \in {"stalled", "caught_up"} :
             o \in StartChange(c, q, QueryPosition(q), "playing", 1, completion)
  <2>1. PICK completion \in {"stalled", "caught_up"} :
          o \in StartChange(c, q, QueryPosition(q), "playing", 1, completion)
    BY <1>5
  <2>2. completion \in Completions
    BY DEF Completions
  <2>3. "playing" = PhaseResume(b)
    BY <1>2, <1>5 DEF PhaseResume, Seeking, Stopped
  <2>4. SameMove(b, c)
    BY DEF SameCore, SameMove
  <2>5. Formed(o, c) /\ Kept(o, RetainedWish(o, b, w), over)
    BY <1>2, <2>1, <2>2, <2>3, <2>4, MoveIs
  <2> QED BY <1>2, <2>5 DEF Well, Formed
<1> QED BY <1>3, <1>4, <1>5

LEMMA TakenIs ==
  ASSUME NEW p, PipeOK(p), NEW q, q = p \/ q = [p EXCEPT !.expired = "taken"]
  PROVE  PipeOK(q) /\ \A c, over : Sound(c, p, over) => Sound(c, q, over)
<1>1. CASE q = p
  BY <1>1
<1>2. CASE q = [p EXCEPT !.expired = "taken"]
  <2>1. /\ q \in Pipelines /\ q.target = p.target /\ q.segment = p.segment /\ q.rate = p.rate
        /\ q.speed = p.speed /\ q.todo = p.todo /\ q.announced = p.announced
    BY <1>2 DEF PipeOK, Pipelines
  <2>2. PipeOK(q)
    BY <2>1 DEF PipeOK
  <2>3. \A c, over : Sound(c, p, over) => Sound(c, q, over)
    BY <2>1 DEF Sound, Native, Starting, Steady
  <2> QED BY <2>2, <2>3
<1> QED BY <1>1, <1>2

LEMMA RetainedIs ==
  ASSUME NEW b, NEW p, NEW w, NEW over, Ready(b, p, w, over),
         NEW o \in Retained(b, p, Window, store.history)
  PROVE  Well(o, b, w, over)
<1> DEFINE c == Observed(b, p, Window, store.history)
           expired == p.expired = "reported"
           q == IF expired THEN [p EXCEPT !.expired = "taken"] ELSE p
           behind == store.history /\ c.position # NoTime /\ c.position < Window.start
<1>1. /\ StoreOK /\ Live /\ ControllerOK(b) /\ PipeOK(p) /\ Sound(b, p, over)
  BY DEF Ready
<1>2. ControllerOK(c) /\ SameCore(b, c)
  BY <1>1, WindowIs, ObservedIs
<1>3. PipeOK(q) /\ Sound(b, q, over)
  BY <1>1, TakenIs
<1>4. \/ c.retention # "none" /\ o \in RetainedChange(c, q, Window, store.history, expired)
      \/ /\ c.startup = "awaiting" /\ c.state = "playing"
         /\ o = AlignLiveStart(c, q, Window)
      \/ c.state \in Stopped /\ o = Done([c EXCEPT !.state = "expired"], q)
      \/ /\ c.retention = "none" /\ c.state \notin Stopped
         /\ o \in RecoverExpired(c, q, Window, store.history)
      \/ /\ c.retention = "none" /\ ~(c.startup = "awaiting" /\ c.state = "playing")
         /\ o \in CatchUp(c, q)
  <2>1. o \in (IF c.retention # "none"
               THEN RetainedChange(c, q, Window, store.history, expired)
               ELSE IF ~expired /\ c.startup = "awaiting" /\ c.state = "playing"
               THEN {AlignLiveStart(c, q, Window)}
               ELSE IF c.state \in Stopped /\ (expired \/ behind)
               THEN {Done([c EXCEPT !.state = "expired"], q)}
               ELSE IF expired \/ (behind /\ ~Seeking(c))
               THEN RecoverExpired(c, q, Window, store.history)
               ELSE CatchUp(c, q))
    BY DEF Retained
  <2> HIDE DEF c, expired, q, behind
  <2> QED BY <2>1
<1>5. c.retention = b.retention /\ c.state = b.state /\ c.startup = b.startup
  BY <1>2 DEF SameCore
<1> HIDE DEF c, expired, q, behind
<1>6. CASE c.retention # "none" /\ o \in RetainedChange(c, q, Window, store.history, expired)
  BY <1>2, <1>3, <1>5, <1>6, RetainedChangeIs
<1>7. CASE c.startup = "awaiting" /\ c.state = "playing" /\ o = AlignLiveStart(c, q, Window)
  BY <1>2, <1>3, <1>5, <1>7, AlignIs
<1>8. CASE c.state \in Stopped /\ o = Done([c EXCEPT !.state = "expired"], q)
  BY <1>2, <1>3, <1>8, ExpiredIs
<1>9. CASE /\ c.retention = "none" /\ c.state \notin Stopped
           /\ o \in RecoverExpired(c, q, Window, store.history)
  BY <1>2, <1>3, <1>5, <1>9, RecoverIs
<1>10. CASE /\ c.retention = "none" /\ ~(c.startup = "awaiting" /\ c.state = "playing")
            /\ o \in CatchUp(c, q)
  <2>1. b.startup = "complete"
    <3>1. b.startup \in {"awaiting", "complete"}
      BY <1>1, ControllerParts
    <3>2. b.startup = "awaiting" => b.state = "playing"
      BY <1>1 DEF Sound, Starting
    <3> QED BY <1>5, <1>10, <3>1, <3>2
  <2> QED BY <1>2, <1>3, <1>5, <1>10, <2>1, CatchUpIs
<1> QED BY <1>4, <1>6, <1>7, <1>8, <1>9, <1>10

LEMMA SessionRetainedStep ==
  ASSUME TimelineInv, SessionRetained
  PROVE  TimelineInv'
<1>1. PICK o \in Retained(ctl, pipe, Window, store.history) :
       /\ ctl' = o.ctl /\ pipe' = o.pipe
       /\ session' = IF Released(o.result) THEN o.result ELSE session
       /\ wish' = LET changed == o.ctl.seek # ctl.seek
                      asked == [resume |-> IF changed /\ ctl.retention = "live" THEN "playing"
                                           ELSE wish.resume,
                                live |-> IF changed
                                         THEN o.ctl.seek.completion \in {"live", "caught_up"}
                                         ELSE wish.live]
                  IN  Overridden(asked, o.ctl)
  BY DEF SessionRetained
<1>2. wish' = Overridden(RetainedWish(o, ctl, wish), o.ctl)
  BY <1>1 DEF RetainedWish
<1>3. /\ Open /\ polled /\ polled' = FALSE /\ UNCHANGED store /\ skipped' = skipped
  BY DEF SessionRetained
<1>4. Ready(ctl, pipe, wish, skipped)
  BY <1>3, InvParts DEF Ready
<1>5. Well(o, ctl, wish, skipped)
  BY <1>4, RetainedIs
<1>6. RetainedWish(o, ctl, wish) \in Wishes
  <2> DEFINE r == IF o.ctl.seek # ctl.seek /\ ctl.retention = "live" THEN "playing" ELSE wish.resume
             l == IF o.ctl.seek # ctl.seek THEN o.ctl.seek.completion \in {"live", "caught_up"}
                  ELSE wish.live
  <2>0. wish.resume \in {"playing", "paused"} /\ wish.live \in BOOLEAN
    BY InvParts DEF Wishes
  <2>1. r \in {"playing", "paused"}
    BY <2>0
  <2>3. l \in BOOLEAN
    <3>1. CASE o.ctl.seek # ctl.seek
      BY <3>1
    <3>2. CASE o.ctl.seek = ctl.seek
      BY <2>0, <3>2
    <3> QED BY <3>1, <3>2
  <2>2. RetainedWish(o, ctl, wish) = [resume |-> r, live |-> l]
    BY DEF RetainedWish
  <2> HIDE DEF r, l
  <2> QED BY <2>1, <2>2, <2>3 DEF Wishes
<1>7. wish' \in Wishes
  BY <1>2, <1>6, OverriddenIs
<1>8. ControllerOK(ctl') /\ PipeOK(pipe') /\ o.result \in Results
      /\ (ctl'.startup = "awaiting" => ctl.startup = "awaiting")
  BY <1>1, <1>5 DEF Well
<1>9. session' \in Sessions
  BY <1>1, <1>8, InvParts, ReleasedIs
<1>10. ASSUME Open'
       PROVE  /\ Sound(ctl', pipe', skipped') /\ Follows(ctl', wish')
              /\ ctl'.startup = "awaiting" => session' = "connecting"
  <2>1. session' \in {"connecting", "playing"}
    BY <1>10 DEF Open
  <2>2. ~Released(o.result)
    BY <1>1, <1>8, <2>1, ReleasedIs
  <2>3. Sound(ctl', pipe', skipped') /\ Follows(ctl', wish')
    BY <1>1, <1>2, <1>3, <1>5, <2>2 DEF Well, Kept
  <2> QED BY <1>1, <1>3, <1>8, <2>2, <2>3, InvParts
<1>11. StoreOK' /\ (Live' <=> Live)
  BY <1>3, InvParts, SameStore
<1> QED BY <1>3, <1>7, <1>8, <1>9, <1>10, <1>11, InvParts, StepIs


-----------------------------------------------------------------------------
(* The theorems.                                                           *)
LEMMA NextStep ==
  ASSUME TimelineInv, [Next]_vars
  PROVE  TimelineInv'
<1>1. CASE UNCHANGED vars
  <2>1. /\ ctl' = ctl /\ pipe' = pipe /\ UNCHANGED store /\ session' = session
        /\ polled' = polled /\ wish' = wish /\ skipped' = skipped
    BY <1>1 DEF vars
  <2>2. Open' <=> Open
    BY <2>1 DEF Open
  <2> QED BY <2>1, <2>2, InvParts, SameStore, StepIs
<1>2. CASE GuiTimer
  BY <1>2, SessionPollStep, SessionRetainedStep DEF GuiTimer
<1>3. CASE World
  <2>1. CASE PipeFlush \/ PipeSegment \/ PipeBuffer \/ PipeSettles \/ PipeAdvances \/ PipeEos
             \/ ReaderExpires
    <3>1. UNCHANGED store
      BY <2>1 DEF PipeFlush, PipeSegment, PipeBuffer, PipeSettles, PipeAdvances, PipeEos,
                  ReaderExpires
    <3> QED BY <2>1, <3>1, PipeStep
  <2>2. CASE Receive
    BY <2>2, StoreStep
  <2>3. CASE Deadline
    BY <2>3, DeadlineStep
  <2> QED BY <1>3, <2>1, <2>2, <2>3 DEF World
<1>4. CASE Evict
  BY <1>4, StoreStep
<1>5. CASE PauseRequest
  BY <1>5, PauseStep
<1>6. CASE PlayRequest
  BY <1>6, PlayStep
<1>7. CASE ReturnRequest
  BY <1>7, ReturnStep
<1>8. CASE RateRequest
  BY <1>8, RateStep
<1>9. CASE SeekRequest
  BY <1>9, SeekStep
<1>10. CASE Configure
  BY <1>10, ConfigureStep
<1> QED BY <1>1, <1>2, <1>3, <1>4, <1>5, <1>6, <1>7, <1>8, <1>9, <1>10 DEF Next

\* The controller, the pipeline and the wish agree while the stream is open,
\* between any two steps of the viewer, the settings, the timer, the pipeline
\* and the receiver (timeline.rs, session.rs).
THEOREM TimelineInvariant == Spec => []TimelineInv
<1>1. Init => TimelineInv
  BY InitStep
<1>2. TimelineInv /\ [Next]_vars => TimelineInv'
  BY NextStep
<1> QED BY <1>1, <1>2, PTL DEF Spec

LEMMA TypesFollow == TimelineInv => TypeOK
<1> SUFFICES ASSUME TimelineInv PROVE TypeOK
  OBVIOUS
<1>1. /\ ctl.state \in {"playing", "seeking", "ended"} \cup Stopped
      /\ (ctl.state = "seeking") <=> (ctl.seek # NoSeek)
      /\ Seeking(ctl) => SeekOK(ctl.seek)
      /\ ctl.rate \in Rates /\ ctl.position \in Time
      /\ ctl.range \in RangeType /\ ctl.receive \in RangeType
  BY InvParts, ControllerParts DEF ControllerOK, Controllers
<1>2. /\ pipe.target \in {"playing", "paused"} /\ pipe.phase \in {"starting", "async", "settled"}
      /\ pipe.pos \in 0 .. MaxEnd
  BY InvParts, PipeParts
<1>3. store.start \in 0 .. store.end /\ store.end <= MaxEnd
  BY InvParts, WindowIs, Numbers
<1>4. session \in {"connecting", "playing", "ended", "rejected", "timed_out", "unavailable"}
  BY InvParts DEF Sessions
<1> QED BY <1>1, <1>2, <1>3, <1>4 DEF TypeOK, SeekOK

\* The types of the controller, the pipeline, the window and the session.
THEOREM TimelineTypes == Spec => []TypeOK
BY TimelineInvariant, TypesFollow, PTL

LEMMA HoldFollows == TimelineInv => RequestsHold
<1> SUFFICES ASSUME TimelineInv, Open PROVE RequestsHold
  BY DEF RequestsHold, NativeAgrees, PausedHolds, PlayingRuns, StarvedWaits, IntentKept,
         RateConfirmed
<1>1. /\ Native(ctl, pipe, skipped) /\ Starting(ctl, pipe) /\ Steady(ctl, pipe)
      /\ Follows(ctl, wish) /\ PipeOK(pipe)
  BY InvParts DEF Sound
<1>2. PausedHolds /\ StarvedWaits
  BY <1>1 DEF Native, PausedHolds, StarvedWaits
<1>3. PlayingRuns
  <2>1. ctl.startup \in {"awaiting", "complete"}
    BY InvParts, ControllerParts
  <2> QED BY <1>1, <2>1 DEF Native, Starting, Resumes, PlayingRuns
<1>4. IntentKept
  BY <1>1 DEF Follows, IntentKept
<1>5. RateConfirmed
  BY <1>1 DEF Steady, PipeOK, RateConfirmed
<1> QED BY <1>2, <1>3, <1>4, <1>5 DEF RequestsHold, NativeAgrees

\* What is shown, what was asked for last, what was confirmed last and what the
\* pipeline does agree, through refused, queued and unanswered seeks, outages,
\* expired positions and changes of the settings (start_change, poll, pause,
\* recording_network, retained).
THEOREM RequestsAlwaysHold == Spec => []RequestsHold
BY TimelineInvariant, HoldFollows, PTL

LEMMA RequestsCount == Spec => [](requests \in Nat)
<1>1. Init => requests \in Nat
  BY DEF Init
<1>2. requests \in Nat /\ [Next]_vars => (requests \in Nat)'
  <2> SUFFICES ASSUME requests \in Nat, [Next]_vars PROVE requests' \in Nat
    OBVIOUS
  <2>1. requests' = requests \/ requests' = requests + 1
    BY DEF Next, vars, GuiTimer, SessionPoll, SessionRetained, World, Evict, Receive, Deadline,
           PipeFlush, PipeSegment, PipeBuffer, PipeSettles, PipeAdvances, PipeEos, ReaderExpires,
           Moves, PauseRequest, PlayRequest, ReturnRequest, RateRequest, SeekRequest, Configure,
           Transport, Request
  <2> QED BY <2>1
<1> QED BY <1>1, <1>2, PTL DEF Spec

\* A poll reports a return to live only on the confirmed output of a move to
\* live nothing newer replaced, after its reserve was awaited.
LEMMA LiveIs ==
  ASSUME StoreOK, NEW c, ControllerOK(c), NEW p, PipeOK(p), NEW w \in Wishes, NEW over,
         Sound(c, p, over), Follows(c, w), NEW o \in Poll(c, p), o.live
  PROVE  /\ Seeking(c) /\ ReachedLive(c, p) /\ Confirmed(c, p) /\ ~AwaitsReserve(c, p)
         /\ o.ctl.state = "playing"
<1>1. o \notin Sampled(Done(c, p))
  BY DEF Sampled, Done
<1>2. \A error : o # FailedPause(c, p, error)
  BY DEF FailedPause, Fail
<1>3. Seeking(c)
  BY <1>1 DEF Poll
<1>4. ~AwaitsReserve(c, p)
  <2>1. o \notin PollReserve(c, p)
    BY <1>2 DEF PollReserve, Done
  <2> QED BY <1>3, <2>1 DEF Poll
<1>5. /\ AtEos(p) \/ (Confirmed(c, p) /\ p.phase = "settled")
      /\ o \in UNION {Sampled(e) : e \in PollLanded(c, p)}
  BY <1>1, <1>2, <1>3, <1>4 DEF Poll
<1>6. PICK e \in PollLanded(c, p) : o \in Sampled(e)
  BY <1>5
<1>7. PICK n \in PollNext(c, p) : e = [n EXCEPT !.live = n.result = "ok" /\ ReachedLive(c, p)]
  BY <1>6 DEF PollLanded
<1>8. n = [ctl |-> n.ctl, pipe |-> n.pipe, result |-> n.result, live |-> n.live]
  <2>1. PollNext(c, p) = {Done(Landed(c, p), p)} \/ PollNext(c, p) = {Fail(Landed(c, p), p, "unavailable")}
        \/ \E target, resume, rate, completion :
             PollNext(c, p) = StartChange(Landed(c, p), p, target, resume, rate, completion)
    BY DEF PollNext
  <2> QED BY <2>1, ShapeIs DEF Done, Fail
<1>9. /\ e.ctl = n.ctl /\ e.pipe = n.pipe /\ e.live = (n.result = "ok" /\ ReachedLive(c, p))
      /\ e = [ctl |-> e.ctl, pipe |-> e.pipe, result |-> e.result, live |-> e.live]
  BY <1>7, <1>8
<1>10. o.live = e.live /\ (o.ctl = e.ctl \/ o.ctl = Sample(e.ctl, e.pipe))
  BY <1>6, <1>9 DEF Sampled
<1>11. ReachedLive(c, p)
  BY <1>9, <1>10
<1>12. c.seek.next = NoNext /\ ~AtEos(p) /\ c.seek.resume = "playing"
  BY <1>11 DEF ReachedLive
<1>13. e.ctl = Landed(c, p) /\ e.pipe = p
  BY <1>9, <1>12 DEF PollNext, Done
<1>14. ControllerOK(Landed(c, p))
  BY <1>3, <1>4, <1>5, LandedIs
<1>15. Landed(c, p).state = "playing"
  BY <1>12 DEF Landed, ControllerOK, Controllers
<1>16. SameCore(Landed(c, p), Sample(Landed(c, p), p))
  BY <1>14, SampleIs
<1>17. o.ctl.state = "playing"
  BY <1>10, <1>13, <1>15, <1>16 DEF SameCore
<1> QED BY <1>3, <1>4, <1>5, <1>11, <1>12, <1>17

HistoryStep ==
  store.history /\ ~store'.history /\ requests' = requests
    => /\ wish.live /\ wish.resume = "playing"
       /\ pipe.segment = "new" /\ pipe.buffered /\ pipe.target = "playing"
       /\ ctl'.state = "playing"

LEMMA PollReleases ==
  ASSUME TimelineInv, SessionPoll, store.history, ~store'.history
  PROVE  HistoryStep
<1> DEFINE heard == [pipe EXCEPT !.announced = FALSE]
<1>1. Live /\ Open
  BY InvParts DEF StoreOK, SessionPoll
<1>2. /\ ControllerOK(ctl) /\ PipeOK(pipe) /\ StoreOK /\ wish \in Wishes
      /\ Sound(ctl, pipe, skipped) /\ Follows(ctl, wish) /\ ctl.network = "ready"
  BY <1>1, InvParts, ControllerParts DEF Sound, Native
<1>3. PICK starved \in IF Live THEN {FALSE} ELSE BOOLEAN, reconnecting \in BOOLEAN :
       /\ starved => reconnecting
       /\ reconnecting => ~Live
       /\ LET heard_1 == [pipe EXCEPT !.announced = FALSE]
              networked == RecordingNetwork(ctl, heard_1, starved)
              waiting == IF reconnecting THEN AwaitRecovery(networked[1]) ELSE networked[1]
              p == networked[2]
              ended == Ends(waiting, p)
              c == IF ended THEN Ended(waiting) ELSE waiting
          IN  \E o \in Poll(c, [p EXCEPT !.bus = "none"]) :
                /\ ctl' = o.ctl /\ pipe' = o.pipe
                /\ store' = IF o.live THEN FinishPause(store) ELSE store
                /\ wish' = Overridden(wish, o.ctl)
                /\ polled' = (Live /\ HasWindow /\ o.result = "ok")
                /\ session' = IF Released(o.result) THEN o.result
                              ELSE IF ended /\ Live THEN "ended"
                              ELSE IF pipe.announced /\ pipe.bus = "none" /\ o.result = "ok"
                              THEN "playing" ELSE session
  BY DEF SessionPoll
<1>4. RecordingNetwork(ctl, heard, FALSE) = <<ctl, heard>>
  BY <1>2 DEF RecordingNetwork
<1> DEFINE q == [heard EXCEPT !.bus = "none"]
<1>5. \E c \in {ctl, Ended(ctl)} : \E o \in Poll(c, q) :
        ctl' = o.ctl /\ store' = IF o.live THEN FinishPause(store) ELSE store
  <2>1. starved = FALSE /\ reconnecting = FALSE
    BY <1>1, <1>3
  <2> DEFINE ended == Ends(ctl, heard)
             c == IF ended THEN Ended(ctl) ELSE ctl
  <2>2. <<ctl, heard>>[1] = ctl /\ <<ctl, heard>>[2] = heard
    OBVIOUS
  <2>3. \E o \in Poll(c, q) : ctl' = o.ctl /\ store' = IF o.live THEN FinishPause(store) ELSE store
    BY <1>3, <1>4, <2>1, <2>2
  <2>4. c \in {ctl, Ended(ctl)}
    OBVIOUS
  <2> HIDE DEF c, q
  <2> QED BY <2>3, <2>4
<1>6. PICK c \in {ctl, Ended(ctl)} : \E o \in Poll(c, q) :
        ctl' = o.ctl /\ store' = IF o.live THEN FinishPause(store) ELSE store
  BY <1>5
<1>7. PICK o \in Poll(c, q) :
        ctl' = o.ctl /\ store' = IF o.live THEN FinishPause(store) ELSE store
  BY <1>6
<1>8. o.live
  BY <1>7
<1>9. /\ PipeOK(q) /\ Sound(ctl, q, skipped) /\ q.segment = pipe.segment
      /\ q.buffered = pipe.buffered /\ q.target = pipe.target
  <2>1. PipeOK(heard) /\ Sound(ctl, heard, skipped)
    BY <1>2, HeardIs
  <2>2. heard.segment = pipe.segment /\ heard.buffered = pipe.buffered
        /\ heard.target = pipe.target
    BY <1>2 DEF PipeOK, Pipelines
  <2> HIDE DEF heard
  <2>3. PipeOK(q) /\ Sound(ctl, q, skipped)
    BY <2>1, HeardIs
  <2>4. q.segment = heard.segment /\ q.buffered = heard.buffered /\ q.target = heard.target
    BY <2>1 DEF PipeOK, Pipelines
  <2> QED BY <2>2, <2>3, <2>4
<1> HIDE DEF heard, q
<1>10. c = ctl
  <2>1. CASE c = Ended(ctl)
    <3>1. ~Seeking(c)
      BY <1>2, <2>1, EndedIs
    <3>2. o \in Sampled(Done(c, q))
      BY <3>1 DEF Poll
    <3>3. ~o.live
      BY <3>2 DEF Sampled, Done
    <3> QED BY <1>8, <3>3
  <2> QED BY <2>1
<1>11. /\ Seeking(ctl) /\ ReachedLive(ctl, q) /\ Confirmed(ctl, q) /\ ~AwaitsReserve(ctl, q)
       /\ o.ctl.state = "playing"
  BY <1>2, <1>7, <1>8, <1>9, <1>10, LiveIs
<1>12. /\ ctl.seek.next = NoNext /\ ctl.seek.resume = "playing" /\ ~AtEos(q)
       /\ ctl.seek.completion \in ToLive
  BY <1>11 DEF ReachedLive, ToLive
<1>13. ctl.seek.clock # "preroll"
  BY <1>11, <1>12 DEF AwaitsReserve
<1>14. pipe.segment = "new" /\ pipe.buffered
  BY <1>9, <1>11 DEF Confirmed
<1>15. pipe.target = "playing"
  BY <1>2, <1>11, <1>12, <1>13 DEF Sound, Native, Resumes
<1>16. wish.live /\ wish.resume = "playing"
  <2>1. PhaseResume(ctl) = "playing"
    BY <1>11, <1>12 DEF PhaseResume, Seeking, Stopped
  <2> QED BY <1>2, <1>11, <1>12, <2>1 DEF Follows
<1> QED BY <1>7, <1>11, <1>14, <1>15, <1>16 DEF HistoryStep

LEMMA NextReleases ==
  ASSUME TimelineInv, requests \in Nat, [Next]_vars
  PROVE  HistoryStep
<1> SUFFICES ASSUME store.history, ~store'.history, requests' = requests
             PROVE  HistoryStep
  BY DEF HistoryStep
<1>1. ~UNCHANGED store
  OBVIOUS
<1>2. CASE SessionPoll
  BY <1>2, PollReleases
<1>3. CASE Request
  BY <1>3 DEF Request
<1>4. CASE Receive \/ Evict
  <2>1. store'.history = store.history
    BY <1>4, InvParts DEF Receive, Evict, StoreOK, Stores
  <2> QED BY <2>1
<1>5. CASE UNCHANGED store
  BY <1>1, <1>5
<1>6. SessionPoll \/ Request \/ Receive \/ Evict \/ UNCHANGED store
  BY DEF Next, vars, GuiTimer, SessionRetained, World, Deadline, PipeFlush, PipeSegment,
         PipeBuffer, PipeSettles, PipeAdvances, PipeEos, ReaderExpires,
         PauseRequest, PlayRequest, ReturnRequest, RateRequest, SeekRequest, Configure, Transport
<1> QED BY <1>2, <1>3, <1>4, <1>5, <1>6

\* A poll gives the history up only where the viewer is: on the confirmed output
\* of a move to live that nothing newer replaced, and running (session.rs,
\* Controller::poll, Store::finish_pause).
THEOREM HistoryAlwaysReleasedLive == Spec => HistoryReleasedLive
<1>1. TimelineInv /\ requests \in Nat /\ [Next]_vars => HistoryStep
  BY NextReleases
<1>2. ASSUME TimelineInv, requests \in Nat, [Next]_vars
      PROVE  [HistoryStep]_vars
  BY <1>1, <1>2
<1> QED BY <1>2, TimelineInvariant, RequestsCount, PTL DEF Spec, HistoryReleasedLive, HistoryStep

=============================================================================
