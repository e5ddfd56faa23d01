-------------------------- MODULE RecordingBuffer --------------------------
(***************************************************************************)
(* Reading a recording over HTTP (playback/recording/http.rs, buffer.rs,   *)
(* stream.rs): one worker keeps a response open and fills a window of the  *)
(* file, one playback reader takes its bytes from it, and the GUI thread   *)
(* interrupts, moves and drops both.                                       *)
(*                                                                         *)
(* Two users: "transport" is need_data of input/source.rs, which a seek    *)
(* interrupts from outside; "media" is that of media.rs, whose demuxer     *)
(* pulls byte ranges from one thread.                                      *)
(*                                                                         *)
(* The mutex of State makes each of its critical sections one action; the  *)
(* condition variable has a timeout of 20 ms on both sides, so a waiting   *)
(* thread is one that looks again.  The deque of blocks is a set: their    *)
(* offsets give the order.  A block remembers, in `origin`, where in the   *)
(* file the server took its bytes from.                                    *)
(***************************************************************************)
EXTENDS Integers

CONSTANTS
  SIZE,         \* of the file
  RANGE,        \* RANGE_BYTES: the largest chunk, and what a fetch reserves
  BACKWARD,     \* BACKWARD_BYTES: kept behind the reader
  FORWARD,      \* FORWARD_JUMP_BYTES: a jump that waits for the same response
  MAX,          \* MAX_BYTES
  PROBE,        \* SIZE_PROBE_BYTES: the shortest range a request asks for
  Chunks,       \* sizes in which the server sends, if so much is left
  BLOCK,        \* what one call of need_data reads
  Estimates,    \* read-ahead of a duration; the first one is INITIAL_BYTES
  Kinds,        \* of user
  Targets,      \* of seeks
  MaxCalls,     \* of the GUI thread: seeks and stops
  MaxPulls,     \* of a demuxer that jumps
  MaxFailures

ASSUME SizesAssumption ==
  /\ {SIZE, RANGE, BACKWARD, FORWARD, PROBE, BLOCK} \subseteq Nat \ {0}
  /\ MAX \in Nat
  /\ PROBE <= SIZE
  /\ Chunks \subseteq 1 .. RANGE /\ Chunks # {}
ASSUME EstimatesAssumption ==
  /\ Estimates # {}
  /\ \A ahead \in Estimates : ahead \in Nat /\ RANGE <= ahead /\ ahead + BACKWARD <= MAX
ASSUME UsersAssumption ==
  /\ Kinds \subseteq {"transport", "media"}
  /\ Targets \subseteq 0 .. SIZE - 1
  /\ {MaxCalls, MaxPulls, MaxFailures} \subseteq Nat

None == -1
Least(a, b) == IF a < b THEN a ELSE b

VARIABLES
  buffer,    \* State, with the counters of Shared
  worker,    \* the thread of run
  reader,    \* the streaming thread: need_data, Cursor and Buffer::read
  input      \* what the GUI thread does, and what it shares with the reader

vars == <<buffer, worker, reader, input>>

Block == [start : Nat, end : Nat, origin : Nat]
NoBlock == [start |-> 0, end |-> 0, origin |-> 0]

TypeOK ==
  /\ buffer \in [wanted : 0 .. SIZE, end : 0 .. SIZE, active : BOOLEAN,
                 ahead : Estimates, blocks : SUBSET Block,
                 phase : {"ready", "retrying", "failed"},
                 generation : Nat, requests : Nat, stopped : BOOLEAN]
  /\ worker \in [at : {"check", "fetching", "received", "cancelled", "failed", "gone"},
                 from : 0 .. SIZE, generation : Nat, next : Int,
                 connected : Nat, retried : BOOLEAN, chunk : Block, failures : Nat]
  /\ reader \in [at : {"idle", "called", "checked", "entering", "waiting", "read", "broken"},
                 offset : 0 .. SIZE, position : 0 .. SIZE, need : 0 .. BLOCK,
                 generation : Nat, request : Nat,
                 error : {"none", "cancelled", "failed"}, intact : BOOLEAN]
  /\ input \in [kind : Kinds,
                gui : {"free", "sending", "sent", "flushing", "flushed",
                       "stopping", "dropping", "released"},
                target : Targets \cup {None}, generation : Nat,
                request : Targets \cup {None}, interrupted : BOOLEAN,
                asks : BOOLEAN, failure : {"none", "cancelled", "failed"},
                calls : 0 .. MaxCalls, pulls : 0 .. MaxPulls]

(* need_data returned; only the reader's offset outlives the call. *)
Returned(offset) ==
  [at |-> "idle", offset |-> offset, position |-> 0, need |-> 0, generation |-> 0,
   request |-> 0, error |-> "none", intact |-> TRUE]

Init ==
  /\ \E ahead \in Estimates :
       buffer = [wanted |-> 0, end |-> 0, active |-> TRUE, ahead |-> ahead,
                 blocks |-> {}, phase |-> "ready", generation |-> 0,
                 requests |-> 0, stopped |-> FALSE]
  /\ worker = [at |-> "check", from |-> 0, generation |-> 0, next |-> None,
               connected |-> 0, retried |-> FALSE, chunk |-> NoBlock, failures |-> 0]
  /\ reader = Returned(0)
  /\ \E kind \in Kinds :
       input = [kind |-> kind, gui |-> "free", target |-> None, generation |-> 0,
                request |-> None, interrupted |-> FALSE, asks |-> TRUE,
                failure |-> "none", calls |-> 0, pulls |-> 0]

-----------------------------------------------------------------------------
(* State: the window and its limits. *)

(* Slip: nothing is discarded. *)
KeptAll(blocks, wanted, end) == blocks

(* discard_consumed: what lies more than BACKWARD behind the reader goes. *)
Kept(blocks, wanted, end) ==
  {b \in blocks : b.end > Least(wanted, end) - BACKWARD}

(* retained() + reserve <= budget; blocks are adjacent, so what is
   retained reaches from the first of them to the end. *)
FitsBudget(reserve) ==
  /\ reserve <= buffer.ahead + BACKWARD
  /\ \A b \in buffer.blocks : buffer.end - b.start + reserve <= buffer.ahead + BACKWARD

(* Slip: only the read-ahead is limited. *)
CapacityAhead(reserve) ==
  buffer.end - buffer.wanted <= buffer.ahead - reserve /\ reserve <= buffer.ahead

HasCapacity(reserve) ==
  /\ FitsBudget(reserve)
  /\ buffer.end - buffer.wanted <= buffer.ahead - reserve
  /\ reserve <= buffer.ahead

CanReuse(position) ==
  /\ position >= buffer.end \/ \E b \in buffer.blocks : position >= b.start
  /\ position <= buffer.end + FORWARD

(* Control::reposition.  A position outside the window starts it anew, and
   with the generation goes the response of the worker. *)
Repositioned(position, requested) ==
  IF ~requested /\ position = buffer.wanted /\ buffer.active THEN buffer
  ELSE LET reuse == CanReuse(position) /\ buffer.phase # "failed"
           end == IF reuse THEN buffer.end ELSE position
       IN  [buffer EXCEPT !.requests = @ + 1,
                          !.generation = IF reuse THEN @ ELSE @ + 1,
                          !.end = end,
                          !.phase = IF reuse THEN @ ELSE "ready",
                          !.active = TRUE,
                          !.wanted = position,
                          !.blocks = IF reuse THEN Kept(@, position, end) ELSE {}]

(* Control::interrupt. *)
Interrupted == [buffer EXCEPT !.requests = @ + 1, !.active = FALSE]

(* The flag given to the cursor: the media input's own one, or that of the
   whole transport input, set when it is dropped. *)
CursorCancelled ==
  IF input.kind = "media" THEN input.interrupted
                          ELSE input.gui \in {"dropping", "released"}

-----------------------------------------------------------------------------
(* The worker: run and stream::next. *)

Reserve == Least(RANGE, SIZE - buffer.end)

(* Slip: the response survives a jump. *)
AnyConnection == IF buffer.end < SIZE THEN worker.next ELSE None

(* The response kept from the previous chunk. *)
KeptConnection ==
  IF worker.connected = buffer.generation /\ ~CursorCancelled /\ buffer.end < SIZE
  THEN worker.next ELSE None

(* Slip: a fetch that was cancelled while retrying is not taken up again. *)
FetchWhenReady ==
  /\ ~CursorCancelled /\ buffer.active /\ buffer.phase = "ready"
  /\ buffer.end < SIZE /\ HasCapacity(Reserve)

MayFetch ==
  /\ ~CursorCancelled
  /\ buffer.active
  /\ buffer.phase # "failed"
  /\ buffer.end < SIZE
  /\ HasCapacity(Reserve)

StartFetch ==
  /\ worker.at = "check" /\ ~buffer.stopped /\ MayFetch
  /\ worker' = [worker EXCEPT !.at = "fetching", !.from = buffer.end,
                              !.generation = buffer.generation,
                              !.next = KeptConnection,
                              !.connected = buffer.generation, !.retried = FALSE]
  /\ UNCHANGED <<buffer, reader, input>>

(* Nothing to do now: a connection that is no longer good is closed. *)
CloseConnection ==
  /\ worker.at = "check" /\ ~buffer.stopped /\ ~MayFetch
  /\ worker.next # KeptConnection
  /\ worker' = [worker EXCEPT !.next = None, !.connected = buffer.generation]
  /\ UNCHANGED <<buffer, reader, input>>

StopWorker ==
  /\ worker.at = "check" /\ buffer.stopped
  /\ worker' = [worker EXCEPT !.at = "gone"]
  /\ UNCHANGED <<buffer, reader, input>>

(* A new GET, verified by its status and headers.  It starts a little
   earlier at the end of the file, where one byte is no valid range. *)
OpenResponse ==
  /\ worker.at = "fetching" /\ worker.next = None
  /\ worker' = [worker EXCEPT !.next = Least(worker.from, SIZE - PROBE)]
  /\ UNCHANGED <<buffer, reader, input>>

(* Slip: the chunk is not held against the size of the file. *)
ChunkUnchecked(sent) ==
  /\ worker.at = "fetching" /\ worker.next # None
  /\ worker' = [worker EXCEPT !.at = "received", !.next = @ + sent,
                 !.chunk = [start |-> worker.from, end |-> worker.from + sent,
                            origin |-> worker.from]]
  /\ UNCHANGED <<buffer, reader, input>>

(* A chunk of the response; what lies before the wanted position of it, or
   all of it, is skipped. *)
Chunk(sent) ==
  /\ worker.at = "fetching" /\ worker.next # None
  /\ LET size == Least(sent, SIZE - worker.next)
         next == worker.next + size
         skip == IF worker.from > worker.next THEN Least(worker.from - worker.next, size) ELSE 0
     IN  worker' =
           IF skip = size THEN [worker EXCEPT !.next = next]
           ELSE [worker EXCEPT !.at = "received", !.next = next,
                               !.chunk = [start |-> worker.from,
                                          end |-> worker.from + size - skip,
                                          origin |-> worker.next + skip]]
  /\ UNCHANGED <<buffer, reader, input>>

(* recover: the first transient failure of a fetch is reported, and the
   request repeated on a new connection until the deadline. *)
Transient ==
  /\ worker.at = "fetching" /\ worker.failures < MaxFailures
  /\ worker' = [worker EXCEPT !.next = None, !.retried = TRUE, !.failures = @ + 1]
  /\ buffer' = IF ~worker.retried /\ buffer.generation = worker.generation
               THEN [buffer EXCEPT !.phase = "retrying"] ELSE buffer
  /\ UNCHANGED <<reader, input>>

(* A permanent failure, or the deadline of the recovery. *)
Permanent ==
  /\ worker.at = "fetching" /\ worker.failures < MaxFailures
  /\ worker' = [worker EXCEPT !.at = "failed", !.next = None, !.failures = @ + 1]
  /\ UNCHANGED <<buffer, reader, input>>

(* run_cancellable. *)
CancelFetch ==
  /\ worker.at = "fetching"
  /\ buffer.stopped \/ CursorCancelled \/ buffer.generation # worker.generation
  /\ worker' = [worker EXCEPT !.at = "cancelled", !.next = None]
  /\ UNCHANGED <<buffer, reader, input>>

Stored ==
  [buffer EXCEPT !.end = worker.chunk.end,
                 !.blocks = Kept(@ \cup {worker.chunk}, buffer.wanted, worker.chunk.end),
                 !.phase = "ready"]

(* Slip: a result is stored whoever asked for it. *)
StoreAlways ==
  /\ worker.at \in {"received", "cancelled", "failed"}
  /\ buffer' = CASE worker.at = "received" -> Stored
                 [] worker.at = "cancelled" -> buffer
                 [] worker.at = "failed" -> [buffer EXCEPT !.phase = "failed"]
  /\ worker' = [worker EXCEPT !.at = "check", !.from = 0, !.generation = 0,
                              !.retried = FALSE, !.chunk = NoBlock]
  /\ UNCHANGED <<reader, input>>

(* The result of a fetch is for the generation that asked for it. *)
Store ==
  /\ worker.at \in {"received", "cancelled", "failed"}
  /\ LET current == buffer.generation = worker.generation
     IN  /\ buffer' = IF ~current THEN buffer
                      ELSE CASE worker.at = "received" -> Stored
                             [] worker.at = "cancelled" -> buffer
                             [] worker.at = "failed" -> [buffer EXCEPT !.phase = "failed"]
         /\ worker' = [worker EXCEPT !.at = "check", !.from = 0, !.generation = 0,
                                     !.retried = FALSE, !.chunk = NoBlock,
                                     !.next = IF current THEN @ ELSE None]
  /\ UNCHANGED <<reader, input>>

Fetch == OpenResponse \/ (\E sent \in Chunks : Chunk(sent)) \/ Transient
         \/ Permanent \/ CancelFetch

Worker == StartFetch \/ CloseConnection \/ StopWorker \/ Fetch \/ Store

-----------------------------------------------------------------------------
(* The reader. *)

(* Feeder::cancelled, or media's own check. *)
Cancelled ==
  \/ input.interrupted
  \/ input.kind = "transport" /\ reader.generation # input.generation

(* appsrc asks for data unless it is flushing; the callbacks are gone with
   the input. *)
Asked ==
  /\ reader.at = "idle" /\ input.asks
  /\ input.gui \notin {"flushed", "dropping", "released"}

NeedData ==
  /\ Asked
  /\ input' = [input EXCEPT !.asks = FALSE]
  /\ reader' = [reader EXCEPT !.at = "called", !.generation = input.generation]
  /\ UNCHANGED <<buffer, worker>>

(* The demuxer pulls another range: seek_data, in the same thread. *)
Pull(offset) ==
  /\ Asked
  /\ input.kind = "media" /\ input.pulls < MaxPulls /\ offset # reader.offset
  /\ input' = [input EXCEPT !.asks = FALSE, !.pulls = @ + 1]
  /\ reader' = [reader EXCEPT !.at = "called", !.offset = offset]
  /\ buffer' = Repositioned(offset, TRUE)
  /\ UNCHANGED worker

CallCancelled ==
  /\ reader.at = "called" /\ Cancelled
  /\ reader' = Returned(reader.offset)
  /\ UNCHANGED <<buffer, worker, input>>

(* Feeder::next takes the stored seek.  From here to the window's mutex the
   check is not repeated. *)
CheckCancelled ==
  /\ reader.at = "called" /\ ~Cancelled
  /\ reader' = [reader EXCEPT !.at = "checked",
                              !.offset = IF input.request = None THEN @ ELSE input.request]
  /\ input' = [input EXCEPT !.request = None]
  /\ UNCHANGED <<buffer, worker>>

(* Cursor::seek to the offset of the reader. *)
MoveCursor ==
  /\ reader.at = "checked"
  /\ buffer' = Repositioned(reader.offset, FALSE)
  /\ reader' = [reader EXCEPT !.at = "entering", !.position = reader.offset,
                              !.need = BLOCK, !.intact = TRUE]
  /\ UNCHANGED <<worker, input>>

(* Cursor::read: cancelled, at the end of the file, or Buffer::read. *)
EnterRead ==
  /\ reader.at = "entering"
  /\ reader' = IF CursorCancelled THEN [reader EXCEPT !.at = "broken", !.error = "cancelled"]
               ELSE IF reader.position >= SIZE THEN [reader EXCEPT !.at = "read"]
               ELSE [reader EXCEPT !.at = "waiting", !.request = buffer.requests]
  /\ UNCHANGED <<buffer, worker, input>>

(* Slip: a waiting read does not look at the cursor's flag. *)
SupersededByRequest ==
  buffer.requests # reader.request \/ ~buffer.active \/ reader.position # buffer.wanted

(* Another request came, or somebody interrupted this one. *)
Superseded ==
  \/ CursorCancelled
  \/ buffer.requests # reader.request
  \/ ~buffer.active
  \/ reader.position # buffer.wanted

ReadCancelled ==
  /\ reader.at = "waiting" /\ Superseded
  /\ reader' = [reader EXCEPT !.at = "broken", !.error = "cancelled"]
  /\ UNCHANGED <<buffer, worker, input>>

ReadFailed ==
  /\ reader.at = "waiting" /\ ~Superseded /\ buffer.phase = "failed"
  /\ reader' = [reader EXCEPT !.at = "broken", !.error = "failed"]
  /\ UNCHANGED <<buffer, worker, input>>

Holds(block, position) == block.start <= position /\ position < block.end

ReadServed ==
  /\ reader.at = "waiting" /\ ~Superseded /\ buffer.phase # "failed"
  /\ \E b \in buffer.blocks :
       /\ Holds(b, reader.position)
       /\ LET count == Least(reader.need, b.end - reader.position)
              position == reader.position + count
          IN  /\ reader' = [reader EXCEPT
                   !.position = position, !.need = @ - count,
                   !.at = IF count = reader.need THEN "read" ELSE "entering",
                   !.intact = @ /\ b.origin + (reader.position - b.start)
                                     = reader.offset + (BLOCK - reader.need)]
              /\ buffer' = [buffer EXCEPT !.wanted = position,
                                          !.blocks = Kept(@, position, buffer.end)]
  /\ UNCHANGED <<worker, input>>

(* The block, or the end of the stream, is pushed unless a seek came; then
   it is dropped, though the reader has moved on. *)
Deliver ==
  /\ reader.at = "read"
  /\ reader' = Returned(reader.position)
  /\ input' = [input EXCEPT !.asks = ~Cancelled /\ reader.position > reader.offset]
  /\ UNCHANGED <<buffer, worker>>

(* An error of the read: expected when it was cancelled, else the end of
   playback. *)
GiveUp ==
  /\ reader.at = "broken"
  /\ reader' = Returned(reader.offset)
  /\ input' = IF Cancelled THEN input ELSE [input EXCEPT !.failure = reader.error]
  /\ UNCHANGED <<buffer, worker>>

Reader == CallCancelled \/ CheckCancelled \/ MoveCursor \/ EnterRead
          \/ ReadCancelled \/ ReadFailed \/ ReadServed \/ Deliver \/ GiveUp

-----------------------------------------------------------------------------
(* The GUI thread. *)

(* begin_seek of the pad probe, for the seek event and again for the
   FLUSH_START it causes: a new generation first ... *)
SendSeek(target) ==
  /\ input.kind = "transport" /\ input.gui = "free" /\ input.calls < MaxCalls
  /\ input' = [input EXCEPT !.gui = "sending", !.generation = @ + 1,
                            !.target = target, !.calls = @ + 1]
  /\ UNCHANGED <<buffer, worker, reader>>

FlushStart ==
  /\ input.gui = "sent"
  /\ input' = [input EXCEPT !.gui = "flushing", !.generation = @ + 1]
  /\ UNCHANGED <<buffer, worker, reader>>

(* ... then the interruption of the read. *)
InterruptRead ==
  /\ input.gui \in {"sending", "flushing"}
  /\ buffer' = Interrupted
  /\ input' = [input EXCEPT !.gui = IF @ = "sending" THEN "sent" ELSE "flushed"]
  /\ UNCHANGED <<worker, reader>>

(* The flush waits for the streaming thread; then seek_data stores the
   target, and appsrc asks again. *)
SeekData ==
  /\ input.gui = "flushed" /\ reader.at = "idle"
  /\ input' = [input EXCEPT !.gui = "free", !.request = input.target,
                            !.target = None, !.asks = TRUE]
  /\ UNCHANGED <<buffer, worker, reader>>

(* Control::duration, with every poll: the estimate may change. *)
Duration(ahead) ==
  /\ input.gui = "free" /\ buffer.ahead # ahead
  /\ buffer' = [buffer EXCEPT !.ahead = ahead]
  /\ UNCHANGED <<worker, reader, input>>

(* Session::stop_with: suspend, then the native stop, which waits for the
   streaming thread or fails. *)
Suspend ==
  /\ input.gui = "free" /\ input.calls < MaxCalls
  /\ input' = [input EXCEPT !.gui = "stopping", !.interrupted = TRUE, !.calls = @ + 1]
  /\ buffer' = IF input.kind = "transport" THEN Interrupted ELSE buffer
  /\ UNCHANGED <<worker, reader>>

StopFails ==
  /\ input.gui = "stopping"
  /\ input' = [input EXCEPT !.gui = "free", !.interrupted = FALSE]
  /\ UNCHANGED <<buffer, worker, reader>>

(* Buffer::drop tells the worker, and joins it. *)
DropInput ==
  /\ input.gui = "stopping" /\ reader.at = "idle"
  /\ input' = [input EXCEPT !.gui = "dropping"]
  /\ buffer' = [buffer EXCEPT !.stopped = TRUE]
  /\ UNCHANGED <<worker, reader>>

Joined ==
  /\ input.gui = "dropping" /\ worker.at = "gone"
  /\ input' = [input EXCEPT !.gui = "released"]
  /\ UNCHANGED <<buffer, worker, reader>>

Call == FlushStart \/ InterruptRead \/ SeekData \/ DropInput \/ Joined

Next ==
  \/ Worker \/ Reader \/ NeedData \/ Call \/ Suspend \/ StopFails
  \/ \E target \in Targets : SendSeek(target) \/ Pull(target)
  \/ \E ahead \in Estimates : Duration(ahead)

Spec == Init /\ [][Next]_vars

(* The worker and the streaming thread run, a server that is asked answers
   or the deadline passes, GStreamer completes the GUI thread's calls. *)
LiveSpec ==
  Spec /\ WF_vars(StartFetch) /\ WF_vars(Fetch) /\ WF_vars(Store) /\ WF_vars(StopWorker)
       /\ WF_vars(Reader) /\ WF_vars(Call)

-----------------------------------------------------------------------------
(* Properties. *)

(* What the window holds at an offset are the bytes of that offset, and so
   are those handed to the demuxer, whatever connection they came over and
   however often the reader moved ("do not splice bytes"). *)
BytesInPlace ==
  /\ \A b \in buffer.blocks : b.origin = b.start
  /\ reader.intact

(* The window has neither gaps nor overlaps from its first block to its
   end, and the reader stands in it or no further ahead of its end than it
   may wait for: what has_capacity and can_reuse count on. *)
WindowIntact ==
  /\ \A b \in buffer.blocks : \A p \in b.start .. buffer.end - 1 :
       \E c \in buffer.blocks : Holds(c, p)
  /\ \A b, c \in buffer.blocks : b # c => b.end <= c.start \/ c.end <= b.start
  /\ \A b \in buffer.blocks : b.start < b.end /\ b.end <= buffer.end
  /\ CanReuse(buffer.wanted)

(* The assertion of run: what is retained never exceeds MAX, with the chunk
   on its way included, through every change of the estimate. *)
WithinBudget ==
  \A b \in buffer.blocks :
    buffer.end - b.start
      + (IF worker.at \in {"fetching", "received"} /\ worker.generation = buffer.generation
         THEN Reserve ELSE 0) <= MAX

(* The window is a stretch of the file, the right bytes and each of them once,
   and with the chunk on its way it fits in MAX_BYTES. *)
WindowIsTrue == BytesInPlace /\ WindowIntact /\ WithinBudget

(* A reader that lacks bytes is never left with a worker that waits for
   room: it would wait for the reader, and the reader for it. *)
ReaderIsServed ==
  reader.at = "waiting" /\ ~Superseded /\ buffer.phase # "failed" =>
    \/ \E b \in buffer.blocks : Holds(b, reader.position)
    \/ MayFetch

(* A read ends, with bytes, an error or its cancellation, and so do the GUI
   thread's calls that wait for it: the flush of a seek, the stop, and the
   join of the worker when the input is dropped. *)
CallsReturn ==
  /\ reader.at = "waiting" ~> reader.at # "waiting"
  /\ input.gui \notin {"free", "released"} ~> input.gui \in {"free", "released"}

(* Playback whose clock was stopped for want of data goes on or fails. *)
Starved ==
  ~buffer.stopped /\ buffer.phase = "retrying" /\ buffer.wanted >= buffer.end
StarvationEnds == Starved ~> ~Starved

(* Neither a read, a call of the GUI thread nor a starved clock waits for
   ever. *)
NobodyWaitsForever == CallsReturn /\ StarvationEnds
=============================================================================
