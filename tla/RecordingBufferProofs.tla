----------------------- MODULE RecordingBufferProofs -----------------------
(***************************************************************************)
(* Proofs about RecordingBuffer for every size of file, window and chunk,  *)
(* any number of seeks and failures: the types, that bytes are in place,   *)
(* the shape and the budget of the window, and that reader and worker do   *)
(* not wait for each other.                                                *)
(***************************************************************************)
EXTENDS RecordingBuffer, TLAPS

(* The window [blocks, end) of a reader at `wanted`. *)
WindowOf(blocks, end, wanted) ==
  /\ \A b \in blocks : /\ b \in Block /\ b.origin = b.start
                       /\ b.start < b.end /\ b.end <= end /\ b.end - b.start <= RANGE
  /\ \A b \in blocks : \A p \in b.start .. end - 1 : \E c \in blocks : Holds(c, p)
  /\ \A b, c \in blocks : b # c => b.end <= c.start \/ c.end <= b.start
  /\ wanted >= end \/ \E b \in blocks : wanted >= b.start
  /\ wanted <= end + FORWARD

WindowInv ==
  /\ WindowOf(buffer.blocks, buffer.end, buffer.wanted)
  /\ \A b \in buffer.blocks : b.end > Least(buffer.wanted, buffer.end) - BACKWARD

(* The worker's connection stands where its next chunk belongs, unless
   the window has started anew since: then the generations tell. *)
WorkerInv ==
  /\ worker.next \in -1 .. SIZE
  /\ worker.generation <= buffer.generation /\ worker.connected <= buffer.generation
  /\ worker.at = "check" /\ worker.next # None /\ worker.connected = buffer.generation =>
       worker.next = buffer.end
  /\ worker.at \in {"fetching", "received", "cancelled", "failed"} =>
       /\ worker.connected = worker.generation
       /\ worker.generation = buffer.generation => buffer.end = worker.from
  /\ worker.at = "fetching" =>
       worker.from < SIZE /\ (worker.next # None => worker.next <= worker.from)
  /\ worker.at = "received" =>
       /\ worker.chunk.start = worker.from /\ worker.chunk.origin = worker.from
       /\ worker.from < worker.chunk.end /\ worker.chunk.end <= SIZE
       /\ worker.chunk.end <= worker.from + RANGE
       /\ worker.next = worker.chunk.end
  /\ worker.at \in {"cancelled", "failed"} => worker.next = None

(* What is retained and what is on its way. *)
BudgetInv ==
  \A b \in buffer.blocks :
    /\ buffer.end - b.start <= MAX
    /\ worker.at \in {"fetching", "received"} /\ worker.generation = buffer.generation =>
         buffer.end - b.start + Reserve <= MAX

(* The reader has delivered what its call still lacks of a block. *)
ReaderInv ==
  /\ reader.intact
  /\ reader.at \in {"entering", "waiting"} =>
       reader.position = reader.offset + (BLOCK - reader.need)
  /\ reader.at = "waiting" => reader.position < SIZE

IInv == TypeOK /\ WindowInv /\ WorkerInv /\ BudgetInv /\ ReaderInv

-----------------------------------------------------------------------------
(* The window. *)

LEMMA LeastFacts ==
  ASSUME NEW a \in Int, NEW b \in Int
  PROVE  Least(a, b) \in Int /\ Least(a, b) <= a /\ Least(a, b) <= b
         /\ (Least(a, b) = a \/ Least(a, b) = b)
  BY DEF Least

(* Discarding what lies behind the reader leaves a window: the block that
   holds a position is the last to go of those before it. *)
LEMMA KeptWindow ==
  ASSUME NEW blocks, NEW end \in Nat, NEW old \in Nat, NEW wanted \in Nat,
         WindowOf(blocks, end, old),
         wanted >= end \/ \E b \in blocks : wanted >= b.start,
         wanted <= end + FORWARD
  PROVE  /\ WindowOf(Kept(blocks, wanted, end), end, wanted)
         /\ \A b \in Kept(blocks, wanted, end) : b.end > Least(wanted, end) - BACKWARD
<1> DEFINE kept == Kept(blocks, wanted, end)
           line == Least(wanted, end) - BACKWARD
<1> BACKWARD \in Nat \ {0} /\ FORWARD \in Nat
  BY SizesAssumption
<1>1. kept = {b \in blocks : b.end > line}
  BY DEF Kept
<1>2. line \in Int /\ line < wanted /\ line < end
  BY DEF Least
<1> HIDE DEF kept, line
<1>3. \A b \in blocks : b \in Block /\ b.start \in Nat /\ b.end \in Nat
  BY DEF WindowOf, Block
<1>4. ASSUME NEW b \in kept, NEW p \in b.start .. end - 1
      PROVE  \E c \in kept : Holds(c, p)
  <2>1. b \in blocks /\ b.end > line
    BY <1>1
  <2>2. PICK c \in blocks : Holds(c, p)
    BY <2>1 DEF WindowOf
  <2>3. c = b \/ b.end <= c.start \/ c.end <= b.start
    BY <2>1, <2>2 DEF WindowOf
  <2>4. c.start <= p /\ p < c.end
    BY <2>2 DEF Holds
  <2>5. c.end > line
    BY <2>1, <2>3, <2>4, <1>2, <1>3
  <2>6. QED
    BY <2>2, <2>5, <1>1
<1>5. wanted >= end \/ \E b \in kept : wanted >= b.start
  <2>1. SUFFICES ASSUME wanted < end PROVE \E b \in kept : wanted >= b.start
    OBVIOUS
  <2>2. PICK b \in blocks : wanted >= b.start
    BY <2>1
  <2>3. wanted \in b.start .. end - 1
    BY <2>1, <2>2, <1>3
  <2>4. PICK c \in blocks : Holds(c, wanted)
    BY <2>2, <2>3 DEF WindowOf
  <2>5. c.start <= wanted /\ c.end > line
    BY <2>4, <1>2, <1>3 DEF Holds
  <2>6. QED
    BY <2>4, <2>5, <1>1
<1>6. WindowOf(kept, end, wanted)
  BY <1>1, <1>4, <1>5 DEF WindowOf
<1>7. QED
  BY <1>1, <1>6 DEF kept, line

(* A chunk that begins where the window ends continues it. *)
LEMMA GrownWindow ==
  ASSUME NEW blocks, NEW end \in Nat, NEW wanted \in Nat, NEW chunk \in Block,
         WindowOf(blocks, end, wanted),
         chunk.start = end, chunk.origin = end, end < chunk.end, chunk.end - end <= RANGE
  PROVE  WindowOf(blocks \cup {chunk}, chunk.end, wanted)
<1>1. \A b \in blocks : b \in Block /\ b.start \in Nat /\ b.end \in Nat /\ b.end <= end
  BY DEF WindowOf, Block
<1>2. chunk.start \in Nat /\ chunk.end \in Nat /\ FORWARD \in Nat
  BY SizesAssumption DEF Block
<1>3. ASSUME NEW b \in blocks \cup {chunk}, NEW p \in b.start .. chunk.end - 1
      PROVE  \E c \in blocks \cup {chunk} : Holds(c, p)
  <2>1. CASE p < end
    <3>1. b \in blocks /\ p \in b.start .. end - 1
      BY <2>1, <1>1, <1>2
    <3>2. QED
      BY <3>1 DEF WindowOf
  <2>2. CASE p >= end
    BY <2>2, <1>1, <1>2 DEF Holds
  <2>3. QED
    BY <2>1, <2>2, <1>1, <1>2
<1>4. ASSUME NEW b \in blocks \cup {chunk}, NEW c \in blocks \cup {chunk}, b # c
      PROVE  b.end <= c.start \/ c.end <= b.start
  BY <1>1, <1>4 DEF WindowOf
<1>5. \A b \in blocks \cup {chunk} :
        /\ b \in Block /\ b.origin = b.start
        /\ b.start < b.end /\ b.end <= chunk.end /\ b.end - b.start <= RANGE
  BY <1>1, <1>2 DEF WindowOf
<1>6. /\ wanted >= chunk.end \/ \E b \in blocks \cup {chunk} : wanted >= b.start
      /\ wanted <= chunk.end + FORWARD
  BY <1>1, <1>2 DEF WindowOf
<1>7. QED
  BY <1>3, <1>4, <1>5, <1>6 DEF WindowOf

LEMMA EmptyWindow ==
  ASSUME NEW position \in Nat
  PROVE  WindowOf({}, position, position)
  BY SizesAssumption DEF WindowOf

-----------------------------------------------------------------------------
(* The buffer. *)

BufferOK ==
  buffer \in [wanted : 0 .. SIZE, end : 0 .. SIZE, active : BOOLEAN,
              ahead : Estimates, blocks : SUBSET Block,
              phase : {"ready", "retrying", "failed"},
              generation : Nat, requests : Nat, stopped : BOOLEAN]

(* The window moves within the generation or starts anew in the next. *)
Moved ==
  \/ /\ buffer'.generation = buffer.generation /\ buffer'.end = buffer.end
     /\ buffer'.blocks \subseteq buffer.blocks
  \/ buffer'.generation = buffer.generation + 1 /\ buffer'.blocks = {}

LEMMA SizeFacts ==
  /\ SIZE \in Nat /\ RANGE \in Nat \ {0} /\ BACKWARD \in Nat \ {0} /\ FORWARD \in Nat
  /\ PROBE \in Nat \ {0} /\ PROBE <= SIZE /\ BLOCK \in Nat \ {0} /\ MAX \in Nat
  /\ SIZE > 0 /\ RANGE <= MAX
  /\ \A ahead \in Estimates : ahead \in Nat /\ RANGE <= ahead /\ ahead + BACKWARD <= MAX
<1>1. PICK ahead \in Estimates : ahead \in Nat /\ RANGE <= ahead /\ ahead + BACKWARD <= MAX
  BY EstimatesAssumption
<1>2. QED
  BY <1>1, SizesAssumption, EstimatesAssumption

LEMMA RepositionStep ==
  ASSUME IInv, NEW position \in 0 .. SIZE, NEW requested \in BOOLEAN,
         buffer' = Repositioned(position, requested)
  PROVE  BufferOK' /\ WindowInv' /\ Moved
<1>1. BufferOK
  BY DEF IInv, TypeOK, BufferOK
<1>2. CASE buffer' = buffer
  BY <1>1, <1>2 DEF IInv, WindowInv, BufferOK, Moved
<1>3. CASE CanReuse(position) /\ buffer' = [buffer EXCEPT
             !.requests = @ + 1, !.active = TRUE, !.wanted = position,
             !.blocks = Kept(@, position, buffer.end)]
  <2>1. /\ WindowOf(Kept(buffer.blocks, position, buffer.end), buffer.end, position)
        /\ \A b \in Kept(buffer.blocks, position, buffer.end) :
             b.end > Least(position, buffer.end) - BACKWARD
    BY <1>1, <1>3, KeptWindow DEF IInv, WindowInv, BufferOK, CanReuse
  <2>2. Kept(buffer.blocks, position, buffer.end) \subseteq buffer.blocks
    BY DEF Kept
  <2>3. /\ buffer'.generation = buffer.generation /\ buffer'.end = buffer.end
        /\ buffer'.wanted = position
        /\ buffer'.blocks = Kept(buffer.blocks, position, buffer.end)
    BY <1>1, <1>3 DEF BufferOK
  <2>4. BufferOK'
    <3>1. Kept(buffer.blocks, position, buffer.end) \in SUBSET Block
      BY <1>1, <2>2 DEF BufferOK
    <3>2. buffer.requests + 1 \in Nat /\ position \in 0 .. SIZE
      BY <1>1 DEF BufferOK
    <3>3. QED
      BY <1>1, <1>3, <3>1, <3>2 DEF BufferOK
  <2>5. QED
    BY <2>1, <2>2, <2>3, <2>4 DEF WindowInv, Moved
<1>4. CASE buffer' = [buffer EXCEPT !.requests = @ + 1, !.generation = @ + 1,
             !.end = position, !.phase = "ready", !.active = TRUE, !.wanted = position,
             !.blocks = {}]
  <2>1. /\ buffer'.generation = buffer.generation + 1 /\ buffer'.end = position
        /\ buffer'.wanted = position /\ buffer'.blocks = {}
    BY <1>1, <1>4 DEF BufferOK
  <2>2. BufferOK'
    <3>1. /\ buffer.requests + 1 \in Nat /\ buffer.generation + 1 \in Nat
          /\ position \in 0 .. SIZE /\ {} \in SUBSET Block
      BY <1>1 DEF BufferOK
    <3>2. QED
      BY <1>1, <1>4, <3>1 DEF BufferOK
  <2>3. QED
    BY <2>1, <2>2, EmptyWindow DEF WindowInv, Moved
<1>5. buffer' = buffer \/ buffer' = [buffer EXCEPT !.requests = @ + 1,
        !.generation = IF CanReuse(position) /\ buffer.phase # "failed" THEN @ ELSE @ + 1,
        !.end = IF CanReuse(position) /\ buffer.phase # "failed" THEN buffer.end ELSE position,
        !.phase = IF CanReuse(position) /\ buffer.phase # "failed" THEN @ ELSE "ready",
        !.active = TRUE, !.wanted = position,
        !.blocks = IF CanReuse(position) /\ buffer.phase # "failed"
                   THEN Kept(@, position, IF CanReuse(position) /\ buffer.phase # "failed"
                                          THEN buffer.end ELSE position) ELSE {}]
  BY Zenon DEF Repositioned
<1>6. CASE CanReuse(position) /\ buffer.phase # "failed"
  <2>1. buffer' = buffer \/ buffer' = [buffer EXCEPT !.requests = @ + 1,
          !.generation = @, !.end = buffer.end, !.phase = @, !.active = TRUE,
          !.wanted = position, !.blocks = Kept(@, position, buffer.end)]
    BY <1>5, <1>6
  <2>2. buffer' = buffer \/ buffer' = [buffer EXCEPT
          !.requests = @ + 1, !.active = TRUE, !.wanted = position,
          !.blocks = Kept(@, position, buffer.end)]
    BY <1>1, <2>1 DEF BufferOK
  <2>3. QED
    BY <1>2, <1>3, <1>6, <2>2
<1>7. CASE ~(CanReuse(position) /\ buffer.phase # "failed")
  <2>1. buffer' = buffer \/ buffer' = [buffer EXCEPT !.requests = @ + 1,
          !.generation = @ + 1, !.end = position, !.phase = "ready", !.active = TRUE,
          !.wanted = position, !.blocks = {}]
    BY <1>5, <1>7
  <2>2. QED
    BY <1>2, <1>4, <2>1
<1>8. QED
  BY <1>6, <1>7

(* The worker does not notice, or it is of an earlier generation. *)
LEMMA MovedKeeps ==
  ASSUME IInv, BufferOK', Moved, UNCHANGED worker
  PROVE  WorkerInv' /\ BudgetInv'
<1>1. BufferOK /\ worker.generation \in Nat /\ worker.connected \in Nat
  BY DEF IInv, TypeOK, BufferOK
<1>2. buffer.generation \in Nat
  BY <1>1 DEF BufferOK
<1>3. WorkerInv'
  BY <1>1, <1>2 DEF IInv, WorkerInv, Moved
<1>4. BudgetInv'
  BY <1>1, <1>2 DEF IInv, BudgetInv, WorkerInv, Moved, Reserve
<1>5. QED
  BY <1>3, <1>4

-----------------------------------------------------------------------------
(* The types of the threads. *)

WorkerOK ==
  worker \in [at : {"check", "fetching", "received", "cancelled", "failed", "gone"},
              from : 0 .. SIZE, generation : Nat, next : Int,
              connected : Nat, retried : BOOLEAN, chunk : Block, failures : Nat]

ReaderOK ==
  reader \in [at : {"idle", "called", "checked", "entering", "waiting", "read", "broken"},
              offset : 0 .. SIZE, position : 0 .. SIZE, need : 0 .. BLOCK,
              generation : Nat, request : Nat,
              error : {"none", "cancelled", "failed"}, intact : BOOLEAN]

InputOK ==
  input \in [kind : Kinds,
             gui : {"free", "sending", "sent", "flushing", "flushed",
                    "stopping", "dropping", "released"},
             target : Targets \cup {None}, generation : Nat,
             request : Targets \cup {None}, interrupted : BOOLEAN,
             asks : BOOLEAN, failure : {"none", "cancelled", "failed"},
             calls : 0 .. MaxCalls, pulls : 0 .. MaxPulls]

LEMMA Types == TypeOK <=> BufferOK /\ WorkerOK /\ ReaderOK /\ InputOK
  BY DEF TypeOK, BufferOK, WorkerOK, ReaderOK, InputOK

LEMMA TypesNext == TypeOK' <=> BufferOK' /\ WorkerOK' /\ ReaderOK' /\ InputOK'
  BY DEF TypeOK, BufferOK, WorkerOK, ReaderOK, InputOK

LEMMA NoBlockOK == NoBlock \in Block
  BY DEF NoBlock, Block

LEMMA TargetFacts ==
  /\ \A target \in Targets : target \in 0 .. SIZE
  /\ Targets \subseteq 0 .. SIZE - 1 /\ MaxCalls \in Nat /\ MaxPulls \in Nat
  BY SizesAssumption, UsersAssumption DEF None

-----------------------------------------------------------------------------
(* Steps of the worker alone. *)

LEMMA InitInv == Init => IInv
<1> SUFFICES ASSUME Init PROVE IInv
  OBVIOUS
<1>1. PICK ahead \in Estimates :
        buffer = [wanted |-> 0, end |-> 0, active |-> TRUE, ahead |-> ahead,
                  blocks |-> {}, phase |-> "ready", generation |-> 0,
                  requests |-> 0, stopped |-> FALSE]
  BY DEF Init
<1>2. PICK kind \in Kinds :
        input = [kind |-> kind, gui |-> "free", target |-> None, generation |-> 0,
                 request |-> None, interrupted |-> FALSE, asks |-> TRUE,
                 failure |-> "none", calls |-> 0, pulls |-> 0]
  BY DEF Init
<1>3. BufferOK
  BY <1>1, SizeFacts DEF BufferOK
<1>4. WorkerOK
  BY SizeFacts, NoBlockOK DEF Init, WorkerOK, None
<1>5. ReaderOK
  BY SizeFacts DEF Init, ReaderOK, Returned
<1>6. InputOK
  BY <1>2, TargetFacts DEF InputOK
<1>7. WindowInv
  BY <1>1, SizeFacts, EmptyWindow DEF WindowInv
<1>8. WorkerInv
  BY <1>1, SizeFacts DEF Init, WorkerInv, None
<1>9. BudgetInv
  BY <1>1 DEF BudgetInv
<1>10. ReaderInv
  BY DEF Init, ReaderInv, Returned
<1>11. QED
  BY <1>3, <1>4, <1>5, <1>6, <1>7, <1>8, <1>9, <1>10, Types DEF IInv

LEMMA StartFetchStep ==
  ASSUME IInv, StartFetch
  PROVE  WorkerOK' /\ WorkerInv' /\ BudgetInv'
<1>1. BufferOK /\ WorkerOK
  BY Types DEF IInv
<1>2. /\ worker.at = "check" /\ buffer.end < SIZE /\ UNCHANGED buffer
      /\ worker' = [worker EXCEPT !.at = "fetching", !.from = buffer.end,
                                  !.generation = buffer.generation,
                                  !.next = KeptConnection,
                                  !.connected = buffer.generation, !.retried = FALSE]
  BY DEF StartFetch, MayFetch
<1>3. HasCapacity(Reserve)
  BY DEF StartFetch, MayFetch
<1>4. KeptConnection \in {None, buffer.end}
  BY <1>1, <1>2 DEF KeptConnection, IInv, WorkerInv
<1>5. KeptConnection \in Int
  BY <1>1, <1>4 DEF BufferOK, None
<1>6. WorkerOK'
  BY <1>1, <1>2, <1>5 DEF WorkerOK, BufferOK
<1>7. WorkerInv'
  BY <1>1, <1>2, <1>4, SizeFacts DEF WorkerInv, WorkerOK, BufferOK, None
<1>8. BudgetInv'
  <2>1. Reserve' = Reserve /\ Reserve \in Int
    BY <1>1, <1>2, SizeFacts DEF Reserve, Least, BufferOK
  <2>2. \A b \in buffer.blocks :
          buffer.end - b.start + Reserve <= buffer.ahead + BACKWARD
    BY <1>3 DEF HasCapacity, FitsBudget
  <2>3. buffer.ahead \in Nat /\ buffer.ahead + BACKWARD <= MAX
    BY <1>1, SizeFacts DEF BufferOK
  <2>4. \A b \in buffer.blocks : b.start \in Nat
    BY <1>1 DEF BufferOK, Block
  <2>5. \A b \in buffer.blocks : buffer.end - b.start + Reserve <= MAX
    BY <1>1, <2>1, <2>2, <2>3, <2>4, SizeFacts DEF BufferOK
  <2>6. QED
    BY <1>2, <2>1, <2>5 DEF BudgetInv, IInv
<1>9. QED
  BY <1>6, <1>7, <1>8

LEMMA CloseStep ==
  ASSUME IInv, CloseConnection \/ StopWorker
  PROVE  WorkerOK' /\ WorkerInv' /\ BudgetInv'
<1>1. BufferOK /\ WorkerOK
  BY Types DEF IInv
<1>2. UNCHANGED buffer /\ worker.at = "check"
      /\ \/ worker' = [worker EXCEPT !.next = None, !.connected = buffer.generation]
         \/ worker' = [worker EXCEPT !.at = "gone"]
  BY DEF CloseConnection, StopWorker
<1>3. WorkerOK' /\ WorkerInv'
  <2>1. CASE worker' = [worker EXCEPT !.next = None, !.connected = buffer.generation]
    <3>1. buffer.generation \in Nat /\ None \in Int /\ None = -1
      BY <1>1 DEF BufferOK, None
    <3>2. WorkerOK'
      BY <1>1, <2>1, <3>1 DEF WorkerOK
    <3>3. WorkerInv'
      BY <1>1, <1>2, <2>1, <3>1, SizeFacts DEF WorkerInv, WorkerOK, IInv
    <3>4. QED
      BY <3>2, <3>3
  <2>2. CASE worker' = [worker EXCEPT !.at = "gone"]
    BY <1>1, <1>2, <2>2 DEF WorkerInv, WorkerOK, IInv
  <2>3. QED
    BY <1>2, <2>1, <2>2
<1>5. BudgetInv'
  BY <1>1, <1>2 DEF BudgetInv, WorkerOK, IInv
<1>6. QED
  BY <1>3, <1>5

(* A fetch that gets or loses its connection goes on, or ends without a
   chunk. *)
LEMMA FetchGoesOn ==
  ASSUME IInv, UNCHANGED buffer, worker.at = "fetching",
         NEW next \in -1 .. worker.from, NEW at \in {"fetching", "cancelled", "failed"},
         at # "fetching" => next = None,
         NEW retried \in BOOLEAN, NEW failures \in Nat,
         worker' = [worker EXCEPT !.at = at, !.next = next, !.retried = retried,
                                  !.failures = failures]
  PROVE  WorkerOK' /\ WorkerInv' /\ BudgetInv'
<1>1. BufferOK /\ WorkerOK
  BY Types DEF IInv
<1>2. WorkerOK'
  <2>1. next \in Int /\ at \in {"check", "fetching", "received", "cancelled", "failed", "gone"}
    BY <1>1 DEF WorkerOK
  <2>2. QED
    BY <1>1, <2>1 DEF WorkerOK
<1>3. WorkerInv'
  BY <1>1, SizeFacts DEF WorkerInv, WorkerOK, None, IInv
<1>4. BudgetInv'
  BY <1>1 DEF BudgetInv, WorkerOK, IInv, Reserve
<1>5. QED
  BY <1>2, <1>3, <1>4

LEMMA FetchStep ==
  ASSUME IInv, OpenResponse \/ Permanent \/ CancelFetch
  PROVE  WorkerOK' /\ WorkerInv' /\ BudgetInv'
<1>1. BufferOK /\ WorkerOK /\ worker.at = "fetching" /\ UNCHANGED buffer
  BY Types DEF IInv, OpenResponse, Permanent, CancelFetch
<1>2. worker.retried \in BOOLEAN /\ worker.failures \in Nat /\ worker.failures + 1 \in Nat
      /\ worker.from \in 0 .. SIZE
  BY <1>1 DEF WorkerOK
<1>3. CASE OpenResponse
  <2>1. Least(worker.from, SIZE - PROBE) \in -1 .. worker.from
    BY <1>2, SizeFacts DEF Least
  <2>2. worker' = [worker EXCEPT !.at = "fetching", !.next = Least(worker.from, SIZE - PROBE),
                     !.retried = worker.retried, !.failures = worker.failures]
    BY <1>1, <1>3 DEF OpenResponse, WorkerOK
  <2>3. QED
    BY <1>1, <1>2, <2>1, <2>2, FetchGoesOn
<1>4. None \in -1 .. worker.from
  BY <1>2 DEF None
<1>5. CASE Permanent
  <2>1. worker' = [worker EXCEPT !.at = "failed", !.next = None,
                     !.retried = worker.retried, !.failures = worker.failures + 1]
    BY <1>1, <1>5 DEF Permanent, WorkerOK
  <2>2. QED
    BY <1>1, <1>2, <1>4, <2>1, FetchGoesOn
<1>6. CASE CancelFetch
  <2>1. worker' = [worker EXCEPT !.at = "cancelled", !.next = None,
                     !.retried = worker.retried, !.failures = worker.failures]
    BY <1>1, <1>6 DEF CancelFetch, WorkerOK
  <2>2. QED
    BY <1>1, <1>2, <1>4, <2>1, FetchGoesOn
<1>7. QED
  BY <1>3, <1>5, <1>6

LEMMA ChunkStep ==
  ASSUME IInv, NEW sent \in Chunks, Chunk(sent)
  PROVE  WorkerOK' /\ WorkerInv' /\ BudgetInv'
<1> DEFINE size == Least(sent, SIZE - worker.next)
           skip == IF worker.from > worker.next
                   THEN Least(worker.from - worker.next, size) ELSE 0
           chunk == [start |-> worker.from, end |-> worker.from + size - skip,
                     origin |-> worker.next + skip]
<1>1. BufferOK /\ WorkerOK
  BY Types DEF IInv
<1>2. /\ worker.at = "fetching" /\ UNCHANGED buffer
      /\ worker.next \in Nat /\ worker.from \in Nat
      /\ worker.next <= worker.from /\ worker.from < SIZE
  BY <1>1, SizeFacts DEF Chunk, IInv, WorkerInv, WorkerOK, None
<1>3. sent \in Nat /\ 1 <= sent /\ sent <= RANGE
  BY SizesAssumption
<1>4. size \in Nat /\ 1 <= size /\ size <= RANGE /\ worker.next + size <= SIZE
  BY <1>2, <1>3, SizeFacts DEF Least
<1>5. worker' = IF skip = size THEN [worker EXCEPT !.next = worker.next + size]
                ELSE [worker EXCEPT !.at = "received", !.next = worker.next + size,
                                    !.chunk = chunk]
  BY Zenon DEF Chunk
<1> HIDE DEF size
<1>6. CASE skip = size
  <2>1. worker.next + size \in -1 .. worker.from
    BY <1>2, <1>4, <1>6 DEF Least
  <2>2. worker' = [worker EXCEPT !.at = "fetching", !.next = worker.next + size,
                     !.retried = worker.retried, !.failures = worker.failures]
    BY <1>1, <1>2, <1>5, <1>6 DEF WorkerOK
  <2>3. worker.retried \in BOOLEAN /\ worker.failures \in Nat
    BY <1>1 DEF WorkerOK
  <2>4. QED
    BY <1>2, <2>1, <2>2, <2>3, FetchGoesOn
<1>7. CASE skip # size
  <2>1. skip = worker.from - worker.next
    BY <1>2, <1>4, <1>7 DEF Least
  <2>2. /\ chunk.start = worker.from /\ chunk.origin = worker.from
        /\ chunk.end = worker.next + size /\ worker.from < chunk.end
        /\ chunk.end <= worker.from + RANGE /\ chunk.end <= SIZE
        /\ chunk \in Block
    BY <1>2, <1>4, <1>7, <2>1, SizeFacts DEF Least, Block
  <2>3. worker' = [worker EXCEPT !.at = "received", !.next = worker.next + size,
                                 !.chunk = chunk]
    BY <1>5, <1>7
  <2> HIDE DEF chunk, skip
  <2>4. WorkerOK'
    <3>1. worker.next + size \in Int /\ chunk \in Block
      BY <1>2, <1>4, <2>2
    <3>2. QED
      BY <1>1, <2>3, <3>1 DEF WorkerOK
  <2>5. WorkerInv'
    BY <1>1, <1>2, <1>4, <2>2, <2>3, SizeFacts DEF WorkerInv, WorkerOK, IInv, None
  <2>6. BudgetInv'
    BY <1>1, <1>2, <2>3 DEF BudgetInv, WorkerOK, IInv, Reserve
  <2>7. QED
    BY <2>4, <2>5, <2>6
<1>8. QED
  BY <1>6, <1>7

-----------------------------------------------------------------------------
(* Steps of the worker that change the buffer. *)

(* Flags, estimate and phase say nothing about the window. *)
LEMMA FlagsKeepWindow ==
  ASSUME IInv, BufferOK',
         buffer'.blocks = buffer.blocks, buffer'.end = buffer.end,
         buffer'.wanted = buffer.wanted
  PROVE  WindowInv'
  BY DEF IInv, WindowInv

LEMMA TransientStep ==
  ASSUME IInv, Transient
  PROVE  BufferOK' /\ WorkerOK' /\ WindowInv' /\ WorkerInv' /\ BudgetInv'
<1>1. BufferOK /\ WorkerOK
  BY Types DEF IInv
<1>2. /\ worker.at = "fetching"
      /\ worker' = [worker EXCEPT !.next = None, !.retried = TRUE, !.failures = @ + 1]
      /\ buffer' = buffer \/ buffer' = [buffer EXCEPT !.phase = "retrying"]
  BY DEF Transient
<1>3. BufferOK' /\ buffer'.generation = buffer.generation /\ buffer'.end = buffer.end
      /\ buffer'.blocks = buffer.blocks /\ buffer'.wanted = buffer.wanted
  BY <1>1, <1>2 DEF BufferOK
<1>4. WorkerOK'
  <2>1. None \in Int /\ worker.failures + 1 \in Nat
    BY <1>1 DEF None, WorkerOK
  <2>2. QED
    BY <1>1, <1>2, <2>1 DEF WorkerOK
<1>5. WorkerInv'
  BY <1>1, <1>2, <1>3, SizeFacts DEF WorkerInv, WorkerOK, IInv, None
<1>6. BudgetInv'
  BY <1>1, <1>2, <1>3 DEF BudgetInv, WorkerOK, IInv, Reserve
<1>7. QED
  BY <1>3, <1>4, <1>5, <1>6, FlagsKeepWindow

(* A chunk of this generation begins where the window ends, and there was
   room for it when it was asked for. *)
LEMMA StoredWindow ==
  ASSUME IInv, worker.at = "received", buffer.generation = worker.generation,
         buffer' = Stored
  PROVE  /\ BufferOK' /\ WindowInv'
         /\ buffer'.generation = buffer.generation /\ buffer'.end = worker.chunk.end
         /\ \A b \in buffer'.blocks : buffer'.end - b.start <= MAX
<1> DEFINE chunk == worker.chunk
           grown == buffer.blocks \cup {chunk}
<1>1. BufferOK /\ WorkerOK
  BY Types DEF IInv
<1>2. /\ chunk \in Block /\ chunk.start = buffer.end /\ chunk.origin = buffer.end
      /\ buffer.end < chunk.end /\ chunk.end <= SIZE /\ chunk.end - buffer.end <= RANGE
      /\ buffer.end \in Nat /\ buffer.wanted \in Nat /\ chunk.end \in Nat
  <2>1. chunk \in Block /\ worker.from \in Nat /\ buffer.end \in Nat /\ buffer.wanted \in Nat
    BY <1>1 DEF WorkerOK, BufferOK
  <2>2. chunk.end \in Nat
    BY <2>1 DEF Block
  <2>3. buffer.end = worker.from
    BY DEF IInv, WorkerInv
  <2>4. QED
    BY <2>1, <2>2, <2>3, SizeFacts DEF IInv, WorkerInv
<1>3. WindowOf(grown, chunk.end, buffer.wanted)
  BY <1>2, GrownWindow DEF IInv, WindowInv
<1>4. /\ WindowOf(Kept(grown, buffer.wanted, chunk.end), chunk.end, buffer.wanted)
      /\ \A b \in Kept(grown, buffer.wanted, chunk.end) :
           b.end > Least(buffer.wanted, chunk.end) - BACKWARD
  BY <1>2, <1>3, KeptWindow DEF WindowOf
<1>5. /\ buffer'.wanted = buffer.wanted /\ buffer'.end = chunk.end
      /\ buffer'.blocks = Kept(grown, buffer.wanted, chunk.end)
      /\ buffer'.generation = buffer.generation
  BY <1>1 DEF Stored, BufferOK
<1>6. buffer'.blocks \subseteq grown
  BY <1>5 DEF Kept
<1>7. BufferOK'
  <2>1. buffer'.blocks \in SUBSET Block /\ chunk.end \in 0 .. SIZE
    BY <1>1, <1>2, <1>6 DEF BufferOK
  <2>2. buffer' = [buffer EXCEPT !.end = chunk.end, !.blocks = buffer'.blocks, !.phase = "ready"]
    BY <1>5 DEF Stored
  <2> DEFINE blocks == buffer'.blocks
  <2>3. blocks \in SUBSET Block /\ buffer' = [buffer EXCEPT !.end = chunk.end, !.blocks = blocks, !.phase = "ready"]
    BY <2>1, <2>2
  <2> HIDE DEF blocks
  <2>4. QED
    BY <1>1, <2>1, <2>3 DEF BufferOK
<1>8. ASSUME NEW b \in buffer'.blocks PROVE buffer'.end - b.start <= MAX
  <2>1. CASE b = chunk
    BY <2>1, <1>2, <1>5, SizeFacts
  <2>2. CASE b \in buffer.blocks
    <3>1. b.start \in Nat
      BY <1>1, <2>2 DEF BufferOK, Block
    <3>2. buffer.end - b.start + Reserve <= MAX
      BY <2>2 DEF IInv, BudgetInv
    <3>3. chunk.end - buffer.end <= Reserve /\ Reserve \in Int
      BY <1>2, SizeFacts DEF Reserve, Least
    <3>4. QED
      BY <1>2, <1>5, <3>1, <3>2, <3>3, SizeFacts
  <2>3. QED
    BY <1>6, <2>1, <2>2
<1>9. QED
  BY <1>4, <1>5, <1>7, <1>8 DEF WindowInv

LEMMA StoreStep ==
  ASSUME IInv, Store
  PROVE  BufferOK' /\ WorkerOK' /\ WindowInv' /\ WorkerInv' /\ BudgetInv'
<1>1. BufferOK /\ WorkerOK
  BY Types DEF IInv
<1>2. PICK next \in {worker.next, None} :
        /\ worker' = [worker EXCEPT !.at = "check", !.from = 0, !.generation = 0,
                        !.retried = FALSE, !.chunk = NoBlock, !.next = next]
        /\ next # None => buffer.generation = worker.generation
  BY DEF Store
<1>3. next \in -1 .. SIZE /\ next \in Int
  BY <1>1, SizeFacts DEF IInv, WorkerInv, None
<1>4. WorkerOK'
  <2>1. 0 \in 0 .. SIZE
    BY SizeFacts
  <2>2. QED
    BY <1>1, <1>2, <1>3, <2>1, NoBlockOK DEF WorkerOK
<1>5. worker'.at = "check" /\ worker'.generation = 0 /\ worker'.next = next
      /\ worker'.connected = worker.connected
  BY <1>1, <1>2 DEF WorkerOK
<1>6. CASE worker.at = "received" /\ buffer.generation = worker.generation
  <2>1. buffer' = Stored
    BY <1>6 DEF Store
  <2>2. /\ BufferOK' /\ WindowInv'
        /\ buffer'.generation = buffer.generation /\ buffer'.end = worker.chunk.end
        /\ \A b \in buffer'.blocks : buffer'.end - b.start <= MAX
    BY <1>6, <2>1, StoredWindow
  <2>3. next # None => next = buffer'.end
    BY <1>2, <1>6, <2>2 DEF IInv, WorkerInv
  <2>4. WorkerInv'
    BY <1>1, <1>3, <1>5, <2>2, <2>3 DEF WorkerInv, IInv, BufferOK
  <2>5. QED
    BY <1>4, <1>5, <2>2, <2>4 DEF BudgetInv
<1>7. CASE ~(worker.at = "received" /\ buffer.generation = worker.generation)
  <2>1. buffer' = buffer \/ buffer' = [buffer EXCEPT !.phase = "failed"]
    BY <1>7 DEF Store
  <2>2. BufferOK' /\ buffer'.generation = buffer.generation /\ buffer'.end = buffer.end
        /\ buffer'.blocks = buffer.blocks /\ buffer'.wanted = buffer.wanted
    BY <1>1, <2>1 DEF BufferOK
  <2>3. next = None
    BY <1>2, <1>7 DEF Store, IInv, WorkerInv
  <2>4. WorkerInv'
    BY <1>1, <1>3, <1>5, <2>2, <2>3 DEF WorkerInv, IInv, BufferOK
  <2>5. BudgetInv'
    BY <1>5, <2>2 DEF BudgetInv, IInv
  <2>6. QED
    BY <1>4, <2>2, <2>4, <2>5, FlagsKeepWindow
<1>8. QED
  BY <1>6, <1>7

-----------------------------------------------------------------------------
(* Steps of the reader. *)

(* Steps that leave buffer and worker alone. *)
LEMMA CallStep ==
  ASSUME IInv, CallCancelled \/ CheckCancelled \/ EnterRead \/ ReadCancelled
               \/ ReadFailed \/ Deliver \/ GiveUp \/ NeedData
  PROVE  ReaderOK' /\ InputOK' /\ ReaderInv' /\ UNCHANGED <<buffer, worker>>
<1>1. ReaderOK /\ InputOK /\ BufferOK
  BY Types DEF IInv
<1>2. CASE CallCancelled
  BY <1>1, <1>2, SizeFacts DEF CallCancelled, Returned, ReaderOK, InputOK, IInv, ReaderInv
<1>3. CASE CheckCancelled
  <2>1. input.request # None => input.request \in 0 .. SIZE
    <3>1. input.request # None => input.request \in Targets
      BY <1>1 DEF InputOK
    <3>2. QED
      BY <3>1, TargetFacts
  <2>2. PICK offset \in 0 .. SIZE : reader' = [reader EXCEPT !.at = "checked", !.offset = offset]
    BY <1>1, <1>3, <2>1 DEF CheckCancelled, ReaderOK
  <2>3. ReaderOK' /\ ReaderInv'
    BY <1>1, <2>2 DEF ReaderOK, ReaderInv, IInv
  <2>4. InputOK'
    BY <1>1, <1>3 DEF CheckCancelled, InputOK
  <2>5. QED
    BY <1>3, <2>3, <2>4 DEF CheckCancelled
<1>4. CASE EnterRead
  <2>1. buffer.requests \in Nat
    BY <1>1 DEF BufferOK
  <2>2. \/ reader' = [reader EXCEPT !.at = "broken", !.error = "cancelled"]
        \/ reader' = [reader EXCEPT !.at = "read"]
        \/ /\ reader.position < SIZE
           /\ reader' = [reader EXCEPT !.at = "waiting", !.request = buffer.requests]
    BY <1>1, <1>4, SizeFacts DEF EnterRead, ReaderOK
  <2>3. ReaderOK'
    BY <1>1, <2>1, <2>2 DEF ReaderOK
  <2>4. ReaderInv'
    BY <1>1, <1>4, <2>2 DEF EnterRead, ReaderOK, ReaderInv, IInv
  <2>5. QED
    BY <1>1, <1>4, <2>3, <2>4 DEF EnterRead, InputOK
<1>5. CASE ReadCancelled \/ ReadFailed
  <2>1. \E error \in {"cancelled", "failed"} :
          reader' = [reader EXCEPT !.at = "broken", !.error = error]
    BY <1>5 DEF ReadCancelled, ReadFailed
  <2>2. ReaderOK' /\ ReaderInv'
    BY <1>1, <2>1 DEF ReaderOK, ReaderInv, IInv
  <2>3. QED
    BY <1>1, <1>5, <2>2 DEF ReadCancelled, ReadFailed, InputOK
<1>6. CASE Deliver
  <2>1. reader.position \in 0 .. SIZE
    BY <1>1 DEF ReaderOK
  <2>2. ReaderOK' /\ ReaderInv'
    BY <1>6, <2>1, SizeFacts DEF Deliver, Returned, ReaderOK, ReaderInv
  <2>3. PICK asks \in BOOLEAN : input' = [input EXCEPT !.asks = asks]
    BY <1>6 DEF Deliver
  <2>4. InputOK'
    BY <1>1, <2>3 DEF InputOK
  <2>5. QED
    BY <1>6, <2>2, <2>4 DEF Deliver
<1>7. CASE GiveUp
  <2>1. reader.offset \in 0 .. SIZE /\ reader.error \in {"none", "cancelled", "failed"}
    BY <1>1 DEF ReaderOK
  <2>2. ReaderOK' /\ ReaderInv'
    BY <1>7, <2>1, SizeFacts DEF GiveUp, Returned, ReaderOK, ReaderInv
  <2>3. InputOK'
    BY <1>1, <1>7, <2>1 DEF GiveUp, InputOK
  <2>4. QED
    BY <1>7, <2>2, <2>3 DEF GiveUp
<1>8. CASE NeedData
  <2>1. input.generation \in Nat
    BY <1>1 DEF InputOK
  <2>2. ReaderOK' /\ ReaderInv'
    BY <1>1, <1>8, <2>1 DEF NeedData, ReaderOK, ReaderInv, IInv
  <2>3. InputOK'
    BY <1>1, <1>8 DEF NeedData, Asked, InputOK
  <2>4. QED
    BY <1>8, <2>2, <2>3 DEF NeedData
<1>9. QED
  BY <1>2, <1>3, <1>4, <1>5, <1>6, <1>7, <1>8

LEMMA PullStep ==
  ASSUME IInv, NEW offset \in Targets, Pull(offset)
  PROVE  IInv'
<1>1. ReaderOK /\ InputOK /\ BufferOK /\ WorkerOK
  BY Types DEF IInv
<1>2. offset \in 0 .. SIZE
  BY TargetFacts, SizeFacts
<1>3. BufferOK' /\ WindowInv' /\ Moved
  BY <1>2, RepositionStep DEF Pull
<1>4. WorkerInv' /\ BudgetInv' /\ WorkerOK'
  BY <1>1, <1>3, MovedKeeps DEF Pull, WorkerOK
<1>5. ReaderOK' /\ ReaderInv'
  BY <1>1, <1>2 DEF Pull, ReaderOK, ReaderInv, IInv
<1>6. InputOK'
  <2>1. input.pulls + 1 \in 0 .. MaxPulls
    BY <1>1, TargetFacts DEF Pull, InputOK
  <2>2. input' = [[input EXCEPT !.asks = FALSE] EXCEPT !.asks = FALSE, !.pulls = input.pulls + 1]
        \/ input' = [input EXCEPT !.asks = FALSE, !.pulls = input.pulls + 1]
    BY DEF Pull
  <2>3. QED
    BY <1>1, <2>1, <2>2 DEF InputOK
<1>7. QED
  BY <1>3, <1>4, <1>5, <1>6, TypesNext DEF IInv

LEMMA MoveCursorStep == ASSUME IInv, MoveCursor PROVE IInv'
<1>1. ReaderOK /\ InputOK /\ BufferOK /\ WorkerOK
  BY Types DEF IInv
<1>2. reader.offset \in 0 .. SIZE /\ BLOCK \in 0 .. BLOCK
  BY <1>1, SizeFacts DEF ReaderOK
<1>3. BufferOK' /\ WindowInv' /\ Moved
  BY <1>2, RepositionStep DEF MoveCursor
<1>4. WorkerInv' /\ BudgetInv' /\ WorkerOK' /\ InputOK'
  BY <1>1, <1>3, MovedKeeps DEF MoveCursor, WorkerOK, InputOK
<1>5. reader' = [reader EXCEPT !.at = "entering", !.position = reader.offset,
                               !.need = BLOCK, !.intact = TRUE]
  BY DEF MoveCursor
<1>6. ReaderOK'
  BY <1>1, <1>2, <1>5 DEF ReaderOK
<1>7. ReaderInv'
  BY <1>1, <1>2, <1>5, SizeFacts DEF ReaderOK, ReaderInv
<1>8. QED
  BY <1>3, <1>4, <1>6, <1>7, TypesNext DEF IInv

(* A block is handed out from where it holds the bytes asked for, and the
   window stays around the reader. *)
LEMMA ReadServedStep == ASSUME IInv, ReadServed PROVE IInv'
<1>1. ReaderOK /\ InputOK /\ BufferOK /\ WorkerOK
  BY Types DEF IInv
<1>2. /\ reader.at = "waiting" /\ reader.position = buffer.wanted
      /\ UNCHANGED <<worker, input>>
  BY DEF ReadServed, Superseded
<1>3. PICK b \in buffer.blocks :
        /\ Holds(b, reader.position)
        /\ LET count == Least(reader.need, b.end - reader.position)
               position == reader.position + count
           IN  /\ reader' = [reader EXCEPT
                    !.position = position, !.need = @ - count,
                    !.at = IF count = reader.need THEN "read" ELSE "entering",
                    !.intact = @ /\ b.origin + (reader.position - b.start)
                                      = reader.offset + (BLOCK - reader.need)]
               /\ buffer' = [buffer EXCEPT !.wanted = position,
                                           !.blocks = Kept(@, position, buffer.end)]
  BY Zenon DEF ReadServed
<1> DEFINE count == Least(reader.need, b.end - reader.position)
           position == reader.position + count
<1>4. /\ b.start \in Nat /\ b.end \in Nat /\ b.origin = b.start
      /\ b.start <= reader.position /\ reader.position < b.end /\ b.end <= buffer.end
      /\ reader.position \in Nat /\ reader.need \in 0 .. BLOCK /\ buffer.end \in 0 .. SIZE
  BY <1>1, <1>3 DEF IInv, WindowInv, WindowOf, Block, Holds, ReaderOK, BufferOK
<1>5. /\ count \in Nat /\ count <= reader.need
      /\ position \in 0 .. SIZE /\ position <= b.end
  BY <1>4, SizeFacts DEF Least
<1>6. /\ reader.intact
      /\ reader.position = reader.offset + (BLOCK - reader.need)
      /\ b.origin + (reader.position - b.start) = reader.offset + (BLOCK - reader.need)
  BY <1>2, <1>4 DEF IInv, ReaderInv
<1>7. /\ reader' = [reader EXCEPT !.position = position, !.need = reader.need - count,
                      !.at = IF count = reader.need THEN "read" ELSE "entering",
                      !.intact = TRUE]
      /\ buffer' = [buffer EXCEPT !.wanted = position,
                                  !.blocks = Kept(buffer.blocks, position, buffer.end)]
  BY <1>1, <1>3, <1>6 DEF ReaderOK
<1>8. /\ WindowOf(Kept(buffer.blocks, position, buffer.end), buffer.end, position)
      /\ \A c \in Kept(buffer.blocks, position, buffer.end) :
           c.end > Least(position, buffer.end) - BACKWARD
  <2>1. buffer.wanted \in Nat /\ position \in Nat /\ buffer.end \in Nat
    BY <1>1, <1>5 DEF BufferOK
  <2>2. WindowOf(buffer.blocks, buffer.end, buffer.wanted)
    BY DEF IInv, WindowInv
  <2>3. position >= b.start /\ position <= buffer.end + FORWARD
    BY <1>4, <1>5, SizeFacts
  <2> HIDE DEF position
  <2>4. QED
    BY <2>1, <2>2, <2>3, KeptWindow
<1> HIDE DEF count, position
<1>9. Kept(buffer.blocks, position, buffer.end) \subseteq buffer.blocks
  BY DEF Kept
<1>10. BufferOK'
  <2> DEFINE blocks == Kept(buffer.blocks, position, buffer.end)
  <2>1. blocks \in SUBSET Block /\ buffer' = [buffer EXCEPT !.wanted = position, !.blocks = blocks]
    BY <1>1, <1>7, <1>9 DEF BufferOK
  <2> HIDE DEF blocks
  <2>2. QED
    BY <1>1, <1>5, <2>1 DEF BufferOK
<1>11. /\ buffer'.generation = buffer.generation /\ buffer'.end = buffer.end
       /\ buffer'.wanted = position
       /\ buffer'.blocks = Kept(buffer.blocks, position, buffer.end)
  BY <1>1, <1>7 DEF BufferOK
<1>12. WindowInv' /\ Moved
  BY <1>8, <1>9, <1>11 DEF WindowInv, Moved
<1>13. WorkerInv' /\ BudgetInv' /\ WorkerOK' /\ InputOK'
  BY <1>1, <1>2, <1>10, <1>12, MovedKeeps DEF WorkerOK, InputOK
<1>14. ReaderOK'
  <2>1. reader.need - count \in 0 .. BLOCK
    BY <1>4, <1>5, SizeFacts
  <2>2. QED
    BY <1>1, <1>5, <1>7, <2>1 DEF ReaderOK
<1>15. ReaderInv'
  <2>1. position = reader.offset + (BLOCK - (reader.need - count))
    BY <1>1, <1>4, <1>5, <1>6, SizeFacts DEF position, ReaderOK
  <2>2. QED
    BY <1>1, <1>7, <2>1 DEF ReaderOK, ReaderInv
<1>16. QED
  BY <1>10, <1>12, <1>13, <1>14, <1>15, TypesNext DEF IInv

-----------------------------------------------------------------------------
(* Steps of the GUI thread. *)

LEMMA GuiStep ==
  ASSUME IInv, Call \/ Suspend \/ StopFails
               \/ (\E target \in Targets : SendSeek(target))
  PROVE  InputOK'
<1>1. InputOK
  BY Types DEF IInv
<1>2. input.generation + 1 \in Nat /\ None \in Targets \cup {None}
      /\ input.target \in Targets \cup {None}
  BY <1>1 DEF InputOK
<1>3. CASE FlushStart
  BY <1>1, <1>2, <1>3 DEF FlushStart, InputOK
<1>4. CASE InterruptRead
  BY <1>1, <1>4 DEF InterruptRead, InputOK
<1>5. CASE SeekData
  BY <1>1, <1>2, <1>5 DEF SeekData, InputOK
<1>6. CASE DropInput \/ Joined
  BY <1>1, <1>6 DEF DropInput, Joined, InputOK
<1>7. CASE StopFails
  BY <1>1, <1>7 DEF StopFails, InputOK
<1>8. ASSUME input.calls < MaxCalls PROVE input.calls + 1 \in 0 .. MaxCalls
  BY <1>1, <1>8, TargetFacts DEF InputOK
<1>9. CASE Suspend
  <2>1. input.calls + 1 \in 0 .. MaxCalls
    BY <1>8, <1>9 DEF Suspend
  <2>2. QED
    BY <1>1, <1>9, <2>1 DEF Suspend, InputOK
<1>10. ASSUME NEW target \in Targets, SendSeek(target) PROVE InputOK'
  <2>1. input.calls + 1 \in 0 .. MaxCalls
    BY <1>8, <1>10 DEF SendSeek
  <2>2. QED
    BY <1>1, <1>2, <1>10, <2>1 DEF SendSeek, InputOK
<1>11. QED
  BY <1>3, <1>4, <1>5, <1>6, <1>7, <1>9, <1>10 DEF Call

(* What the GUI thread does to the buffer leaves its window alone. *)
LEMMA SignalStep ==
  ASSUME IInv, \/ Call \/ Suspend \/ StopFails
               \/ \E target \in Targets : SendSeek(target)
               \/ \E ahead \in Estimates : Duration(ahead)
  PROVE  IInv'
<1>1. ReaderOK /\ InputOK /\ BufferOK /\ WorkerOK
  BY Types DEF IInv
<1>2. UNCHANGED <<worker, reader>>
      /\ \/ UNCHANGED buffer \/ buffer' = Interrupted
         \/ buffer' = [buffer EXCEPT !.stopped = TRUE]
         \/ \E ahead \in Estimates : buffer' = [buffer EXCEPT !.ahead = ahead]
  BY DEF Call, FlushStart, InterruptRead, SeekData, DropInput, Joined, Suspend, StopFails,
         SendSeek, Duration
<1>3. /\ BufferOK'
      /\ buffer'.generation = buffer.generation /\ buffer'.end = buffer.end
      /\ buffer'.blocks = buffer.blocks /\ buffer'.wanted = buffer.wanted
  <2>1. CASE buffer' = Interrupted
    <3>1. buffer.requests + 1 \in Nat
      BY <1>1 DEF BufferOK
    <3>2. QED
      BY <1>1, <2>1, <3>1 DEF BufferOK, Interrupted
  <2>2. CASE UNCHANGED buffer \/ buffer' = [buffer EXCEPT !.stopped = TRUE]
    BY <1>1, <2>2 DEF BufferOK
  <2>3. ASSUME NEW ahead \in Estimates, buffer' = [buffer EXCEPT !.ahead = ahead]
        PROVE  /\ BufferOK'
               /\ buffer'.generation = buffer.generation /\ buffer'.end = buffer.end
               /\ buffer'.blocks = buffer.blocks /\ buffer'.wanted = buffer.wanted
    BY <1>1, <2>3 DEF BufferOK
  <2>4. QED
    BY <1>2, <2>1, <2>2, <2>3
<1>4. Moved
  BY <1>3 DEF Moved
<1>5. InputOK'
  <2>1. CASE \E ahead \in Estimates : Duration(ahead)
    BY <1>1, <2>1 DEF Duration, InputOK
  <2>2. QED
    BY <2>1, GuiStep
<1>6. QED
  BY <1>1, <1>2, <1>3, <1>4, <1>5, MovedKeeps, FlagsKeepWindow, TypesNext
     DEF IInv, WorkerOK, ReaderOK, ReaderInv

-----------------------------------------------------------------------------
(* The theorems. *)

LEMMA StepInv == IInv /\ [Next]_vars => IInv'
<1> SUFFICES ASSUME IInv, [Next]_vars PROVE IInv'
  OBVIOUS
<1>1. ReaderOK /\ InputOK /\ BufferOK /\ WorkerOK
  BY Types DEF IInv
<1>2. ASSUME UNCHANGED <<buffer, reader, input>>, WorkerOK', WorkerInv', BudgetInv'
      PROVE  IInv'
  BY <1>1, <1>2, TypesNext
     DEF IInv, BufferOK, ReaderOK, InputOK, WindowInv, ReaderInv
<1>3. ASSUME UNCHANGED <<reader, input>>,
             BufferOK', WorkerOK', WindowInv', WorkerInv', BudgetInv'
      PROVE  IInv'
  BY <1>1, <1>3, TypesNext DEF IInv, ReaderOK, InputOK, ReaderInv
<1>4. ASSUME UNCHANGED <<buffer, worker>>, ReaderOK', InputOK', ReaderInv'
      PROVE  IInv'
  BY <1>1, <1>4, TypesNext
     DEF IInv, BufferOK, WorkerOK, WindowInv, WorkerInv, BudgetInv, Reserve
<1>5. CASE StartFetch
  BY <1>2, <1>5, StartFetchStep DEF StartFetch
<1>6. CASE CloseConnection \/ StopWorker
  BY <1>2, <1>6, CloseStep DEF CloseConnection, StopWorker
<1>7. CASE OpenResponse \/ Permanent \/ CancelFetch
  BY <1>2, <1>7, FetchStep DEF OpenResponse, Permanent, CancelFetch
<1>8. ASSUME NEW sent \in Chunks, Chunk(sent) PROVE IInv'
  BY <1>2, <1>8, ChunkStep DEF Chunk
<1>9. CASE Transient
  BY <1>3, <1>9, TransientStep DEF Transient
<1>10. CASE Store
  BY <1>3, <1>10, StoreStep DEF Store
<1>11. CASE CallCancelled \/ CheckCancelled \/ EnterRead \/ ReadCancelled
            \/ ReadFailed \/ Deliver \/ GiveUp \/ NeedData
  BY <1>4, <1>11, CallStep
<1>12. CASE MoveCursor
  BY <1>12, MoveCursorStep
<1>13. CASE ReadServed
  BY <1>13, ReadServedStep
<1>14. ASSUME NEW offset \in Targets, Pull(offset) PROVE IInv'
  BY <1>14, PullStep
<1>15. CASE \/ Call \/ Suspend \/ StopFails
            \/ (\E target \in Targets : SendSeek(target))
            \/ (\E ahead \in Estimates : Duration(ahead))
  BY <1>15, SignalStep
<1>16. CASE UNCHANGED vars
  BY <1>4, <1>1, <1>16 DEF vars, ReaderOK, InputOK, ReaderInv, IInv
<1>17. QED
  BY <1>5, <1>6, <1>7, <1>8, <1>9, <1>10, <1>11, <1>12, <1>13, <1>14, <1>15, <1>16
     DEF Next, Worker, Fetch, Reader

LEMMA Invariance == Spec => []IInv
  BY InitInv, StepInv, PTL DEF Spec

(* Every buffer, worker, reader and caller state is one of those declared,
   however requests, failures and estimates follow each other: no offset of
   buffer.rs leaves the file. *)
THEOREM BufferTypes == Spec => []TypeOK
<1>1. IInv => TypeOK
  BY DEF IInv
<1>2. QED
  BY <1>1, Invariance, PTL

(* Bytes of different responses are never spliced: State holds, and
   Buffer::read hands out, the bytes of the offset asked for. *)
THEOREM NoSplicedBytes == Spec => []BytesInPlace
<1>1. IInv => BytesInPlace
  BY DEF IInv, WindowInv, WindowOf, ReaderInv, BytesInPlace
<1>2. QED
  BY <1>1, Invariance, PTL

(* The window of State has no gaps or overlaps and stays around its reader. *)
THEOREM WindowHolds == Spec => []WindowIntact
<1>1. IInv => WindowIntact
  BY DEF IInv, WindowInv, WindowOf, WindowIntact, CanReuse
<1>2. QED
  BY <1>1, Invariance, PTL

(* The assertion on MAX_BYTES in run cannot fail. *)
THEOREM MemoryIsBounded == Spec => []WithinBudget
<1>1. IInv => WithinBudget
  <2> SUFFICES ASSUME IInv, NEW b \in buffer.blocks
               PROVE  buffer.end - b.start
                 + (IF worker.at \in {"fetching", "received"}
                         /\ worker.generation = buffer.generation
                    THEN Reserve ELSE 0) <= MAX
    BY DEF WithinBudget
  <2>1. buffer.end \in Int /\ b.start \in Int
    BY DEF IInv, TypeOK, Block
  <2>2. QED
    BY <2>1 DEF IInv, BudgetInv
<1>2. QED
  BY <1>1, Invariance, PTL

(* Together: the window is a stretch of the file, and it fits in memory. *)
THEOREM WindowAlwaysTrue == Spec => []WindowIsTrue
<1>1. BytesInPlace /\ WindowIntact /\ WithinBudget => WindowIsTrue
  BY DEF WindowIsTrue
<1>2. QED
  BY <1>1, NoSplicedBytes, WindowHolds, MemoryIsBounded, PTL

(* has_capacity never makes the worker wait for a reader that waits for it,
   if the least estimate has room for two chunks (all but one byte of the
   second).  The code's least estimate has room for one. *)
THEOREM NoStandstill ==
  ASSUME \A ahead \in Estimates : 2 * RANGE - 1 <= ahead
  PROVE  Spec => []ReaderIsServed
<1>1. IInv => ReaderIsServed
  <2> SUFFICES ASSUME IInv, reader.at = "waiting", ~Superseded, buffer.phase # "failed",
                      ~(\E b \in buffer.blocks : Holds(b, reader.position))
               PROVE  MayFetch
    BY DEF ReaderIsServed
  <2>1. BufferOK /\ ReaderOK
    BY Types DEF IInv
  <2>2. ~CursorCancelled /\ buffer.active /\ reader.position = buffer.wanted
    BY DEF Superseded
  <2>3. /\ buffer.wanted \in Nat /\ buffer.end \in Nat /\ buffer.wanted < SIZE
        /\ WindowOf(buffer.blocks, buffer.end, buffer.wanted)
        /\ \A b \in buffer.blocks : b.end > Least(buffer.wanted, buffer.end) - BACKWARD
        /\ \A b \in buffer.blocks : b.start \in Nat /\ b.end \in Nat
    BY <2>1, <2>2 DEF IInv, WindowInv, ReaderInv, BufferOK, Block
  <2>4. buffer.wanted >= buffer.end
    <3>1. SUFFICES ASSUME buffer.wanted < buffer.end PROVE FALSE
      BY <2>3
    <3>2. PICK b \in buffer.blocks : buffer.wanted >= b.start
      BY <2>3, <3>1 DEF WindowOf
    <3>3. buffer.wanted \in b.start .. buffer.end - 1
      BY <2>3, <3>1, <3>2
    <3>4. QED
      BY <2>2, <2>3, <3>2, <3>3 DEF WindowOf
  <2>5. /\ buffer.ahead \in Nat /\ 2 * RANGE - 1 <= buffer.ahead /\ RANGE <= buffer.ahead
        /\ Reserve \in Nat /\ Reserve <= RANGE /\ RANGE \in Nat /\ BACKWARD \in Nat
    BY <2>1, <2>3, <2>4, SizeFacts DEF BufferOK, Reserve, Least
  <2>6. \A b \in buffer.blocks :
          buffer.end - b.start + Reserve <= buffer.ahead + BACKWARD
    <3> SUFFICES ASSUME NEW b \in buffer.blocks
                 PROVE  buffer.end - b.start + Reserve <= buffer.ahead + BACKWARD
      OBVIOUS
    <3>1. b.end > buffer.end - BACKWARD
      BY <2>3, <2>4 DEF Least
    <3>2. b.end - b.start <= RANGE
      BY <2>3 DEF WindowOf
    <3>3. QED
      BY <2>3, <2>5, <3>1, <3>2
  <2>7. FitsBudget(Reserve)
    BY <2>5, <2>6 DEF FitsBudget
  <2>8. HasCapacity(Reserve)
    BY <2>3, <2>4, <2>5, <2>7 DEF HasCapacity
  <2>9. QED
    BY <2>2, <2>3, <2>4, <2>8, SizeFacts DEF MayFetch
<1>2. QED
  BY <1>1, Invariance, PTL
=============================================================================
