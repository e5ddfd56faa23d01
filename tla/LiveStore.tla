----------------------------- MODULE LiveStore -----------------------------
(***************************************************************************)
(* Raw TS retention (playback/input/store.rs): the segments the receiver   *)
(* appends to, the budgets that trim them, reconnect boundaries, the sparse *)
(* index, pauses and policy changes that move what is retained between     *)
(* memory and the disk buffer, and reads at a logical offset.              *)
(*                                                                         *)
(* Offsets and sizes count units of packets; the stream plays one unit per *)
(* unit of time, and the index gets an anchor every IndexGap units, the    *)
(* first one after the start of the stream.  Every action is one critical  *)
(* section of the store's mutex.                                           *)
(***************************************************************************)
EXTENDS Integers, Sequences, FiniteSets

CONSTANTS
  Policies,       \* [storage, activation, units, time]: the user's settings
  ReadUnits,      \* READ_BYTES, also the capacity of a memory segment
  SegmentUnits,   \* SEGMENT_BYTES, the capacity of a disk segment
  ForwardUnits,   \* FORWARD_BUFFER_BYTES
  MarginUnits,    \* CONSUMED_MARGIN_BYTES
  IndexGap,       \* distance of two index entries
  MaxEnd,         \* bound: units received
  MaxReconnects,  \* MAX_RECONNECTS
  MaxChanges      \* bound: policy changes, pauses, resumes and seeks

ASSUME StoreAssumption ==
  /\ Policies \subseteq [storage : {"off", "memory", "filesystem"},
                         activation : {"always", "on_pause"}, units : Nat, time : Nat]
  /\ ReadUnits \in Nat \ {0} /\ SegmentUnits \in Nat \ {0} /\ ReadUnits <= SegmentUnits
  /\ ForwardUnits \in Nat /\ MarginUnits \in Nat
  /\ IndexGap \in Nat \ {0}
  /\ MaxEnd \in Nat /\ MaxReconnects \in Nat /\ MaxChanges \in Nat

(* What the constants of limits.rs leave room for: a segment (1 MiB) and the
   distance of two index entries fit in the forward buffer (32 MiB) and in
   every budget a user can save (16 MiB, one minute), that distance also in
   the consumed margin (2 MiB).  The code indexes every 250 ms, so the
   distance is below the margin for every stream slower than 67 Mbit/s. *)
ASSUME BudgetsAssumption ==
  /\ SegmentUnits + IndexGap <= ForwardUnits /\ IndexGap <= MarginUnits
  /\ \A policy \in Policies :
       policy.storage # "off" =>
         SegmentUnits + IndexGap <= policy.units /\ IndexGap <= policy.time

VARIABLES
  store,      \* Store; trimmed: history, the last operation succeeded
  receiver,   \* receive: [status, reconnects]
  reader,     \* the playback Reader: [offset, displaced]
  joins,      \* history: retained offsets where another connection begins
  changes     \* bound counter

vars == <<store, receiver, reader, joins, changes>>

Least(a, b) == IF a < b THEN a ELSE b
SaturatingSub(a, b) == IF a > b THEN a - b ELSE 0

(* FORWARD_BUFFER_TIME, Duration::MAX. *)
Unlimited == MaxEnd + 1

(* RetentionState::effective and Policy::budget. *)
EffectiveStorage(policy, history) == IF history THEN policy.storage ELSE "off"
Budget(policy, history) ==
  IF EffectiveStorage(policy, history) = "off"
    THEN [units |-> ForwardUnits, time |-> Unlimited]
    ELSE [units |-> policy.units, time |-> policy.time]

(* RetentionState::initial: history from the start, or only while paused. *)
InitialHistory(policy) == policy.storage # "off" /\ policy.activation = "always"

----------------------------------------------------------------------------
(* The window.                                                              *)

Start(s) == IF s.segments = <<>> THEN s.end ELSE s.segments[1].start

(* The anchors of the stream: their offsets, and times from the first on. *)
Anchors(from, to) == {offset \in from .. to - 1 : offset % IndexGap = IndexGap - 1}
Time(offset) == offset - (IndexGap - 1)
EndTime(s) == SaturatingSub(s.end, IndexGap - 1)

First(entries) == CHOOSE entry \in entries : \A other \in entries : entry <= other

(* read: the first entry bounds what is readable, except the very first. *)
ReadableStart(s) ==
  IF s.index = {} \/ Time(First(s.index)) = 0 THEN Start(s)
  ELSE IF First(s.index) > Start(s) THEN First(s.index) ELSE Start(s)

(* The segment partition_point finds, and how much one read returns. *)
SegmentAt(s, offset) ==
  CHOOSE i \in DOMAIN s.segments :
    /\ s.segments[i].start <= offset
    /\ \A j \in DOMAIN s.segments : s.segments[j].start <= offset => j <= i

ReadCount(s, offset) ==
  LET segment == s.segments[SegmentAt(s, offset)]
      later == {boundary \in s.boundaries : boundary > offset}
      room == Least(ReadUnits, segment.size - (offset - segment.start))
  IN IF later = {} THEN room ELSE Least(room, First(later) - offset)

Reconnected(s, offset) == offset \in s.boundaries

----------------------------------------------------------------------------
(* Operations on the store that may fail yield a set of outcomes            *)
(* [store, ok].                                                             *)

Done(s) == {[store |-> s, ok |-> TRUE]}

(* A slip: consumed data goes at once, though the index lags behind it. *)
RemovableAtOnce(s, budget, history, segment) == segment.start + segment.size <= s.cursor.offset

(* What trim gives up: data beyond the budget; history that is too old, or
   what playback consumed more than the margin ago. *)
Removable(s, budget, history, segment) ==
  \/ s.end - segment.start > budget.units
  \/ history /\ segment.end_time < SaturatingSub(EndTime(s), budget.time)
  \/ ~ history /\ segment.start + segment.size <= SaturatingSub(s.cursor.offset, MarginUnits)

(* How many segments trim takes off the front; the last one stays. *)
Excess(s, budget, history) ==
  CHOOSE n \in 0 .. Len(s.segments) :
    /\ n < Len(s.segments) \/ n = 0
    /\ \A i \in 1 .. n : Removable(s, budget, history, s.segments[i])
    /\ n + 1 < Len(s.segments) => ~ Removable(s, budget, history, s.segments[n + 1])

(* A slip: the slot stays taken. *)
PoppedKeepingSlot(s, n) == [s EXCEPT !.segments = SubSeq(@, n + 1, Len(@))]

(* n segments taken off the front, their slots released. *)
Popped(s, n) ==
  [s EXCEPT !.segments = SubSeq(@, n + 1, Len(@)),
            !.mapped = @ \ {s.segments[i].start : i \in 1 .. n}]

(* A slip: a boundary at the very start is forgotten. *)
ExpiredAtStart(s, before, budget, history) ==
  [s EXCEPT !.boundaries = {boundary \in @ : boundary > Start(s)},
            !.index = {entry \in @ : entry >= Start(s)}]

(* What trim does once every segment is released: note that the reader lost
   unread data, and forget boundaries and entries outside the window. *)
Expired(s, before, budget, history) ==
  LET earliest == IF history THEN SaturatingSub(EndTime(s), budget.time) ELSE 0
  IN [s EXCEPT
       !.cursor.expired = @ \/ (~ history /\ Start(s) > s.cursor.offset /\ Start(s) > before),
       !.boundaries = {boundary \in @ : boundary >= Start(s)},
       !.index = {entry \in @ : entry >= Start(s) /\ Time(entry) >= earliest}]

(* A hole that cannot be punched stops the trim there. *)
Trim(s, budget, history) ==
  LET n == Excess(s, budget, history)
  IN Done(Expired(Popped(s, n), Start(s), budget, history)) \cup
     IF s.disk THEN {[store |-> Popped(s, k), ok |-> FALSE] : k \in 0 .. n - 1} ELSE {}

----------------------------------------------------------------------------
(* Appending.                                                               *)

Capacity(s) == IF s.disk THEN SegmentUnits ELSE ReadUnits
Room(s) ==
  IF s.segments = <<>> THEN 0 ELSE Capacity(s) - s.segments[Len(s.segments)].size

(* A tail that can be written: a new segment when the last one is full. *)
Opened(s) ==
  IF Room(s) > 0 THEN s
  ELSE [s EXCEPT !.segments = Append(@, [start |-> s.end, size |-> 0, end_time |-> 0])]

(* The disk slot of the tail is taken when it is written, successfully or not. *)
Touched(s) ==
  IF s.disk THEN [s EXCEPT !.mapped = @ \cup {s.segments[Len(s.segments)].start}] ELSE s

Written(s, count) ==
  LET open == Touched(Opened(s))
      tail == Len(open.segments)
      longer == [open EXCEPT !.end = @ + count, !.index = @ \cup Anchors(s.end, s.end + count)]
  IN Done([longer EXCEPT !.segments[tail] =
                           [start |-> @.start, size |-> @.size + count, end_time |-> EndTime(longer)]]) \cup
     IF s.disk THEN {[store |-> open, ok |-> FALSE]} ELSE {}

(* The outcomes that succeeded go on with the next operation. *)
WrittenOn(outcomes, count) ==
  UNION {IF outcome.ok THEN Written(outcome.store, count) ELSE {outcome} : outcome \in outcomes}
TrimmedOn(outcomes, budget, history) ==
  UNION {IF outcome.ok THEN Trim(outcome.store, budget, history) ELSE {outcome} :
           outcome \in outcomes}

(* A slip: nothing is reclaimed after the last chunk. *)
AppendedUntrimmed(s, count) == Written(s, Least(count, Room(Opened(s))))

(* append_received: as much as the tail takes, then the rest, reclaiming
   after each of the two. *)
Appended(s, count) ==
  LET budget == Budget(s.policy, s.history)
      head == Least(count, Room(Opened(s)))
      first == TrimmedOn(Written(s, head), budget, s.history)
  IN IF head = count THEN first
     ELSE TrimmedOn(WrittenOn(first, count - head), budget, s.history)

----------------------------------------------------------------------------
(* Moving what is retained.                                                 *)

(* A slip: the last segment counts as full. *)
CopiedTailPadded(s, start, capacity) ==
  LET count == ((s.end - start + capacity) - 1) \div capacity
  IN [i \in 1 .. count |->
       [start |-> start + (i - 1) * capacity, size |-> capacity, end_time |-> EndTime(s)]]

(* copy_tail: the bytes from start on, packed into segments of the target;
   each keeps the end time of the last segment that fed it. *)
CopiedTail(s, start, capacity) ==
  LET count == ((s.end - start + capacity) - 1) \div capacity
      Cut(i) == LET first == start + (i - 1) * capacity
                    size == Least(capacity, s.end - first)
                IN [start |-> first, size |-> size,
                    end_time |-> s.segments[SegmentAt(s, first + size - 1)].end_time]
  IN [i \in 1 .. count |-> Cut(i)]

Starts(segments) == {segments[i].start : i \in DOMAIN segments}

(* begin_pause: history starts with everything the forward buffer holds. *)
Paused(s) ==
  LET copied == CopiedTail(s, Start(s), SegmentUnits)
  IN IF s.policy.storage = "filesystem"
       THEN [s EXCEPT !.segments = copied, !.disk = TRUE, !.mapped = Starts(copied),
                      !.history = TRUE]
       ELSE [s EXCEPT !.history = TRUE]

(* finish_pause: back to the forward buffer, in memory. *)
Resumed(s) ==
  LET kept == (ForwardUnits \div ReadUnits) * ReadUnits
      from == SaturatingSub(s.end, kept)
      copied == CopiedTail(s, IF from > Start(s) THEN from ELSE Start(s), ReadUnits)
      moved == IF s.disk THEN [s EXCEPT !.segments = copied, !.disk = FALSE, !.mapped = {}]
                         ELSE s
  IN Trim([moved EXCEPT !.history = FALSE], Budget(s.policy, FALSE), FALSE)

(* prepare: does the new policy need other storage? *)
KeepsState(s, policy) ==
  s.policy.activation = policy.activation /\ s.policy.storage = policy.storage
NextHistory(s, policy) ==
  IF KeepsState(s, policy) THEN s.history ELSE InitialHistory(policy)
Resets(s, policy) ==
  LET from == EffectiveStorage(s.policy, s.history)
      to == EffectiveStorage(policy, NextHistory(s, policy))
  IN \/ s.policy.activation # policy.activation /\ s.history
     \/ from # to /\ <<from, to>> # <<"off", "memory">>

(* A slip: logical offsets start over with the storage. *)
ReplacedFromZero(s, policy) ==
  [s EXCEPT !.segments = <<[start |-> 0, size |-> 0, end_time |-> 0]>>, !.end = 0,
            !.disk = EffectiveStorage(policy, NextHistory(s, policy)) = "filesystem",
            !.mapped = {}, !.boundaries = {}, !.index = {}]

(* The empty storage that replaces the old one. *)
Replaced(s, policy) ==
  LET disk == EffectiveStorage(policy, NextHistory(s, policy)) = "filesystem"
  IN [s EXCEPT !.segments = <<[start |-> s.end, size |-> 0, end_time |-> 0]>>,
               !.disk = disk, !.mapped = {}, !.boundaries = {}, !.index = {}]

(* commit: the policy changes only if the trim succeeds. *)
Committed(s, policy) ==
  LET history == NextHistory(s, policy)
      base == IF Resets(s, policy) THEN Replaced(s, policy) ELSE s
  IN {IF outcome.ok
        THEN [outcome EXCEPT !.store.policy = policy, !.store.history = history]
        ELSE outcome : outcome \in Trim(base, Budget(policy, history), history)}

----------------------------------------------------------------------------
Init ==
  /\ \E policy \in Policies :
       store = [segments |-> <<>>, disk |-> InitialHistory(policy) /\ policy.storage = "filesystem",
                mapped |-> {}, boundaries |-> {}, end |-> 0, index |-> {},
                cursor |-> [offset |-> 0, expired |-> FALSE],
                policy |-> policy, history |-> InitialHistory(policy), trimmed |-> TRUE]
  /\ receiver = [status |-> "receiving", reconnects |-> 0]
  /\ reader = [offset |-> 0, displaced |-> FALSE]
  /\ joins = {}
  /\ changes = 0

(* A storage error ends reception; the store is told in another step. *)
Receive ==
  /\ receiver.status = "receiving"
  /\ \E count \in 1 .. ReadUnits :
       /\ store.end + count <= MaxEnd
       /\ \E outcome \in Appended(store, count) :
            /\ store' = [outcome.store EXCEPT !.trimmed = outcome.ok]
            /\ receiver' = IF outcome.ok THEN receiver ELSE [receiver EXCEPT !.status = "failing"]
  /\ UNCHANGED <<reader, joins, changes>>

(* The connection broke and the next attempt begins. *)
Reconnect ==
  /\ receiver.status = "receiving"
  /\ receiver.reconnects < MaxReconnects
  /\ receiver' = [receiver EXCEPT !.reconnects = @ + 1]
  /\ store' = [store EXCEPT !.boundaries = @ \cup {store.end}]
  /\ joins' = joins \cup {store.end}
  /\ UNCHANGED <<reader, changes>>

(* finish: after a storage error, a refusal of the server, or the last attempt. *)
Finish ==
  /\ receiver.status \in {"receiving", "failing"}
  /\ receiver' = [receiver EXCEPT !.status = "failed"]
  /\ UNCHANGED <<store, reader, joins, changes>>

Change == changes < MaxChanges /\ changes' = changes + 1

BeginPause ==
  /\ Change
  /\ store.policy.activation = "on_pause" /\ store.policy.storage # "off"
  /\ ~ store.history
  /\ store' = Paused(store)
  /\ UNCHANGED <<receiver, reader, joins>>

FinishPause ==
  /\ Change
  /\ store.policy.activation = "on_pause"
  /\ store.history
  /\ \E outcome \in Resumed(store) : store' = [outcome.store EXCEPT !.trimmed = outcome.ok]
  /\ UNCHANGED <<receiver, reader, joins>>

(* Input::reconfigure.  Replaced storage takes the data from under the
   reader; the caller then returns to live. *)
Reconfigure ==
  /\ Change
  /\ \E policy \in Policies \ {store.policy} :
       /\ \E outcome \in Committed(store, policy) :
            store' = [outcome.store EXCEPT !.trimmed = outcome.ok]
       /\ IF Resets(store, policy)
            THEN joins' = {} /\ reader' = [reader EXCEPT !.displaced = TRUE]
            ELSE UNCHANGED <<joins, reader>>
  /\ UNCHANGED receiver

(* read_for_playback: a read that returns data moves the cursor. *)
Read ==
  /\ reader.offset >= ReadableStart(store)
  /\ reader.offset < store.end
  /\ reader' = [reader EXCEPT !.offset = @ + ReadCount(store, reader.offset)]
  /\ store' = [store EXCEPT !.cursor = [offset |-> reader'.offset, expired |-> FALSE]]
  /\ UNCHANGED <<receiver, joins, changes>>

(* The reader takes a seek: an anchor of the index. *)
Seek ==
  /\ Change
  /\ \E anchor \in store.index : reader' = [offset |-> anchor, displaced |-> FALSE]
  /\ UNCHANGED <<store, receiver, joins>>

Next ==
  \/ Receive \/ Reconnect \/ Finish
  \/ BeginPause \/ FinishPause \/ Reconfigure
  \/ Read \/ Seek

Spec == Init /\ [][Next]_vars

----------------------------------------------------------------------------
(* Types; segments lie side by side up to the end, none above its capacity. *)
TypeOK ==
  /\ store.end \in Nat /\ store.index \subseteq Nat /\ store.mapped \subseteq Nat
  /\ store.policy \in Policies
  /\ store.disk \in BOOLEAN /\ store.history \in BOOLEAN /\ store.trimmed \in BOOLEAN
  /\ store.cursor \in [offset : Nat, expired : BOOLEAN]
  /\ store.segments \in Seq([start : Nat, size : Nat, end_time : Nat])
  /\ \A i \in DOMAIN store.segments :
       /\ store.segments[i].size <= Capacity(store)
       /\ store.segments[i].start + store.segments[i].size =
            IF i = Len(store.segments) THEN store.end ELSE store.segments[i + 1].start
  /\ store.boundaries \subseteq Nat
  /\ receiver \in [status : {"receiving", "failing", "failed"}, reconnects : 0 .. MaxReconnects]
  /\ reader \in [offset : Nat, displaced : BOOLEAN]
  /\ joins \subseteq Nat
  /\ changes \in 0 .. MaxChanges

(* A read anywhere in the window returns something, and only bytes of one
   segment that were written: the reader never spins ("NoReadProgress") and
   never reads past what a segment holds, however the window was moved
   between memory and disk. *)
ReadsMakeProgress ==
  \A offset \in ReadableStart(store) .. store.end - 1 :
    LET segment == store.segments[SegmentAt(store, offset)]
        count == ReadCount(store, offset)
    IN count > 0 /\ offset + count <= segment.start + segment.size

(* No read mixes bytes of two connections, and the read that begins a new
   connection says so, so that the reader resets its filter and clock. *)
ReadsStopAtReconnects ==
  \A offset \in ReadableStart(store) .. store.end - 1 :
    /\ \A join \in joins : ~ (offset < join /\ join < offset + ReadCount(store, offset))
    /\ offset \in joins => Reconnected(store, offset)

(* The disk buffer holds a slot for every retained segment with bytes, so a
   read or a release never fails with "TS segment is not retained", and for
   no other: dropped history frees its slots. *)
SlotsMatchSegments ==
  /\ store.mapped \subseteq Starts(store.segments)
  /\ store.disk => \A i \in DOMAIN store.segments :
                     store.segments[i].size > 0 => store.segments[i].start \in store.mapped
  /\ ~ store.disk => store.mapped = {}

(* Every anchor a seek may choose is still retained, unless a hole could not
   be punched. *)
AnchorsAreRetained ==
  store.trimmed => \A entry \in store.index : Start(store) <= entry /\ entry < store.end

(* Every read returns bytes of one segment and one connection. *)
ReadsAreWhole == ReadsMakeProgress /\ ReadsStopAtReconnects

(* Segments, slots and index speak of the same bytes, also after a write or a
   hole punch that failed half way. *)
LayoutHolds == SlotsMatchSegments /\ AnchorsAreRetained

(* Whatever sequence of pauses, resumes and new settings led here, what is
   retained fits the budget in force, also while an append is split over two
   segments; a pause may start with all of the forward buffer. *)
RetentionIsBounded ==
  store.trimmed =>
    \/ store.end - Start(store) <= ForwardUnits
    \/ store.history /\ store.end - Start(store) <= store.policy.units

(* What is retained is laid out as the store believes and is not too much. *)
RetentionHolds == LayoutHolds /\ RetentionIsBounded

(* What is retained can be read, and only that is retained. *)
StoreHolds == ReadsAreWhole /\ RetentionHolds

(* Without history, a reader that keeps up (within the forward buffer less a
   segment and an index entry) is never outrun by a step of the receiver:
   what it is about to read is neither trimmed as consumed nor hidden by the
   first index entry. *)
PlaybackSurvives ==
  [][(/\ ~ store.history /\ ~ store'.history /\ UNCHANGED reader /\ ~ reader.displaced
      /\ store.cursor.offset <= reader.offset
      /\ ReadableStart(store) <= reader.offset
      /\ store'.end - reader.offset + SegmentUnits + IndexGap <= ForwardUnits)
     => ReadableStart(store') <= reader.offset]_vars

(* The store keeps the contract playback relies on. *)
Window ==
  INSTANCE RetentionWindow
  WITH window <- [start |-> ReadableStart(store), end |-> store.end,
                  status |-> IF receiver.status = "failed" THEN "failed" ELSE "receiving"]
KeepsWindow == Window!Spec

(* What playback still needs stays in the window it was promised. *)
WindowIsKept == PlaybackSurvives /\ KeepsWindow
============================================================================
