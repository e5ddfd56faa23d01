-------------------------- MODULE LiveStoreProofs --------------------------
(***************************************************************************)
(* Safety of LiveStore for every budget, segment size and index distance   *)
(* that the limits of the code allow: what is retained is laid out, read   *)
(* and bounded as StoreHolds says, and playback keeps the window that      *)
(* WindowIsKept promises, which includes the refinement of RetentionWindow. *)
(* Then safety of FileSlots, the file under a store on disk, and of        *)
(* LiveFeed, which reads the store and plays what it retains.              *)
(***************************************************************************)
EXTENDS LiveStore, FileSlots, LiveFeed, FiniteSetTheorems, SequenceTheorems,
        WellFoundedInduction, TLAPS

Segment == [start : Nat, size : Nat, end_time : Nat]

Store ==
  [segments : Seq(Segment), disk : BOOLEAN, mapped : SUBSET Nat, boundaries : SUBSET Nat,
   end : Nat, index : SUBSET Nat, cursor : [offset : Nat, expired : BOOLEAN],
   policy : Policies, history : BOOLEAN, trimmed : BOOLEAN]

(* Segments lie side by side up to the end; only the last may be empty, and
   each knows a time at which its bytes had arrived. *)
SideBySide(s) ==
  \A i \in 1 .. Len(s.segments) :
    LET segment == s.segments[i] IN
    /\ segment.size <= Capacity(s)
    /\ i < Len(s.segments) => segment.size > 0
    /\ segment.start + segment.size =
         IF i = Len(s.segments) THEN s.end ELSE s.segments[i + 1].start
    /\ segment.size > 0 => segment.start + segment.size <= segment.end_time + (IndexGap - 1)
    /\ \A j \in i + 1 .. Len(s.segments) : segment.start + segment.size <= s.segments[j].start

(* SlotsMatchSegments of a store. *)
SlotsOf(s) ==
  /\ s.mapped \subseteq Starts(s.segments)
  /\ s.disk => \A i \in 1 .. Len(s.segments) :
                 s.segments[i].size > 0 => s.segments[i].start \in s.mapped
  /\ ~ s.disk => s.mapped = {}

IsAnchor(offset) == offset % IndexGap = IndexGap - 1

(* The index holds every anchor from its first entry on, and one of them is
   retained. *)
IndexOf(s) ==
  /\ \A entry \in s.index : entry < s.end /\ IsAnchor(entry)
  /\ \A entry \in s.index : \A anchor \in entry .. s.end - 1 : IsAnchor(anchor) => anchor \in s.index
  /\ s.index # {} => \E entry \in s.index : Start(s) <= entry

(* Only history is on disk, and only a policy with storage has history. *)
Settled(s) == (s.disk => s.history) /\ (s.history => s.policy.storage # "off")

Sound(s) ==
  /\ s \in Store /\ SideBySide(s) /\ SlotsOf(s) /\ IndexOf(s)
  /\ s.cursor.offset <= s.end
  /\ Settled(s)

(* The inductive invariant: a sound store, whose reader stands in it, has
   somewhere to seek to once there is an anchor, and knows its joins. *)
IInv ==
  /\ Sound(store)
  /\ receiver \in [status : {"receiving", "failing", "failed"}, reconnects : 0 .. MaxReconnects]
  /\ reader \in [offset : Nat, displaced : BOOLEAN]
  /\ joins \subseteq Nat
  /\ changes \in 0 .. MaxChanges
  /\ store.trimmed => \A entry \in store.index : Start(store) <= entry
  /\ RetentionIsBounded
  /\ \A join \in joins : join >= Start(store) => join \in store.boundaries
  /\ reader.offset <= store.end
  /\ store.index = {} /\ ~ reader.displaced => store.end < IndexGap
  /\ ~ store.history => store.trimmed

----------------------------------------------------------------------------
(* Arithmetic.                                                              *)

(* What the assumptions say of the sizes, as inequalities. *)
LEMMA SizeFacts ==
  /\ ReadUnits \in Nat /\ SegmentUnits \in Nat /\ ForwardUnits \in Nat /\ MarginUnits \in Nat
  /\ IndexGap \in Nat /\ IndexGap >= 1 /\ ReadUnits >= 1 /\ ReadUnits <= SegmentUnits
  /\ SegmentUnits + IndexGap <= ForwardUnits /\ IndexGap <= MarginUnits
  BY StoreAssumption, BudgetsAssumption

(* The smaller of two numbers. *)
LEMMA LeastFacts ==
  ASSUME NEW a \in Int, NEW b \in Int
  PROVE  Least(a, b) \in Int /\ Least(a, b) <= a /\ Least(a, b) <= b
         /\ (Least(a, b) = a \/ Least(a, b) = b)
  BY DEF Least

(* A difference that stops at zero. *)
LEMMA SaturatingFacts ==
  ASSUME NEW a \in Nat, NEW b \in Nat
  PROVE  SaturatingSub(a, b) \in Nat /\ SaturatingSub(a, b) <= a
         /\ SaturatingSub(a, b) >= a - b
         /\ (SaturatingSub(a, b) > 0 => SaturatingSub(a, b) = a - b)
  BY DEF SaturatingSub

(* Every set of numbers has a least one. *)
LEMMA LeastOfSet ==
  ASSUME NEW T \in SUBSET Nat, T # {}
  PROVE  \E x \in T : \A y \in T : x <= y
<1>1. IsWellFoundedOn(OpToRel(<, Nat), Nat)
  BY NatLessThanWellFounded
<1>2. PICK x \in T : \A y \in T : ~ (<<y, x>> \in OpToRel(<, Nat))
  BY <1>1, WFMin
<1>3. \A y \in T : ~ (y < x)
  BY <1>2 DEF OpToRel
<1>4. QED
  BY <1>3

(* ... and a greatest one when it is bounded. *)
LEMMA GreatestOfSet ==
  ASSUME NEW bound \in Nat, NEW T \in SUBSET (0 .. bound), T # {}
  PROVE  \E x \in T : \A y \in T : y <= x
<1> DEFINE D == {bound - x : x \in T}
<1>1. D \in SUBSET Nat /\ D # {}
  <2>1. D \subseteq Nat
    OBVIOUS
  <2>2. PICK y \in T : TRUE
    OBVIOUS
  <2>3. bound - y \in D
    OBVIOUS
  <2>4. QED
    BY <2>1, <2>3
<1>2. PICK d \in D : \A e \in D : d <= e
  BY <1>1, LeastOfSet
<1>3. PICK x \in T : d = bound - x
  BY <1>2
<1>4. ASSUME NEW y \in T PROVE y <= x
  <2>1. bound - y \in D
    OBVIOUS
  <2>2. d <= bound - y
    BY <1>2, <2>1
  <2>3. QED
    BY <1>3, <2>2
<1>5. QED
  BY <1>4

(* First is the least entry. *)
LEMMA FirstFacts ==
  ASSUME NEW entries \in SUBSET Nat, entries # {}
  PROVE  First(entries) \in entries /\ \A entry \in entries : First(entries) <= entry
  BY LeastOfSet DEF First

(* The remainder of a multiple of gap and a rest below gap is that rest. *)
LEMMA Multiples ==
  ASSUME NEW gap \in Nat \ {0}, NEW q \in Int, NEW r \in 0 .. gap - 1
  PROVE  (gap * q + r) % gap = r
<1> DEFINE a == gap * q + r
           p == a \div gap
           m == a % gap
<1>1. a = gap * p + m /\ m \in 0 .. gap - 1 /\ p \in Int
  <2>1. a \in Int
    OBVIOUS
  <2>2. QED
    BY <2>1
<1> HIDE DEF p, m
<1>2. gap * (q - p) = m - r
  BY <1>1
<1>3. CASE q - p >= 1
  <2>1. gap * (q - p) >= gap
    BY <1>1, <1>3
  <2>2. QED
    BY <1>1, <1>2, <2>1
<1>4. CASE q - p <= -1
  <2>1. gap * (q - p) <= -gap
    BY <1>1, <1>4
  <2>2. QED
    BY <1>1, <1>2, <2>1
<1>5. CASE q = p
  BY <1>1, <1>2, <1>5 DEF m
<1>6. QED
  BY <1>1, <1>3, <1>4, <1>5

(* Among IndexGap consecutive offsets there is an anchor. *)
LEMMA AnchorNear ==
  ASSUME NEW n \in Nat
  PROVE  \E anchor \in n .. n + IndexGap - 1 : IsAnchor(anchor)
<1> DEFINE q == n \div IndexGap
           r == n % IndexGap
<1>1. n = IndexGap * q + r /\ r \in 0 .. IndexGap - 1 /\ q \in Int
  BY SizeFacts
<1> HIDE DEF q, r
<1>2. (IndexGap * q + (IndexGap - 1)) % IndexGap = IndexGap - 1
  BY <1>1, Multiples, SizeFacts
<1>3. IndexGap * q + (IndexGap - 1) \in n .. n + IndexGap - 1
  BY <1>1, SizeFacts
<1>4. QED
  BY <1>2, <1>3 DEF IsAnchor

(* The first anchor of the stream. *)
LEMMA AnchorFacts ==
  /\ IsAnchor(IndexGap - 1)
  /\ \A offset \in Nat : IsAnchor(offset) => offset >= IndexGap - 1
<1>1. (IndexGap * 0 + (IndexGap - 1)) % IndexGap = IndexGap - 1
  BY Multiples, SizeFacts
<1>2. IsAnchor(IndexGap - 1)
  BY <1>1, SizeFacts DEF IsAnchor
<1>3. ASSUME NEW offset \in Nat, IsAnchor(offset) PROVE offset >= IndexGap - 1
  <2>1. CASE offset < IndexGap
    <3>1. (IndexGap * 0 + offset) % IndexGap = offset
      BY <2>1, Multiples, SizeFacts
    <3>2. QED
      BY <1>3, <3>1, SizeFacts DEF IsAnchor
  <2>2. QED
    BY <2>1, SizeFacts
<1>4. QED
  BY <1>2, <1>3

(* The number of blocks that hold a length. *)
LEMMA Blocks ==
  ASSUME NEW length \in Nat, NEW capacity \in Nat \ {0},
         NEW count, count = ((length + capacity) - 1) \div capacity
  PROVE  /\ count \in Nat
         /\ length <= count * capacity
         /\ count > 0 => (count - 1) * capacity < length
         /\ length = 0 <=> count = 0
<1> DEFINE r == (length + capacity - 1) % capacity
<1>1. (length + capacity) - 1 = capacity * count + r /\ r \in 0 .. capacity - 1 /\ count \in Int
  OBVIOUS
<1> HIDE DEF r
<1>2. CASE count < 0
  <2>1. capacity * count <= -capacity
    BY <1>1, <1>2
  <2>2. QED
    BY <1>1, <2>1
<1>3. CASE count >= 0
  <2>1. count * capacity = capacity * count /\ (count - 1) * capacity = capacity * count - capacity
    BY <1>1
  <2>2. count = 0 => capacity * count = 0
    OBVIOUS
  <2>3. count > 0 => capacity * count >= capacity
    BY <1>1
  <2>4. QED
    BY <1>1, <1>3, <2>1, <2>2, <2>3
<1>4. QED
  BY <1>1, <1>2, <1>3
----------------------------------------------------------------------------
(* Reading.                                                                 *)

(* The types of what a store holds. *)
LEMMA StoreFacts ==
  ASSUME NEW s \in Store
  PROVE  /\ s.segments \in Seq(Segment) /\ Len(s.segments) \in Nat
         /\ \A i \in 1 .. Len(s.segments) :
              /\ s.segments[i] \in Segment
              /\ s.segments[i].start \in Nat /\ s.segments[i].size \in Nat
              /\ s.segments[i].end_time \in Nat
         /\ s.end \in Nat /\ s.index \in SUBSET Nat /\ s.boundaries \in SUBSET Nat
         /\ s.mapped \in SUBSET Nat /\ s.disk \in BOOLEAN
         /\ s.cursor.offset \in Nat /\ s.history \in BOOLEAN
         /\ Capacity(s) \in Nat /\ ReadUnits <= Capacity(s) /\ Capacity(s) <= SegmentUnits
         /\ Start(s) \in Nat
         /\ s.segments # <<>> <=> Len(s.segments) >= 1
<1>1. s.segments \in Seq(Segment) /\ Len(s.segments) \in Nat
  BY DEF Store
<1>2. \A i \in 1 .. Len(s.segments) : s.segments[i] \in Segment
  BY <1>1
<1>3. \A i \in 1 .. Len(s.segments) :
        /\ s.segments[i].start \in Nat /\ s.segments[i].size \in Nat
        /\ s.segments[i].end_time \in Nat
  BY <1>2 DEF Segment
<1>4. /\ s.end \in Nat /\ s.index \in SUBSET Nat /\ s.boundaries \in SUBSET Nat
      /\ s.mapped \in SUBSET Nat /\ s.disk \in BOOLEAN
      /\ s.cursor.offset \in Nat /\ s.history \in BOOLEAN
  BY DEF Store
<1>5. Capacity(s) \in Nat /\ ReadUnits <= Capacity(s) /\ Capacity(s) <= SegmentUnits
  BY SizeFacts DEF Capacity
<1>6. s.segments # <<>> <=> Len(s.segments) >= 1
  BY <1>1
<1>7. Start(s) \in Nat
  BY <1>3, <1>4, <1>6, <1>1 DEF Start
<1>8. QED
  BY <1>1, <1>2, <1>3, <1>4, <1>5, <1>6, <1>7

(* The window lies between the first and the last byte. *)
LEMMA WindowFacts ==
  ASSUME NEW s \in Store, SideBySide(s)
  PROVE  /\ Start(s) <= s.end
         /\ \A i \in 1 .. Len(s.segments) :
              /\ Start(s) <= s.segments[i].start
              /\ s.segments[i].start + s.segments[i].size <= s.end
<1> DEFINE n == Len(s.segments)
<1>1. CASE s.segments = <<>>
  BY <1>1, StoreFacts DEF Start
<1>2. CASE s.segments # <<>>
  <2>1. n \in Nat /\ n >= 1 /\ Start(s) = s.segments[1].start
    BY <1>2, StoreFacts DEF Start
  <2>0. \A i \in 1 .. n : s.segments[i].start \in Nat /\ s.segments[i].size \in Nat
    BY StoreFacts
  <2>2. s.segments[n].start + s.segments[n].size = s.end
    BY <2>1 DEF SideBySide
  <2>3. \A i \in 1 .. n : s.segments[i].start + s.segments[i].size <= s.end
    <3>1. TAKE i \in 1 .. n
    <3>2. CASE i = n
      BY <2>2, <3>2, StoreFacts
    <3>3. CASE i < n
      <4>1. s.segments[i].start + s.segments[i].size <= s.segments[n].start
        BY <2>1, <3>3 DEF SideBySide
      <4>2. n \in 1 .. n
        BY <2>1
      <4>3. s.segments[n].start \in Nat /\ s.segments[n].size \in Nat
        BY <2>0, <4>2
      <4>4. s.segments[i].start \in Nat /\ s.segments[i].size \in Nat
        BY <2>0
      <4>5. QED
        BY <2>2, <4>1, <4>3, <4>4
    <3>4. QED
      BY <2>1, <3>2, <3>3
  <2>4. \A i \in 1 .. n : s.segments[1].start <= s.segments[i].start
    <3>1. TAKE i \in 1 .. n
    <3>2. CASE i # 1
      <4>1. s.segments[1].start + s.segments[1].size <= s.segments[i].start
        BY <2>1, <3>2 DEF SideBySide
      <4>2. QED
        BY <2>1, <4>1, StoreFacts
    <3>3. QED
      BY <2>1, <3>2, StoreFacts
  <2>5. s.segments[1].start <= s.end
    BY <2>1, <2>3, StoreFacts
  <2>6. QED
    BY <2>1, <2>3, <2>4, <2>5
<1>3. QED
  BY <1>1, <1>2

(* partition_point finds the segment an offset of the window lies in. *)
LEMMA SegmentAtFacts ==
  ASSUME NEW s \in Store, SideBySide(s), NEW offset \in Start(s) .. s.end - 1
  PROVE  LET i == SegmentAt(s, offset) IN
         /\ i \in 1 .. Len(s.segments)
         /\ s.segments[i].start <= offset
         /\ offset < s.segments[i].start + s.segments[i].size
<1> DEFINE n == Len(s.segments)
           below == {i \in 1 .. n : s.segments[i].start <= offset}
           at == SegmentAt(s, offset)
<1>1. s.segments # <<>> /\ n \in Nat /\ n >= 1 /\ Start(s) = s.segments[1].start
  BY StoreFacts DEF Start
<1>2. offset \in Nat
  BY StoreFacts
<1>3. 1 \in below
  BY <1>1, <1>2
<1>4. below \in SUBSET (0 .. n) /\ below # {}
  BY <1>1, <1>3
<1>5. PICK i \in below : \A j \in below : j <= i
  BY <1>1, <1>4, GreatestOfSet
<1>6. DOMAIN s.segments = 1 .. n
  BY StoreFacts
<1>7. /\ i \in DOMAIN s.segments
      /\ s.segments[i].start <= offset
      /\ \A j \in DOMAIN s.segments : s.segments[j].start <= offset => j <= i
  BY <1>5, <1>6
<1>8. /\ at \in DOMAIN s.segments
      /\ s.segments[at].start <= offset
      /\ \A j \in DOMAIN s.segments : s.segments[j].start <= offset => j <= at
  BY <1>7 DEF SegmentAt
<1> HIDE DEF at
<1>9. offset < s.segments[at].start + s.segments[at].size
  <2>1. CASE at = n
    <3>1. s.segments[at].start + s.segments[at].size = s.end
      BY <1>1, <2>1 DEF SideBySide
    <3>2. s.end \in Nat /\ offset <= s.end - 1
      BY StoreFacts
    <3>3. QED
      BY <1>2, <3>1, <3>2
  <2>2. CASE at < n
    <3>1. at + 1 \in 1 .. n /\ ~ (at + 1 <= at)
      BY <1>6, <1>8, <2>2, <1>1
    <3>2. ~ (s.segments[at + 1].start <= offset)
      BY <1>6, <1>8, <3>1
    <3>3. s.segments[at].start + s.segments[at].size = s.segments[at + 1].start
      BY <1>6, <1>8, <2>2 DEF SideBySide
    <3>4. QED
      BY <1>2, <3>1, <3>2, <3>3, StoreFacts
  <2>3. QED
    BY <1>1, <1>6, <1>8, <2>1, <2>2
<1>10. QED
  BY <1>6, <1>8, <1>9 DEF at

(* What is readable starts in the window. *)
LEMMA ReadableFacts ==
  ASSUME NEW s \in Store, SideBySide(s), IndexOf(s)
  PROVE  /\ ReadableStart(s) \in Nat /\ Start(s) <= ReadableStart(s)
         /\ ReadableStart(s) <= s.end
         /\ Start(s) < s.end => ReadableStart(s) < s.end
<1>1. Start(s) \in Nat /\ s.end \in Nat /\ Start(s) <= s.end /\ s.index \in SUBSET Nat
  BY StoreFacts, WindowFacts
<1>2. CASE s.index = {}
  BY <1>1, <1>2 DEF ReadableStart
<1>3. CASE s.index # {}
  <2>1. First(s.index) \in s.index
    BY <1>1, <1>3, FirstFacts
  <2>2. First(s.index) \in Nat /\ First(s.index) < s.end
    BY <1>1, <2>1 DEF IndexOf
  <2>3. QED
    BY <1>1, <2>2 DEF ReadableStart
<1>4. QED
  BY <1>2, <1>3

(* One read: some bytes, of one segment, none past the next boundary. *)
LEMMA ReadFacts ==
  ASSUME NEW s \in Store, SideBySide(s), NEW offset \in Start(s) .. s.end - 1
  PROVE  LET segment == s.segments[SegmentAt(s, offset)]
             count == ReadCount(s, offset)
         IN /\ count \in Nat /\ count > 0
            /\ offset + count <= segment.start + segment.size
            /\ offset + count <= s.end
            /\ \A boundary \in s.boundaries : boundary > offset => offset + count <= boundary
<1> DEFINE at == SegmentAt(s, offset)
           segment == s.segments[at]
           later == {boundary \in s.boundaries : boundary > offset}
           room == Least(ReadUnits, segment.size - (offset - segment.start))
           count == ReadCount(s, offset)
<1>1. /\ at \in 1 .. Len(s.segments) /\ segment.start <= offset
      /\ offset < segment.start + segment.size
  BY SegmentAtFacts
<1>2. segment.start \in Nat /\ segment.size \in Nat /\ offset \in Nat
  BY <1>1, StoreFacts
<1>3. segment.start + segment.size <= s.end
  BY <1>1, WindowFacts
<1>4. later \in SUBSET Nat
  BY StoreFacts
<1>5. count = IF later = {} THEN room ELSE Least(room, First(later) - offset)
  BY DEF ReadCount
<1> HIDE DEF at, count, segment
<1>6. segment.size - (offset - segment.start) \in Int /\ segment.size - (offset - segment.start) > 0
  BY <1>1, <1>2
<1>7. room \in Int /\ room > 0 /\ room <= segment.size - (offset - segment.start)
  <2> DEFINE left == segment.size - (offset - segment.start)
  <2>1. left \in Int /\ left > 0 /\ room = Least(ReadUnits, left)
    BY <1>6
  <2> HIDE DEF left, room
  <2>2. room \in Int /\ room <= left /\ (room = ReadUnits \/ room = left)
    BY <2>1, LeastFacts, SizeFacts
  <2>3. QED
    BY <2>1, <2>2, SizeFacts DEF left
<1> HIDE DEF room
<1>8. CASE later = {}
  <2>1. count = room
    BY <1>5, <1>8
  <2>2. \A boundary \in s.boundaries : ~ (boundary > offset)
    BY <1>8
  <2>3. offset + count <= segment.start + segment.size
    BY <1>2, <1>7, <2>1
  <2>4. offset + count <= s.end
    BY <1>2, <1>3, <1>7, <2>1, <2>3, StoreFacts
  <2>5. QED
    BY <1>7, <2>1, <2>2, <2>3, <2>4 DEF at, count, segment
<1>9. CASE later # {}
  <2>1. First(later) \in later /\ \A boundary \in later : First(later) <= boundary
    BY <1>4, <1>9, FirstFacts
  <2>2. First(later) \in Nat /\ First(later) > offset
    BY <1>4, <2>1
  <2>3. First(later) - offset \in Int /\ First(later) - offset > 0
    BY <1>2, <2>2
  <2>4. count \in Int /\ count > 0 /\ count <= room /\ count <= First(later) - offset
    BY <1>5, <1>7, <1>9, <2>3, LeastFacts
  <2>5. \A boundary \in s.boundaries : boundary > offset => offset + count <= boundary
    <3>1. SUFFICES ASSUME NEW boundary \in s.boundaries, boundary > offset
                   PROVE  offset + count <= boundary
      OBVIOUS
    <3>2. boundary \in Nat /\ First(later) <= boundary
      BY <1>4, <2>1, <3>1, StoreFacts
    <3>3. QED
      BY <1>2, <2>2, <2>4, <3>2
  <2>6. offset + count <= segment.start + segment.size
    BY <1>2, <1>7, <2>4
  <2>7. offset + count <= s.end
    BY <1>2, <1>3, <2>4, <2>6, StoreFacts
  <2>8. QED
    BY <2>4, <2>5, <2>6, <2>7 DEF at, count, segment
<1>10. QED
  BY <1>8, <1>9
----------------------------------------------------------------------------
(* Trimming.                                                                *)

(* How an operation may move the window and the index ... *)
Advances(s, t) ==
  /\ Start(s) <= Start(t) /\ s.end <= t.end
  /\ s.index # {} => t.index # {} /\ First(s.index) <= First(t.index)

(* ... and what it leaves alone. *)
SameSettings(s, t) ==
  /\ t.policy = s.policy /\ t.history = s.history /\ t.disk = s.disk
  /\ t.trimmed = s.trimmed /\ t.cursor.offset = s.cursor.offset

(* A budget with room for a segment and the distance of two anchors. *)
Roomy(budget, history) ==
  /\ budget.units \in Nat /\ budget.time \in Nat
  /\ SegmentUnits + IndexGap <= budget.units
  /\ history => IndexGap <= budget.time

(* Every budget in force has room for a segment and the distance of two anchors. *)
LEMMA BudgetFacts ==
  ASSUME NEW policy \in Policies, NEW history \in BOOLEAN,
         history => policy.storage # "off"
  PROVE  Roomy(Budget(policy, history), history)
<1>1. policy.units \in Nat /\ policy.time \in Nat
  BY StoreAssumption
<1>2. Unlimited \in Nat
  BY StoreAssumption DEF Unlimited
<1>3. CASE EffectiveStorage(policy, history) = "off"
  <2>1. ~ history
    BY <1>3 DEF EffectiveStorage
  <2>2. Budget(policy, history) = [units |-> ForwardUnits, time |-> Unlimited]
    BY <1>3 DEF Budget
  <2>3. QED
    BY <1>2, <2>1, <2>2, SizeFacts DEF Roomy
<1>4. CASE EffectiveStorage(policy, history) # "off"
  <2>1. policy.storage # "off"
    BY <1>4 DEF EffectiveStorage
  <2>2. Budget(policy, history) = [units |-> policy.units, time |-> policy.time]
    BY <1>4 DEF Budget
  <2>3. QED
    BY <1>1, <2>1, <2>2, BudgetsAssumption DEF Roomy
<1>5. QED
  BY <1>3, <1>4

(* The number of segments to go: all of them removable, and no more. *)
LEMMA ExcessFacts ==
  ASSUME NEW s \in Store, NEW budget, NEW history
  PROVE  LET n == Excess(s, budget, history) IN
         /\ n \in 0 .. Len(s.segments)
         /\ n < Len(s.segments) \/ n = 0
         /\ \A i \in 1 .. n : Removable(s, budget, history, s.segments[i])
         /\ n + 1 < Len(s.segments) => ~ Removable(s, budget, history, s.segments[n + 1])
<1> DEFINE Gone(i) == Removable(s, budget, history, s.segments[i])
           len == Len(s.segments)
           T == {m \in 0 .. len : m + 1 < len => ~ Gone(m + 1)}
           Is(m) == /\ m < len \/ m = 0
                    /\ \A i \in 1 .. m : Gone(i)
                    /\ m + 1 < len => ~ Gone(m + 1)
<1>1. len \in Nat
  BY StoreFacts
<1> HIDE DEF Gone, len
<1>2. T \in SUBSET Nat /\ T # {}
  <2>1. len \in T
    BY <1>1
  <2>2. QED
    BY <1>1, <2>1
<1>3. PICK m \in T : \A other \in T : m <= other
  BY <1>2, LeastOfSet
<1>4. m \in 0 .. len /\ (m + 1 < len => ~ Gone(m + 1))
  BY <1>3
<1>5. m < len \/ m = 0
  <2>1. CASE len > 0
    <3>1. len - 1 \in T
      BY <1>1, <2>1
    <3>2. m <= len - 1
      BY <1>3, <3>1
    <3>3. QED
      BY <1>1, <1>4, <3>2
  <2>2. QED
    BY <1>1, <1>4, <2>1
<1>6. ASSUME NEW i \in 1 .. m PROVE Gone(i)
  <2>1. i - 1 \in 0 .. len /\ ~ (m <= i - 1) /\ (i - 1) + 1 = i
    BY <1>1, <1>4
  <2>2. i - 1 \notin T
    BY <1>3, <2>1
  <2>3. QED
    BY <2>1, <2>2
<1>7. Is(m)
  BY <1>4, <1>5, <1>6
<1>8. Excess(s, budget, history) = CHOOSE n \in 0 .. len : Is(n)
  BY DEF Excess, Gone, len
<1> HIDE DEF Is
<1>9. Excess(s, budget, history) \in 0 .. len /\ Is(Excess(s, budget, history))
  BY <1>4, <1>7, <1>8
<1>10. QED
  BY <1>9 DEF Is, Gone, len

(* A removable segment that is not the last lies well before the end. *)
LEMMA RemovableFacts ==
  ASSUME NEW s \in Store, SideBySide(s), s.cursor.offset <= s.end,
         NEW budget, NEW history \in BOOLEAN, Roomy(budget, history),
         NEW i \in 1 .. Len(s.segments), i < Len(s.segments),
         Removable(s, budget, history, s.segments[i])
  PROVE  s.segments[i].start + s.segments[i].size + IndexGap <= s.end
<1> DEFINE start == s.segments[i].start
           size == s.segments[i].size
           time == s.segments[i].end_time
<1>1. start \in Nat /\ size \in Nat /\ time \in Nat /\ s.end \in Nat /\ s.cursor.offset \in Nat
      /\ Capacity(s) \in Nat /\ Capacity(s) <= SegmentUnits
  BY StoreFacts
<1>2. size <= Capacity(s) /\ size > 0 /\ start + size <= time + (IndexGap - 1)
  BY <1>1 DEF SideBySide
<1>3. budget.units \in Nat /\ budget.time \in Nat /\ SegmentUnits + IndexGap <= budget.units
      /\ (history => IndexGap <= budget.time)
  BY DEF Roomy
<1>s. /\ IndexGap \in Nat /\ IndexGap >= 1 /\ MarginUnits \in Nat /\ SegmentUnits \in Nat
      /\ IndexGap <= MarginUnits
  BY SizeFacts
<1> SUFFICES start + size + IndexGap <= s.end
  OBVIOUS
<1>r. \/ s.end - start > budget.units
      \/ history /\ time < SaturatingSub(EndTime(s), budget.time)
      \/ ~ history /\ start + size <= SaturatingSub(s.cursor.offset, MarginUnits)
  BY DEF Removable
<1> HIDE DEF start, size, time
<1>4. CASE s.end - start > budget.units
  BY <1>s, <1>1, <1>2, <1>3, <1>4
<1>5. CASE history /\ time < SaturatingSub(EndTime(s), budget.time)
  <2>1. EndTime(s) \in Nat /\ (EndTime(s) > 0 => EndTime(s) = s.end - (IndexGap - 1))
    <3>1. IndexGap - 1 \in Nat
      BY SizeFacts
    <3>2. QED
      BY <1>1, <3>1, SaturatingFacts DEF EndTime
  <2>2. /\ SaturatingSub(EndTime(s), budget.time) > 0
        /\ SaturatingSub(EndTime(s), budget.time) = EndTime(s) - budget.time
    <3> DEFINE earliest == SaturatingSub(EndTime(s), budget.time)
    <3>1. earliest \in Nat /\ (earliest > 0 => earliest = EndTime(s) - budget.time)
      BY <1>3, <2>1, SaturatingFacts
    <3> HIDE DEF earliest
    <3>2. earliest > 0
      BY <1>1, <1>5, <3>1 DEF earliest
    <3>3. QED
      BY <3>1, <3>2 DEF earliest
  <2>3. time < EndTime(s) - budget.time /\ EndTime(s) > 0
    BY <1>3, <1>5, <2>1, <2>2
  <2>4. QED
    BY <1>s, <1>1, <1>2, <1>3, <1>5, <2>1, <2>3
<1>6. CASE ~ history /\ start + size <= SaturatingSub(s.cursor.offset, MarginUnits)
  <2>1. /\ SaturatingSub(s.cursor.offset, MarginUnits) > 0
        /\ SaturatingSub(s.cursor.offset, MarginUnits) = s.cursor.offset - MarginUnits
    <3> DEFINE line == SaturatingSub(s.cursor.offset, MarginUnits)
    <3>1. line \in Nat /\ (line > 0 => line = s.cursor.offset - MarginUnits)
      BY <1>s, <1>1, SaturatingFacts
    <3> HIDE DEF line
    <3>2. line > 0
      BY <1>1, <1>2, <1>6, <3>1 DEF line
    <3>3. QED
      BY <3>1, <3>2 DEF line
  <2>2. start + size <= s.cursor.offset - MarginUnits
    BY <1>6, <2>1
  <2>3. QED
    BY <1>s, <1>1, <2>2
<1>7. QED
  BY <1>r, <1>4, <1>5, <1>6

(* What popping n segments leaves: the others, and their slots. *)
LEMMA PoppedFields ==
  ASSUME NEW s \in Store, NEW n \in 0 .. Len(s.segments)
  PROVE  LET p == Popped(s, n) IN
         /\ p \in Store /\ SameSettings(s, p)
         /\ p.end = s.end /\ p.index = s.index /\ p.boundaries = s.boundaries
         /\ p.cursor = s.cursor
         /\ Len(p.segments) = Len(s.segments) - n
         /\ \A i \in 1 .. Len(s.segments) - n : p.segments[i] = s.segments[n + i]
         /\ p.mapped = s.mapped \ {s.segments[i].start : i \in 1 .. n}
<1> DEFINE p == Popped(s, n)
           left == SubSeq(s.segments, n + 1, Len(s.segments))
           mapped == s.mapped \ {s.segments[i].start : i \in 1 .. n}
<1>1. s.segments \in Seq(Segment) /\ Len(s.segments) \in Nat /\ s.mapped \in SUBSET Nat
  BY StoreFacts
<1>2. n + 1 \in 1 .. Len(s.segments) + 1 /\ Len(s.segments) \in 0 .. Len(s.segments)
  BY <1>1
<1>3. /\ left \in Seq(Segment)
      /\ Len(left) = Len(s.segments) - n
      /\ \A i \in 1 .. Len(s.segments) - n : left[i] = s.segments[n + i]
  <2>1. /\ left \in Seq(Segment)
        /\ Len(left) = IF n + 1 <= Len(s.segments) THEN Len(s.segments) - (n + 1) + 1 ELSE 0
        /\ \A i \in 1 .. Len(s.segments) - (n + 1) + 1 : left[i] = s.segments[(n + 1) + i - 1]
    BY <1>1, <1>2, SubSeqProperties
  <2>2. Len(s.segments) - (n + 1) + 1 = Len(s.segments) - n
    BY <1>1
  <2>3. \A i \in 1 .. Len(s.segments) - n : (n + 1) + i - 1 = n + i
    BY <1>1
  <2>4. QED
    BY <1>1, <2>1, <2>2, <2>3
<1>4. mapped \in SUBSET Nat
  BY <1>1
<1>5. p = [s EXCEPT !.segments = left, !.mapped = mapped]
  BY DEF Popped
<1> HIDE DEF p, left, mapped
<1>6. p \in Store
  BY <1>3, <1>4, <1>5 DEF Store
<1>7. /\ p.segments = left /\ p.mapped = mapped
      /\ p.end = s.end /\ p.index = s.index /\ p.boundaries = s.boundaries
      /\ p.cursor = s.cursor /\ p.policy = s.policy /\ p.history = s.history
      /\ p.disk = s.disk /\ p.trimmed = s.trimmed
  BY <1>5 DEF Store
<1>8. QED
  BY <1>3, <1>6, <1>7 DEF p, mapped, SameSettings

(* Popping leaves the segments side by side; the window begins where the last
   one popped ended. *)
LEMMA PoppedFacts ==
  ASSUME NEW s \in Store, SideBySide(s), SlotsOf(s),
         NEW n \in 0 .. Len(s.segments), n < Len(s.segments) \/ n = 0
  PROVE  LET p == Popped(s, n) IN
         /\ SideBySide(p) /\ SlotsOf(p)
         /\ n = 0 => Start(p) = Start(s)
         /\ n > 0 => Start(p) = s.segments[n].start + s.segments[n].size
         /\ Start(s) <= Start(p)
<1> DEFINE p == Popped(s, n)
           len == Len(s.segments)
<1>1. /\ p \in Store /\ p.end = s.end /\ p.disk = s.disk /\ Len(p.segments) = len - n
      /\ p.mapped = s.mapped \ {s.segments[i].start : i \in 1 .. n}
  BY PoppedFields DEF SameSettings
<1>2. \A i \in 1 .. len - n : p.segments[i] = s.segments[n + i]
  BY PoppedFields
<1>3. len \in Nat /\ n \in Nat /\ n <= len
  BY StoreFacts
<1>4. \A i \in 1 .. len : s.segments[i].start \in Nat /\ s.segments[i].size \in Nat
  BY StoreFacts
<1> HIDE DEF p
<1>5. SideBySide(p)
  <2>1. SUFFICES ASSUME NEW i \in 1 .. len - n
                 PROVE  LET segment == p.segments[i] IN
                   /\ segment.size <= Capacity(p)
                   /\ i < len - n => segment.size > 0
                   /\ segment.start + segment.size =
                        IF i = len - n THEN p.end ELSE p.segments[i + 1].start
                   /\ segment.size > 0 =>
                        segment.start + segment.size <= segment.end_time + (IndexGap - 1)
                   /\ \A j \in i + 1 .. len - n : segment.start + segment.size <= p.segments[j].start
    BY <1>1 DEF SideBySide
  <2>2. n + i \in 1 .. len /\ p.segments[i] = s.segments[n + i]
    BY <1>2, <1>3
  <2>3. Capacity(p) = Capacity(s)
    BY <1>1 DEF Capacity
  <2>4. i # len - n => n + i + 1 \in 1 .. len /\ p.segments[i + 1] = s.segments[n + i + 1]
                       /\ n + i # len /\ n + (i + 1) = n + i + 1
    BY <1>2, <1>3
  <2>5. i < len - n <=> n + i < len
    BY <1>3
  <2>6. i = len - n <=> n + i = len
    BY <1>3
  <2>7. \A j \in i + 1 .. len - n : n + j \in n + i + 1 .. len /\ p.segments[j] = s.segments[n + j]
    BY <1>2, <1>3
  <2>8. /\ s.segments[n + i].size <= Capacity(s)
        /\ n + i < len => s.segments[n + i].size > 0
        /\ s.segments[n + i].start + s.segments[n + i].size =
             IF n + i = len THEN s.end ELSE s.segments[n + i + 1].start
        /\ s.segments[n + i].size > 0 =>
             s.segments[n + i].start + s.segments[n + i].size
               <= s.segments[n + i].end_time + (IndexGap - 1)
        /\ \A j \in n + i + 1 .. len :
             s.segments[n + i].start + s.segments[n + i].size <= s.segments[j].start
    BY <2>2 DEF SideBySide
  <2>9. QED
    BY <1>1, <2>2, <2>3, <2>4, <2>5, <2>6, <2>7, <2>8
<1>6. \A i \in 1 .. n, j \in n + 1 .. len : s.segments[i].start # s.segments[j].start
  <2>1. TAKE i \in 1 .. n, j \in n + 1 .. len
  <2>2. i \in 1 .. len /\ j \in 1 .. len /\ i < len /\ j \in i + 1 .. len
    BY <1>3
  <2>3. s.segments[i].size > 0 /\ s.segments[i].start + s.segments[i].size <= s.segments[j].start
    BY <2>2 DEF SideBySide
  <2>4. QED
    BY <1>4, <2>2, <2>3
<1>7. SlotsOf(p)
  <2>0. DOMAIN s.segments = 1 .. len /\ DOMAIN p.segments = 1 .. len - n
    BY <1>1, <1>3, StoreFacts
  <2>1. p.mapped \subseteq Starts(p.segments)
    <3>1. SUFFICES ASSUME NEW x \in p.mapped PROVE x \in Starts(p.segments)
      OBVIOUS
    <3>2. x \in Starts(s.segments) /\ x \notin {s.segments[i].start : i \in 1 .. n}
      BY <1>1, <3>1 DEF SlotsOf
    <3>3. PICK i \in 1 .. len : x = s.segments[i].start
      BY <2>0, <3>2 DEF Starts
    <3>4. i \notin 1 .. n
      BY <3>2, <3>3
    <3>5. i - n \in 1 .. len - n /\ n + (i - n) = i
      BY <1>3, <3>4
    <3>6. p.segments[i - n].start = x
      BY <1>2, <3>3, <3>5
    <3>7. QED
      BY <2>0, <3>5, <3>6 DEF Starts
  <2>2. ASSUME p.disk, NEW i \in 1 .. Len(p.segments), p.segments[i].size > 0
        PROVE  p.segments[i].start \in p.mapped
    <3>0. i \in 1 .. len - n
      BY <1>1
    <3>1. /\ n + i \in n + 1 .. len /\ n + i \in 1 .. len
          /\ p.segments[i] = s.segments[n + i]
      <4>1. n + i \in n + 1 .. len /\ n + i \in 1 .. len
        BY <1>1, <1>3, <3>0
      <4>2. p.segments[i] = s.segments[n + i]
        BY <1>2, <3>0
      <4>3. QED
        BY <4>1, <4>2
    <3>2. s.segments[n + i].start \in s.mapped
      BY <1>1, <2>2, <3>1 DEF SlotsOf
    <3>3. QED
      BY <1>1, <1>6, <3>1, <3>2
  <2>3. ~ p.disk => p.mapped = {}
    BY <1>1 DEF SlotsOf
  <2>4. QED
    BY <2>1, <2>2, <2>3 DEF SlotsOf
<1>8. n = 0 => Start(p) = Start(s)
  <2>1. CASE n = 0 /\ len = 0
    BY <1>1, <1>3, <2>1, StoreFacts DEF Start
  <2>2. CASE n = 0 /\ len > 0
    <3>1. p.segments[1] = s.segments[1]
      BY <1>2, <1>3, <2>2
    <3>2. p.segments # <<>> /\ s.segments # <<>>
      BY <1>1, <1>3, <2>2, StoreFacts
    <3>3. QED
      BY <3>1, <3>2 DEF Start
  <2>3. QED
    BY <1>3, <2>1, <2>2
<1>9. n > 0 => Start(p) = s.segments[n].start + s.segments[n].size
  <2>1. SUFFICES ASSUME n > 0 PROVE Start(p) = s.segments[n].start + s.segments[n].size
    OBVIOUS
  <2>2. n \in 1 .. len /\ n < len /\ n # len
    BY <1>3, <2>1
  <2>3. s.segments[n].start + s.segments[n].size = s.segments[n + 1].start
    BY <2>2 DEF SideBySide
  <2>4. p.segments[1] = s.segments[n + 1] /\ p.segments # <<>>
    BY <1>1, <1>2, <1>3, <2>2, StoreFacts
  <2>5. QED
    BY <2>3, <2>4 DEF Start
<1>10. Start(s) <= Start(p)
  <2>1. CASE n = 0
    BY <1>8, <2>1, StoreFacts
  <2>2. CASE n > 0
    <3>1. n \in 1 .. len
      BY <1>3, <2>2
    <3>2. Start(s) <= s.segments[n].start /\ Start(s) \in Nat
      BY <3>1, WindowFacts, StoreFacts
    <3>3. QED
      BY <1>4, <1>9, <2>2, <3>1, <3>2
  <2>3. QED
    BY <1>3, <2>1, <2>2
<1>11. QED
  BY <1>5, <1>7, <1>8, <1>9, <1>10 DEF p

(* A store whose index has an entry holds one near its end. *)
LEMMA LateAnchor ==
  ASSUME NEW s \in Store, IndexOf(s), s.index # {}
  PROVE  \E late \in s.index : Start(s) <= late /\ s.end - IndexGap <= late /\ IndexGap - 1 <= late
<1>1. s.end \in Nat /\ s.index \in SUBSET Nat /\ Start(s) \in Nat
      /\ IndexGap \in Nat /\ IndexGap >= 1
  BY StoreFacts, SizeFacts
<1>2. PICK entry \in s.index : Start(s) <= entry
  BY DEF IndexOf
<1>3. entry \in Nat /\ entry < s.end /\ IsAnchor(entry) /\ entry >= IndexGap - 1
  BY <1>1, <1>2, AnchorFacts DEF IndexOf
<1>4. CASE s.end - IndexGap <= entry
  BY <1>2, <1>3, <1>4
<1>5. CASE entry < s.end - IndexGap
  <2>1. s.end - IndexGap \in Nat
    BY <1>1, <1>3, <1>5
  <2>2. PICK anchor \in s.end - IndexGap .. (s.end - IndexGap) + IndexGap - 1 : IsAnchor(anchor)
    BY <2>1, AnchorNear
  <2>3. anchor \in entry .. s.end - 1 /\ anchor >= s.end - IndexGap /\ anchor \in Nat
    BY <1>1, <1>3, <1>5, <2>1, <2>2
  <2>4. anchor \in s.index
    BY <1>2, <2>2, <2>3 DEF IndexOf
  <2>5. QED
    BY <1>1, <1>2, <1>3, <1>5, <2>3, <2>4
<1>6. QED
  BY <1>1, <1>3, <1>4, <1>5

(* The first entry of a smaller index comes later. *)
LEMMA FirstOfSubset ==
  ASSUME NEW entries \in SUBSET Nat, NEW fewer \in SUBSET entries, fewer # {}
  PROVE  First(entries) <= First(fewer)
<1>1. First(fewer) \in fewer
  BY FirstFacts
<1>2. QED
  BY <1>1, FirstFacts

(* Popping removable segments keeps the store sound, and the window moves on. *)
LEMMA PoppedSound ==
  ASSUME NEW s, Sound(s), NEW budget, NEW history \in BOOLEAN, Roomy(budget, history),
         NEW n \in 0 .. Len(s.segments), n < Len(s.segments) \/ n = 0,
         \A i \in 1 .. n : Removable(s, budget, history, s.segments[i])
  PROVE  LET p == Popped(s, n) IN
         /\ Sound(p) /\ Advances(s, p)
         /\ n > 0 => Start(p) + IndexGap <= s.end
         /\ p.index # {} =>
              \E late \in p.index : Start(p) <= late /\ s.end - IndexGap <= late /\ IndexGap - 1 <= late
<1> DEFINE p == Popped(s, n)
<1>1. s \in Store /\ SideBySide(s) /\ SlotsOf(s) /\ IndexOf(s) /\ s.cursor.offset <= s.end
      /\ Settled(s)
  BY DEF Sound
<1>2. p \in Store /\ SameSettings(s, p) /\ p.end = s.end /\ p.index = s.index /\ p.cursor = s.cursor
  BY <1>1, PoppedFields
<1>3. SideBySide(p) /\ SlotsOf(p) /\ Start(s) <= Start(p)
      /\ (n = 0 => Start(p) = Start(s))
      /\ (n > 0 => Start(p) = s.segments[n].start + s.segments[n].size)
  BY <1>1, PoppedFacts
<1>4. ASSUME n > 0 PROVE Start(p) + IndexGap <= s.end
  <2>1. n \in 1 .. Len(s.segments) /\ n < Len(s.segments) /\ n \in 1 .. n
    BY <1>1, <1>4, StoreFacts
  <2>2. s.segments[n].start + s.segments[n].size + IndexGap <= s.end
    BY <1>1, <2>1, RemovableFacts
  <2>3. QED
    BY <1>3, <1>4, <2>2
<1> HIDE DEF p
<1>5. ASSUME p.index # {}
      PROVE  \E late \in p.index : Start(p) <= late /\ s.end - IndexGap <= late /\ IndexGap - 1 <= late
  <2>1. PICK late \in s.index : Start(s) <= late /\ s.end - IndexGap <= late /\ IndexGap - 1 <= late
    BY <1>1, <1>2, <1>5, LateAnchor
  <2>2. late \in Nat /\ Start(p) \in Nat /\ s.end \in Nat /\ IndexGap \in Nat
    BY <1>1, <1>2, <2>1, StoreFacts, SizeFacts
  <2>3. Start(p) <= late
    <3>1. CASE n = 0
      BY <1>3, <2>1, <3>1
    <3>2. CASE n > 0
      BY <1>4, <2>1, <2>2, <3>2
    <3>3. QED
      BY <1>1, <3>1, <3>2, StoreFacts
  <2>4. QED
    BY <1>2, <2>1, <2>3
<1>6. IndexOf(p)
  BY <1>1, <1>2, <1>5 DEF IndexOf
<1>7. Sound(p)
  BY <1>1, <1>2, <1>3, <1>6 DEF Sound, Settled, SameSettings
<1>8. Advances(s, p)
  <2>1. s.index # {} => First(s.index) <= First(p.index)
    <3>1. SUFFICES ASSUME s.index # {} PROVE First(s.index) <= First(s.index)
      BY <1>2
    <3>2. First(s.index) \in Nat
      BY <1>1, <3>1, FirstFacts, StoreFacts
    <3>3. QED
      BY <3>2
  <2>2. QED
    BY <1>1, <1>2, <1>3, <2>1, StoreFacts DEF Advances
<1>9. QED
  BY <1>4, <1>5, <1>7, <1>8 DEF p

(* Forgetting boundaries and entries outside the window. *)
LEMMA ExpiredFields ==
  ASSUME NEW s \in Store, NEW before, NEW budget, NEW history \in BOOLEAN
  PROVE  LET e == Expired(s, before, budget, history)
             earliest == IF history THEN SaturatingSub(EndTime(s), budget.time) ELSE 0
         IN
         /\ e \in Store /\ SameSettings(s, e)
         /\ e.end = s.end /\ e.segments = s.segments /\ e.mapped = s.mapped
         /\ e.boundaries = {boundary \in s.boundaries : boundary >= Start(s)}
         /\ e.index = {entry \in s.index : entry >= Start(s) /\ Time(entry) >= earliest}
<1> DEFINE e == Expired(s, before, budget, history)
           earliest == IF history THEN SaturatingSub(EndTime(s), budget.time) ELSE 0
           boundaries == {boundary \in s.boundaries : boundary >= Start(s)}
           index == {entry \in s.index : entry >= Start(s) /\ Time(entry) >= earliest}
           expired == s.cursor.expired \/ (~ history /\ Start(s) > s.cursor.offset /\ Start(s) > before)
<1>1. s.boundaries \in SUBSET Nat /\ s.index \in SUBSET Nat
  BY StoreFacts
<1>2. boundaries \in SUBSET Nat /\ index \in SUBSET Nat
  BY <1>1
<1>3. e = [s EXCEPT !.cursor.expired = expired, !.boundaries = boundaries, !.index = index]
  BY DEF Expired
<1>4. s.cursor \in [offset : Nat, expired : BOOLEAN]
  BY DEF Store
<1>5. expired \in BOOLEAN
  BY <1>4
<1> HIDE DEF e, boundaries, index, expired
<1>6. e.cursor = [s.cursor EXCEPT !.expired = expired]
  BY <1>3 DEF Store
<1>7. e.cursor \in [offset : Nat, expired : BOOLEAN] /\ e.cursor.offset = s.cursor.offset
  BY <1>4, <1>5, <1>6
<1>8. e = [s EXCEPT !.cursor = e.cursor, !.boundaries = boundaries, !.index = index]
  BY <1>3 DEF Store
<1>9. e \in Store
  BY <1>2, <1>7, <1>8 DEF Store
<1>10. /\ e.end = s.end /\ e.segments = s.segments /\ e.mapped = s.mapped
       /\ e.boundaries = boundaries /\ e.index = index
       /\ e.policy = s.policy /\ e.history = s.history /\ e.disk = s.disk /\ e.trimmed = s.trimmed
  BY <1>3 DEF Store
<1>11. QED
  BY <1>7, <1>9, <1>10 DEF e, boundaries, index, SameSettings

(* Forgetting what lies before the window keeps the store sound: a trim leaves
   it an entry, because it never gives up the last IndexGap units. *)
LEMMA ExpiredSound ==
  ASSUME NEW s, Sound(s), NEW before, NEW budget, NEW history \in BOOLEAN, Roomy(budget, history)
  PROVE  LET e == Expired(s, before, budget, history) IN
         /\ Sound(e) /\ Advances(s, e) /\ Start(e) = Start(s)
         /\ \A entry \in e.index : Start(e) <= entry
<1> DEFINE e == Expired(s, before, budget, history)
           earliest == IF history THEN SaturatingSub(EndTime(s), budget.time) ELSE 0
<1>1. s \in Store /\ SideBySide(s) /\ SlotsOf(s) /\ IndexOf(s) /\ s.cursor.offset <= s.end
      /\ Settled(s)
  BY DEF Sound
<1>2. /\ e \in Store /\ SameSettings(s, e)
      /\ e.end = s.end /\ e.segments = s.segments /\ e.mapped = s.mapped
      /\ e.index = {entry \in s.index : entry >= Start(s) /\ Time(entry) >= earliest}
  BY <1>1, ExpiredFields
<1>3. s.end \in Nat /\ s.index \in SUBSET Nat /\ Start(s) \in Nat /\ IndexGap \in Nat /\ IndexGap >= 1
  BY <1>1, StoreFacts, SizeFacts
<1> HIDE DEF e
<1>4. Start(e) = Start(s) /\ Capacity(e) = Capacity(s)
  BY <1>2 DEF Start, Capacity, SameSettings
<1>5. SideBySide(e) /\ SlotsOf(e)
  BY <1>1, <1>2, <1>4 DEF SideBySide, SlotsOf, SameSettings
<1>6. earliest \in Nat /\ (s.end >= IndexGap => earliest + IndexGap - 1 + IndexGap <= s.end \/ earliest = 0)
  <2>1. CASE ~ history
    BY <2>1
  <2>2. CASE history
    <3>1. budget.time \in Nat /\ IndexGap <= budget.time
      BY <2>2 DEF Roomy
    <3>2. IndexGap - 1 \in Nat
      BY <1>3
    <3>3. EndTime(s) \in Nat /\ (EndTime(s) > 0 => EndTime(s) = s.end - (IndexGap - 1))
      BY <1>3, <3>2, SaturatingFacts DEF EndTime
    <3>4. /\ earliest \in Nat /\ earliest <= EndTime(s)
          /\ earliest > 0 => earliest = EndTime(s) - budget.time
      BY <2>2, <3>1, <3>3, SaturatingFacts
    <3> HIDE DEF earliest
    <3>5. CASE earliest > 0
      BY <1>3, <3>1, <3>3, <3>4, <3>5
    <3>6. QED
      BY <3>4, <3>5
  <2>3. QED
    BY <2>1, <2>2
<1> HIDE DEF earliest
<1>7. ASSUME s.index # {}
      PROVE  \E late \in e.index : Start(e) <= late
  <2>1. PICK late \in s.index : Start(s) <= late /\ s.end - IndexGap <= late /\ IndexGap - 1 <= late
    BY <1>1, <1>7, LateAnchor
  <2>2. late \in Nat /\ late < s.end
    BY <1>1, <1>3, <2>1 DEF IndexOf
  <2>3. Time(late) \in Int /\ Time(late) = late - (IndexGap - 1)
    BY <1>3, <2>2 DEF Time
  <2>4. s.end >= IndexGap
    BY <1>3, <2>1, <2>2
  <2>5. Time(late) >= earliest
    <3>1. CASE earliest = 0
      BY <1>3, <2>1, <2>2, <2>3, <3>1
    <3>2. CASE earliest + IndexGap - 1 + IndexGap <= s.end
      BY <1>3, <1>6, <2>1, <2>2, <2>3, <3>2
    <3>3. QED
      BY <1>6, <2>4, <3>1, <3>2
  <2>6. late \in e.index
    BY <1>2, <2>1, <2>5, <1>3, <2>2
  <2>7. QED
    BY <1>4, <2>1, <2>6
<1>8. e.index \subseteq s.index /\ \A entry \in e.index : entry \in Nat /\ Start(e) <= entry
  BY <1>2, <1>3, <1>4
<1>9. IndexOf(e)
  <2>1. \A entry \in e.index : entry < e.end /\ IsAnchor(entry)
    BY <1>1, <1>2, <1>8 DEF IndexOf
  <2>2. ASSUME NEW entry \in e.index, NEW anchor \in entry .. e.end - 1, IsAnchor(anchor)
        PROVE  anchor \in e.index
    <3>1. anchor \in s.index
      BY <1>1, <1>2, <1>8, <2>2 DEF IndexOf
    <3>2. entry \in Nat /\ anchor \in Nat /\ entry <= anchor /\ entry >= Start(s) /\ Time(entry) >= earliest
      BY <1>2, <1>3, <1>8, <2>2
    <3>3. Time(anchor) >= Time(entry) /\ Time(anchor) \in Int /\ Time(entry) \in Int
      BY <1>3, <3>2 DEF Time
    <3>4. anchor >= Start(s) /\ Time(anchor) >= earliest
      BY <1>3, <1>6, <3>2, <3>3
    <3>5. QED
      BY <1>2, <3>1, <3>4
  <2>3. e.index # {} => \E entry \in e.index : Start(e) <= entry
    BY <1>8
  <2>4. QED
    BY <2>1, <2>2, <2>3 DEF IndexOf
<1>10. Sound(e)
  BY <1>1, <1>2, <1>5, <1>9 DEF Sound, Settled, SameSettings
<1>11. Advances(s, e)
  <2>1. ASSUME s.index # {} PROVE e.index # {} /\ First(s.index) <= First(e.index)
    BY <1>3, <1>7, <1>8, <2>1, FirstOfSubset
  <2>2. Start(s) <= Start(e) /\ s.end <= e.end
    BY <1>2, <1>3, <1>4
  <2>3. QED
    BY <2>1, <2>2 DEF Advances
<1>12. QED
  BY <1>4, <1>8, <1>10, <1>11 DEF e

(* Windows that move on one after the other move on. *)
LEMMA AdvancesTransitive ==
  ASSUME NEW s, NEW t, NEW u, Sound(s), Sound(t), Sound(u), Advances(s, t), Advances(t, u)
  PROVE  Advances(s, u)
<1>1. /\ Start(s) \in Nat /\ Start(t) \in Nat /\ Start(u) \in Nat
      /\ s.end \in Nat /\ t.end \in Nat /\ u.end \in Nat
      /\ s.index \in SUBSET Nat /\ t.index \in SUBSET Nat /\ u.index \in SUBSET Nat
  BY StoreFacts DEF Sound
<1>2. Start(s) <= Start(u) /\ s.end <= u.end
  BY <1>1 DEF Advances
<1>3. ASSUME s.index # {} PROVE u.index # {} /\ First(s.index) <= First(u.index)
  <2>1. /\ t.index # {} /\ u.index # {}
        /\ First(s.index) <= First(t.index) /\ First(t.index) <= First(u.index)
    BY <1>3 DEF Advances
  <2>2. First(s.index) \in Nat /\ First(t.index) \in Nat /\ First(u.index) \in Nat
    BY <1>1, <1>3, <2>1, FirstFacts
  <2>3. QED
    BY <2>1, <2>2
<1>4. QED
  BY <1>2, <1>3 DEF Advances

(* What is readable never reaches back. *)
LEMMA ReadableAdvances ==
  ASSUME NEW s, NEW t, Sound(s), Sound(t), Advances(s, t)
  PROVE  ReadableStart(s) <= ReadableStart(t)
<1>1. /\ Start(s) \in Nat /\ Start(t) \in Nat /\ Start(s) <= Start(t)
      /\ s.index \in SUBSET Nat /\ t.index \in SUBSET Nat /\ IndexGap \in Nat
  BY StoreFacts, SizeFacts DEF Sound, Advances
<1>2. Start(t) <= ReadableStart(t) /\ ReadableStart(t) \in Nat
  BY ReadableFacts DEF Sound
<1>3. CASE s.index = {} \/ Time(First(s.index)) = 0
  BY <1>1, <1>2, <1>3 DEF ReadableStart
<1>4. CASE s.index # {} /\ Time(First(s.index)) # 0
  <2>1. t.index # {} /\ First(s.index) <= First(t.index)
    BY <1>4 DEF Advances
  <2>2. First(s.index) \in s.index /\ First(t.index) \in t.index
    BY <1>1, <1>4, <2>1, FirstFacts
  <2>3. First(s.index) \in Nat /\ First(t.index) \in Nat
    BY <1>1, <2>2
  <2>4. First(s.index) >= IndexGap - 1
    <3>1. IsAnchor(First(s.index))
      BY <2>2 DEF Sound, IndexOf
    <3>2. QED
      BY <2>3, <3>1, AnchorFacts
  <2>5. Time(First(t.index)) # 0
    BY <1>1, <1>4, <2>1, <2>3, <2>4 DEF Time
  <2>6. QED
    BY <1>1, <1>4, <2>1, <2>3, <2>5 DEF ReadableStart
<1>5. QED
  BY <1>3, <1>4

(* What every outcome of a trim is like. *)
Trimming(s, budget, outcome) ==
  LET t == outcome.store IN
  /\ outcome.ok \in BOOLEAN
  /\ Sound(t) /\ Advances(s, t) /\ SameSettings(s, t) /\ t.end = s.end
  /\ Start(t) = Start(s) \/ Start(t) + IndexGap <= s.end
  /\ \A boundary \in s.boundaries : boundary >= Start(t) => boundary \in t.boundaries
  /\ outcome.ok => t.end - Start(t) <= budget.units /\ \A entry \in t.index : Start(t) <= entry
  /\ Len(s.segments) > 0 =>
       Len(t.segments) > 0 /\ t.segments[Len(t.segments)] = s.segments[Len(s.segments)]

(* A trim that ends fits the budget: the segment it stopped at is within it,
   or is the only one, and a budget has room for one. *)
LEMMA TrimmedSize ==
  ASSUME NEW s, Sound(s), NEW budget, NEW history \in BOOLEAN, Roomy(budget, history)
  PROVE  LET p == Popped(s, Excess(s, budget, history)) IN p.end - Start(p) <= budget.units
<1> DEFINE n == Excess(s, budget, history)
           p == Popped(s, n)
           len == Len(s.segments)
<1>1. s \in Store /\ SideBySide(s) /\ SlotsOf(s)
  BY DEF Sound
<1>2. /\ n \in 0 .. len /\ (n < len \/ n = 0)
      /\ n + 1 < len => ~ Removable(s, budget, history, s.segments[n + 1])
  BY <1>1, ExcessFacts
<1>3. len \in Nat /\ s.end \in Nat /\ Capacity(s) \in Nat /\ Capacity(s) <= SegmentUnits
      /\ budget.units \in Nat /\ SegmentUnits + IndexGap <= budget.units
      /\ SegmentUnits \in Nat /\ IndexGap \in Nat
  BY <1>1, StoreFacts, SizeFacts DEF Roomy
<1> HIDE DEF n, len
<1>4. p.end = s.end /\ Len(p.segments) = len - n
      /\ \A i \in 1 .. len - n : p.segments[i] = s.segments[n + i]
      /\ p \in Store
  BY <1>1, <1>2, PoppedFields DEF len
<1> HIDE DEF p
<1>5. CASE len = 0
  <2>1. n = 0
    BY <1>2, <1>5
  <2>2. p.segments = <<>>
    BY <1>4, <1>5, <2>1, StoreFacts
  <2>3. QED
    BY <1>3, <1>4, <2>2 DEF Start, p, n
<1>6. CASE len > 0
  <2>1. n + 1 \in 1 .. len /\ p.segments # <<>> /\ p.segments[1] = s.segments[n + 1]
    BY <1>2, <1>3, <1>4, <1>6, StoreFacts
  <2>2. Start(p) = s.segments[n + 1].start /\ Start(p) \in Nat
    BY <1>4, <2>1, StoreFacts DEF Start
  <2>3. CASE n + 1 < len
    BY <1>2, <1>3, <1>4, <2>2, <2>3 DEF Removable, p, n
  <2>4. CASE n + 1 = len
    <3>1. /\ s.segments[n + 1].start + s.segments[n + 1].size = s.end
          /\ s.segments[n + 1].size <= Capacity(s)
          /\ s.segments[n + 1].start \in Nat /\ s.segments[n + 1].size \in Nat
      BY <1>1, <2>1, <2>4, StoreFacts DEF SideBySide, len
    <3>2. s.end - s.segments[n + 1].start <= budget.units
      BY <1>3, <3>1
    <3>3. QED
      BY <1>4, <2>2, <3>2 DEF p, n
  <2>5. QED
    BY <1>3, <2>1, <2>3, <2>4
<1>7. QED
  BY <1>3, <1>5, <1>6

(* Popping never takes the last segment. *)
LEMMA PoppedTail ==
  ASSUME NEW s \in Store, NEW n \in 0 .. Len(s.segments), n < Len(s.segments) \/ n = 0,
         Len(s.segments) > 0
  PROVE  LET p == Popped(s, n) IN
         Len(p.segments) > 0 /\ p.segments[Len(p.segments)] = s.segments[Len(s.segments)]
<1>1. Len(s.segments) \in Nat /\ Len(s.segments) - n \in 1 .. Len(s.segments) - n
      /\ n + (Len(s.segments) - n) = Len(s.segments)
  BY StoreFacts
<1>2. /\ Len(Popped(s, n).segments) = Len(s.segments) - n
      /\ \A i \in 1 .. Len(s.segments) - n : Popped(s, n).segments[i] = s.segments[n + i]
  BY PoppedFields
<1>3. QED
  BY <1>1, <1>2

(* Every outcome of a trim, also one that stopped half way, is sound, has moved
   on, and fits the budget if it went through. *)
LEMMA TrimFacts ==
  ASSUME NEW s, Sound(s), NEW budget, NEW history \in BOOLEAN, Roomy(budget, history),
         NEW outcome \in Trim(s, budget, history)
  PROVE  Trimming(s, budget, outcome)
<1> DEFINE n == Excess(s, budget, history)
           p == Popped(s, n)
           e == Expired(p, Start(s), budget, history)
<1>1. s \in Store /\ SideBySide(s) /\ SlotsOf(s) /\ IndexOf(s)
  BY DEF Sound
<1>2. /\ n \in 0 .. Len(s.segments) /\ (n < Len(s.segments) \/ n = 0)
      /\ \A i \in 1 .. n : Removable(s, budget, history, s.segments[i])
  BY <1>1, ExcessFacts
<1>3. Len(s.segments) \in Nat /\ n \in Nat
  BY <1>1, <1>2, StoreFacts
<1>4. \/ outcome = [store |-> e, ok |-> TRUE]
      \/ \E k \in 0 .. n - 1 : outcome = [store |-> Popped(s, k), ok |-> FALSE]
  BY DEF Trim, Done
<1>5. p.end - Start(p) <= budget.units
  BY TrimmedSize
<1> HIDE DEF n
<1>6. CASE outcome = [store |-> e, ok |-> TRUE]
  <2>1. /\ Sound(p) /\ Advances(s, p) /\ (n > 0 => Start(p) + IndexGap <= s.end)
    BY <1>2, PoppedSound
  <2>2. /\ p \in Store /\ SameSettings(s, p) /\ p.end = s.end /\ p.boundaries = s.boundaries
    BY <1>1, <1>2, PoppedFields
  <2>3. n = 0 => Start(p) = Start(s)
    BY <1>1, <1>2, PoppedFacts
  <2>4. Len(s.segments) > 0 =>
          Len(p.segments) > 0 /\ p.segments[Len(p.segments)] = s.segments[Len(s.segments)]
    BY <1>1, <1>2, PoppedTail
  <2> HIDE DEF p
  <2>5. /\ Sound(e) /\ Advances(p, e) /\ Start(e) = Start(p)
        /\ \A entry \in e.index : Start(e) <= entry
    BY <2>1, ExpiredSound
  <2>6. /\ SameSettings(p, e) /\ e.end = p.end /\ e.segments = p.segments
        /\ e.boundaries = {boundary \in p.boundaries : boundary >= Start(p)}
    BY <2>2, ExpiredFields
  <2> HIDE DEF e
  <2>7. Advances(s, e)
    BY <2>1, <2>5, AdvancesTransitive
  <2>8. SameSettings(s, e)
    BY <2>2, <2>6 DEF SameSettings
  <2>9. Start(e) = Start(s) \/ Start(e) + IndexGap <= s.end
    BY <1>3, <2>1, <2>3, <2>5
  <2>10. \A boundary \in s.boundaries : boundary >= Start(e) => boundary \in e.boundaries
    BY <2>2, <2>5, <2>6
  <2>11. e.end - Start(e) <= budget.units
    BY <1>5, <2>5, <2>6 DEF p
  <2>12. QED
    BY <1>6, <2>2, <2>4, <2>5, <2>6, <2>7, <2>8, <2>9, <2>10, <2>11 DEF Trimming
<1>7. ASSUME NEW k \in 0 .. n - 1, outcome = [store |-> Popped(s, k), ok |-> FALSE]
      PROVE  Trimming(s, budget, outcome)
  <2> DEFINE q == Popped(s, k)
  <2>1. /\ k \in 0 .. Len(s.segments) /\ (k < Len(s.segments) \/ k = 0)
        /\ \A i \in 1 .. k : Removable(s, budget, history, s.segments[i])
        /\ k \in Nat
    BY <1>2, <1>3
  <2>2. /\ Sound(q) /\ Advances(s, q) /\ (k > 0 => Start(q) + IndexGap <= s.end)
    BY <2>1, PoppedSound
  <2>3. SameSettings(s, q) /\ q.end = s.end /\ q.boundaries = s.boundaries
    BY <1>1, <2>1, PoppedFields
  <2>4. k = 0 => Start(q) = Start(s)
    BY <1>1, <2>1, PoppedFacts
  <2>5. Len(s.segments) > 0 =>
          Len(q.segments) > 0 /\ q.segments[Len(q.segments)] = s.segments[Len(s.segments)]
    BY <1>1, <2>1, PoppedTail
  <2> HIDE DEF q
  <2>6. Start(q) = Start(s) \/ Start(q) + IndexGap <= s.end
    BY <2>1, <2>2, <2>4
  <2>7. outcome.store = q /\ outcome.ok = FALSE
    BY <1>7 DEF q
  <2>8. QED
    BY <2>2, <2>3, <2>5, <2>6, <2>7 DEF Trimming
<1>8. QED
  BY <1>4, <1>6, <1>7

----------------------------------------------------------------------------
(* Appending.                                                               *)

(* A tail with room is there, or a new one is opened at the end. *)
LEMMA OpenedFacts ==
  ASSUME NEW s, Sound(s)
  PROVE  LET o == Opened(s) IN
         /\ Sound(o) /\ SameSettings(s, o) /\ o.end = s.end /\ o.index = s.index
         /\ o.boundaries = s.boundaries /\ Start(o) = Start(s)
         /\ Len(o.segments) > 0 /\ Room(o) > 0 /\ Room(o) \in Nat
         /\ Room(o) = Capacity(o) - o.segments[Len(o.segments)].size
         /\ Room(s) = 0 => Room(o) = Capacity(s)
<1> DEFINE o == Opened(s)
           len == Len(s.segments)
           new == [start |-> s.end, size |-> 0, end_time |-> 0]
           more == Append(s.segments, new)
<1>1. s \in Store /\ SideBySide(s) /\ SlotsOf(s) /\ IndexOf(s) /\ s.cursor.offset <= s.end
      /\ Settled(s)
  BY DEF Sound
<1>2. /\ s.segments \in Seq(Segment) /\ len \in Nat /\ s.end \in Nat /\ Capacity(s) \in Nat
      /\ Capacity(s) > 0
      /\ s.segments # <<>> <=> len >= 1
  BY <1>1, StoreFacts, SizeFacts
<1>3. \A i \in 1 .. len : s.segments[i].start \in Nat /\ s.segments[i].size \in Nat
  BY <1>1, StoreFacts
<1>4. CASE Room(s) > 0
  <2>1. o = s
    BY <1>4 DEF Opened
  <2>2. s.segments # <<>>
    BY <1>4 DEF Room
  <2>3. Room(s) = Capacity(s) - s.segments[len].size /\ len \in 1 .. len
    BY <1>2, <2>2 DEF Room
  <2>4. Room(s) \in Nat
    BY <1>2, <1>3, <1>4, <2>3
  <2>5. QED
    BY <1>2, <1>4, <2>1, <2>2, <2>3, <2>4 DEF SameSettings
<1>5. CASE ~ (Room(s) > 0)
  <2>1. o = [s EXCEPT !.segments = more]
    BY <1>5 DEF Opened
  <2>2. /\ new \in Segment /\ more \in Seq(Segment) /\ Len(more) = len + 1
        /\ \A i \in 1 .. len : more[i] = s.segments[i]
        /\ more[len + 1] = new
    <3>1. new \in Segment
      BY <1>2 DEF Segment
    <3>2. QED
      BY <1>2, <3>1, AppendProperties
  <2>3. /\ o \in Store /\ o.segments = more /\ o.end = s.end /\ o.index = s.index
        /\ o.boundaries = s.boundaries /\ o.mapped = s.mapped /\ o.cursor = s.cursor
        /\ o.policy = s.policy /\ o.history = s.history /\ o.disk = s.disk /\ o.trimmed = s.trimmed
    <3> HIDE DEF more, o
    <3>1. o \in Store
      BY <1>1, <2>1, <2>2 DEF Store
    <3>2. /\ o.segments = more /\ o.end = s.end /\ o.index = s.index
          /\ o.boundaries = s.boundaries /\ o.mapped = s.mapped /\ o.cursor = s.cursor
          /\ o.policy = s.policy /\ o.history = s.history /\ o.disk = s.disk /\ o.trimmed = s.trimmed
      BY <1>1, <2>1 DEF Store
    <3>3. QED
      BY <3>1, <3>2
  <2>4. Capacity(o) = Capacity(s)
    BY <2>3 DEF Capacity
  <2>5. len > 0 => s.segments[len].size > 0
    <3>1. SUFFICES ASSUME len > 0 PROVE s.segments[len].size > 0
      OBVIOUS
    <3>2. len \in 1 .. len /\ s.segments # <<>>
      BY <1>2, <3>1
    <3>3. Room(s) = Capacity(s) - s.segments[len].size
      BY <3>2 DEF Room
    <3>4. QED
      BY <1>2, <1>3, <1>5, <3>2, <3>3
  <2>6. new.start = s.end /\ new.size = 0
    OBVIOUS
  <2> HIDE DEF more, new, o, len
  <2>7. SideBySide(o)
    <3>1. SUFFICES ASSUME NEW i \in 1 .. len + 1
                   PROVE  LET segment == more[i] IN
                     /\ segment.size <= Capacity(s)
                     /\ i < len + 1 => segment.size > 0
                     /\ segment.start + segment.size =
                          IF i = len + 1 THEN s.end ELSE more[i + 1].start
                     /\ segment.size > 0 =>
                          segment.start + segment.size <= segment.end_time + (IndexGap - 1)
                     /\ \A j \in i + 1 .. len + 1 : segment.start + segment.size <= more[j].start
      BY <2>2, <2>3, <2>4 DEF SideBySide
    <3>2. CASE i = len + 1
      BY <1>2, <2>2, <2>6, <3>2
    <3>3. CASE i \in 1 .. len
      <4>1. more[i] = s.segments[i]
        BY <2>2, <3>3
      <4>2. /\ s.segments[i].size <= Capacity(s)
            /\ i < len => s.segments[i].size > 0
            /\ s.segments[i].start + s.segments[i].size =
                 IF i = len THEN s.end ELSE s.segments[i + 1].start
            /\ s.segments[i].size > 0 =>
                 s.segments[i].start + s.segments[i].size
                   <= s.segments[i].end_time + (IndexGap - 1)
            /\ \A j \in i + 1 .. len :
                 s.segments[i].start + s.segments[i].size <= s.segments[j].start
        BY <1>1, <3>3 DEF SideBySide, len
      <4>3. s.segments[i].size > 0
        BY <1>2, <2>5, <3>3, <4>2
      <4>4. i # len => more[i + 1] = s.segments[i + 1]
        BY <1>2, <2>2, <3>3
      <4>5. s.segments[i].start + s.segments[i].size <= s.end
        BY <1>1, <3>3, WindowFacts DEF len
      <4>6. ASSUME NEW j \in i + 1 .. len + 1
            PROVE  s.segments[i].start + s.segments[i].size <= more[j].start
        <5>1. CASE j = len + 1
          BY <2>2, <2>6, <4>5, <5>1
        <5>2. CASE j \in i + 1 .. len
          <6>1. more[j] = s.segments[j]
            BY <1>2, <2>2, <3>3, <5>2
          <6>2. QED
            BY <4>2, <5>2, <6>1
        <5>3. QED
          BY <1>2, <5>1, <5>2
      <4>7. i # len + 1 /\ (i = len => more[i + 1].start = s.end)
        BY <1>2, <2>2, <2>6, <3>3
      <4>8. QED
        BY <4>1, <4>2, <4>3, <4>4, <4>6, <4>7
    <3>4. QED
      BY <1>2, <3>2, <3>3
  <2>8. Start(o) = Start(s)
    <3>1. more # <<>>
      BY <1>2, <2>2
    <3>2. CASE len = 0
      <4>1. s.segments = <<>> /\ more[1] = new
        BY <1>2, <2>2, <3>2
      <4>2. QED
        BY <2>3, <2>6, <3>1, <4>1 DEF Start
    <3>3. CASE len > 0
      <4>1. s.segments # <<>> /\ more[1] = s.segments[1]
        BY <1>2, <2>2, <3>3
      <4>2. QED
        BY <2>3, <3>1, <4>1 DEF Start
    <3>4. QED
      BY <1>2, <3>2, <3>3
  <2>9. SlotsOf(o)
    <3>0. DOMAIN more = 1 .. len + 1 /\ DOMAIN s.segments = 1 .. len
      BY <1>2, <2>2 DEF len
    <3>1. Starts(s.segments) \subseteq Starts(more)
      <4>1. SUFFICES ASSUME NEW i \in 1 .. len PROVE s.segments[i].start \in Starts(more)
        BY <3>0 DEF Starts
      <4>2. more[i] = s.segments[i] /\ i \in 1 .. len + 1
        BY <1>2, <2>2
      <4>3. QED
        BY <3>0, <4>2 DEF Starts
    <3>2. ASSUME o.disk, NEW i \in 1 .. Len(o.segments), o.segments[i].size > 0
          PROVE  o.segments[i].start \in o.mapped
      <4>1. i # len + 1
        BY <1>2, <2>2, <2>3, <2>6, <3>2
      <4>2. i \in 1 .. len /\ more[i] = s.segments[i]
        BY <1>2, <2>2, <2>3, <4>1
      <4>3. QED
        BY <1>1, <2>3, <3>2, <4>2 DEF SlotsOf, len
    <3>3. QED
      BY <1>1, <2>3, <3>1, <3>2 DEF SlotsOf
  <2>10. Sound(o)
    BY <1>1, <2>3, <2>7, <2>8, <2>9 DEF Sound, Settled, IndexOf
  <2>11. o.segments # <<>> /\ Len(o.segments) = len + 1 /\ o.segments[len + 1].size = 0
    BY <1>2, <2>2, <2>3, <2>6
  <2>12. Room(o) = Capacity(s)
    BY <1>2, <2>4, <2>11 DEF Room
  <2>13. QED
    BY <1>2, <2>3, <2>4, <2>8, <2>10, <2>11, <2>12 DEF o, SameSettings
<1>6. QED
  BY <1>4, <1>5

(* The slot of the tail is taken before it is written. *)
LEMMA TouchedFacts ==
  ASSUME NEW s, Sound(s), Len(s.segments) > 0
  PROVE  LET o == Touched(s) IN
         /\ Sound(o) /\ SameSettings(s, o) /\ o.end = s.end /\ o.index = s.index
         /\ o.boundaries = s.boundaries /\ Start(o) = Start(s) /\ o.segments = s.segments
         /\ o.disk => s.segments[Len(s.segments)].start \in o.mapped
<1> DEFINE o == Touched(s)
           start == s.segments[Len(s.segments)].start
<1>1. s \in Store /\ SideBySide(s) /\ SlotsOf(s) /\ IndexOf(s) /\ s.cursor.offset <= s.end
      /\ Settled(s)
  BY DEF Sound
<1>2. Len(s.segments) \in 1 .. Len(s.segments) /\ start \in Nat /\ DOMAIN s.segments = 1 .. Len(s.segments)
  <2>1. Len(s.segments) \in Nat /\ DOMAIN s.segments = 1 .. Len(s.segments)
    BY <1>1, StoreFacts
  <2>2. Len(s.segments) \in 1 .. Len(s.segments)
    BY <2>1
  <2>3. QED
    BY <1>1, <2>1, <2>2, StoreFacts
<1>3. CASE ~ s.disk
  BY <1>3 DEF Touched, SameSettings
<1>4. CASE s.disk
  <2>1. s.mapped \cup {start} \in SUBSET Nat
    BY <1>1, <1>2, StoreFacts
  <2>2. o = [s EXCEPT !.mapped = s.mapped \cup {start}]
    BY <1>4 DEF Touched
  <2>3. start \in Starts(s.segments)
    BY <1>2 DEF Starts
  <2> HIDE DEF o, start
  <2>4. /\ o \in Store /\ o.segments = s.segments /\ o.end = s.end /\ o.index = s.index
        /\ o.boundaries = s.boundaries /\ o.mapped = s.mapped \cup {start} /\ o.cursor = s.cursor
        /\ o.policy = s.policy /\ o.history = s.history /\ o.disk = s.disk /\ o.trimmed = s.trimmed
    <3>1. o \in Store
      BY <1>1, <2>1, <2>2 DEF Store
    <3>2. /\ o.segments = s.segments /\ o.end = s.end /\ o.index = s.index
          /\ o.boundaries = s.boundaries /\ o.mapped = s.mapped \cup {start} /\ o.cursor = s.cursor
          /\ o.policy = s.policy /\ o.history = s.history /\ o.disk = s.disk /\ o.trimmed = s.trimmed
      BY <1>1, <2>2 DEF Store
    <3>3. QED
      BY <3>1, <3>2
  <2>5. Start(o) = Start(s) /\ Capacity(o) = Capacity(s)
    BY <2>4 DEF Start, Capacity
  <2>6. SideBySide(o) /\ IndexOf(o)
    BY <1>1, <2>4, <2>5 DEF SideBySide, IndexOf
  <2>7. SlotsOf(o)
    BY <1>1, <1>4, <2>3, <2>4 DEF SlotsOf
  <2>8. QED
    BY <1>1, <2>4, <2>5, <2>6, <2>7 DEF Sound, Settled, SameSettings, o, start
<1>5. QED
  BY <1>3, <1>4

(* What every outcome of a write of count units is like. *)
Writing(s, count, outcome) ==
  LET t == outcome.store IN
  /\ outcome.ok \in BOOLEAN
  /\ Sound(t) /\ Advances(s, t) /\ SameSettings(s, t)
  /\ Start(t) = Start(s) /\ t.boundaries = s.boundaries
  /\ t.end = IF outcome.ok THEN s.end + count ELSE s.end
  /\ t.index = IF outcome.ok THEN s.index \cup Anchors(s.end, s.end + count) ELSE s.index
  /\ outcome.ok =>
       /\ Len(t.segments) > 0
       /\ Room(Opened(s)) = count => Room(t) = 0
       /\ s.index = {} => \A entry \in t.index : s.end <= entry

(* The tail of o grows by count units, and the index with it. *)
LEMMA GrownFacts ==
  ASSUME NEW o, Sound(o), Len(o.segments) > 0, NEW count \in Nat, count > 0,
         o.segments[Len(o.segments)].size + count <= Capacity(o),
         o.disk => o.segments[Len(o.segments)].start \in o.mapped,
         NEW t,
         LET longer == [o EXCEPT !.end = @ + count, !.index = @ \cup Anchors(o.end, o.end + count)]
         IN t = [longer EXCEPT !.segments[Len(o.segments)] =
                                 [start |-> @.start, size |-> @.size + count, end_time |-> EndTime(longer)]]
  PROVE  /\ Sound(t) /\ SameSettings(o, t) /\ Start(t) = Start(o) /\ t.boundaries = o.boundaries
         /\ t.end = o.end + count /\ t.index = o.index \cup Anchors(o.end, o.end + count)
         /\ Len(t.segments) = Len(o.segments)
         /\ t.segments[Len(o.segments)].size = o.segments[Len(o.segments)].size + count
<1> DEFINE n == Len(o.segments)
           end == o.end + count
           index == o.index \cup Anchors(o.end, end)
           longer == [o EXCEPT !.end = end, !.index = index]
           time == EndTime(longer)
           old == o.segments[n]
           tail == [start |-> old.start, size |-> old.size + count, end_time |-> time]
           segments == [o.segments EXCEPT ![n] = tail]
<1>1. o \in Store /\ SideBySide(o) /\ SlotsOf(o) /\ IndexOf(o) /\ o.cursor.offset <= o.end
      /\ Settled(o)
  BY DEF Sound
<1>2. /\ n \in Nat /\ n > 0 /\ n \in 1 .. n /\ o.segments \in Seq(Segment) /\ DOMAIN o.segments = 1 .. n
      /\ o.end \in Nat /\ end \in Nat /\ o.index \in SUBSET Nat
      /\ Capacity(o) \in Nat /\ Start(o) \in Nat /\ o.cursor.offset \in Nat
      /\ IndexGap \in Nat /\ IndexGap >= 1
  <2>1. o.segments \in Seq(Segment) /\ n \in Nat /\ o.end \in Nat /\ o.index \in SUBSET Nat
        /\ Capacity(o) \in Nat /\ Start(o) \in Nat /\ o.cursor.offset \in Nat
    BY ONLY <1>1, StoreFacts
  <2>2. n > 0 /\ n \in 1 .. n /\ DOMAIN o.segments = 1 .. n
    BY <2>1, LenProperties
  <2>3. end \in Nat
    BY <2>1
  <2>4. QED
    BY <2>1, <2>2, <2>3, SizeFacts
<1>3. \A i \in 1 .. n : o.segments[i] \in Segment /\ o.segments[i].start \in Nat
                        /\ o.segments[i].size \in Nat
  BY <1>1, StoreFacts
<1>4. index \in SUBSET Nat
  BY <1>2 DEF Anchors
<1>5. time \in Nat /\ time >= end - (IndexGap - 1)
  <2>1. longer.end = end
    BY <1>1 DEF Store
  <2>2. IndexGap - 1 \in Nat
    BY <1>2
  <2>3. QED
    BY <1>2, <2>1, <2>2, SaturatingFacts DEF EndTime
<1>6. t = [o EXCEPT !.end = end, !.index = index, !.segments = segments]
  <2>1. longer.segments = o.segments
    BY <1>1 DEF Store
  <2>2. t = [longer EXCEPT !.segments = segments]
    BY <2>1
  <2>3. QED
    BY <1>1, <2>2 DEF Store
<1>old. old.start \in Nat /\ old.size \in Nat
  BY <1>2, <1>3
<1>7. tail \in Segment /\ tail.start = old.start /\ tail.size = old.size + count /\ tail.end_time = time
  <2> HIDE DEF old, time
  <2>1. old.size + count \in Nat
    BY <1>old
  <2>2. QED
    BY <1>old, <1>5, <2>1 DEF Segment
<1> HIDE DEF time, tail, index, longer
<1>8. /\ segments \in Seq(Segment) /\ Len(segments) = n /\ segments[n] = tail
      /\ \A i \in 1 .. n : i # n => segments[i] = o.segments[i]
      /\ DOMAIN segments = 1 .. n
  BY <1>2, <1>7
<1> HIDE DEF segments
<1>9. t \in Store
  BY <1>1, <1>2, <1>4, <1>6, <1>8 DEF Store
<1>10. /\ t.segments = segments /\ t.end = end /\ t.index = index
       /\ t.boundaries = o.boundaries /\ t.mapped = o.mapped /\ t.cursor = o.cursor
       /\ t.policy = o.policy /\ t.history = o.history /\ t.disk = o.disk /\ t.trimmed = o.trimmed
  BY <1>1, <1>6 DEF Store
<1>11. \A i \in 1 .. n : segments[i].start = o.segments[i].start
  BY <1>7, <1>8
<1>12. Capacity(t) = Capacity(o)
  BY <1>10 DEF Capacity
<1>13. Start(t) = Start(o)
  <2>1. segments # <<>> /\ o.segments # <<>> /\ 1 \in 1 .. n
    BY <1>2, <1>8
  <2>2. QED
    BY <1>10, <1>11, <2>1 DEF Start
<1>14. SideBySide(t)
  <2>1. SUFFICES ASSUME NEW i \in 1 .. n
                 PROVE  LET segment == segments[i] IN
                   /\ segment.size <= Capacity(o)
                   /\ i < n => segment.size > 0
                   /\ segment.start + segment.size = IF i = n THEN end ELSE segments[i + 1].start
                   /\ segment.size > 0 =>
                        segment.start + segment.size <= segment.end_time + (IndexGap - 1)
                   /\ \A j \in i + 1 .. n : segment.start + segment.size <= segments[j].start
    <3> HIDE DEF end
    <3>1. Len(t.segments) = n /\ t.end = end /\ t.segments = segments
      BY <1>8, <1>10 DEF end
    <3> HIDE DEF n
    <3>2. QED
      BY <1>12, <3>1 DEF SideBySide
  <2>2. /\ i < n => o.segments[i].size > 0
        /\ o.segments[i].size <= Capacity(o)
        /\ o.segments[i].start + o.segments[i].size =
             IF i = n THEN o.end ELSE o.segments[i + 1].start
        /\ o.segments[i].size > 0 =>
             o.segments[i].start + o.segments[i].size <= o.segments[i].end_time + (IndexGap - 1)
        /\ \A j \in i + 1 .. n : o.segments[i].start + o.segments[i].size <= o.segments[j].start
    BY <1>1 DEF SideBySide
  <2>3. CASE i = n
    <3>1. segments[i] = tail /\ old.start + old.size = o.end
      BY <1>8, <2>2, <2>3
    <3>2. tail.start + tail.size = end
      <4> HIDE DEF old
      <4>1. QED
        BY <1>2, <1>old, <1>7, <3>1
    <3>3. tail.start + tail.size <= tail.end_time + (IndexGap - 1)
      BY <1>2, <1>5, <1>7, <3>2
    <3>4. \A j \in i + 1 .. n : FALSE
      BY <1>2, <2>3
    <3>5. QED
      BY <1>2, <1>7, <2>3, <3>1, <3>2, <3>3, <3>4
  <2>4. CASE i # n
    <3>1. segments[i] = o.segments[i] /\ i + 1 \in 1 .. n
      BY <1>2, <1>8, <2>4
    <3>2. segments[i + 1].start = o.segments[i + 1].start
      BY <1>11, <3>1
    <3>3. \A j \in i + 1 .. n : segments[j].start = o.segments[j].start
      BY <1>2, <1>11
    <3>4. QED
      BY <2>2, <2>4, <3>1, <3>2, <3>3
  <2>5. QED
    BY <2>3, <2>4
<1>15. SlotsOf(t)
  <2>1. Starts(segments) = Starts(o.segments)
    BY <1>2, <1>8, <1>11 DEF Starts
  <2>2. ASSUME o.disk, NEW i \in 1 .. n, segments[i].size > 0 PROVE segments[i].start \in o.mapped
    <3>1. CASE i = n
      BY <1>2, <1>11, <2>2, <3>1
    <3>2. CASE i # n
      BY <1>1, <1>8, <2>2, <3>2 DEF SlotsOf
    <3>3. QED
      BY <3>1, <3>2
  <2>3. QED
    BY <1>1, <1>8, <1>10, <2>1, <2>2 DEF SlotsOf
<1>16. IndexOf(t)
  <2>1. \A entry \in index : entry \in Nat /\ entry < end /\ IsAnchor(entry)
        /\ (entry \in o.index \/ entry >= o.end)
    BY <1>1, <1>2 DEF IndexOf, Anchors, IsAnchor, index
  <2>2. ASSUME NEW entry \in index, NEW anchor \in entry .. end - 1, IsAnchor(anchor)
        PROVE  anchor \in index
    <3>1. anchor \in Nat
      BY <2>1, <2>2
    <3>2. CASE anchor >= o.end
      BY <1>2, <2>2, <3>1, <3>2 DEF index, Anchors, IsAnchor
    <3>3. CASE anchor < o.end
      <4>1. entry \in o.index
        BY <1>2, <2>1, <2>2, <3>1, <3>3
      <4>2. anchor \in entry .. o.end - 1
        BY <1>2, <2>1, <2>2, <3>1, <3>3
      <4>3. QED
        BY <1>1, <2>2, <4>1, <4>2 DEF IndexOf, index
    <3>4. QED
      BY <1>2, <3>1, <3>2, <3>3
  <2>3. ASSUME index # {} PROVE \E entry \in index : Start(o) <= entry
    <3>1. PICK entry \in index : TRUE
      BY <2>3
    <3>2. CASE entry \in o.index
      <4>1. \E other \in o.index : Start(o) <= other
        BY <1>1, <3>2 DEF IndexOf
      <4>2. QED
        BY <4>1 DEF index
    <3>3. CASE entry >= o.end
      <4>1. Start(o) <= o.end
        BY <1>1, WindowFacts
      <4>2. QED
        BY <1>2, <2>1, <3>1, <3>3, <4>1
    <3>4. QED
      BY <2>1, <3>1, <3>2, <3>3
  <2>4. QED
    BY <1>10, <1>13, <2>1, <2>2, <2>3 DEF IndexOf
<1>17. Sound(t)
  <2>1. t.cursor.offset <= t.end
    BY <1>1, <1>2, <1>10
  <2>2. Settled(t)
    BY <1>1, <1>10 DEF Settled
  <2>3. QED
    BY <1>9, <1>14, <1>15, <1>16, <2>1, <2>2 DEF Sound
<1>18. QED
  BY <1>7, <1>8, <1>10, <1>13, <1>17 DEF SameSettings, index

(* Every outcome of a write, also one that failed, keeps the store sound. *)
LEMMA WrittenFacts ==
  ASSUME NEW s, Sound(s), NEW count \in Nat, count > 0, count <= Room(Opened(s)),
         NEW outcome \in Written(s, count)
  PROVE  Writing(s, count, outcome)
<1> DEFINE a == Opened(s)
           o == Touched(a)
           longer == [o EXCEPT !.end = @ + count, !.index = @ \cup Anchors(s.end, s.end + count)]
           w == [longer EXCEPT !.segments[Len(o.segments)] =
                   [start |-> @.start, size |-> @.size + count, end_time |-> EndTime(longer)]]
<1>1. /\ Sound(a) /\ SameSettings(s, a) /\ a.end = s.end /\ a.index = s.index
      /\ a.boundaries = s.boundaries /\ Start(a) = Start(s)
      /\ Len(a.segments) > 0 /\ Room(a) > 0 /\ Room(a) \in Nat
      /\ Room(a) = Capacity(a) - a.segments[Len(a.segments)].size
  BY OpenedFacts
<1> HIDE DEF a
<1>2. /\ Sound(o) /\ SameSettings(a, o) /\ o.end = a.end /\ o.index = a.index
      /\ o.boundaries = a.boundaries /\ Start(o) = Start(a) /\ o.segments = a.segments
      /\ o.disk => a.segments[Len(a.segments)].start \in o.mapped
  BY <1>1, TouchedFacts
<1>3. \/ outcome = [store |-> w, ok |-> TRUE]
      \/ outcome = [store |-> o, ok |-> FALSE]
  BY DEF Written, Done, a
<1> HIDE DEF o
<1>4. Capacity(o) = Capacity(a) /\ Len(o.segments) > 0 /\ Len(o.segments) \in 1 .. Len(o.segments)
  <2>1. Len(o.segments) \in Nat
    BY <1>2, StoreFacts DEF Sound
  <2>2. QED
    BY <1>1, <1>2, <2>1 DEF Capacity, SameSettings
<1>5. SameSettings(s, o)
  BY <1>1, <1>2 DEF SameSettings
<1>6. /\ s.end \in Nat /\ s.index \in SUBSET Nat /\ Start(s) \in Nat /\ Start(s) <= s.end
      /\ o.segments[Len(o.segments)].size \in Nat
      /\ Capacity(o) \in Nat
  BY <1>2, <1>4, StoreFacts, WindowFacts DEF Sound
<1>7. CASE outcome = [store |-> o, ok |-> FALSE]
  <2>1. s.index # {} => First(s.index) <= First(s.index)
    <3>1. SUFFICES ASSUME s.index # {} PROVE First(s.index) <= First(s.index)
      OBVIOUS
    <3>2. First(s.index) \in Nat
      BY <1>6, <3>1, FirstFacts
    <3>3. QED
      BY <3>2
  <2>2. Advances(s, o)
    BY <1>1, <1>2, <1>6, <2>1 DEF Advances
  <2>3. QED
    BY <1>1, <1>2, <1>5, <1>7, <2>2 DEF Writing
<1>8. CASE outcome = [store |-> w, ok |-> TRUE]
  <2>1. o.segments[Len(o.segments)].size + count <= Capacity(o)
    <3>1. count <= Capacity(o) - o.segments[Len(o.segments)].size
      BY <1>1, <1>2, <1>4 DEF a
    <3>2. QED
      BY <1>6, <3>1
  <2>2. /\ Sound(w) /\ SameSettings(o, w) /\ Start(w) = Start(o) /\ w.boundaries = o.boundaries
        /\ w.end = o.end + count /\ w.index = o.index \cup Anchors(o.end, o.end + count)
        /\ Len(w.segments) = Len(o.segments)
        /\ w.segments[Len(o.segments)].size = o.segments[Len(o.segments)].size + count
    <3>1. o.end = s.end
      BY <1>1, <1>2
    <3>2. QED
      BY <1>2, <1>4, <2>1, <3>1, GrownFacts, ZenonT(60)
  <2> HIDE DEF w
  <2>3. SameSettings(s, w)
    BY <1>5, <2>2 DEF SameSettings
  <2>4. w.end = s.end + count /\ w.index = s.index \cup Anchors(s.end, s.end + count)
        /\ Start(w) = Start(s) /\ w.boundaries = s.boundaries
    BY <1>1, <1>2, <2>2
  <2>5. Advances(s, w)
    <3>1. Anchors(s.end, s.end + count) \subseteq Nat
      BY <1>6 DEF Anchors
    <3>2. ASSUME s.index # {} PROVE w.index # {} /\ First(s.index) <= First(w.index)
      <4>1. w.index \in SUBSET Nat /\ w.index # {} /\ First(s.index) \in s.index
        BY <1>6, <2>4, <3>1, <3>2, FirstFacts
      <4>2. First(w.index) \in w.index
        BY <4>1, FirstFacts
      <4>3. First(s.index) < s.end /\ First(s.index) \in Nat
        BY <1>6, <4>1 DEF Sound, IndexOf
      <4>4. CASE First(w.index) \in s.index
        BY <1>6, <3>2, <4>1, <4>4, FirstFacts
      <4>5. CASE First(w.index) \in Anchors(s.end, s.end + count)
        <5>1. First(w.index) >= s.end /\ First(w.index) \in Nat
          BY <1>6, <4>5 DEF Anchors
        <5>2. QED
          BY <1>6, <4>1, <4>3, <5>1
      <4>6. QED
        BY <2>4, <4>2, <4>4, <4>5
    <3>3. QED
      BY <1>6, <2>4, <3>2 DEF Advances
  <2>6. ASSUME Room(Opened(s)) = count PROVE Room(w) = 0
    <3>1. Capacity(w) = Capacity(o)
      BY <2>2 DEF Capacity, SameSettings
    <3>2. w.segments # <<>>
      BY <1>4, <2>2, StoreFacts DEF Sound
    <3>3. Room(w) = Capacity(o) - (o.segments[Len(o.segments)].size + count)
      BY <2>2, <3>1, <3>2 DEF Room
    <3>4. count = Capacity(o) - o.segments[Len(o.segments)].size
      BY <1>1, <1>2, <1>4, <2>6 DEF a
    <3>5. QED
      BY <1>6, <3>3, <3>4
  <2>7. ASSUME s.index = {} PROVE \A entry \in w.index : s.end <= entry
    BY <1>6, <2>4, <2>7 DEF Anchors
  <2>8. Len(w.segments) > 0
    BY <1>4, <2>2
  <2>9. QED
    BY <1>8, <2>2, <2>3, <2>4, <2>5, <2>6, <2>7, <2>8 DEF Writing
<1>9. QED
  BY <1>3, <1>7, <1>8

----------------------------------------------------------------------------
(* Sequences of writes and trims.                                           *)

(* A reader at an offset is served: what it is about to read is retained,
   and the index begins before it, or with the first anchor of the stream. *)
Serving(s, offset) ==
  /\ Start(s) <= offset
  /\ \A entry \in s.index : Start(s) <= entry
  /\ s.index = {} => s.end < IndexGap
  /\ s.index # {} => First(s.index) <= offset \/ First(s.index) = IndexGap - 1

(* What a write or a trim, and so any number of them, preserves.  A reader
   that keeps up within the forward buffer goes on being served. *)
Flow(s, t) ==
  /\ Sound(t) /\ Advances(s, t) /\ SameSettings(s, t)
  /\ \A boundary \in s.boundaries : boundary >= Start(t) => boundary \in t.boundaries
  /\ (s.index = {} => s.end < IndexGap) => (t.index = {} => t.end < IndexGap)
  /\ Start(s) < s.end => Start(t) < t.end
  /\ \A offset \in Nat :
       /\ ~ s.history /\ s.cursor.offset <= offset /\ offset <= s.end
       /\ t.end - offset + SegmentUnits + IndexGap <= ForwardUnits
       /\ Serving(s, offset)
       => Serving(t, offset)

(* Flows follow one another. *)
LEMMA FlowTransitive ==
  ASSUME NEW s, NEW t, NEW u, Sound(s), Flow(s, t), Flow(t, u)
  PROVE  Flow(s, u)
<1>1. Sound(t) /\ Sound(u)
  BY DEF Flow
<1>2. /\ Start(s) \in Nat /\ Start(t) \in Nat /\ Start(u) \in Nat
      /\ s.end \in Nat /\ t.end \in Nat /\ u.end \in Nat
      /\ s.boundaries \in SUBSET Nat
      /\ SegmentUnits \in Nat /\ IndexGap \in Nat /\ ForwardUnits \in Nat
  BY <1>1, StoreFacts, SizeFacts DEF Sound
<1>3. Advances(s, u)
  BY <1>1, AdvancesTransitive DEF Flow
<1>4. SameSettings(s, u)
  BY DEF Flow, SameSettings
<1>5. /\ s.end <= t.end /\ t.end <= u.end /\ Start(t) <= Start(u)
      /\ t.history = s.history /\ t.cursor.offset = s.cursor.offset
  BY DEF Flow, Advances, SameSettings
<1>6. ASSUME NEW boundary \in s.boundaries, boundary >= Start(u) PROVE boundary \in u.boundaries
  <2>1. boundary >= Start(t)
    BY <1>2, <1>5, <1>6
  <2>2. QED
    BY <1>6, <2>1 DEF Flow
<1>7. ASSUME NEW offset \in Nat,
             ~ s.history, s.cursor.offset <= offset, offset <= s.end,
             u.end - offset + SegmentUnits + IndexGap <= ForwardUnits,
             Serving(s, offset)
      PROVE  Serving(u, offset)
  <2>1. t.end - offset + SegmentUnits + IndexGap <= ForwardUnits /\ offset <= t.end
    BY <1>2, <1>5, <1>7
  <2>2. Serving(t, offset)
    BY <1>7, <2>1 DEF Flow
  <2>3. QED
    BY <1>5, <1>7, <2>1, <2>2 DEF Flow
<1>8. /\ (s.index = {} => s.end < IndexGap) => (u.index = {} => u.end < IndexGap)
      /\ Start(s) < s.end => Start(u) < u.end
  BY DEF Flow
<1>9. QED
  BY <1>1, <1>3, <1>4, <1>6, <1>7, <1>8 DEF Flow

(* The first anchor of the stream is indexed when it arrives. *)
LEMMA FirstAnchor ==
  ASSUME NEW s, NEW t, Sound(s), Sound(t), s.end < IndexGap, s.end <= t.end,
         Anchors(s.end, t.end) \subseteq t.index
  PROVE  t.end < IndexGap \/ IndexGap - 1 \in t.index
<1>1. s.end \in Nat /\ t.end \in Nat /\ IndexGap \in Nat /\ IndexGap >= 1
  BY StoreFacts, SizeFacts DEF Sound
<1>2. CASE t.end >= IndexGap
  <2>1. IndexGap - 1 \in s.end .. t.end - 1
    BY <1>1, <1>2
  <2>2. IndexGap - 1 \in Anchors(s.end, t.end)
    BY <2>1, AnchorFacts DEF Anchors, IsAnchor
  <2>3. QED
    BY <2>2
<1>3. QED
  BY <1>1, <1>2

(* A write is a flow. *)
LEMMA WritingFlows ==
  ASSUME NEW s, Sound(s), NEW count \in Nat, count > 0, NEW outcome, Writing(s, count, outcome)
  PROVE  /\ Flow(s, outcome.store)
         /\ outcome.ok => Start(outcome.store) < outcome.store.end
<1> DEFINE t == outcome.store
<1>1. /\ outcome.ok \in BOOLEAN /\ Sound(t) /\ Advances(s, t) /\ SameSettings(s, t)
      /\ Start(t) = Start(s) /\ t.boundaries = s.boundaries
      /\ t.end = IF outcome.ok THEN s.end + count ELSE s.end
      /\ t.index = IF outcome.ok THEN s.index \cup Anchors(s.end, s.end + count) ELSE s.index
  BY DEF Writing
<1> HIDE DEF t
<1>2. /\ s.end \in Nat /\ t.end \in Nat /\ Start(s) \in Nat /\ Start(s) <= s.end
      /\ s.index \in SUBSET Nat /\ t.index \in SUBSET Nat /\ IndexGap \in Nat /\ IndexGap >= 1
  BY <1>1, StoreFacts, WindowFacts, SizeFacts DEF Sound
<1>3. outcome.ok => Start(t) < t.end
  BY <1>1, <1>2
<1>4. Start(s) < s.end => Start(t) < t.end
  BY <1>1, <1>2
<1>5. ASSUME s.end < IndexGap PROVE t.end < IndexGap \/ IndexGap - 1 \in t.index
  <2>1. CASE outcome.ok
    <3>1. Anchors(s.end, t.end) \subseteq t.index /\ s.end <= t.end
      BY <1>1, <1>2, <2>1
    <3>2. QED
      BY <1>1, <1>5, <3>1, FirstAnchor
  <2>2. CASE ~ outcome.ok
    BY <1>1, <1>5, <2>2
  <2>3. QED
    BY <1>1, <2>1, <2>2
<1>6. (s.index = {} => s.end < IndexGap) => (t.index = {} => t.end < IndexGap)
  BY <1>1, <1>5
<1>7. ASSUME NEW offset \in Nat, Serving(s, offset), offset <= s.end PROVE Serving(t, offset)
  <2>1. \A entry \in t.index : Start(t) <= entry
    BY <1>1, <1>2, <1>7 DEF Serving, Anchors
  <2>2. ASSUME t.index # {}
        PROVE  First(t.index) <= offset \/ First(t.index) = IndexGap - 1
    <3>1. First(t.index) \in t.index /\ \A entry \in t.index : First(t.index) <= entry
      BY <1>2, <2>2, FirstFacts
    <3>2. First(t.index) \in Nat /\ First(t.index) >= IndexGap - 1
      BY <1>1, <1>2, <3>1, AnchorFacts DEF Sound, IndexOf
    <3>3. CASE s.index # {}
      <4>1. First(s.index) \in s.index /\ s.index \subseteq t.index
        BY <1>1, <1>2, <3>3, FirstFacts
      <4>2. First(t.index) <= First(s.index) /\ First(s.index) \in Nat
        BY <1>2, <3>1, <4>1
      <4>3. First(s.index) <= offset \/ First(s.index) = IndexGap - 1
        BY <1>7, <3>3 DEF Serving
      <4>4. QED
        BY <1>2, <3>2, <4>2, <4>3
    <3>4. CASE s.index = {}
      <4>1. s.end < IndexGap
        BY <1>7, <3>4 DEF Serving
      <4>2. t.end < IndexGap \/ IndexGap - 1 \in t.index
        BY <1>5, <4>1
      <4>3. First(t.index) < t.end
        BY <1>1, <3>1 DEF Sound, IndexOf
      <4>4. QED
        BY <1>2, <3>1, <3>2, <4>2, <4>3
    <3>5. QED
      BY <3>3, <3>4
  <2>3. QED
    BY <1>1, <1>6, <1>7, <2>1, <2>2 DEF Serving
<1>8. QED
  BY <1>1, <1>3, <1>4, <1>6, <1>7 DEF Flow, t

(* Without history a trim takes nothing a reader that keeps up is about to
   read: it gives up what was consumed a margin ago, or what lies further
   back than the forward buffer reaches. *)
LEMMA TrimServes ==
  ASSUME NEW s, Sound(s), ~ s.history,
         NEW budget, Roomy(budget, FALSE), budget.units = ForwardUnits,
         NEW offset \in Nat, s.cursor.offset <= offset, offset <= s.end,
         s.end - offset + SegmentUnits + IndexGap <= ForwardUnits,
         Serving(s, offset),
         NEW outcome \in Trim(s, budget, FALSE)
  PROVE  Serving(outcome.store, offset)
<1> DEFINE n == Excess(s, budget, FALSE)
           p == Popped(s, n)
           e == Expired(p, Start(s), budget, FALSE)
<1>1. s \in Store /\ SideBySide(s) /\ SlotsOf(s) /\ IndexOf(s) /\ Settled(s)
  BY DEF Sound
<1>2. /\ n \in 0 .. Len(s.segments) /\ (n < Len(s.segments) \/ n = 0)
      /\ \A i \in 1 .. n : Removable(s, budget, FALSE, s.segments[i])
  BY <1>1, ExcessFacts
<1>3. outcome.store = e
  <2>1. ~ s.disk
    BY <1>1 DEF Settled
  <2>2. Trim(s, budget, FALSE) = {[store |-> e, ok |-> TRUE]}
    <3> HIDE DEF e
    <3>1. Trim(s, budget, FALSE) = Done(e)
      BY <2>1 DEF Trim, e
    <3>2. QED
      BY <3>1 DEF Done
  <2> HIDE DEF e
  <2>3. outcome = [store |-> e, ok |-> TRUE]
    BY <2>2
  <2>4. QED
    BY <2>3
<1> HIDE DEF n
<1>4. /\ Len(s.segments) \in Nat /\ n \in Nat
      /\ s.end \in Nat /\ s.index \in SUBSET Nat /\ s.cursor.offset \in Nat
      /\ Capacity(s) \in Nat /\ Capacity(s) <= SegmentUnits /\ SegmentUnits \in Nat
      /\ IndexGap \in Nat /\ IndexGap >= 1 /\ MarginUnits \in Nat /\ IndexGap <= MarginUnits
      /\ ForwardUnits \in Nat
  BY <1>1, <1>2, StoreFacts, SizeFacts
<1>5. /\ Sound(p) /\ Advances(s, p)
  BY <1>2, PoppedSound
<1>6. /\ p \in Store /\ p.index = s.index /\ p.end = s.end
  BY <1>1, <1>2, PoppedFields
<1>7. /\ n = 0 => Start(p) = Start(s)
      /\ n > 0 => Start(p) = s.segments[n].start + s.segments[n].size
  BY <1>1, <1>2, PoppedFacts
<1>8. n > 0 => Start(p) + IndexGap <= offset
  <2>1. SUFFICES ASSUME n > 0 PROVE s.segments[n].start + s.segments[n].size + IndexGap <= offset
    BY <1>7
  <2>2. n \in 1 .. n /\ n \in 1 .. Len(s.segments) /\ n < Len(s.segments)
    BY <1>2, <1>4, <2>1
  <2> DEFINE start == s.segments[n].start
             size == s.segments[n].size
  <2>3. start \in Nat /\ size \in Nat
    BY <1>1, <2>2, StoreFacts
  <2>4. size <= Capacity(s) /\ size > 0
    BY <1>1, <2>2 DEF SideBySide
  <2>5. s.end - start > ForwardUnits \/ start + size <= SaturatingSub(s.cursor.offset, MarginUnits)
    BY <1>2, <2>2 DEF Removable
  <2> SUFFICES start + size + IndexGap <= offset
    OBVIOUS
  <2> HIDE DEF start, size
  <2>6. CASE s.end - start > ForwardUnits
    BY <1>4, <2>3, <2>4, <2>6
  <2>7. CASE start + size <= SaturatingSub(s.cursor.offset, MarginUnits)
    <3> DEFINE line == SaturatingSub(s.cursor.offset, MarginUnits)
    <3>1. line \in Nat /\ (line > 0 => line = s.cursor.offset - MarginUnits)
      BY <1>4, SaturatingFacts
    <3> HIDE DEF line
    <3>2. start + size <= line
      BY <2>7 DEF line
    <3>3. start + size <= s.cursor.offset - MarginUnits
      BY <2>3, <2>4, <3>1, <3>2
    <3>4. QED
      BY <1>4, <2>3, <3>3
  <2>8. QED
    BY <2>5, <2>6, <2>7
<1>9. Start(p) \in Nat /\ Start(s) \in Nat
  BY <1>1, <1>6, StoreFacts
<1>10. Start(p) <= offset
  BY <1>4, <1>7, <1>8, <1>9 DEF Serving
<1> HIDE DEF p
<1>11. Sound(e) /\ Advances(p, e) /\ Start(e) = Start(p)
       /\ \A entry \in e.index : Start(e) <= entry
  BY <1>5, ExpiredSound
<1>12. e.end = s.end /\ e.index = {entry \in s.index : entry >= Start(p) /\ Time(entry) >= 0}
  <2>1. /\ e.end = p.end
        /\ e.index = {entry \in p.index :
             entry >= Start(p) /\ Time(entry) >= IF FALSE THEN SaturatingSub(EndTime(p), budget.time) ELSE 0}
    BY <1>6, ExpiredFields
  <2> HIDE DEF e
  <2>2. QED
    BY <1>6, <2>1
<1> HIDE DEF e
<1>13. \A entry \in s.index : entry \in Nat /\ entry >= IndexGap - 1 /\ Time(entry) >= 0
  <2>1. TAKE entry \in s.index
  <2>2. entry \in Nat /\ entry >= IndexGap - 1
    BY <1>1, <1>4, AnchorFacts DEF IndexOf
  <2>3. QED
    BY <1>4, <2>2 DEF Time
<1>14. e.index = {} => e.end < IndexGap
  <2>1. e.index = {} => s.index = {}
    BY <1>6, <1>11 DEF Advances
  <2>2. QED
    BY <1>12, <2>1 DEF Serving
<1>15. ASSUME e.index # {}
       PROVE  First(e.index) <= offset \/ First(e.index) = IndexGap - 1
  <2> DEFINE f == First(s.index)
             g == First(e.index)
  <2>1. s.index # {} /\ e.index \subseteq s.index
    BY <1>12, <1>15
  <2>2. f \in s.index /\ \A entry \in s.index : f <= entry
    BY <1>4, <2>1, FirstFacts
  <2>3. g \in e.index /\ \A entry \in e.index : g <= entry
    BY <1>4, <1>15, <2>1, FirstFacts
  <2>4. f <= offset \/ f = IndexGap - 1
    BY <2>1 DEF Serving
  <2>5. f \in Nat /\ g \in Nat /\ f <= g /\ f < s.end /\ Start(s) <= f
    BY <1>1, <1>13, <2>1, <2>2, <2>3 DEF IndexOf, Serving
  <2> HIDE DEF f, g
  <2>6. CASE Start(p) <= f
    <3>1. f \in e.index
      BY <1>9, <1>12, <1>13, <2>2, <2>5, <2>6
    <3>2. g = f
      BY <2>3, <2>5, <3>1
    <3>3. QED
      BY <2>4, <3>2 DEF g
  <2>7. CASE f < Start(p)
    <3>1. n > 0
      BY <1>4, <1>7, <1>9, <2>5, <2>7
    <3>2. PICK anchor \in Start(p) .. Start(p) + IndexGap - 1 : IsAnchor(anchor)
      BY <1>9, AnchorNear
    <3>3. anchor \in Nat /\ anchor < offset /\ anchor >= Start(p)
      BY <1>4, <1>8, <1>9, <3>1, <3>2
    <3>4. anchor \in f .. s.end - 1
      BY <1>4, <1>9, <2>5, <2>7, <3>3
    <3>5. anchor \in s.index
      BY <1>1, <2>2, <3>2, <3>4 DEF IndexOf
    <3>6. anchor \in e.index
      BY <1>12, <1>13, <3>3, <3>5
    <3>7. g <= offset
      BY <2>3, <2>5, <3>3, <3>6
    <3>8. QED
      BY <3>7 DEF g
  <2>8. QED
    BY <1>9, <2>5, <2>6, <2>7
<1>16. Serving(e, offset)
  BY <1>10, <1>11, <1>14, <1>15 DEF Serving
<1>17. QED
  BY <1>3, <1>16 DEF e

(* A trim is a flow. *)
LEMMA TrimFlows ==
  ASSUME NEW s, Sound(s), NEW budget, NEW history \in BOOLEAN, Roomy(budget, history),
         ~ s.history => ~ history /\ budget.units = ForwardUnits,
         NEW outcome \in Trim(s, budget, history)
  PROVE  Flow(s, outcome.store)
<1> DEFINE t == outcome.store
<1>1. /\ Sound(t) /\ Advances(s, t) /\ SameSettings(s, t) /\ t.end = s.end
      /\ Start(t) = Start(s) \/ Start(t) + IndexGap <= s.end
      /\ \A boundary \in s.boundaries : boundary >= Start(t) => boundary \in t.boundaries
  BY TrimFacts DEF Trimming
<1>2. ASSUME NEW offset \in Nat,
             ~ s.history, s.cursor.offset <= offset, offset <= s.end,
             t.end - offset + SegmentUnits + IndexGap <= ForwardUnits,
             Serving(s, offset)
      PROVE  Serving(t, offset)
  <2>1. history = FALSE /\ budget.units = ForwardUnits
    BY <1>2
  <2>2. QED
    BY <1>1, <1>2, <2>1, TrimServes
<1> HIDE DEF t
<1>3. /\ Start(s) \in Nat /\ Start(t) \in Nat /\ s.end \in Nat /\ IndexGap \in Nat /\ IndexGap >= 1
  BY <1>1, StoreFacts, SizeFacts DEF Sound
<1>4. (s.index = {} => s.end < IndexGap) => (t.index = {} => t.end < IndexGap)
  BY <1>1 DEF Advances
<1>5. Start(s) < s.end => Start(t) < t.end
  BY <1>1, <1>3
<1>6. QED
  BY <1>1, <1>2, <1>4, <1>5 DEF Flow, t

(* Receiving: head is what the tail still takes; the rest fits in a new one. *)
LEMMA AppendedFacts ==
  ASSUME NEW s, Sound(s), NEW count \in 1 .. ReadUnits, NEW outcome \in Appended(s, count)
  PROVE  /\ outcome.ok \in BOOLEAN
         /\ Flow(s, outcome.store)
         /\ outcome.store.end = s.end \/ Start(outcome.store) < outcome.store.end
         /\ outcome.ok =>
              /\ outcome.store.end - Start(outcome.store) <= Budget(s.policy, s.history).units
              /\ \A entry \in outcome.store.index : Start(outcome.store) <= entry
         /\ ~ s.history => outcome.ok
<1> DEFINE budget == Budget(s.policy, s.history)
           room == Room(Opened(s))
           head == Least(count, room)
           first == TrimmedOn(Written(s, head), budget, s.history)
           Fits(u) == u.ok => /\ u.store.end - Start(u.store) <= budget.units
                              /\ \A entry \in u.store.index : Start(u.store) <= entry
           Good(u) == /\ u.ok \in BOOLEAN /\ Flow(s, u.store)
                      /\ u.store.end = s.end \/ Start(u.store) < u.store.end
                      /\ ~ s.history => u.ok
<1>1. /\ count \in Nat /\ count > 0 /\ count <= ReadUnits
      /\ s.policy \in Policies /\ s.history \in BOOLEAN /\ Settled(s)
  BY SizeFacts DEF Sound, Store
<1>2. Roomy(budget, s.history)
  BY <1>1, BudgetFacts DEF Settled
<1>3. ~ s.history => budget.units = ForwardUnits
  BY DEF Budget, EffectiveStorage
<1>4. room \in Nat /\ room > 0
  BY OpenedFacts
<1> HIDE DEF room
<1>5. head \in Nat /\ head > 0 /\ head <= room /\ head <= count /\ (head = count \/ head = room)
  <2>1. count \in Int /\ room \in Int
    BY <1>1, <1>4
  <2>2. head \in Int /\ head <= count /\ head <= room /\ (head = count \/ head = room)
    BY <2>1, LeastFacts
  <2> HIDE DEF head
  <2>3. QED
    BY <1>1, <1>4, <2>2
<1> HIDE DEF budget, head
<1>6. ASSUME NEW a \in Written(s, head)
      PROVE  /\ Writing(s, head, a) /\ Good(a) /\ Sound(a.store) /\ SameSettings(s, a.store)
             /\ a.ok => Start(a.store) < a.store.end
  <2>1. Writing(s, head, a)
    BY <1>5, <1>6, WrittenFacts DEF room
  <2>2. Flow(s, a.store) /\ (a.ok => Start(a.store) < a.store.end)
    BY <1>5, <2>1, WritingFlows
  <2>3. ~ s.history => a.ok
    <3>1. ~ s.history => ~ s.disk
      BY <1>1 DEF Settled
    <3>2. ~ s.disk => a.ok
      BY <1>6 DEF Written, Done
    <3>3. QED
      BY <3>1, <3>2
  <2>4. QED
    BY <2>1, <2>2, <2>3 DEF Writing
<1>7. ASSUME NEW t, Sound(t), SameSettings(s, t), NEW b \in Trim(t, budget, s.history)
      PROVE  /\ b.ok \in BOOLEAN /\ Flow(t, b.store) /\ Trimming(t, budget, b) /\ Fits(b)
             /\ ~ s.history => b.ok
  <2>1. Trimming(t, budget, b)
    BY <1>1, <1>2, <1>7, TrimFacts
  <2>2. Flow(t, b.store)
    BY <1>1, <1>2, <1>3, <1>7, TrimFlows DEF SameSettings
  <2>3. ~ s.history => b.ok
    <3>1. ~ s.history => ~ t.disk
      BY <1>1, <1>7 DEF Settled, SameSettings
    <3>2. QED
      BY <1>7, <3>1 DEF Trim, Done
  <2>4. QED
    BY <2>1, <2>2, <2>3 DEF Trimming
<1>8. ASSUME NEW u, NEW v, Sound(u.store), Good(u), Start(u.store) < u.store.end,
             v.ok \in BOOLEAN, Flow(u.store, v.store), ~ s.history => v.ok
      PROVE  Good(v) /\ Sound(v.store) /\ SameSettings(s, v.store) /\ Start(v.store) < v.store.end
  <2>1. Flow(s, v.store)
    BY <1>8, FlowTransitive
  <2>2. Start(v.store) < v.store.end
    BY <1>8 DEF Flow
  <2>3. QED
    BY <1>8, <2>1, <2>2 DEF Flow
<1> HIDE DEF Fits, Good
<1>9. ASSUME NEW b \in first
      PROVE  /\ Good(b) /\ Fits(b)
             /\ b.ok => /\ Sound(b.store) /\ SameSettings(s, b.store) /\ Start(b.store) < b.store.end
                        /\ head = room => Room(b.store) = 0
  <2>1. PICK a \in Written(s, head) :
          IF a.ok THEN b \in Trim(a.store, budget, s.history) ELSE b = a
    BY <1>9 DEF TrimmedOn
  <2>2. CASE ~ a.ok
    BY <1>6, <2>1, <2>2 DEF Fits
  <2>3. CASE a.ok
    <3>1. /\ b \in Trim(a.store, budget, s.history)
          /\ Writing(s, head, a) /\ Good(a) /\ Sound(a.store) /\ SameSettings(s, a.store)
          /\ Start(a.store) < a.store.end
      BY <1>6, <2>1, <2>3
    <3>2. /\ b.ok \in BOOLEAN /\ Flow(a.store, b.store) /\ Trimming(a.store, budget, b) /\ Fits(b)
          /\ ~ s.history => b.ok
      BY <1>7, <3>1
    <3>3. Good(b) /\ Sound(b.store) /\ SameSettings(s, b.store) /\ Start(b.store) < b.store.end
      BY <1>8, <3>1, <3>2
    <3>4. ASSUME head = room PROVE Room(b.store) = 0
      <4>1. Room(a.store) = 0 /\ Len(a.store.segments) > 0
        BY <2>3, <3>1, <3>4 DEF Writing, room
      <4>2. /\ Len(b.store.segments) > 0
            /\ b.store.segments[Len(b.store.segments)] = a.store.segments[Len(a.store.segments)]
            /\ Capacity(b.store) = Capacity(a.store)
        BY <3>2, <4>1 DEF Trimming, Capacity, SameSettings
      <4>3. a.store.segments # <<>> /\ b.store.segments # <<>>
        BY <3>1, <3>3, <4>1, <4>2, StoreFacts DEF Sound
      <4>4. QED
        BY <4>1, <4>2, <4>3 DEF Room
    <3>5. QED
      BY <3>2, <3>3, <3>4
  <2>4. QED
    BY <2>2, <2>3
<1>10. CASE head = count
  <2>1. outcome \in first
    BY <1>10 DEF Appended, budget, room, head
  <2>2. QED
    BY <1>9, <2>1 DEF Good, Fits, budget
<1>11. CASE head # count
  <2>1. outcome \in TrimmedOn(WrittenOn(first, count - head), budget, s.history)
    BY <1>11 DEF Appended, budget, room, head
  <2> HIDE DEF first
  <2>2. PICK c \in WrittenOn(first, count - head) :
          IF c.ok THEN outcome \in Trim(c.store, budget, s.history) ELSE outcome = c
    BY <2>1 DEF TrimmedOn
  <2>3. PICK b \in first : IF b.ok THEN c \in Written(b.store, count - head) ELSE c = b
    BY <2>2 DEF WrittenOn
  <2>4. CASE ~ b.ok
    BY <1>9, <2>2, <2>3, <2>4 DEF Good, Fits, budget
  <2>5. CASE b.ok
    <3>1. /\ Good(b) /\ Sound(b.store) /\ SameSettings(s, b.store) /\ Start(b.store) < b.store.end
          /\ Room(b.store) = 0
      BY <1>5, <1>9, <1>11, <2>5
    <3>2. count - head \in Nat /\ count - head > 0 /\ count - head <= Room(Opened(b.store))
      <4>1. Room(Opened(b.store)) = Capacity(b.store)
        BY <3>1, OpenedFacts
      <4>2. Capacity(b.store) \in Nat /\ ReadUnits <= Capacity(b.store) /\ ReadUnits \in Nat
        BY <3>1, StoreFacts, SizeFacts DEF Sound
      <4>3. QED
        BY <1>1, <1>5, <1>11, <4>1, <4>2
    <3>3. Writing(b.store, count - head, c)
      BY <2>3, <2>5, <3>1, <3>2, WrittenFacts
    <3>4. Flow(b.store, c.store)
      BY <3>1, <3>2, <3>3, WritingFlows
    <3>5. ~ s.history => c.ok
      <4>1. ~ s.history => ~ b.store.disk
        BY <1>1, <3>1 DEF Settled, SameSettings
      <4>2. ~ b.store.disk => c.ok
        BY <2>3, <2>5 DEF Written, Done
      <4>3. QED
        BY <4>1, <4>2
    <3>6. Good(c) /\ Sound(c.store) /\ SameSettings(s, c.store) /\ Start(c.store) < c.store.end
      BY <1>8, <3>1, <3>3, <3>4, <3>5 DEF Writing
    <3>7. CASE ~ c.ok
      BY <2>2, <3>6, <3>7 DEF Good, budget
    <3>8. CASE c.ok
      <4>1. outcome \in Trim(c.store, budget, s.history)
        BY <2>2, <3>8
      <4>2. /\ outcome.ok \in BOOLEAN /\ Flow(c.store, outcome.store) /\ Fits(outcome)
            /\ ~ s.history => outcome.ok
        BY <1>7, <3>6, <4>1
      <4>3. Good(outcome)
        BY <1>8, <3>6, <4>2
      <4>4. QED
        BY <4>2, <4>3 DEF Good, Fits, budget
    <3>9. QED
      BY <3>7, <3>8
  <2>6. QED
    BY <2>4, <2>5
<1>12. QED
  BY <1>10, <1>11

----------------------------------------------------------------------------
(* Moving what is retained.                                                 *)

(* A store that differs from a sound one in nothing that is laid out. *)
LEMMA SameLayout ==
  ASSUME NEW s, Sound(s), NEW t \in Store,
         t.segments = s.segments, t.end = s.end, t.index = s.index, t.mapped = s.mapped,
         t.disk = s.disk, t.cursor.offset <= t.end, Settled(t)
  PROVE  Sound(t) /\ Start(t) = Start(s) /\ ReadableStart(t) = ReadableStart(s)
<1>1. Start(t) = Start(s) /\ Capacity(t) = Capacity(s)
  BY DEF Start, Capacity
<1>2. SideBySide(t) /\ SlotsOf(t) /\ IndexOf(t)
  BY <1>1 DEF Sound, SideBySide, SlotsOf, IndexOf
<1>3. ReadableStart(t) = ReadableStart(s)
  BY <1>1 DEF ReadableStart
<1>4. QED
  BY <1>1, <1>2, <1>3 DEF Sound

(* copy_tail packs the bytes from start on into full segments and a last one. *)
LEMMA CopiedFacts ==
  ASSUME NEW s, Sound(s), NEW start \in Start(s) .. s.end, NEW capacity \in Nat, capacity > 0
  PROVE  LET c == CopiedTail(s, start, capacity) IN
         /\ c \in Seq(Segment)
         /\ c = <<>> => start = s.end
         /\ c # <<>> => c[1].start = start
         /\ \A i \in 1 .. Len(c) :
              /\ c[i].size <= capacity /\ c[i].size > 0
              /\ c[i].start + c[i].size = IF i = Len(c) THEN s.end ELSE c[i + 1].start
              /\ c[i].start + c[i].size <= c[i].end_time + (IndexGap - 1)
              /\ \A j \in i + 1 .. Len(c) : c[i].start + c[i].size <= c[j].start
<1> DEFINE length == s.end - start
           count == ((length + capacity) - 1) \div capacity
           before(i) == (i - 1) * capacity
           first(i) == start + before(i)
           size(i) == Least(capacity, s.end - first(i))
           feeder(i) == s.segments[SegmentAt(s, first(i) + size(i) - 1)]
           cut(i) == [start |-> first(i), size |-> size(i), end_time |-> feeder(i).end_time]
           c == CopiedTail(s, start, capacity)
<1>1. c = [i \in 1 .. count |-> cut(i)]
  BY DEF CopiedTail
<1>2. s \in Store /\ SideBySide(s) /\ s.end \in Nat /\ Start(s) \in Nat /\ start \in Nat /\ start <= s.end
      /\ Start(s) <= start /\ length \in Nat
  BY StoreFacts DEF Sound
<1> HIDE DEF length
<1>3. /\ count \in Nat
      /\ length <= count * capacity
      /\ count > 0 => (count - 1) * capacity < length
      /\ length = 0 <=> count = 0
  <2>1. length \in Nat /\ capacity \in Nat \ {0} /\ count = ((length + capacity) - 1) \div capacity
    BY <1>2
  <2> HIDE DEF count
  <2>2. QED
    BY <2>1, Blocks
<1> HIDE DEF count
<1>4. ASSUME NEW i \in 1 .. count
      PROVE  before(i) \in Nat /\ before(i) < length
  <2>1. i - 1 \in Nat /\ count - 1 \in Nat /\ i - 1 <= count - 1 /\ count > 0
    BY <1>3, <1>4
  <2>2. (i - 1) * capacity <= (count - 1) * capacity /\ (i - 1) * capacity \in Nat
        /\ (count - 1) * capacity \in Nat
    BY <2>1
  <2>3. QED
    BY <1>2, <1>3, <2>1, <2>2
<1>5. ASSUME NEW i \in 1 .. count, NEW j \in i + 1 .. count
      PROVE  before(j) >= before(i) + capacity
  <2>1. i \in Int /\ j \in Int /\ j - 1 = i + (j - i - 1) /\ j - i - 1 \in Nat
    BY <1>3
  <2>2. (j - 1) * capacity = (i - 1) * capacity + capacity + (j - i - 1) * capacity
    BY <2>1
  <2>3. (j - i - 1) * capacity \in Nat /\ (i - 1) * capacity \in Int
    BY <2>1
  <2>4. QED
    BY <2>2, <2>3
<1>6. ASSUME NEW i \in 1 .. count, i + 1 \in 1 .. count
      PROVE  before(i + 1) = before(i) + capacity
  <2>1. (i + 1) - 1 = i /\ i \in Int
    BY <1>3
  <2>2. i * capacity = (i - 1) * capacity + capacity
    BY <2>1
  <2>3. QED
    BY <2>1, <2>2
<1>7. count > 0 => before(count) + capacity = count * capacity
  BY <1>3
<1> HIDE DEF before
<1>8. ASSUME NEW i \in 1 .. count
      PROVE  /\ first(i) \in Nat /\ first(i) = start + before(i) /\ first(i) < s.end
             /\ size(i) \in Nat /\ size(i) > 0 /\ size(i) <= capacity
             /\ size(i) <= s.end - first(i)
             /\ size(i) = capacity \/ size(i) = s.end - first(i)
  <2>1. first(i) \in Nat /\ first(i) = start + before(i) /\ first(i) < s.end
    BY <1>2, <1>4 DEF length
  <2> HIDE DEF first
  <2>2. s.end - first(i) \in Int /\ s.end - first(i) > 0
    BY <1>2, <2>1
  <2>3. size(i) \in Int /\ size(i) <= capacity /\ size(i) <= s.end - first(i)
        /\ (size(i) = capacity \/ size(i) = s.end - first(i))
    BY <2>2 DEF Least
  <2> HIDE DEF size
  <2>4. QED
    BY <2>1, <2>2, <2>3
<1> HIDE DEF first, size
<1>9. ASSUME NEW i \in 1 .. count
      PROVE  /\ feeder(i).end_time \in Nat
             /\ first(i) + size(i) <= feeder(i).end_time + (IndexGap - 1)
  <2> DEFINE offset == first(i) + size(i) - 1
             at == SegmentAt(s, offset)
  <2>1. offset \in Start(s) .. s.end - 1
    BY <1>2, <1>4, <1>8
  <2>2. /\ at \in 1 .. Len(s.segments) /\ s.segments[at].start <= offset
        /\ offset < s.segments[at].start + s.segments[at].size
    BY <1>2, <2>1, SegmentAtFacts
  <2>3. feeder(i) = s.segments[at]
    OBVIOUS
  <2>9. offset \in Nat /\ first(i) + size(i) = offset + 1
    BY <1>8
  <2> HIDE DEF at, offset, feeder
  <2>10. s.segments[at].start \in Nat /\ s.segments[at].size \in Nat
         /\ s.segments[at].end_time \in Nat
    BY <1>2, <2>2, StoreFacts
  <2>4. /\ s.segments[at].start \in Nat /\ s.segments[at].size \in Nat
        /\ s.segments[at].end_time \in Nat /\ offset \in Nat /\ IndexGap \in Nat
        /\ first(i) + size(i) = offset + 1
    BY <2>9, <2>10, SizeFacts
  <2>5. s.segments[at].size > 0
    BY <2>2, <2>4
  <2>6. s.segments[at].start + s.segments[at].size <= s.segments[at].end_time + (IndexGap - 1)
    BY <1>2, <2>2, <2>5 DEF SideBySide
  <2>7. first(i) + size(i) <= s.segments[at].end_time + (IndexGap - 1)
    <3>1. /\ s.segments[at].start \in Nat /\ s.segments[at].size \in Nat
          /\ s.segments[at].end_time \in Nat /\ offset \in Nat /\ IndexGap \in Nat
      BY <2>4
    <3>2. offset + 1 <= s.segments[at].end_time + (IndexGap - 1)
      BY <2>2, <2>6, <3>1
    <3>3. first(i) + size(i) = offset + 1
      BY <2>4
    <3>4. QED
      BY <3>2, <3>3, Zenon
  <2>8. QED
    BY <2>3, <2>4, <2>7
<1> HIDE DEF feeder
<1>10. \A i \in 1 .. count : cut(i) \in Segment
  BY <1>8, <1>9 DEF Segment
<1>11. c \in Seq(Segment) /\ Len(c) = count
  <2> HIDE DEF cut, c
  <2>1. QED
    BY <1>1, <1>3, <1>10
<1>12. \A i \in 1 .. count : c[i] = cut(i)
  <2> HIDE DEF cut, c
  <2>1. QED
    BY <1>1
<1> HIDE DEF c
<1>13. \A i \in 1 .. count : c[i].start = first(i) /\ c[i].size = size(i) /\ c[i].end_time = feeder(i).end_time
  <2>1. TAKE i \in 1 .. count
  <2>2. c[i] = cut(i)
    BY <1>12
  <2>3. QED
    BY <2>2
<1>14. c = <<>> => start = s.end
  <2>1. c = <<>> => count = 0
    BY <1>11
  <2>2. QED
    BY <1>2, <1>3, <2>1 DEF length
<1>15. c # <<>> => c[1].start = start
  <2>1. SUFFICES ASSUME c # <<>> PROVE c[1].start = start
    OBVIOUS
  <2>2. 1 \in 1 .. count
    BY <1>3, <1>11, <2>1
  <2>3. before(1) = 0
    BY DEF before
  <2>4. QED
    BY <1>2, <1>8, <1>13, <2>2, <2>3
<1>16. ASSUME NEW i \in 1 .. count
       PROVE  /\ c[i].size <= capacity /\ c[i].size > 0
              /\ c[i].start + c[i].size = IF i = count THEN s.end ELSE c[i + 1].start
              /\ c[i].start + c[i].size <= c[i].end_time + (IndexGap - 1)
              /\ \A j \in i + 1 .. count : c[i].start + c[i].size <= c[j].start
  <2>1. CASE i = count
    <3>1. s.end - first(i) <= capacity
      BY <1>2, <1>3, <1>4, <1>7, <1>8, <2>1 DEF length
    <3>2. size(i) = s.end - first(i)
      BY <1>2, <1>8, <3>1
    <3>3. \A j \in i + 1 .. count : FALSE
      BY <1>3, <2>1
    <3>4. QED
      BY <1>2, <1>8, <1>9, <1>13, <2>1, <3>2, <3>3
  <2>2. CASE i # count
    <3>1. i + 1 \in 1 .. count /\ i + 1 \in i + 1 .. count
      BY <1>3, <2>2
    <3>2. before(i + 1) = before(i) + capacity /\ before(i + 1) < length
          /\ before(i) \in Nat
      BY <1>4, <1>6, <3>1
    <3>3. s.end - first(i) > capacity
      BY <1>2, <1>8, <3>2 DEF length
    <3>4. size(i) = capacity
      BY <1>2, <1>8, <3>3
    <3>5. first(i + 1) = first(i) + capacity
      BY <1>2, <1>8, <3>1, <3>2
    <3>6. ASSUME NEW j \in i + 1 .. count PROVE first(i) + capacity <= first(j)
      <4>1. j \in 1 .. count /\ before(j) >= before(i) + capacity /\ before(j) \in Nat
        BY <1>3, <1>4, <1>5
      <4>2. QED
        BY <1>2, <1>8, <3>2, <4>1
    <3>7. \A j \in i + 1 .. count : c[j].start = first(j)
      BY <1>3, <1>13
    <3>8. QED
      BY <1>8, <1>9, <1>13, <2>2, <3>1, <3>4, <3>5, <3>6, <3>7
  <2>3. QED
    BY <2>1, <2>2
<1>17. QED
  BY <1>11, <1>14, <1>15, <1>16 DEF c

(* What CopiedFacts says of a copy of the tail from start, which ends at end. *)
CopyOf(c, start, end, capacity) ==
  /\ c = <<>> => start = end
  /\ c # <<>> => c[1].start = start
  /\ \A i \in 1 .. Len(c) :
       /\ c[i].size <= capacity /\ c[i].size > 0
       /\ c[i].start + c[i].size = IF i = Len(c) THEN end ELSE c[i + 1].start
       /\ c[i].start + c[i].size <= c[i].end_time + (IndexGap - 1)
       /\ \A j \in i + 1 .. Len(c) : c[i].start + c[i].size <= c[j].start

LEMMA CopyIsOf ==
  ASSUME NEW s, Sound(s), NEW start \in Start(s) .. s.end, NEW capacity \in Nat, capacity > 0
  PROVE  CopyOf(CopiedTail(s, start, capacity), start, s.end, capacity)
BY CopiedFacts DEF CopyOf

(* A store filled with a copy of the tail of s is as sound as s was. *)
LEMMA MovedFacts ==
  ASSUME NEW s, Sound(s), NEW start \in Start(s) .. s.end,
         start = Start(s) \/ start + IndexGap <= s.end,
         NEW t \in Store, Settled(t),
         t.segments = CopiedTail(s, start, Capacity(t)), t.end = s.end, t.index = s.index,
         t.cursor.offset <= t.end, t.mapped = IF t.disk THEN Starts(t.segments) ELSE {}
  PROVE  Sound(t) /\ Start(t) = start
<1>1. /\ s \in Store /\ IndexOf(s) /\ s.end \in Nat /\ Start(s) \in Nat /\ start \in Nat
      /\ IndexGap \in Nat /\ Capacity(t) \in Nat /\ Capacity(t) > 0 /\ Len(t.segments) \in Nat
  BY StoreFacts, SizeFacts DEF Sound
<1>2. /\ t.segments = <<>> => start = s.end
      /\ t.segments # <<>> => t.segments[1].start = start
      /\ \A i \in 1 .. Len(t.segments) :
           /\ t.segments[i].size <= Capacity(t) /\ t.segments[i].size > 0
           /\ t.segments[i].start + t.segments[i].size =
                IF i = Len(t.segments) THEN t.end ELSE t.segments[i + 1].start
           /\ t.segments[i].start + t.segments[i].size <= t.segments[i].end_time + (IndexGap - 1)
           /\ \A j \in i + 1 .. Len(t.segments) :
                t.segments[i].start + t.segments[i].size <= t.segments[j].start
  <2>1. CopyOf(CopiedTail(s, start, Capacity(t)), start, s.end, Capacity(t))
    BY <1>1, CopyIsOf
  <2>2. CopyOf(t.segments, start, t.end, Capacity(t))
    BY <2>1
  <2>3. QED
    BY <2>2 DEF CopyOf
<1>3. Start(t) = start
  BY <1>2 DEF Start
<1>4. SideBySide(t)
  BY <1>2 DEF SideBySide
<1>5. SlotsOf(t)
  BY <1>1, StoreFacts DEF SlotsOf, Starts
<1>6. IndexOf(t)
  <2>1. \A entry \in t.index : entry < t.end /\ IsAnchor(entry)
    BY <1>1 DEF IndexOf
  <2>2. \A entry \in t.index : \A anchor \in entry .. t.end - 1 : IsAnchor(anchor) => anchor \in t.index
    BY <1>1 DEF IndexOf
  <2>3. ASSUME t.index # {} PROVE \E entry \in t.index : Start(t) <= entry
    <3>1. PICK late \in s.index : Start(s) <= late /\ s.end - IndexGap <= late
      BY <1>1, <2>3, LateAnchor
    <3>2. late \in Nat
      BY <1>1, StoreFacts
    <3>3. start <= late
      BY <1>1, <3>1, <3>2
    <3>4. QED
      BY <1>3, <3>1, <3>3
  <2>4. QED
    BY <2>1, <2>2, <2>3 DEF IndexOf
<1>7. QED
  BY <1>3, <1>4, <1>5, <1>6 DEF Sound

(* A pause keeps everything the forward buffer holds. *)
LEMMA PausedFacts ==
  ASSUME NEW s, Sound(s), ~ s.history, s.policy.storage # "off"
  PROVE  LET t == Paused(s) IN
         /\ Sound(t) /\ Start(t) = Start(s) /\ ReadableStart(t) = ReadableStart(s)
         /\ t.end = s.end /\ t.index = s.index /\ t.boundaries = s.boundaries
         /\ t.history = TRUE /\ t.trimmed = s.trimmed
<1> DEFINE copied == CopiedTail(s, Start(s), SegmentUnits)
           onDisk == [s EXCEPT !.segments = copied, !.disk = TRUE, !.mapped = Starts(copied),
                               !.history = TRUE]
           inMemory == [s EXCEPT !.history = TRUE]
           t == Paused(s)
<1>1. /\ s \in Store /\ SideBySide(s) /\ ~ s.disk /\ Start(s) \in Nat /\ s.end \in Nat
      /\ Start(s) <= s.end /\ s.cursor.offset <= s.end
  BY StoreFacts, WindowFacts DEF Sound, Settled
<1>2. CASE s.policy.storage = "filesystem"
  <2>1. t = onDisk
    BY <1>2 DEF Paused
  <2>2. Start(s) \in Start(s) .. s.end /\ SegmentUnits \in Nat /\ SegmentUnits > 0
    BY <1>1, SizeFacts
  <2>3. copied \in Seq(Segment) /\ \A i \in 1 .. Len(copied) : copied[i] \in Segment
    <3>1. copied \in Seq(Segment)
      BY <2>2, CopiedFacts
    <3> HIDE DEF copied
    <3>2. QED
      BY <3>1
  <2> HIDE DEF copied
  <2>4. Starts(copied) \in SUBSET Nat
    <3>1. DOMAIN copied = 1 .. Len(copied)
      BY <2>3
    <3>2. \A i \in 1 .. Len(copied) : copied[i].start \in Nat
      BY <2>3 DEF Segment
    <3>3. QED
      BY <3>1, <3>2 DEF Starts
  <2>5. t \in Store
    BY <1>1, <2>1, <2>3, <2>4 DEF Store
  <2>6. /\ t.segments = copied /\ t.disk = TRUE /\ t.mapped = Starts(copied) /\ t.history = TRUE
        /\ t.end = s.end /\ t.index = s.index /\ t.boundaries = s.boundaries
        /\ t.trimmed = s.trimmed /\ t.policy = s.policy /\ t.cursor = s.cursor
    BY <1>1, <2>1 DEF Store
  <2> HIDE DEF t
  <2>7. Capacity(t) = SegmentUnits /\ Settled(t)
    BY <2>6 DEF Capacity, Settled
  <2>8. Sound(t) /\ Start(t) = Start(s)
    BY <1>1, <2>2, <2>5, <2>6, <2>7, MovedFacts DEF copied
  <2>9. QED
    BY <2>6, <2>8 DEF ReadableStart, t
<1>3. CASE s.policy.storage # "filesystem"
  <2>1. t = inMemory
    BY <1>3 DEF Paused
  <2>2. t \in Store
    BY <1>1, <2>1 DEF Store
  <2>3. /\ t.segments = s.segments /\ t.disk = s.disk /\ t.mapped = s.mapped /\ t.history = TRUE
        /\ t.end = s.end /\ t.index = s.index /\ t.boundaries = s.boundaries
        /\ t.trimmed = s.trimmed /\ t.policy = s.policy /\ t.cursor = s.cursor
    BY <1>1, <2>1 DEF Store
  <2> HIDE DEF t
  <2>4. Settled(t)
    BY <2>3 DEF Settled
  <2>5. Sound(t) /\ Start(t) = Start(s) /\ ReadableStart(t) = ReadableStart(s)
    BY <1>1, <2>2, <2>3, <2>4, SameLayout
  <2>6. QED
    BY <2>3, <2>5 DEF t
<1>4. QED
  BY <1>2, <1>3

(* A resume moves what the forward buffer takes back to memory, where the
   trim that follows cannot fail. *)
LEMMA ResumedFacts ==
  ASSUME NEW s, Sound(s), NEW outcome \in Resumed(s)
  PROVE  LET t == outcome.store IN
         /\ outcome.ok = TRUE /\ Sound(t) /\ Advances(s, t) /\ t.end = s.end
         /\ t.history = FALSE
         /\ t.end - Start(t) <= ForwardUnits
         /\ \A entry \in t.index : Start(t) <= entry
         /\ \A boundary \in s.boundaries : boundary >= Start(t) => boundary \in t.boundaries
<1> DEFINE kept == (ForwardUnits \div ReadUnits) * ReadUnits
           from == SaturatingSub(s.end, kept)
           start == IF from > Start(s) THEN from ELSE Start(s)
           copied == CopiedTail(s, start, ReadUnits)
           moved == IF s.disk THEN [s EXCEPT !.segments = copied, !.disk = FALSE, !.mapped = {}]
                              ELSE s
           m == [moved EXCEPT !.history = FALSE]
           budget == Budget(s.policy, FALSE)
<1>1. /\ s \in Store /\ SideBySide(s) /\ SlotsOf(s) /\ Start(s) \in Nat /\ s.end \in Nat
      /\ Start(s) <= s.end /\ s.cursor.offset <= s.end /\ s.policy \in Policies
      /\ ReadUnits \in Nat /\ ReadUnits > 0 /\ IndexGap \in Nat
  BY StoreFacts, WindowFacts, SizeFacts DEF Sound, Store
<1>2. kept \in Nat /\ IndexGap <= kept
  <2> DEFINE q == ForwardUnits \div ReadUnits
             r == ForwardUnits % ReadUnits
  <2>1. ForwardUnits = ReadUnits * q + r /\ r \in 0 .. ReadUnits - 1 /\ q \in Int
    BY SizeFacts
  <2> HIDE DEF q, r
  <2>2. ReadUnits * q = q * ReadUnits
    BY <1>1, <2>1
  <2>3. q * ReadUnits \in Int /\ q * ReadUnits >= IndexGap
    BY <1>1, <2>1, <2>2, SizeFacts
  <2>4. QED
    BY <1>1, <2>3 DEF q
<1> HIDE DEF kept
<1>3. from \in Nat /\ from <= s.end /\ (from > 0 => from = s.end - kept)
  BY <1>1, <1>2, SaturatingFacts
<1> HIDE DEF from
<1>4. start \in Start(s) .. s.end /\ (start = Start(s) \/ start + IndexGap <= s.end)
  BY <1>1, <1>2, <1>3
<1> HIDE DEF start
<1>5. /\ Sound(m) /\ Advances(s, m) /\ m.end = s.end /\ m.boundaries = s.boundaries
      /\ m.disk = FALSE /\ m.history = FALSE
  <2>1. CASE s.disk
    <3>1. copied \in Seq(Segment)
      BY <1>1, <1>4, CopiedFacts
    <3> HIDE DEF copied
    <3>2. m = [[s EXCEPT !.segments = copied, !.disk = FALSE, !.mapped = {}] EXCEPT !.history = FALSE]
      BY <2>1
    <3>3. m \in Store
      BY <1>1, <3>1, <3>2 DEF Store
    <3>4. /\ m.segments = copied /\ m.disk = FALSE /\ m.mapped = {} /\ m.history = FALSE
          /\ m.end = s.end /\ m.index = s.index /\ m.boundaries = s.boundaries
          /\ m.policy = s.policy /\ m.cursor = s.cursor
      BY <1>1, <3>2 DEF Store
    <3> HIDE DEF m
    <3>5. Capacity(m) = ReadUnits /\ Settled(m)
      BY <3>4 DEF Capacity, Settled
    <3>6. Sound(m) /\ Start(m) = start
      BY <1>1, <1>4, <3>3, <3>4, <3>5, MovedFacts DEF copied
    <3>7. Advances(s, m)
      <4>1. \A n \in Nat : n <= n
        OBVIOUS
      <4>2. s.index # {} => First(s.index) \in Nat
        BY <1>1, StoreFacts, FirstFacts
      <4>3. QED
        BY <1>1, <1>4, <3>4, <3>6, <4>1, <4>2 DEF Advances
    <3>8. QED
      BY <3>4, <3>6, <3>7
  <2>2. CASE ~ s.disk
    <3>1. m = [s EXCEPT !.history = FALSE]
      BY <2>2
    <3>2. m \in Store
      BY <1>1, <3>1 DEF Store
    <3>3. /\ m.segments = s.segments /\ m.disk = s.disk /\ m.mapped = s.mapped /\ m.history = FALSE
          /\ m.end = s.end /\ m.index = s.index /\ m.boundaries = s.boundaries
          /\ m.policy = s.policy /\ m.cursor = s.cursor
      BY <1>1, <3>1 DEF Store
    <3>4. s.disk = FALSE
      BY <1>1, <2>2, StoreFacts
    <3> HIDE DEF m
    <3>5. Settled(m)
      BY <3>3, <3>4 DEF Settled
    <3>6. Sound(m) /\ Start(m) = Start(s)
      BY <1>1, <3>2, <3>3, <3>5, SameLayout
    <3>7. Advances(s, m)
      <4>1. \A n \in Nat : n <= n
        OBVIOUS
      <4>2. s.index # {} => First(s.index) \in Nat
        BY <1>1, StoreFacts, FirstFacts
      <4>3. QED
        BY <1>1, <3>3, <3>6, <4>1, <4>2 DEF Advances
    <3>8. QED
      BY <3>3, <3>4, <3>6, <3>7
  <2>3. QED
    BY <2>1, <2>2
<1>6. Roomy(budget, FALSE) /\ budget.units = ForwardUnits
  BY <1>1, BudgetFacts DEF Budget, EffectiveStorage
<1>7. outcome \in Trim(m, budget, FALSE)
  BY DEF Resumed, kept, from, start
<1> HIDE DEF m, budget
<1>8. Trimming(m, budget, outcome)
  BY <1>5, <1>6, <1>7, TrimFacts
<1>9. outcome.ok = TRUE
  <2>1. outcome \in Done(Expired(Popped(m, Excess(m, budget, FALSE)), Start(m), budget, FALSE))
    BY <1>5, <1>7 DEF Trim
  <2>2. QED
    BY <2>1 DEF Done
<1> DEFINE t == outcome.store
<1>10. /\ Sound(t) /\ Advances(m, t) /\ SameSettings(m, t) /\ t.end = m.end
       /\ \A boundary \in m.boundaries : boundary >= Start(t) => boundary \in t.boundaries
       /\ t.end - Start(t) <= budget.units /\ \A entry \in t.index : Start(t) <= entry
  BY <1>8, <1>9 DEF Trimming
<1> HIDE DEF t
<1>11. Advances(s, t)
  BY <1>5, <1>10, AdvancesTransitive
<1>12. t.history = FALSE
  BY <1>5, <1>10 DEF SameSettings
<1>13. QED
  BY <1>5, <1>6, <1>9, <1>10, <1>11, <1>12 DEF t
(* The empty storage that replaces another one begins where that one ended. *)
LEMMA ReplacedFacts ==
  ASSUME NEW s, Sound(s), NEW policy \in Policies, NEW outcome \in Committed(s, policy),
         Resets(s, policy)
  PROVE  LET t == outcome.store IN
         /\ outcome.ok = TRUE /\ Sound(t)
         /\ t.end = s.end
         /\ Start(t) = s.end /\ t.index = {}
<1> DEFINE history == NextHistory(s, policy)
           budget == Budget(policy, history)
           base == Replaced(s, policy)
           p == Popped(base, 0)
           e == Expired(p, Start(base), budget, history)
           empty == [start |-> s.end, size |-> 0, end_time |-> 0]
           t == outcome.store
<1>1. s \in Store /\ s.end \in Nat /\ s.cursor.offset \in Nat /\ s.cursor.offset <= s.end
      /\ s.history \in BOOLEAN
  BY StoreFacts DEF Sound
<1>2. history \in BOOLEAN /\ (history => policy.storage # "off")
  BY <1>1 DEF NextHistory, KeepsState, InitialHistory, Sound, Settled
<1> HIDE DEF history
<1>3. empty \in Segment /\ <<empty>> \in Seq(Segment) /\ Len(<<empty>>) = 1 /\ <<empty>>[1] = empty
  <2>1. empty \in Segment
    BY <1>1 DEF Segment
  <2> HIDE DEF empty
  <2>2. QED
    BY <2>1
<1>4. base = [s EXCEPT !.segments = <<empty>>,
                       !.disk = EffectiveStorage(policy, history) = "filesystem",
                       !.mapped = {}, !.boundaries = {}, !.index = {}]
  BY DEF Replaced, history
<1>5. empty.start = s.end /\ empty.size = 0
  OBVIOUS
<1> HIDE DEF empty
<1>6. base \in Store
  BY <1>1, <1>3, <1>4 DEF Store
<1>7. /\ base.segments = <<empty>> /\ base.disk = (EffectiveStorage(policy, history) = "filesystem")
      /\ base.mapped = {} /\ base.boundaries = {} /\ base.index = {} /\ base.end = s.end
      /\ base.cursor = s.cursor
  BY <1>1, <1>4 DEF Store
<1> HIDE DEF base, budget
<1>8. Excess(base, budget, history) = 0
  <2>1. Excess(base, budget, history) < 1 \/ Excess(base, budget, history) = 0
    BY <1>3, <1>6, <1>7, ExcessFacts
  <2>2. Excess(base, budget, history) \in 0 .. 1
    BY <1>3, <1>6, <1>7, ExcessFacts
  <2>3. QED
    BY <2>1, <2>2
<1>9. /\ p \in Store /\ p.end = base.end /\ p.index = base.index /\ p.boundaries = base.boundaries
      /\ p.cursor = base.cursor /\ p.disk = base.disk /\ Len(p.segments) = 1
      /\ p.segments[1] = empty /\ p.mapped = {}
  <2>1. 0 \in 0 .. Len(base.segments) /\ Len(base.segments) = 1
    BY <1>3, <1>7
  <2>2. /\ p \in Store /\ SameSettings(base, p) /\ p.end = base.end /\ p.index = base.index
        /\ p.boundaries = base.boundaries /\ p.cursor = base.cursor
        /\ Len(p.segments) = Len(base.segments) - 0
        /\ \A i \in 1 .. Len(base.segments) - 0 : p.segments[i] = base.segments[0 + i]
        /\ p.mapped = base.mapped \ {base.segments[i].start : i \in 1 .. 0}
    BY <1>6, <2>1, PoppedFields
  <2> HIDE DEF p
  <2>3. 1 \in 1 .. Len(base.segments) - 0 /\ 0 + 1 = 1
    BY <2>1
  <2>4. p.segments[1] = base.segments[1]
    BY <2>2, <2>3
  <2>5. QED
    BY <1>3, <1>7, <2>1, <2>2, <2>4 DEF SameSettings
<1> HIDE DEF p
<1>10. /\ e \in Store /\ e.end = s.end /\ e.segments = p.segments /\ e.mapped = {}
       /\ e.index = {} /\ e.disk = base.disk /\ e.cursor.offset = s.cursor.offset
  BY <1>2, <1>7, <1>9, ExpiredFields DEF SameSettings
<1>11. Trim(base, budget, history) = {[store |-> e, ok |-> TRUE]}
  <2>1. \A k : k \notin 0 .. 0 - 1
    OBVIOUS
  <2>2. Trim(base, budget, history) = {[store |-> e, ok |-> TRUE]} \cup
          IF base.disk THEN {[store |-> Popped(base, k), ok |-> FALSE] : k \in 0 .. 0 - 1} ELSE {}
    BY <1>8 DEF Trim, Done, p
  <2>3. QED
    BY <2>1, <2>2
<1> HIDE DEF e
<1>12. outcome = [store |-> [e EXCEPT !.policy = policy, !.history = history], ok |-> TRUE]
  <2>1. PICK u \in Trim(base, budget, history) :
          outcome = IF u.ok THEN [u EXCEPT !.store.policy = policy, !.store.history = history] ELSE u
    BY DEF Committed, base, budget, history
  <2>2. u = [store |-> e, ok |-> TRUE]
    BY <1>11, <2>1
  <2>3. u.ok = TRUE
    BY <2>2
  <2>4. outcome = [u EXCEPT !.store.policy = policy, !.store.history = history]
    BY <2>1, <2>3
  <2>5. QED
    BY <2>2, <2>4
<1>13. /\ outcome.ok = TRUE /\ t = [e EXCEPT !.policy = policy, !.history = history]
  BY <1>12
<1> HIDE DEF t
<1>14. t \in Store
  BY <1>2, <1>10, <1>13 DEF Store
<1>15. /\ t.end = s.end /\ t.segments = p.segments /\ t.mapped = {} /\ t.index = {}
       /\ t.disk = base.disk /\ t.cursor.offset = s.cursor.offset
       /\ t.policy = policy /\ t.history = history
  BY <1>10, <1>13 DEF Store
<1>16. Len(t.segments) = 1 /\ t.segments[1].start = s.end /\ t.segments[1].size = 0
  BY <1>5, <1>9, <1>15
<1>17. Start(t) = s.end
  <2>1. t.segments # <<>>
    BY <1>14, <1>16, StoreFacts
  <2>2. QED
    BY <1>16, <2>1 DEF Start
<1>18. SideBySide(t)
  <2>1. \A i \in 1 .. Len(t.segments) : i = 1
    BY <1>16
  <2>2. Capacity(t) \in Nat
    BY <1>14, StoreFacts
  <2>3. \A i, j \in Nat : i = 1 => j \notin i + 1 .. 1
    OBVIOUS
  <2>4. SUFFICES ASSUME NEW i \in 1 .. Len(t.segments)
                 PROVE  /\ 0 <= Capacity(t) /\ ~ (1 < 1) /\ s.end + 0 = s.end /\ ~ (0 > 0)
                        /\ \A j \in 1 + 1 .. 1 : FALSE
    BY <1>15, <1>16, <2>1 DEF SideBySide
  <2>5. QED
    BY <1>1, <2>2
<1>19. SlotsOf(t)
  <2>1. \A i \in 1 .. Len(t.segments) : ~ (t.segments[i].size > 0)
    BY <1>16
  <2>2. QED
    BY <1>15, <2>1 DEF SlotsOf
<1>20. IndexOf(t)
  BY <1>15 DEF IndexOf
<1>21. Settled(t)
  BY <1>2, <1>7, <1>15 DEF Settled, EffectiveStorage
<1>22. Sound(t)
  BY <1>1, <1>14, <1>15, <1>18, <1>19, <1>20, <1>21 DEF Sound
<1>23. QED
  BY <1>13, <1>15, <1>17, <1>22 DEF t, history

(* What ReplacedFacts says of a change of policy that replaces the storage of s. *)
Emptied(s, outcome) ==
  /\ outcome.ok = TRUE /\ Sound(outcome.store)
  /\ outcome.store.end = s.end
  /\ Start(outcome.store) = s.end /\ outcome.store.index = {}

LEMMA ReplacedIsEmptied ==
  ASSUME NEW s, Sound(s), NEW policy \in Policies, NEW outcome \in Committed(s, policy),
         Resets(s, policy)
  PROVE  Emptied(s, outcome)
BY ReplacedFacts DEF Emptied

(* A new policy for the same storage: what a reader that keeps up needs stays. *)
LEMMA KeptFacts ==
  ASSUME NEW s, Sound(s), NEW policy \in Policies, NEW outcome \in Committed(s, policy),
         ~ Resets(s, policy)
  PROVE  LET t == outcome.store IN
         /\ outcome.ok \in BOOLEAN /\ Sound(t) /\ Advances(s, t) /\ t.end = s.end
         /\ ~ t.history => outcome.ok
         /\ outcome.ok => /\ t.end - Start(t) <= Budget(t.policy, t.history).units
                          /\ \A entry \in t.index : Start(t) <= entry
         /\ \A boundary \in s.boundaries : boundary >= Start(t) => boundary \in t.boundaries
         /\ \A offset \in Nat :
              /\ ~ s.history /\ ~ t.history /\ s.cursor.offset <= offset /\ offset <= s.end
              /\ s.end - offset + SegmentUnits + IndexGap <= ForwardUnits
              /\ Serving(s, offset)
              => Serving(t, offset)
<1> DEFINE history == NextHistory(s, policy)
           budget == Budget(policy, history)
           t == outcome.store
<1>1. s \in Store /\ s.history \in BOOLEAN /\ s.disk \in BOOLEAN
  BY StoreFacts DEF Sound
<1>2. history \in BOOLEAN /\ (history => policy.storage # "off")
  BY <1>1 DEF NextHistory, KeepsState, InitialHistory, Sound, Settled
<1>3. Roomy(budget, history)
  BY <1>2, BudgetFacts
<1>4. s.disk => history
  <2>1. SUFFICES ASSUME s.disk, ~ history PROVE FALSE
    OBVIOUS
  <2>2. s.history /\ s.policy.storage # "off"
    BY <2>1 DEF Sound, Settled
  <2>3. EffectiveStorage(s.policy, s.history) = s.policy.storage
        /\ EffectiveStorage(policy, history) = "off"
    BY <2>1, <2>2 DEF EffectiveStorage
  <2>4. <<EffectiveStorage(s.policy, s.history), EffectiveStorage(policy, history)>> # <<"off", "memory">>
    BY <2>2, <2>3
  <2>5. QED
    BY <2>2, <2>3, <2>4 DEF Resets
<1>5. PICK u \in Trim(s, budget, history) :
        outcome = IF u.ok THEN [u EXCEPT !.store.policy = policy, !.store.history = history] ELSE u
  BY DEF Committed
<1> HIDE DEF history
<1>6. Trimming(s, budget, u)
  BY <1>2, <1>3, TrimFacts
<1>7. /\ u.ok \in BOOLEAN /\ Sound(u.store) /\ u.store \in Store /\ Advances(s, u.store)
      /\ SameSettings(s, u.store) /\ u.store.end = s.end
      /\ u.ok => u.store.end - Start(u.store) <= budget.units
                 /\ \A entry \in u.store.index : Start(u.store) <= entry
      /\ \A boundary \in s.boundaries : boundary >= Start(u.store) => boundary \in u.store.boundaries
  BY <1>6 DEF Trimming, Sound
<1>8. ~ u.ok => s.disk
  BY DEF Trim, Done
<1>9. u = [store |-> u.store, ok |-> u.ok]
  BY DEF Trim, Done
<1>10. CASE ~ u.ok
  <2>1. outcome = u /\ t.history = s.history
    BY <1>5, <1>7, <1>10 DEF SameSettings
  <2>2. s.disk /\ s.history
    BY <1>8, <1>10 DEF Sound, Settled
  <2>3. QED
    BY <1>7, <1>10, <2>1, <2>2
<1>11. CASE u.ok
  <2> DEFINE v == u.store
  <2>1. outcome = [store |-> [v EXCEPT !.policy = policy, !.history = history], ok |-> u.ok]
    BY <1>5, <1>9, <1>11
  <2>2. outcome.ok = u.ok /\ t = [v EXCEPT !.policy = policy, !.history = history]
    BY <2>1
  <2>3. v \in Store /\ SameSettings(s, v)
    BY <1>7
  <2> HIDE DEF v, t
  <2>4. t \in Store
    BY <1>2, <2>2, <2>3 DEF Store
  <2>5. /\ t.segments = v.segments /\ t.end = v.end /\ t.index = v.index /\ t.mapped = v.mapped
        /\ t.disk = v.disk /\ t.cursor = v.cursor /\ t.boundaries = v.boundaries
        /\ t.policy = policy /\ t.history = history
    BY <2>2, <2>3 DEF Store
  <2>6. Settled(t)
    BY <1>2, <1>4, <2>3, <2>5 DEF Settled, SameSettings
  <2>7. Sound(v)
    BY <1>7 DEF v
  <2>8. Sound(t) /\ Start(t) = Start(v)
    BY <2>4, <2>5, <2>6, <2>7, SameLayout DEF Sound
  <2>9. Advances(s, t)
    BY <1>7, <2>5, <2>8 DEF Advances, v
  <2>10. ASSUME NEW offset \in Nat,
                ~ s.history, ~ t.history, s.cursor.offset <= offset, offset <= s.end,
                s.end - offset + SegmentUnits + IndexGap <= ForwardUnits,
                Serving(s, offset)
         PROVE  Serving(t, offset)
    <3>1. history = FALSE /\ budget.units = ForwardUnits
      BY <1>2, <2>5, <2>10 DEF Budget, EffectiveStorage
    <3>2. Roomy(budget, FALSE) /\ u \in Trim(s, budget, FALSE)
      BY <1>3, <3>1
    <3> HIDE DEF budget
    <3>3. Serving(v, offset)
      BY <2>10, <3>1, <3>2, TrimServes DEF v
    <3>4. QED
      BY <2>5, <2>8, <3>3 DEF Serving
  <2>11. t.end - Start(t) <= Budget(t.policy, t.history).units /\ \A entry \in t.index : Start(t) <= entry
    BY <1>7, <1>11, <2>5, <2>8 DEF v
  <2>12. \A boundary \in s.boundaries : boundary >= Start(t) => boundary \in t.boundaries
    BY <1>7, <2>5, <2>8 DEF v
  <2>13. outcome.ok \in BOOLEAN /\ outcome.ok /\ t.end = s.end
    BY <1>7, <1>11, <2>2, <2>5 DEF v
  <2>14. QED
    BY <2>8, <2>9, <2>10, <2>11, <2>12, <2>13 DEF t
<1>12. QED
  BY <1>7, <1>10, <1>11

----------------------------------------------------------------------------
(* The steps.                                                               *)

(* Remembering whether the operation succeeded changes nothing else. *)
LEMMA RecordedFacts ==
  ASSUME NEW s, Sound(s), NEW ok \in BOOLEAN
  PROVE  LET t == [s EXCEPT !.trimmed = ok] IN
         /\ Sound(t) /\ Start(t) = Start(s) /\ ReadableStart(t) = ReadableStart(s)
         /\ t.segments = s.segments /\ t.end = s.end /\ t.index = s.index
         /\ t.boundaries = s.boundaries /\ t.cursor = s.cursor
         /\ t.policy = s.policy /\ t.history = s.history /\ t.trimmed = ok
<1> DEFINE t == [s EXCEPT !.trimmed = ok]
<1>1. s \in Store
  BY DEF Sound
<1>2. t \in Store
  BY <1>1 DEF Store
<1>3. /\ t.segments = s.segments /\ t.end = s.end /\ t.index = s.index
      /\ t.boundaries = s.boundaries /\ t.cursor = s.cursor
      /\ t.policy = s.policy /\ t.history = s.history /\ t.trimmed = ok
      /\ t.mapped = s.mapped /\ t.disk = s.disk
  BY <1>1 DEF Store
<1> HIDE DEF t
<1>4. Settled(t) /\ t.cursor.offset <= t.end
  BY <1>3 DEF Sound, Settled
<1>5. Sound(t) /\ Start(t) = Start(s) /\ ReadableStart(t) = ReadableStart(s)
  BY <1>2, <1>3, <1>4, SameLayout
<1>6. QED
  BY <1>3, <1>5 DEF t

(* What the steps need of the store they start from. *)
LEMMA InvFacts ==
  ASSUME IInv
  PROVE  /\ store \in Store /\ Sound(store) /\ SideBySide(store) /\ IndexOf(store)
         /\ store.end \in Nat /\ Start(store) \in Nat /\ Start(store) <= store.end
         /\ ReadableStart(store) \in Nat /\ Start(store) <= ReadableStart(store)
         /\ ReadableStart(store) <= store.end
         /\ store.cursor.offset \in Nat /\ store.cursor.offset <= store.end
         /\ store.history \in BOOLEAN /\ store.policy \in Policies
         /\ reader.offset \in Nat /\ reader.displaced \in BOOLEAN /\ joins \in SUBSET Nat
         /\ changes \in Nat
<1>1. Sound(store) /\ store \in Store /\ SideBySide(store) /\ IndexOf(store)
      /\ store.cursor.offset <= store.end
  BY DEF IInv, Sound
<1>2. /\ store.end \in Nat /\ Start(store) \in Nat /\ store.cursor.offset \in Nat
      /\ store.history \in BOOLEAN /\ store.policy \in Policies
  BY <1>1, StoreFacts DEF Store
<1>3. Start(store) <= store.end
  BY <1>1, WindowFacts
<1>4. /\ ReadableStart(store) \in Nat /\ Start(store) <= ReadableStart(store)
      /\ ReadableStart(store) <= store.end
  BY <1>1, ReadableFacts
<1>5. reader.offset \in Nat /\ reader.displaced \in BOOLEAN /\ joins \in SUBSET Nat /\ changes \in Nat
  BY StoreAssumption DEF IInv
<1>6. QED
  BY <1>1, <1>2, <1>3, <1>4, <1>5

(* What a budget in force means for the bound. *)
LEMMA BudgetBounds ==
  ASSUME NEW policy \in Policies, NEW history \in BOOLEAN, NEW kept \in Nat,
         kept <= Budget(policy, history).units
  PROVE  kept <= ForwardUnits \/ (history /\ kept <= policy.units)
<1>1. CASE EffectiveStorage(policy, history) = "off"
  BY <1>1 DEF Budget
<1>2. CASE EffectiveStorage(policy, history) # "off"
  <2>1. history
    BY <1>2 DEF EffectiveStorage
  <2>2. Budget(policy, history).units = policy.units
    BY <1>2 DEF Budget
  <2>3. QED
    BY <2>1, <2>2
<1>3. QED
  BY <1>1, <1>2

(* The empty store. *)
LEMMA InitHolds == Init => IInv
<1> SUFFICES ASSUME Init PROVE IInv
  OBVIOUS
<1>1. PICK policy \in Policies :
       store = [segments |-> <<>>, disk |-> InitialHistory(policy) /\ policy.storage = "filesystem",
                mapped |-> {}, boundaries |-> {}, end |-> 0, index |-> {},
                cursor |-> [offset |-> 0, expired |-> FALSE],
                policy |-> policy, history |-> InitialHistory(policy), trimmed |-> TRUE]
  BY DEF Init
<1>2. <<>> \in Seq(Segment) /\ Len(<<>>) = 0
  OBVIOUS
<1>3. store \in Store
  BY <1>1, <1>2 DEF Store, InitialHistory
<1>4. /\ store.segments = <<>> /\ store.mapped = {} /\ store.end = 0 /\ store.index = {}
      /\ store.cursor.offset = 0 /\ store.trimmed = TRUE
      /\ store.disk = (InitialHistory(policy) /\ policy.storage = "filesystem")
      /\ store.policy = policy /\ store.history = InitialHistory(policy)
  BY <1>1
<1>5. Settled(store)
  BY <1>4 DEF Settled, InitialHistory
<1>6. Start(store) = 0
  BY <1>4 DEF Start
<1>7. \A i : i \notin 1 .. Len(store.segments)
  BY <1>2, <1>4
<1>8. SideBySide(store) /\ IndexOf(store)
  BY <1>4, <1>7 DEF SideBySide, IndexOf
<1>9. SlotsOf(store)
  BY <1>4, <1>7 DEF SlotsOf
<1>10. Sound(store)
  BY <1>3, <1>4, <1>5, <1>8, <1>9 DEF Sound
<1>11. RetentionIsBounded
  BY <1>4, <1>6, SizeFacts DEF RetentionIsBounded
<1>12. /\ receiver \in [status : {"receiving", "failing", "failed"}, reconnects : 0 .. MaxReconnects]
       /\ reader \in [offset : Nat, displaced : BOOLEAN] /\ reader.offset = 0
       /\ joins = {} /\ changes \in 0 .. MaxChanges
  BY StoreAssumption DEF Init
<1>13. QED
  BY <1>4, <1>10, <1>11, <1>12, SizeFacts DEF IInv

(* Receiving is a flow; after a write or a hole punch that failed, the bounds
   are suspended until the next trim that succeeds. *)
LEMMA ReceiveHolds ==
  ASSUME IInv, Receive
  PROVE  /\ IInv' /\ Advances(store, store') /\ store'.history = store.history
         /\ store'.end = store.end \/ Start(store') < store'.end
         /\ \A offset \in Nat :
              /\ ~ store.history /\ store.cursor.offset <= offset /\ offset <= store.end
              /\ store'.end - offset + SegmentUnits + IndexGap <= ForwardUnits
              /\ Serving(store, offset)
              => Serving(store', offset)
<1>1. PICK count \in 1 .. ReadUnits :
        \E outcome \in Appended(store, count) :
          /\ store' = [outcome.store EXCEPT !.trimmed = outcome.ok]
          /\ receiver' = IF outcome.ok THEN receiver ELSE [receiver EXCEPT !.status = "failing"]
  BY DEF Receive
<1>2. PICK outcome \in Appended(store, count) :
        /\ store' = [outcome.store EXCEPT !.trimmed = outcome.ok]
        /\ receiver' = IF outcome.ok THEN receiver ELSE [receiver EXCEPT !.status = "failing"]
  BY <1>1
<1> DEFINE u == outcome.store
<1>3. Sound(store) /\ store.policy \in Policies /\ store.history \in BOOLEAN
  BY InvFacts
<1>4. /\ outcome.ok \in BOOLEAN /\ Flow(store, u)
      /\ u.end = store.end \/ Start(u) < u.end
      /\ outcome.ok => u.end - Start(u) <= Budget(store.policy, store.history).units
                       /\ \A entry \in u.index : Start(u) <= entry
      /\ ~ store.history => outcome.ok
  BY <1>3, AppendedFacts
<1>5. store' = [u EXCEPT !.trimmed = outcome.ok]
  BY <1>2
<1> HIDE DEF u
<1>6. Sound(u) /\ Advances(store, u) /\ SameSettings(store, u)
  BY <1>4 DEF Flow
<1>7. /\ Sound(store') /\ Start(store') = Start(u)
      /\ store'.end = u.end /\ store'.index = u.index /\ store'.boundaries = u.boundaries
      /\ store'.cursor = u.cursor /\ store'.policy = u.policy /\ store'.history = u.history
      /\ store'.trimmed = outcome.ok
  BY <1>4, <1>5, <1>6, RecordedFacts
<1>8. Advances(store, store') /\ store'.policy = store.policy /\ store'.history = store.history
  BY <1>6, <1>7 DEF Advances, SameSettings
<1>9. \A offset : Serving(u, offset) => Serving(store', offset)
  BY <1>7 DEF Serving
<1>10. store.end \in Nat /\ store'.end \in Nat /\ Start(store') \in Nat /\ Start(store) \in Nat
       /\ Start(store') <= store'.end /\ joins \in SUBSET Nat /\ reader.offset \in Nat
  BY <1>7, InvFacts, StoreFacts, WindowFacts DEF Sound
<1>11. RetentionIsBounded'
  <2>1. store'.trimmed => store'.end - Start(store') <= Budget(store.policy, store.history).units
    BY <1>4, <1>7
  <2>2. store'.end - Start(store') \in Nat
    BY <1>10
  <2>3. QED
    BY <1>3, <1>8, <2>1, <2>2, BudgetBounds DEF RetentionIsBounded
<1>12. \A join \in joins' : join >= Start(store') => join \in store'.boundaries
  <2>1. SUFFICES ASSUME NEW join \in joins, join >= Start(store') PROVE join \in store'.boundaries
    BY DEF Receive
  <2>2. join >= Start(store)
    BY <1>8, <1>10, <2>1 DEF Advances
  <2>3. join \in store.boundaries
    BY <2>2 DEF IInv
  <2>4. QED
    BY <1>4, <1>7, <2>1, <2>3 DEF Flow
<1>13. reader'.offset <= store'.end
  BY <1>8, <1>10 DEF Receive, IInv, Advances
<1>14. store'.index = {} /\ ~ reader'.displaced => store'.end < IndexGap
  BY <1>4, <1>7 DEF Receive, IInv, Flow, Advances
<1>15. receiver' \in [status : {"receiving", "failing", "failed"}, reconnects : 0 .. MaxReconnects]
  BY <1>2 DEF IInv
<1>16. /\ store'.trimmed => \A entry \in store'.index : Start(store') <= entry
       /\ ~ store'.history => store'.trimmed
  BY <1>4, <1>7, <1>8
<1>17. IInv'
  BY <1>7, <1>11, <1>12, <1>13, <1>14, <1>15, <1>16 DEF IInv, Receive
<1>18. QED
  BY <1>4, <1>7, <1>8, <1>9, <1>17 DEF Flow

(* A reconnect adds the join it remembers. *)
LEMMA ReconnectHolds ==
  ASSUME IInv, Reconnect
  PROVE  /\ IInv' /\ store'.end = store.end /\ ReadableStart(store') = ReadableStart(store)
<1>1. store' = [store EXCEPT !.boundaries = @ \cup {store.end}] /\ joins' = joins \cup {store.end}
  BY DEF Reconnect
<1>2. Sound(store) /\ store \in Store /\ store.end \in Nat
  BY InvFacts
<1>3. store' \in Store
  BY <1>1, <1>2 DEF Store
<1>4. /\ store'.segments = store.segments /\ store'.end = store.end /\ store'.index = store.index
      /\ store'.boundaries = store.boundaries \cup {store.end} /\ store'.cursor = store.cursor
      /\ store'.policy = store.policy /\ store'.history = store.history
      /\ store'.trimmed = store.trimmed /\ store'.mapped = store.mapped /\ store'.disk = store.disk
  BY <1>1, <1>2 DEF Store
<1>5. Settled(store') /\ store'.cursor.offset <= store'.end
  BY <1>2, <1>4 DEF Sound, Settled
<1>6. Sound(store') /\ Start(store') = Start(store) /\ ReadableStart(store') = ReadableStart(store)
  BY <1>2, <1>3, <1>4, <1>5, SameLayout
<1>7. RetentionIsBounded'
  BY <1>4, <1>6 DEF IInv, RetentionIsBounded
<1>8. \A join \in joins' : join >= Start(store') => join \in store'.boundaries
  BY <1>1, <1>4, <1>6 DEF IInv
<1>9. receiver' \in [status : {"receiving", "failing", "failed"}, reconnects : 0 .. MaxReconnects]
  BY StoreAssumption DEF Reconnect, IInv
<1>10. joins' \subseteq Nat
  BY <1>1, <1>2 DEF IInv
<1>11. QED
  BY <1>4, <1>6, <1>7, <1>8, <1>9, <1>10 DEF IInv, Reconnect

(* The end of reception leaves the store alone. *)
LEMMA FinishHolds ==
  ASSUME IInv, Finish
  PROVE  IInv'
<1>1. receiver' \in [status : {"receiving", "failing", "failed"}, reconnects : 0 .. MaxReconnects]
  BY DEF Finish, IInv
<1>2. QED
  BY <1>1 DEF Finish, IInv, RetentionIsBounded

(* A pause may begin with all of the forward buffer. *)
LEMMA BeginPauseHolds ==
  ASSUME IInv, BeginPause
  PROVE  /\ IInv' /\ store'.end = store.end /\ ReadableStart(store') = ReadableStart(store)
         /\ store'.history = TRUE
<1>1. store' = Paused(store) /\ store.policy.storage # "off" /\ ~ store.history
  BY DEF BeginPause
<1>2. Sound(store)
  BY InvFacts
<1>3. /\ Sound(store') /\ Start(store') = Start(store) /\ ReadableStart(store') = ReadableStart(store)
      /\ store'.end = store.end /\ store'.index = store.index /\ store'.boundaries = store.boundaries
      /\ store'.history = TRUE /\ store'.trimmed = store.trimmed
  BY <1>1, <1>2, PausedFacts
<1>4. RetentionIsBounded'
  BY <1>1, <1>3 DEF IInv, RetentionIsBounded
<1>5. changes' \in 0 .. MaxChanges
  BY StoreAssumption DEF BeginPause, Change, IInv
<1>6. QED
  BY <1>3, <1>4, <1>5 DEF IInv, BeginPause

(* A resume never fails, so the bounds hold again. *)
LEMMA FinishPauseHolds ==
  ASSUME IInv, FinishPause
  PROVE  IInv' /\ Advances(store, store') /\ store'.end = store.end
<1>1. PICK outcome \in Resumed(store) : store' = [outcome.store EXCEPT !.trimmed = outcome.ok]
  BY DEF FinishPause
<1> DEFINE u == outcome.store
<1>2. Sound(store)
  BY InvFacts
<1>3. /\ outcome.ok = TRUE /\ Sound(u) /\ Advances(store, u) /\ u.end = store.end
      /\ u.history = FALSE /\ u.end - Start(u) <= ForwardUnits
      /\ \A entry \in u.index : Start(u) <= entry
      /\ \A boundary \in store.boundaries : boundary >= Start(u) => boundary \in u.boundaries
  BY <1>2, ResumedFacts
<1>4. store' = [u EXCEPT !.trimmed = TRUE]
  BY <1>1, <1>3
<1> HIDE DEF u
<1>5. /\ Sound(store') /\ Start(store') = Start(u)
      /\ store'.end = u.end /\ store'.index = u.index /\ store'.boundaries = u.boundaries
      /\ store'.history = u.history /\ store'.trimmed = TRUE
  BY <1>3, <1>4, RecordedFacts
<1>6. Advances(store, store')
  BY <1>3, <1>5 DEF Advances
<1>7. Start(store) \in Nat /\ Start(store') \in Nat /\ joins \in SUBSET Nat
  BY <1>5, InvFacts, StoreFacts DEF Sound
<1>8. \A join \in joins' : join >= Start(store') => join \in store'.boundaries
  <2>1. SUFFICES ASSUME NEW join \in joins, join >= Start(store') PROVE join \in store'.boundaries
    BY DEF FinishPause
  <2>2. join >= Start(store)
    BY <1>6, <1>7, <2>1 DEF Advances
  <2>3. QED
    BY <1>3, <1>5, <2>1, <2>2 DEF IInv
<1>9. RetentionIsBounded'
  BY <1>3, <1>5 DEF RetentionIsBounded
<1>10. changes' \in 0 .. MaxChanges
  BY StoreAssumption DEF FinishPause, Change, IInv
<1>11. store'.index = {} => store.index = {}
  BY <1>6 DEF Advances
<1>12. QED
  BY <1>3, <1>5, <1>6, <1>8, <1>9, <1>10, <1>11 DEF IInv, FinishPause

(* A change that replaces the storage displaces the reader; any other keeps
   what a reader that keeps up needs. *)
LEMMA ReconfigureHolds ==
  ASSUME IInv, Reconfigure
  PROVE  /\ IInv' /\ store'.end = store.end /\ ReadableStart(store) <= ReadableStart(store')
         /\ ~ reader'.displaced =>
              \A offset \in Nat :
                /\ ~ store.history /\ ~ store'.history
                /\ store.cursor.offset <= offset /\ offset <= store.end
                /\ store.end - offset + SegmentUnits + IndexGap <= ForwardUnits
                /\ Serving(store, offset)
                => Serving(store', offset)
<1>1. PICK policy \in Policies \ {store.policy} :
        /\ \E outcome \in Committed(store, policy) :
             store' = [outcome.store EXCEPT !.trimmed = outcome.ok]
        /\ IF Resets(store, policy)
             THEN joins' = {} /\ reader' = [reader EXCEPT !.displaced = TRUE]
             ELSE UNCHANGED <<joins, reader>>
  BY DEF Reconfigure
<1>2. PICK outcome \in Committed(store, policy) :
        store' = [outcome.store EXCEPT !.trimmed = outcome.ok]
  BY <1>1
<1> DEFINE u == outcome.store
<1>3. /\ Sound(store) /\ policy \in Policies /\ joins \in SUBSET Nat /\ Start(store) \in Nat
      /\ store.end \in Nat /\ ReadableStart(store) \in Nat /\ ReadableStart(store) <= store.end
  BY InvFacts
<1>4. changes' \in 0 .. MaxChanges /\ receiver' = receiver
  BY StoreAssumption DEF Reconfigure, Change, IInv
<1>5. CASE Resets(store, policy)
  <2>1. /\ outcome.ok = TRUE /\ Sound(u) /\ u.end = store.end /\ Start(u) = store.end
        /\ u.index = {}
    <3>1. Emptied(store, outcome)
      BY <1>3, <1>5, ReplacedIsEmptied
    <3>2. QED
      BY <3>1 DEF Emptied
  <2>2. store' = [u EXCEPT !.trimmed = TRUE]
    BY <1>2, <2>1
  <2> HIDE DEF u
  <2>3. /\ Sound(store') /\ Start(store') = Start(u) /\ ReadableStart(store') = ReadableStart(u)
        /\ store'.end = u.end /\ store'.index = u.index /\ store'.trimmed = TRUE
    BY <2>1, <2>2, RecordedFacts
  <2>4. joins' = {} /\ reader' = [reader EXCEPT !.displaced = TRUE]
    BY <1>1, <1>5
  <2>5. /\ reader' \in [offset : Nat, displaced : BOOLEAN] /\ reader'.displaced = TRUE
        /\ reader'.offset = reader.offset
    BY <2>4 DEF IInv
  <2>6. RetentionIsBounded'
    BY <1>3, <2>1, <2>3, SizeFacts DEF RetentionIsBounded
  <2>7. ReadableStart(store') = store.end
    BY <2>1, <2>3 DEF ReadableStart
  <2>8. IInv'
    BY <1>4, <2>1, <2>3, <2>4, <2>5, <2>6 DEF IInv
  <2>9. QED
    BY <1>3, <2>1, <2>3, <2>5, <2>7, <2>8
<1>6. CASE ~ Resets(store, policy)
  <2>1. /\ outcome.ok \in BOOLEAN /\ Sound(u) /\ Advances(store, u) /\ u.end = store.end
        /\ ~ u.history => outcome.ok
        /\ outcome.ok => /\ u.end - Start(u) <= Budget(u.policy, u.history).units
                         /\ \A entry \in u.index : Start(u) <= entry
        /\ \A boundary \in store.boundaries : boundary >= Start(u) => boundary \in u.boundaries
        /\ \A offset \in Nat :
             /\ ~ store.history /\ ~ u.history
             /\ store.cursor.offset <= offset /\ offset <= store.end
             /\ store.end - offset + SegmentUnits + IndexGap <= ForwardUnits
             /\ Serving(store, offset)
             => Serving(u, offset)
    BY <1>3, <1>6, KeptFacts
  <2>2. store' = [u EXCEPT !.trimmed = outcome.ok]
    BY <1>2
  <2> HIDE DEF u
  <2>3. /\ Sound(store') /\ Start(store') = Start(u)
        /\ store'.end = u.end /\ store'.index = u.index /\ store'.boundaries = u.boundaries
        /\ store'.policy = u.policy /\ store'.history = u.history /\ store'.trimmed = outcome.ok
    BY <2>1, <2>2, RecordedFacts
  <2>4. joins' = joins /\ reader' = reader
    BY <1>1, <1>6
  <2>5. Advances(store, store')
    BY <2>1, <2>3 DEF Advances
  <2>6. ReadableStart(store) <= ReadableStart(store')
    BY <1>3, <2>3, <2>5, ReadableAdvances
  <2>7. \A offset : Serving(u, offset) => Serving(store', offset)
    BY <2>3 DEF Serving
  <2>8. /\ Start(store') \in Nat /\ Start(store') <= store'.end /\ store'.end \in Nat
        /\ store'.policy \in Policies /\ store'.history \in BOOLEAN
    BY <2>3, StoreFacts, WindowFacts DEF Sound, Store
  <2>9. RetentionIsBounded'
    <3>1. store'.trimmed => store'.end - Start(store') <= Budget(store'.policy, store'.history).units
      BY <2>1, <2>3
    <3>2. store'.end - Start(store') \in Nat
      BY <2>8
    <3>3. QED
      BY <2>8, <3>1, <3>2, BudgetBounds DEF RetentionIsBounded
  <2>10. \A join \in joins' : join >= Start(store') => join \in store'.boundaries
    <3>1. SUFFICES ASSUME NEW join \in joins, join >= Start(store') PROVE join \in store'.boundaries
      BY <2>4
    <3>2. join >= Start(store)
      BY <1>3, <2>5, <2>8, <3>1 DEF Advances
    <3>3. QED
      BY <2>1, <2>3, <3>1, <3>2 DEF IInv
  <2>11. store'.index = {} => store.index = {}
    BY <2>5 DEF Advances
  <2>12. /\ store'.trimmed => \A entry \in store'.index : Start(store') <= entry
         /\ ~ store'.history => store'.trimmed
    BY <2>1, <2>3
  <2>13. IInv'
    BY <1>4, <2>1, <2>3, <2>4, <2>9, <2>10, <2>11, <2>12 DEF IInv
  <2>14. QED
    BY <2>1, <2>3, <2>6, <2>7, <2>13
<1>7. QED
  BY <1>5, <1>6

(* A read moves the reader and the cursor to where it stopped. *)
LEMMA ReadHolds ==
  ASSUME IInv, Read
  PROVE  /\ IInv' /\ store'.end = store.end /\ ReadableStart(store') = ReadableStart(store)
         /\ reader' # reader
<1> DEFINE count == ReadCount(store, reader.offset)
<1>1. /\ reader.offset >= ReadableStart(store) /\ reader.offset < store.end
      /\ reader' = [reader EXCEPT !.offset = @ + count]
      /\ store' = [store EXCEPT !.cursor = [offset |-> reader'.offset, expired |-> FALSE]]
  BY DEF Read
<1>2. /\ store \in Store /\ Sound(store) /\ SideBySide(store) /\ store.end \in Nat
      /\ Start(store) \in Nat /\ ReadableStart(store) \in Nat /\ Start(store) <= ReadableStart(store)
      /\ reader.offset \in Nat
  BY InvFacts
<1>3. reader.offset \in Start(store) .. store.end - 1
  BY <1>1, <1>2
<1>4. count \in Nat /\ count > 0 /\ reader.offset + count <= store.end
  BY <1>2, <1>3, ReadFacts
<1> HIDE DEF count
<1>5. /\ reader' \in [offset : Nat, displaced : BOOLEAN]
      /\ reader'.offset = reader.offset + count /\ reader'.displaced = reader.displaced
  BY <1>1, <1>4 DEF IInv
<1>6. reader'.offset \in Nat /\ reader'.offset <= store.end /\ reader'.offset # reader.offset
  BY <1>2, <1>4, <1>5
<1>7. store' \in Store
  BY <1>1, <1>2, <1>6 DEF Store
<1>8. /\ store'.segments = store.segments /\ store'.end = store.end /\ store'.index = store.index
      /\ store'.boundaries = store.boundaries /\ store'.cursor.offset = reader'.offset
      /\ store'.policy = store.policy /\ store'.history = store.history
      /\ store'.trimmed = store.trimmed /\ store'.mapped = store.mapped /\ store'.disk = store.disk
  BY <1>1, <1>2 DEF Store
<1>9. Settled(store') /\ store'.cursor.offset <= store'.end
  BY <1>2, <1>6, <1>8 DEF Sound, Settled
<1>10. Sound(store') /\ Start(store') = Start(store) /\ ReadableStart(store') = ReadableStart(store)
  BY <1>2, <1>7, <1>8, <1>9, SameLayout
<1>11. RetentionIsBounded'
  BY <1>8, <1>10 DEF IInv, RetentionIsBounded
<1>12. IInv'
  BY <1>5, <1>6, <1>8, <1>10, <1>11 DEF IInv, Read
<1>13. QED
  BY <1>6, <1>8, <1>10, <1>12

(* A seek takes the reader to an entry of the index, which ends displacement. *)
LEMMA SeekHolds ==
  ASSUME IInv, Seek
  PROVE  IInv'
<1>1. PICK anchor \in store.index : reader' = [offset |-> anchor, displaced |-> FALSE]
  BY DEF Seek
<1>2. store' = store /\ receiver' = receiver /\ joins' = joins
  BY DEF Seek
<1>3. anchor \in Nat /\ anchor < store.end /\ store.end \in Nat
  BY InvFacts, StoreFacts DEF IndexOf
<1>4. reader' \in [offset : Nat, displaced : BOOLEAN] /\ reader'.offset <= store.end
      /\ store.index # {}
  BY <1>1, <1>3
<1>5. changes' \in 0 .. MaxChanges
  BY StoreAssumption DEF Seek, Change, IInv
<1>6. QED
  BY <1>2, <1>4, <1>5 DEF IInv, RetentionIsBounded

(* Every step. *)
LEMMA NextHolds == IInv /\ [Next]_vars => IInv'
<1> SUFFICES ASSUME IInv, [Next]_vars PROVE IInv'
  OBVIOUS
<1>1. CASE Next
  BY <1>1, ReceiveHolds, ReconnectHolds, FinishHolds, BeginPauseHolds, FinishPauseHolds,
     ReconfigureHolds, ReadHolds, SeekHolds DEF Next
<1>2. CASE UNCHANGED vars
  BY <1>2 DEF vars, IInv, RetentionIsBounded
<1>3. QED
  BY <1>1, <1>2

(* The invariant holds in every state. *)
LEMMA InvariantHolds == Spec => []IInv
<1>1. QED
  BY InitHolds, NextHolds, PTL DEF Spec

----------------------------------------------------------------------------
(* The theorems.                                                            *)

(* The invariant implies the types ... *)
LEMMA InvType == IInv => TypeOK
<1> SUFFICES ASSUME IInv PROVE TypeOK
  OBVIOUS
<1>1. store \in Store /\ SideBySide(store)
  BY InvFacts
<1>2. /\ store.end \in Nat /\ store.index \subseteq Nat /\ store.mapped \subseteq Nat
      /\ store.policy \in Policies
      /\ store.disk \in BOOLEAN /\ store.history \in BOOLEAN /\ store.trimmed \in BOOLEAN
      /\ store.cursor \in [offset : Nat, expired : BOOLEAN]
      /\ store.segments \in Seq([start : Nat, size : Nat, end_time : Nat])
      /\ store.boundaries \subseteq Nat
  BY <1>1 DEF Store, Segment
<1>3. DOMAIN store.segments = 1 .. Len(store.segments)
  BY <1>2
<1>4. \A i \in DOMAIN store.segments :
        /\ store.segments[i].size <= Capacity(store)
        /\ store.segments[i].start + store.segments[i].size =
             IF i = Len(store.segments) THEN store.end ELSE store.segments[i + 1].start
  BY <1>1, <1>3 DEF SideBySide
<1>5. QED
  BY <1>2, <1>4 DEF IInv, TypeOK

(* Types and layout: the segments lie side by side up to the end of what was
   received, none above its capacity. *)
THEOREM StoreTypes == Spec => []TypeOK
<1>1. QED
  BY InvariantHolds, InvType, PTL

(* ... that reads are whole, because every join in the window is a boundary ... *)
LEMMA InvReads == IInv => ReadsAreWhole
<1> SUFFICES ASSUME IInv PROVE ReadsAreWhole
  OBVIOUS
<1>1. /\ store \in Store /\ SideBySide(store) /\ Start(store) \in Nat /\ store.end \in Nat
      /\ ReadableStart(store) \in Nat /\ Start(store) <= ReadableStart(store)
      /\ joins \in SUBSET Nat
  BY InvFacts
<1>2. ASSUME NEW offset \in ReadableStart(store) .. store.end - 1
      PROVE  /\ offset \in Nat /\ offset >= Start(store)
             /\ ReadCount(store, offset) \in Nat /\ ReadCount(store, offset) > 0
             /\ offset + ReadCount(store, offset) <=
                  store.segments[SegmentAt(store, offset)].start
                    + store.segments[SegmentAt(store, offset)].size
             /\ \A boundary \in store.boundaries :
                  boundary > offset => offset + ReadCount(store, offset) <= boundary
  <2>1. offset \in Start(store) .. store.end - 1 /\ offset \in Nat /\ offset >= Start(store)
    BY <1>1
  <2>2. QED
    BY <1>1, <2>1, ReadFacts
<1>3. ReadsMakeProgress
  BY <1>2 DEF ReadsMakeProgress
<1>4. ReadsStopAtReconnects
  <2>1. SUFFICES ASSUME NEW offset \in ReadableStart(store) .. store.end - 1
                 PROVE  /\ \A join \in joins :
                             ~ (offset < join /\ join < offset + ReadCount(store, offset))
                        /\ offset \in joins => Reconnected(store, offset)
    BY DEF ReadsStopAtReconnects
  <2>2. ASSUME NEW join \in joins, offset < join, join < offset + ReadCount(store, offset)
        PROVE  FALSE
    <3>1. join \in Nat /\ join >= Start(store)
      BY <1>1, <1>2, <2>2
    <3>2. join \in store.boundaries
      BY <3>1 DEF IInv
    <3>3. offset + ReadCount(store, offset) <= join
      BY <1>2, <2>2, <3>1, <3>2
    <3>4. QED
      BY <1>2, <2>2, <3>1, <3>3
  <2>3. offset \in joins => Reconnected(store, offset)
    BY <1>2 DEF IInv, Reconnected
  <2>4. QED
    BY <2>2, <2>3
<1>5. QED
  BY <1>3, <1>4 DEF ReadsAreWhole

(* ... and that slots and index speak of the segments that are there. *)
LEMMA InvLayout == IInv => LayoutHolds
<1> SUFFICES ASSUME IInv PROVE LayoutHolds
  OBVIOUS
<1>1. store \in Store /\ SlotsOf(store) /\ IndexOf(store)
  BY InvFacts DEF Sound
<1>2. DOMAIN store.segments = 1 .. Len(store.segments)
  BY <1>1, StoreFacts
<1>3. SlotsMatchSegments
  BY <1>1, <1>2 DEF SlotsOf, SlotsMatchSegments
<1>4. AnchorsAreRetained
  BY <1>1 DEF IndexOf, IInv, AnchorsAreRetained
<1>5. QED
  BY <1>3, <1>4 DEF LayoutHolds

(* Reads make progress and stop at reconnects, slots and index speak of the
   segments that are there, and what is retained fits the budget in force. *)
THEOREM StoreAlwaysHolds == Spec => []StoreHolds
<1>1. IInv => StoreHolds
  BY InvReads, InvLayout DEF IInv, StoreHolds, RetentionHolds
<1>2. QED
  BY <1>1, InvariantHolds, PTL

(* A reader that reads in the window, not displaced, is served. *)
LEMMA ReaderIsServed ==
  ASSUME IInv, ~ store.history, ~ reader.displaced, ReadableStart(store) <= reader.offset
  PROVE  Serving(store, reader.offset)
<1>1. /\ store \in Store /\ Start(store) \in Nat /\ ReadableStart(store) \in Nat
      /\ Start(store) <= ReadableStart(store) /\ reader.offset \in Nat
  BY InvFacts
<1>2. Start(store) <= reader.offset
  BY <1>1
<1>3. \A entry \in store.index : Start(store) <= entry
  BY DEF IInv
<1>4. store.index = {} => store.end < IndexGap
  BY DEF IInv
<1>5. ASSUME store.index # {}
      PROVE  First(store.index) <= reader.offset \/ First(store.index) = IndexGap - 1
  <2> DEFINE first == First(store.index)
  <2>1. first \in Nat /\ IndexGap \in Nat
    BY <1>1, <1>5, StoreFacts, FirstFacts, SizeFacts
  <2>2. CASE Time(first) = 0
    <3>1. first - (IndexGap - 1) = 0
      BY <2>2 DEF Time
    <3> HIDE DEF first
    <3>2. QED
      BY <2>1, <3>1 DEF first
  <2>3. CASE Time(first) # 0
    <3>1. ReadableStart(store) = IF first > Start(store) THEN first ELSE Start(store)
      BY <1>5, <2>3 DEF ReadableStart
    <3> HIDE DEF first
    <3>2. first <= reader.offset
      BY <1>1, <2>1, <3>1
    <3>3. QED
      BY <3>2 DEF first
  <2>4. QED
    BY <2>2, <2>3
<1>6. QED
  BY <1>2, <1>3, <1>4, <1>5 DEF Serving

(* ... and a served reader reads in the window. *)
LEMMA ServedReads ==
  ASSUME NEW t, Serving(t, reader.offset)
  PROVE  ReadableStart(t) <= reader.offset
<1>1. CASE t.index = {} \/ Time(First(t.index)) = 0
  BY <1>1 DEF ReadableStart, Serving
<1>2. CASE ~ (t.index = {} \/ Time(First(t.index)) = 0)
  <2>1. First(t.index) # IndexGap - 1
    BY <1>2, SizeFacts DEF Time
  <2>2. First(t.index) <= reader.offset /\ Start(t) <= reader.offset
    BY <1>2, <2>1 DEF Serving
  <2>3. QED
    BY <1>2, <2>2 DEF ReadableStart
<1>3. QED
  BY <1>1, <1>2

(* PlaybackSurvives, of one step. *)
Survives ==
  (/\ ~ store.history /\ ~ store'.history /\ UNCHANGED reader /\ ~ reader.displaced
   /\ store.cursor.offset <= reader.offset
   /\ ReadableStart(store) <= reader.offset
   /\ store'.end - reader.offset + SegmentUnits + IndexGap <= ForwardUnits)
  => ReadableStart(store') <= reader.offset

(* Receiving and new policies serve a reader they served before. *)
LEMMA StepSurvives == IInv /\ [Next]_vars => Survives
<1> SUFFICES ASSUME IInv, [Next]_vars,
                    ~ store.history, ~ store'.history, UNCHANGED reader, ~ reader.displaced,
                    store.cursor.offset <= reader.offset,
                    ReadableStart(store) <= reader.offset,
                    store'.end - reader.offset + SegmentUnits + IndexGap <= ForwardUnits
             PROVE  ReadableStart(store') <= reader.offset
  BY DEF Survives
<1>1. reader.offset \in Nat /\ reader.offset <= store.end /\ Serving(store, reader.offset)
  BY InvFacts, ReaderIsServed DEF IInv
<1>2. CASE Receive
  <2>1. Serving(store', reader.offset)
    BY <1>1, <1>2, ReceiveHolds
  <2>2. QED
    BY <2>1, ServedReads
<1>3. CASE Reconfigure
  <2>1. store'.end = store.end /\ ~ reader'.displaced
    BY <1>3, ReconfigureHolds
  <2>2. Serving(store', reader.offset)
    BY <1>1, <1>3, <2>1, ReconfigureHolds
  <2>3. QED
    BY <2>2, ServedReads
<1>4. CASE Reconnect
  BY <1>4, ReconnectHolds
<1>5. CASE BeginPause
  BY <1>5, BeginPauseHolds
<1>6. CASE FinishPause
  BY <1>6 DEF FinishPause
<1>7. CASE Read
  BY <1>7, ReadHolds
<1>8. CASE Finish \/ Seek \/ UNCHANGED vars
  BY <1>8 DEF Finish, Seek, vars
<1>9. QED
  BY <1>2, <1>3, <1>4, <1>5, <1>6, <1>7, <1>8 DEF Next

(* A reader that keeps up within the forward buffer is never outrun by a step
   of the receiver or by a new policy, whatever the budgets are. *)
THEOREM PlaybackAlwaysSurvives == Spec => PlaybackSurvives
<1>1. IInv /\ [Next]_vars => Survives
  BY StepSurvives
<1>2. QED
  BY <1>1, InvariantHolds, PTL DEF Spec, PlaybackSurvives, Survives

(* A step moves the window as RetentionWindow lets it: it grows only while
   data is received, and what left it never comes back. *)
Grows ==
  /\ receiver.status = "receiving" /\ receiver'.status # "failed"
  /\ store'.end > store.end
  /\ ReadableStart(store') \in ReadableStart(store) .. store'.end - 1
Shrinks ==
  /\ (receiver'.status = "failed") = (receiver.status = "failed")
  /\ store'.end = store.end
  /\ ReadableStart(store') \in ReadableStart(store) .. store.end

(* After a step the window is again one of numbers. *)
LEMMA StepTypes ==
  ASSUME IInv, [Next]_vars
  PROVE  store'.end \in Nat /\ ReadableStart(store') \in Nat
<1>1. IInv'
  BY NextHolds
<1>2. Sound(store')
  BY <1>1 DEF IInv
<1>3. QED
  BY <1>2, StoreFacts, ReadableFacts DEF Sound

(* Every step grows the window, shrinks it or ends reception. *)
LEMMA StepMovesWindow ==
  ASSUME IInv, [Next]_vars
  PROVE  Grows \/ Shrinks \/ (store' = store /\ receiver'.status = "failed")
<1>1. /\ Sound(store) /\ store.end \in Nat /\ ReadableStart(store) \in Nat
      /\ ReadableStart(store) <= store.end
  BY InvFacts
<1>2. /\ IInv' /\ Sound(store') /\ store'.end \in Nat
      /\ ReadableStart(store') \in Nat /\ ReadableStart(store') <= store'.end
      /\ Start(store') < store'.end => ReadableStart(store') < store'.end
  <2>1. IInv'
    BY NextHolds
  <2>2. Sound(store')
    BY <2>1 DEF IInv
  <2>3. QED
    BY <2>1, <2>2, StoreFacts, ReadableFacts DEF Sound
<1>3. ASSUME store'.end = store.end, ReadableStart(store) <= ReadableStart(store'),
             receiver' = receiver \/ (receiver.status = "receiving" /\ receiver'.status # "failed")
      PROVE  Shrinks
  BY <1>1, <1>2, <1>3 DEF Shrinks
<1>4. CASE Receive
  <2>1. /\ Advances(store, store') /\ receiver.status = "receiving"
        /\ store'.end = store.end \/ Start(store') < store'.end
    BY <1>4, ReceiveHolds DEF Receive
  <2>2. ReadableStart(store) <= ReadableStart(store') /\ store.end <= store'.end
    BY <1>1, <1>2, <2>1, ReadableAdvances DEF Advances
  <2>3. receiver'.status # "failed"
    BY <1>4 DEF Receive, IInv
  <2>4. CASE store'.end = store.end
    BY <1>3, <2>1, <2>2, <2>3, <2>4
  <2>5. CASE store'.end # store.end
    <3>1. store'.end > store.end /\ ReadableStart(store') < store'.end
      BY <1>1, <1>2, <2>1, <2>2, <2>5
    <3>2. QED
      BY <1>1, <1>2, <2>1, <2>2, <2>3, <3>1 DEF Grows
  <2>6. QED
    BY <2>4, <2>5
<1>5. CASE Reconnect
  <2>1. receiver.status = "receiving" /\ receiver'.status # "failed"
    BY <1>5 DEF Reconnect, IInv
  <2>2. QED
    BY <1>1, <1>3, <1>5, <2>1, ReconnectHolds
<1>6. CASE Finish
  BY <1>6 DEF Finish, IInv
<1>7. CASE BeginPause
  <2>1. receiver' = receiver
    BY <1>7 DEF BeginPause
  <2>2. QED
    BY <1>1, <1>3, <1>7, <2>1, BeginPauseHolds
<1>8. CASE FinishPause
  <2>1. receiver' = receiver
    BY <1>8 DEF FinishPause
  <2>2. Advances(store, store') /\ store'.end = store.end
    BY <1>8, FinishPauseHolds
  <2>3. ReadableStart(store) <= ReadableStart(store')
    BY <1>1, <1>2, <2>2, ReadableAdvances
  <2>4. QED
    BY <1>3, <2>1, <2>2, <2>3
<1>9. CASE Reconfigure
  <2>1. receiver' = receiver
    BY <1>9 DEF Reconfigure
  <2>2. QED
    BY <1>3, <1>9, <2>1, ReconfigureHolds
<1>10. CASE Read
  <2>1. receiver' = receiver
    BY <1>10 DEF Read
  <2>2. QED
    BY <1>1, <1>3, <1>10, <2>1, ReadHolds
<1>11. CASE Seek \/ UNCHANGED vars
  <2>1. store' = store /\ receiver' = receiver
    BY <1>11 DEF Seek, vars
  <2>2. QED
    BY <1>1, <1>3, <2>1
<1>12. QED
  BY <1>4, <1>5, <1>6, <1>7, <1>8, <1>9, <1>10, <1>11 DEF Next

(* The store implements RetentionWindow, on which the live feed relies. *)
THEOREM WindowRefined == Spec => KeepsWindow
<1> DEFINE W == [start |-> ReadableStart(store), end |-> store.end,
                 status |-> IF receiver.status = "failed" THEN "failed" ELSE "receiving"]
<1>1. Init => Window!Init
  <2> SUFFICES ASSUME Init PROVE Window!Init
    OBVIOUS
  <2>1. store.end = 0 /\ store.index = {} /\ store.segments = <<>> /\ receiver.status = "receiving"
    BY DEF Init
  <2>2. ReadableStart(store) = 0
    BY <2>1 DEF ReadableStart, Start
  <2>3. QED
    BY <2>1, <2>2 DEF Window!Init
<1>2. IInv /\ [Next]_vars => [Window!Next]_W
  <2> SUFFICES ASSUME IInv, [Next]_vars PROVE W' = W \/ Window!Next
    OBVIOUS
  <2>1. CASE Grows
    <3>1. /\ W.status = "receiving" /\ W'.status = "receiving"
          /\ W.end = store.end /\ W.start = ReadableStart(store)
          /\ W'.end = store'.end /\ W'.start = ReadableStart(store')
      BY <2>1 DEF Grows
    <3>2. W' = [W EXCEPT !.start = W'.start, !.end = W'.end]
      <4> DEFINE moved == [W EXCEPT !.start = W'.start, !.end = W'.end]
                 Windows == [start : Nat, end : Nat, status : {"receiving"}]
      <4>1. ReadableStart(store) \in Nat /\ store.end \in Nat /\ store'.end \in Nat
        BY InvFacts, StepTypes
      <4>2. W \in Windows /\ W' \in Windows
        BY <2>1, <4>1 DEF Grows
      <4> HIDE DEF W
      <4>3. moved \in Windows
        BY <4>2
      <4>4. moved.start = W'.start /\ moved.end = W'.end
        BY <4>2
      <4> HIDE DEF moved
      <4>5. \A w \in Windows : w = [start |-> w.start, end |-> w.end, status |-> "receiving"]
        OBVIOUS
      <4>6. moved = [start |-> moved.start, end |-> moved.end, status |-> "receiving"]
            /\ W' = [start |-> W'.start, end |-> W'.end, status |-> "receiving"]
        BY <4>2, <4>3, <4>5
      <4>7. QED
        BY <4>4, <4>6 DEF moved
    <3>3. /\ W'.end \in Nat /\ W'.end > W.end
          /\ W'.start \in W.start .. W'.end - 1
      BY <2>1, <3>1, StepTypes DEF Grows
    <3>4. QED
      BY <3>1, <3>2, <3>3 DEF Window!Extend, Window!Next
  <2>2. CASE Shrinks
    <3>1. W' = [W EXCEPT !.start = W'.start]
      BY <2>2 DEF Shrinks
    <3>2. W'.start \in W.start .. W.end
      BY <2>2 DEF Shrinks
    <3>3. QED
      BY <3>1, <3>2 DEF Window!Reclaim, Window!Next
  <2>3. CASE store' = store /\ receiver'.status = "failed"
    <3>1. W' = [W EXCEPT !.status = "failed"]
      BY <2>3
    <3>2. QED
      BY <3>1 DEF Window!Finish, Window!Next
  <2>4. QED
    BY <2>1, <2>2, <2>3, StepMovesWindow
<1>3. QED
  BY <1>1, <1>2, InvariantHolds, PTL DEF Spec, KeepsWindow, Window!Spec

(* What playback needs stays, in a window that moves as it was promised. *)
THEOREM WindowAlwaysKept == Spec => WindowIsKept
<1>1. QED
  BY PlaybackAlwaysSurvives, WindowRefined DEF WindowIsKept

-----------------------------------------------------------------------------
(***************************************************************************)
(* The anonymous file under the store (FileSlots, of which the store knows *)
(* only that each segment has its own slot), for any set of segments.  The *)
(* partition of the grown file into mapped and vacant slots is the part of *)
(* the invariant everything else rests on: it makes the slot a new segment *)
(* takes a hole that no other segment points to.                           *)
(***************************************************************************)
(* The inductive invariant. *)
SlotsInv ==
  /\ slots \in [Offsets -> Nat \cup {NoSlot}]
  /\ vacant \in SUBSET Nat
  /\ extent \in Nat
  /\ disk \in SUBSET (Nat \X Offsets)
  /\ SlotsInjective
  /\ SlotsPartition
  /\ VacantIsReleased
  /\ NoForeignBytes

(* Facts about one mapped segment's slot, spelled out for the solvers. *)
LEMMA SlotFacts ==
  ASSUME SlotsInv
  PROVE  /\ \A start \in Mapped : /\ slots[start] \in Nat
                                  /\ slots[start] < extent
                                  /\ slots[start] \notin vacant
         /\ \A slot \in vacant : slot \in Nat /\ slot < extent
         /\ \A slot \in 0 .. extent - 1 :
              slot \in vacant \/ \E start \in Mapped : slots[start] = slot
         /\ \A start \in Mapped, other \in Offsets :
              <<slots[start], other>> \in disk => other = start
  BY NoSlotAssumption
     DEF SlotsInv, SlotsPartition, NoForeignBytes, Readable, Mapped

(* A write to the slot of a mapped segment keeps the file's contents apart. *)
LEMMA WriteMappedInv ==
  ASSUME SlotsInv, NEW start \in Offsets, WriteMapped(start)
  PROVE  SlotsInv'
<1>1. start \in Mapped /\ Mapped' = Mapped
  BY DEF WriteMapped, Mapped
<1>2. disk' \subseteq disk \cup {<<slots[start], start>>}
  BY DEF WriteMapped, WriteAll
<1>3. disk' \in SUBSET (Nat \X Offsets)
  BY <1>1, <1>2, SlotFacts DEF SlotsInv
<1>4. SlotsInjective' /\ SlotsPartition'
  BY <1>1 DEF WriteMapped, SlotsInv, SlotsInjective, SlotsPartition
<1>5. VacantIsReleased'
  BY <1>1, <1>2, SlotFacts DEF WriteMapped, SlotsInv, VacantIsReleased
<1>6. NoForeignBytes'
  BY <1>1, <1>2, SlotFacts
     DEF WriteMapped, SlotsInv, SlotsInjective, NoForeignBytes, Readable
<1>7. QED
  BY <1>3, <1>4, <1>5, <1>6 DEF SlotsInv, WriteMapped

(* Taking a slot for a new segment: slot is a hole no segment points to. *)
LEMMA TakeSlotInv ==
  ASSUME SlotsInv,
         NEW start \in Offsets, slots[start] = NoSlot,
         NEW slot \in Nat,
         slot \in vacant \/ slot = extent,
         slots' = [slots EXCEPT ![start] = slot],
         vacant' = vacant \ {slot},
         extent' = IF slot = extent THEN extent + 1 ELSE extent,
         WriteAll(slot, start)
  PROVE  SlotsInv' /\ Mapped' = Mapped \cup {start}
<1>1. /\ Mapped' = Mapped \cup {start}
      /\ start \notin Mapped
      /\ slots'[start] = slot
      /\ \A other \in Mapped : slots'[other] = slots[other]
  BY NoSlotAssumption DEF SlotsInv, Mapped
<1>2. \A other \in Mapped : slots[other] # slot
  BY SlotFacts
<1>3. \A other \in Offsets : <<slot, other>> \notin disk
  BY SlotFacts DEF SlotsInv, VacantIsReleased
<1>4. disk' \subseteq disk \cup {<<slot, start>>}
  BY DEF WriteAll
<1>5. /\ slots' \in [Offsets -> Nat \cup {NoSlot}]
      /\ vacant' \in SUBSET Nat
      /\ extent' \in Nat
      /\ disk' \in SUBSET (Nat \X Offsets)
  BY <1>4 DEF SlotsInv
<1>6. SlotsInjective'
  BY <1>1, <1>2 DEF SlotsInv, SlotsInjective
<1>7. {slots'[other] : other \in Mapped'} = {slots[other] : other \in Mapped} \cup {slot}
  BY <1>1
<1>8. SlotsPartition'
  <2>1. {slots'[other] : other \in Mapped'} \cap vacant' = {}
    BY <1>7 DEF SlotsInv, SlotsPartition
  <2>2. {slots'[other] : other \in Mapped'} \cup vacant' = 0 .. extent - 1 \cup {slot}
    BY <1>7 DEF SlotsInv, SlotsPartition
  <2>3. 0 .. extent - 1 \cup {slot} = 0 .. extent' - 1
    <3>1. CASE slot = extent
      BY <3>1 DEF SlotsInv
    <3>2. CASE slot # extent
      BY <3>2, SlotFacts DEF SlotsInv
    <3>3. QED
      BY <3>1, <3>2
  <2>4. QED
    BY <2>1, <2>2, <2>3 DEF SlotsPartition
<1>9. VacantIsReleased'
  <2>1. extent <= extent' /\ slot < extent'
    BY SlotFacts DEF SlotsInv
  <2>2. QED
    BY <1>4, <2>1 DEF SlotsInv, VacantIsReleased
<1>10. NoForeignBytes'
  BY <1>1, <1>2, <1>3, <1>4, SlotFacts DEF NoForeignBytes, Readable
<1>11. QED
  BY <1>1, <1>5, <1>6, <1>8, <1>9, <1>10 DEF SlotsInv

(* Both ways of taking a slot are instances of TakeSlotInv. *)
LEMMA WriteNewInv ==
  ASSUME SlotsInv, NEW start \in Offsets,
         WriteReusing(start) \/ WriteExtending(start)
  PROVE  /\ SlotsInv'
         /\ Mapped' = Mapped \cup {start}
<1>1. CASE WriteReusing(start)
  <2>1. PICK slot \in vacant : /\ slots' = [slots EXCEPT ![start] = slot]
                               /\ vacant' = vacant \ {slot}
                               /\ WriteAll(slot, start)
    BY <1>1 DEF WriteReusing
  <2>2. slot \in Nat /\ slot # extent /\ extent' = extent
    BY <1>1, SlotFacts DEF WriteReusing, SlotsInv
  <2>3. slots[start] = NoSlot
    BY <1>1 DEF WriteReusing
  <2>4. QED
    BY <2>1, <2>2, <2>3, TakeSlotInv
<1>2. CASE WriteExtending(start)
  <2>1. /\ slots[start] = NoSlot
        /\ extent \in Nat
        /\ slots' = [slots EXCEPT ![start] = extent]
        /\ vacant' = vacant \ {extent}
        /\ extent' = extent + 1
        /\ WriteAll(extent, start)
    BY <1>2 DEF WriteExtending, SlotsInv
  <2>2. QED
    BY <2>1, TakeSlotInv
<1>3. QED
  BY <1>1, <1>2

(* Releasing a segment returns exactly its slot, as a hole. *)
LEMMA RemoveInv ==
  ASSUME SlotsInv, NEW start \in Offsets, Remove(start)
  PROVE  SlotsInv'
<1>1. /\ start \in Mapped
      /\ Mapped' = Mapped \ {start}
      /\ \A other \in Mapped' : slots'[other] = slots[other]
  BY DEF SlotsInv, Mapped, Remove
<1>2. /\ slots[start] \in Nat
      /\ slots[start] < extent
      /\ \A other \in Mapped' : slots[other] # slots[start]
  BY <1>1, SlotFacts DEF SlotsInv, SlotsInjective
<1>3. disk' \subseteq disk /\ \A entry \in disk' : entry[1] # slots[start]
  BY DEF Remove, Released
<1>4. /\ slots' \in [Offsets -> Nat \cup {NoSlot}]
      /\ vacant' \in SUBSET Nat
      /\ extent' \in Nat
      /\ disk' \in SUBSET (Nat \X Offsets)
  BY <1>2, <1>3 DEF Remove, SlotsInv
<1>5. SlotsInjective'
  BY <1>1 DEF SlotsInv, SlotsInjective
<1>6. SlotsPartition'
  <2>1. {slots'[other] : other \in Mapped'}
          = {slots[other] : other \in Mapped} \ {slots[start]}
    BY <1>1, <1>2
  <2>2. vacant' = vacant \cup {slots[start]} /\ extent' = extent
    BY DEF Remove
  <2>3. slots[start] \in {slots[other] : other \in Mapped}
    BY <1>1
  <2>4. QED
    BY <2>1, <2>2, <2>3 DEF SlotsInv, SlotsPartition
<1>7. VacantIsReleased'
  BY <1>3 DEF Remove, SlotsInv, VacantIsReleased
<1>8. NoForeignBytes'
  BY <1>1, <1>3 DEF SlotsInv, NoForeignBytes, Readable
<1>9. QED
  BY <1>4, <1>5, <1>6, <1>7, <1>8 DEF SlotsInv

(* SlotsInv is inductive. *)
LEMMA SlotsStep == SlotsInv /\ [FileNext]_fileVars => SlotsInv'
<1> SUFFICES ASSUME SlotsInv, [FileNext]_fileVars PROVE SlotsInv'
  OBVIOUS
<1>1. CASE UNCHANGED fileVars
  BY <1>1 DEF fileVars, SlotsInv, SlotsInjective, SlotsPartition, VacantIsReleased,
              NoForeignBytes, Readable, Mapped
<1>2. ASSUME NEW start \in Offsets, WriteMapped(start) PROVE SlotsInv'
  BY <1>2, WriteMappedInv
<1>3. ASSUME NEW start \in Offsets, WriteReusing(start) \/ WriteExtending(start)
      PROVE SlotsInv'
  BY <1>3, WriteNewInv
<1>4. ASSUME NEW start \in Offsets, Remove(start) PROVE SlotsInv'
  BY <1>4, RemoveInv
<1>5. QED
  BY <1>1, <1>2, <1>3, <1>4 DEF FileNext

LEMMA SlotsInit == FileInit => SlotsInv
  BY DEF FileInit, SlotsInv, SlotsInjective, SlotsPartition, VacantIsReleased,
         NoForeignBytes, Readable, Mapped

LEMMA SlotsInvariant == FileSpec => []SlotsInv
  BY SlotsInit, SlotsStep, PTL DEF FileSpec

(* Reading a retained segment returns its own bytes only, for any number of
   segments and any pattern of failed writes and recycled slots. *)
THEOREM ReadsOwnBytes == FileSpec => []NoForeignBytes
<1>1. SlotsInv => NoForeignBytes
  BY DEF SlotsInv
<1>2. QED
  BY <1>1, SlotsInvariant, PTL

----------------------------------------------------------------------------
(* The retained segments are finitely many, and when no slot is vacant they
   are at least as many as the slots of the file. *)
LEMMA MappedCardinality ==
  ASSUME SlotsInv
  PROVE  /\ IsFiniteSet(Mapped)
         /\ Cardinality(Mapped) \in Nat
         /\ vacant = {} => extent <= Cardinality(Mapped)
<1> DEFINE used == 0 .. extent - 1
           place == [start \in Mapped |-> slots[start]]
<1>1. extent \in Nat /\ IsFiniteSet(used) /\ Cardinality(used) = extent
  BY FS_Interval DEF SlotsInv
<1>2. \A start \in Mapped : slots[start] \in used
  BY DEF SlotsInv, SlotsPartition
<1>3. place \in Injection(Mapped, used)
  BY <1>2 DEF Injection, IsInjective, SlotsInv, SlotsInjective
<1>4. IsFiniteSet(Mapped)
  BY <1>1, <1>3, FS_Injection
<1>5. Cardinality(Mapped) \in Nat
  BY <1>4, FS_CardinalityType
<1>6. ASSUME vacant = {} PROVE extent <= Cardinality(Mapped)
  <2>1. \A slot \in used : \E start \in Mapped : place[start] = slot
    BY <1>6, SlotFacts
  <2>2. place \in Surjection(Mapped, used)
    BY <1>2, <2>1 DEF Surjection
  <2>3. QED
    BY <1>1, <1>4, <2>2, FS_Surjection
<1>7. QED
  BY <1>4, <1>5, <1>6

(* The file size follows the peak of retained segments. *)
ExtentInv == SlotsInv /\ peak \in Nat /\ ExtentIsPeak

LEMMA ExtentStep == ExtentInv /\ [FileNext]_fileVars => ExtentInv'
<1> SUFFICES ASSUME ExtentInv, [FileNext]_fileVars PROVE ExtentInv'
  OBVIOUS
<1>1. SlotsInv'
  BY SlotsStep DEF ExtentInv
<1>2. Cardinality(Mapped) \in Nat /\ (vacant = {} => extent <= Cardinality(Mapped))
  BY MappedCardinality DEF ExtentInv
<1>3. CASE UNCHANGED <<extent, peak>>
  BY <1>1, <1>3 DEF ExtentInv, ExtentIsPeak
<1>4. ASSUME NEW start \in Offsets, WriteReusing(start) PROVE ExtentInv'
  BY <1>1, <1>2, <1>4 DEF WriteReusing, Peak, ExtentInv, SlotsInv, ExtentIsPeak
<1>5. ASSUME NEW start \in Offsets, WriteExtending(start) PROVE ExtentInv'
  BY <1>1, <1>2, <1>5 DEF WriteExtending, Peak, ExtentInv, SlotsInv, ExtentIsPeak
<1>6. QED
  BY <1>3, <1>4, <1>5 DEF FileNext, fileVars, WriteMapped, Remove

(* No slot leaks, none is handed out twice or dirty, and the file never grows
   past the most segments retained together. *)
THEOREM NoSlotLeaks == FileSpec => []SlotsRecycled
<1>1. FileInit => ExtentInv
  BY SlotsInit DEF FileInit, ExtentInv, ExtentIsPeak
<1>2. ExtentInv => SlotsRecycled
  BY DEF ExtentInv, SlotsInv, SlotsRecycled
<1>3. QED
  BY <1>1, <1>2, ExtentStep, PTL DEF FileSpec

(* Together: what Buffer promises Store, whatever writes and hole punches
   fail, for any number of segments. *)
THEOREM SlotsAlwaysHold == FileSpec => []SlotsHold
<1>1. NoForeignBytes /\ SlotsRecycled => SlotsHold
  BY DEF SlotsHold
<1>2. QED
  BY <1>1, ReadsOwnBytes, NoSlotLeaks, PTL

(* Every variable keeps its type: a segment's slot is a slot number, never a
   leftover of the recycling. *)
THEOREM FileSlotsTypes == FileSpec => []FileTypeOK
<1>1. FileInit => ExtentInv
  BY SlotsInit DEF FileInit, ExtentInv, ExtentIsPeak
<1>2. ExtentInv => FileTypeOK
  BY DEF ExtentInv, SlotsInv, FileTypeOK
<1>3. QED
  BY <1>1, <1>2, ExtentStep, PTL DEF FileSpec

----------------------------------------------------------------------------
(* Types.                                                                   *)

(* What a step leaves alone keeps its type. *)
LEMMA UnchangedTypes ==
  ASSUME FeedTypeOK
  PROVE  /\ UNCHANGED window => WindowOK'
         /\ UNCHANGED feedback => FeedbackOK'
         /\ UNCHANGED thread => ReaderOK'
         /\ UNCHANGED appsrc => AppsrcOK'
         /\ UNCHANGED gui => GuiOK'
  BY DEF FeedTypeOK, WindowOK, FeedbackOK, ReaderOK, AppsrcOK, GuiOK

(* A notification counts one kind of change. *)
LEMMA NotifiedFacts ==
  ASSUME revision \in [data : Nat, control : Nat],
         NEW change \in {"data", "control"}
  PROVE  /\ Notified(change) \in [data : Nat, control : Nat]
         /\ Notified(change)[change] = revision[change] + 1
         /\ \A other \in {"data", "control"} \ {change} :
              Notified(change)[other] = revision[other]
  BY DEF Notified

LEMMA ReceiveTypes == ASSUME FeedTypeOK, AppendReceived PROVE WindowOK'
<1>1. PICK start \in window.start .. window.end :
        window' = [window EXCEPT !.end = @ + 1, !.start = start]
  BY DEF AppendReceived
<1>2. start \in Nat /\ window.end + 1 \in Nat /\ start <= window.end + 1
  BY DEF FeedTypeOK, WindowOK
<1>3. QED
  BY <1>1, <1>2 DEF FeedTypeOK, WindowOK

LEMMA SendSeekTypes == ASSUME FeedTypeOK, SendSeek PROVE GuiOK' /\ FeedbackOK'
<1>1. PICK target \in 0 .. window.end :
        gui' = [gui EXCEPT !.pc = "seek_sent", !.target = target,
                           !.recover = FALSE, !.seeks = @ + 1]
  BY DEF SendSeek
<1>2. target \in Nat
  BY DEF FeedTypeOK, WindowOK
<1>3. gui.seeks + 1 \in Nat
  BY DEF FeedTypeOK, GuiOK
<1>4. GuiOK'
  BY <1>1, <1>2, <1>3 DEF FeedTypeOK, GuiOK, GuiPcs
<1>5. FeedbackOK'
  BY DEF SendSeek, FeedTypeOK, FeedbackOK
<1>6. QED
  BY <1>4, <1>5

(* The reader goes on to read, at the anchor of a seek that was found, or
   gives up the call. *)
LEMMA TakeRequestStep ==
  ASSUME FeedTypeOK, TakeRequest
  PROVE  /\ ReaderOK'
         /\ thread'.pc \in {"read", "recheck"}
         /\ thread'.pc = "recheck" => thread'.result \in {"error", "expired"}
         /\ thread'.generation = thread.generation
         /\ thread'.observed = thread.observed
<1>1. \/ thread' = [thread EXCEPT !.pc = "read"]
      \/ \E anchor \in window.start .. request :
           thread' = [thread EXCEPT !.pc = "read", !.offset = anchor, !.pending = {}]
      \/ thread' = [thread EXCEPT !.pc = "recheck", !.result = "error"]
      \/ thread' = [thread EXCEPT !.pc = "recheck", !.result = "expired"]
  BY Zenon DEF TakeRequest
<1>2. window.start .. request \subseteq Nat
  BY DEF FeedTypeOK, WindowOK
<1>3. ReaderOK'
  BY <1>1, <1>2, ZenonT(60) DEF FeedTypeOK, ReaderOK, ReaderPcs, Results
<1>4. QED
  BY <1>1, <1>3 DEF FeedTypeOK, ReaderOK

(* The first output left of the last block is taken. *)
LEMMA ReadPendingStep ==
  ASSUME FeedTypeOK, ReadPending
  PROVE  /\ ReaderOK'
         /\ thread'.pc = "recheck" /\ thread'.result = "data"
         /\ thread'.generation = thread.generation
         /\ thread'.observed = thread.observed /\ thread'.offset = thread.offset
<1>1. PICK block \in thread.pending :
        thread' = [thread EXCEPT !.pc = "recheck", !.result = "data",
                                 !.block = block, !.pending = @ \ {block}]
  BY DEF ReadPending
<1>2. block \in Nat /\ thread.pending \ {block} \in SUBSET Nat
  BY DEF FeedTypeOK, ReaderOK
<1>3. ReaderOK'
  BY <1>1, <1>2 DEF FeedTypeOK, ReaderOK, ReaderPcs, Results
<1>4. QED
  BY <1>1, <1>3 DEF FeedTypeOK, ReaderOK

LEMMA ReadBlockTypes == ASSUME FeedTypeOK, ReadBlock PROVE ReaderOK'
<1>1. PICK count \in 1 .. BlockUnits :
        \/ thread' = [thread EXCEPT !.pc = "recheck", !.result = "filtered",
                                    !.offset = @ + count]
        \/ \E kept \in SUBSET (thread.offset .. thread.offset + count - 1),
              first \in thread.offset .. thread.offset + count - 1 :
             thread' = [thread EXCEPT !.pc = "recheck", !.result = "data",
                          !.offset = @ + count,
                          !.block = first, !.pending = kept \ {first}]
  BY Zenon DEF ReadBlock
<1>2. /\ thread.offset + count \in Nat
      /\ thread.offset .. thread.offset + count - 1 \subseteq Nat
  BY FeedAssumption DEF FeedTypeOK, ReaderOK
<1>3. \/ thread' = [thread EXCEPT !.pc = "recheck", !.result = "filtered",
                                  !.offset = thread.offset + count]
      \/ \E first \in Nat, rest \in SUBSET Nat :
           thread' = [thread EXCEPT !.pc = "recheck", !.result = "data",
                        !.offset = thread.offset + count,
                        !.block = first, !.pending = rest]
  BY <1>1, <1>2
<1>4. QED
  BY <1>2, <1>3, ZenonT(60) DEF FeedTypeOK, ReaderOK, ReaderPcs, Results

LEMMA DeliverTypes == ASSUME FeedTypeOK, Deliver PROVE ReaderOK' /\ FeedbackOK' /\ AppsrcOK'
<1> DEFINE item == [block |-> thread.block, generation |-> thread.generation]
           longer == Append(appsrc.queue, item)
<1>1. item \in Item
  BY DEF FeedTypeOK, ReaderOK, Item
<1>2. longer \in Seq(Item)
  BY <1>1, AppendProperties DEF FeedTypeOK, AppsrcOK
<1>3. appsrc' \in {appsrc, [appsrc EXCEPT !.eos = TRUE], [appsrc EXCEPT !.queue = longer]}
  BY DEF Deliver
<1>4. AppsrcOK'
  <2> HIDE DEF longer
  <2> QED
    BY <1>2, <1>3 DEF FeedTypeOK, AppsrcOK
<1>5. ReaderOK' /\ FeedbackOK'
  BY DEF Deliver, FeedTypeOK, ReaderOK, ReaderPcs, FeedbackOK
<1>6. QED
  BY <1>4, <1>5

LEMMA DecodeTypes == ASSUME FeedTypeOK, Decode PROVE AppsrcOK' /\ played' \in Nat
<1>1. Tail(appsrc.queue) \in Seq(Item) /\ Head(appsrc.queue) \in Item
  BY HeadTailProperties DEF Decode, FeedTypeOK, AppsrcOK
<1>2. Head(appsrc.queue).block \in Nat
  BY <1>1 DEF Item
<1>3. QED
  BY <1>1, <1>2 DEF Decode, FeedTypeOK, AppsrcOK

(* Every action keeps the types. *)
LEMMA TypeStep == FeedTypeOK /\ [FeedNext]_feedVars => FeedTypeOK'
<1> SUFFICES ASSUME FeedTypeOK, [FeedNext]_feedVars PROVE FeedTypeOK'
  OBVIOUS
<1> USE UnchangedTypes
<1>1. CASE AppendReceived
  BY <1>1, NotifiedFacts, ReceiveTypes
     DEF AppendReceived, Receiving, FeedTypeOK
<1>2. CASE Reclaim
  BY <1>2
     DEF Reclaim, FeedTypeOK, WindowOK
<1>3. CASE FinishReception
  BY <1>3, NotifiedFacts
     DEF FinishReception, Receiving, FeedTypeOK, WindowOK
<1>4. CASE NeedData
  BY <1>4
     DEF NeedData, ReaderOnly, FeedTypeOK, ReaderOK, ReaderPcs, Results,
        AppsrcOK, FeedbackOK
<1>5. CASE Observe
  BY <1>5
     DEF Observe, ReaderOnly, FeedTypeOK, ReaderOK, ReaderPcs, Results
<1>6. CASE CheckCancelled
  BY <1>6
     DEF CheckCancelled, ReaderOnly, Cancelled, FeedTypeOK, ReaderOK, ReaderPcs,
        Results
<1>7. CASE TakeRequest
  BY <1>7, TakeRequestStep
     DEF TakeRequest, ReaderOnly, Unindexed, FeedTypeOK, None
<1>8. CASE ReadPending
  BY <1>8, ReadPendingStep
     DEF ReadPending, ReaderOnly, FeedTypeOK
<1>9. CASE ReadNothing
  <2> DEFINE result == FeedWindow!Answer(thread.offset)
  <2>1. result \in Results
    BY DEF FeedWindow!Answer, Results
  <2>2. thread' = [thread EXCEPT !.pc = "recheck", !.result = result]
    BY <1>9, Zenon DEF ReadNothing
  <2> HIDE DEF result
  <2>3. ReaderOK'
    BY <2>1, <2>2 DEF FeedTypeOK, ReaderOK, ReaderPcs
  <2> QED
    BY <1>9, <2>3 DEF ReadNothing, ReaderOnly, FeedTypeOK
<1>10. CASE ReadBlock
  BY <1>10, ReadBlockTypes
     DEF ReadBlock, ReaderOnly, FeedTypeOK
<1>11. CASE RecheckCancelled
  BY <1>11
     DEF RecheckCancelled, ReaderOnly, Cancelled, FeedTypeOK, ReaderOK,
        ReaderPcs, Results
<1>12. CASE RecheckDeliver
  BY <1>12
     DEF RecheckDeliver, ReaderOnly, Cancelled, FeedTypeOK, ReaderOK, ReaderPcs,
        Results
<1>13. CASE RecheckFiltered
  BY <1>13
     DEF RecheckFiltered, ReaderOnly, Cancelled, FeedTypeOK, ReaderOK,
        ReaderPcs, Results
<1>14. CASE RecheckNothing
  BY <1>14
     DEF RecheckNothing, ReaderOnly, Cancelled, FeedTypeOK, ReaderOK, ReaderPcs,
        Results
<1>15. CASE ReportAwaiting
  BY <1>15
     DEF ReportAwaiting, ReaderOnly, FeedTypeOK, ReaderOK, ReaderPcs, Results,
        FeedbackOK
<1>16. CASE ReportExpired
  BY <1>16
     DEF ReportExpired, ReaderOnly, FeedTypeOK, ReaderOK, ReaderPcs, Results,
        FeedbackOK
<1>17. CASE Wake
  BY <1>17
     DEF Wake, ReaderOnly, Asleep, FeedTypeOK, ReaderOK, ReaderPcs, Results
<1>18. CASE Deliver
  BY <1>18, DeliverTypes
     DEF Deliver, ReaderOnly, FeedTypeOK
<1>19. CASE Decode
  BY <1>19, DecodeTypes
     DEF Decode, FeedTypeOK
<1>20. CASE SendSeek
  BY <1>20, SendSeekTypes
     DEF SendSeek, GuiOnly, FeedTypeOK
<1>21. CASE FlushStart
  <2>1. GuiOK'
    BY <1>21 DEF FlushStart, FeedTypeOK, GuiOK, GuiPcs
  <2>2. FeedbackOK'
    BY <1>21 DEF FlushStart, FeedTypeOK, FeedbackOK
  <2>3. AppsrcOK'
    BY <1>21 DEF FlushStart, FeedTypeOK, AppsrcOK
  <2> QED
    BY <1>21, <2>1, <2>2, <2>3 DEF FlushStart, GuiOnly, FeedTypeOK
<1>22. CASE FinishBeginSeek
  BY <1>22, NotifiedFacts
     DEF FinishBeginSeek, GuiOnly, FeedTypeOK, FeedbackOK, GuiOK, GuiPcs
<1>23. CASE SeekData
  <2>1. GuiOK'
    BY <1>23 DEF SeekData, FeedTypeOK, GuiOK, GuiPcs
  <2>2. AppsrcOK'
    <3>1. \/ appsrc' = [queue |-> <<>>, flushing |-> FALSE, eos |-> FALSE, wants |-> TRUE]
          \/ appsrc' = [appsrc EXCEPT !.flushing = FALSE, !.wants = TRUE]
      BY <1>23 DEF SeekData
    <3>2. CASE appsrc' = [queue |-> <<>>, flushing |-> FALSE, eos |-> FALSE, wants |-> TRUE]
      BY <3>2 DEF AppsrcOK
    <3>3. CASE appsrc' = [appsrc EXCEPT !.flushing = FALSE, !.wants = TRUE]
      BY <3>3 DEF FeedTypeOK, AppsrcOK
    <3> QED
      BY <3>1, <3>2, <3>3
  <2>3. request' \in Nat \cup {None} /\ played' \in Nat \cup {None}
    BY <1>23 DEF SeekData, FeedTypeOK, GuiOK
  <2>4. revision' \in [data : Nat, control : Nat]
    BY <1>23, NotifiedFacts DEF SeekData, FeedTypeOK
  <2> QED
    BY <1>23, <2>1, <2>2, <2>3, <2>4 DEF SeekData, FeedTypeOK
<1>24. CASE SetBroadcast
  <2>1. gui.controls + 1 \in Nat
    BY DEF FeedTypeOK, GuiOK
  <2>2. GuiOK'
    BY <1>24, <2>1 DEF SetBroadcast, FeedTypeOK, GuiOK, GuiPcs
  <2> QED
    BY <1>24, <2>2 DEF SetBroadcast, GuiOnly, FeedTypeOK
<1>25. CASE Suspend
  <2>1. gui.controls + 1 \in Nat
    BY DEF FeedTypeOK, GuiOK
  <2>2. GuiOK'
    BY <1>25, <2>1 DEF Suspend, FeedTypeOK, GuiOK, GuiPcs
  <2>3. FeedbackOK'
    BY <1>25 DEF Suspend, FeedTypeOK, FeedbackOK
  <2> QED
    BY <1>25, <2>2, <2>3 DEF Suspend, GuiOnly, FeedTypeOK
<1>26. CASE Resume
  BY <1>26
     DEF Resume, GuiOnly, FeedTypeOK, FeedbackOK, GuiOK, GuiPcs
<1>27. CASE NotifyControl
  BY <1>27, NotifiedFacts
     DEF NotifyControl, GuiOnly, FeedTypeOK, GuiOK, GuiPcs
<1>28. CASE Stop
  BY <1>28, NotifiedFacts
     DEF Stop, GuiOnly, FeedTypeOK, GuiOK, GuiPcs
<1>29. CASE TakeExpired
  BY <1>29
     DEF TakeExpired, GuiOnly, FeedTypeOK, FeedbackOK, GuiOK, GuiPcs, None
<1>30. CASE UNCHANGED feedVars
  BY <1>30 DEF feedVars, FeedTypeOK
<1> QED
  BY <1>1, <1>2, <1>3, <1>4, <1>5, <1>6, <1>7, <1>8, <1>9, <1>10, <1>11,
     <1>12, <1>13, <1>14, <1>15, <1>16, <1>17, <1>18, <1>19, <1>20, <1>21,
     <1>22, <1>23, <1>24, <1>25, <1>26, <1>27, <1>28, <1>29, <1>30
     DEF FeedNext, Receiver, Streaming, Gui

LEMMA InitTypes == FeedInit => FeedTypeOK
<1> SUFFICES ASSUME FeedInit PROVE FeedTypeOK
  OBVIOUS
<1> USE DEF FeedInit, None
<1>1. WindowOK
  BY DEF WindowOK
<1>2. FeedbackOK
  BY DEF FeedbackOK
<1>3. ReaderOK
  BY DEF ReaderOK, ReaderPcs, Results
<1>4. AppsrcOK
  BY DEF AppsrcOK
<1>5. GuiOK
  BY DEF GuiOK, GuiPcs
<1> QED
  BY <1>1, <1>2, <1>3, <1>4, <1>5 DEF FeedTypeOK

(* The types are inductive as they stand. *)
THEOREM FeedTypes == FeedSpec => []FeedTypeOK
  BY InitTypes, TypeStep, PTL DEF FeedSpec

----------------------------------------------------------------------------
(* No lost wake-up.                                                         *)

(* No notification of this kind since the reader observed. *)
Unnotified(change) == thread.observed[change] = revision[change]

(* What the reader has established by looking after it observed, step by
   step of one turn of next: it stays true until the matching notification. *)
WakeInv ==
  /\ thread.observed.data <= revision.data
  /\ thread.observed.control <= revision.control
  /\ thread.pc \in {"prepare", "read", "recheck", "report", "parked"}
       /\ Unnotified("control") /\ Cancelled
     => gui.pc \in {"seek_sent", "flush_sent", "suspend_set"}
  /\ thread.pc \in {"read", "recheck", "report", "parked"}
       /\ Unnotified("control") /\ broadcast
     => gui.pc = "broadcast_set"
  /\ request # None => thread.pc \in {"idle", "observe", "check", "prepare"}
  /\ thread.pc \in {"recheck", "report", "parked"} /\ thread.result = "awaiting"
     => /\ Unnotified("control") => window.status = "receiving"
        /\ Unnotified("data") => thread.offset >= window.end

(* Every action keeps what the reader established. *)
LEMMA WakeStep == FeedTypeOK /\ WakeInv /\ [FeedNext]_feedVars => WakeInv'
<1> SUFFICES ASSUME FeedTypeOK, WakeInv, [FeedNext]_feedVars PROVE WakeInv'
  OBVIOUS
<1>1. CASE AppendReceived
  BY <1>1, NotifiedFacts
     DEF AppendReceived, Receiving, WakeInv, Unnotified, Cancelled, FeedTypeOK,
        WindowOK, FeedbackOK, ReaderOK, GuiOK
<1>2. CASE Reclaim
  BY <1>2
     DEF Reclaim, WakeInv, Unnotified, Cancelled, FeedTypeOK, WindowOK,
        FeedbackOK, ReaderOK, GuiOK
<1>3. CASE FinishReception
  BY <1>3, NotifiedFacts
     DEF FinishReception, Receiving, WakeInv, Unnotified, Cancelled, FeedTypeOK,
        WindowOK, FeedbackOK, ReaderOK, GuiOK
<1>4. CASE NeedData
  BY <1>4
     DEF NeedData, ReaderOnly, WakeInv, Unnotified, Cancelled, FeedTypeOK,
        WindowOK, FeedbackOK, ReaderOK, GuiOK
<1>5. CASE Observe
  BY <1>5
     DEF Observe, ReaderOnly, WakeInv, Unnotified, Cancelled, FeedTypeOK,
        WindowOK, FeedbackOK, ReaderOK, GuiOK
<1>6. CASE CheckCancelled
  BY <1>6
     DEF CheckCancelled, ReaderOnly, WakeInv, Unnotified, Cancelled, FeedTypeOK,
        WindowOK, FeedbackOK, ReaderOK, GuiOK
<1>7. CASE TakeRequest
  <2>1. /\ thread.pc = "prepare" /\ thread'.pc \in {"read", "recheck"}
        /\ thread'.result = "awaiting" => thread'.pc = "read"
        /\ thread'.generation = thread.generation
        /\ thread'.observed = thread.observed
    BY <1>7, TakeRequestStep DEF TakeRequest
  <2>2. /\ window' = window /\ revision' = revision /\ feedback' = feedback
        /\ gui' = gui /\ ~broadcast' /\ request' = None
    BY <1>7 DEF TakeRequest, ReaderOnly
  <2> QED
    BY <2>1, <2>2 DEF WakeInv, Unnotified, Cancelled
<1>8. CASE ReadPending
  <2>1. /\ thread.pc = "read" /\ thread'.pc = "recheck" /\ thread'.result = "data"
        /\ thread'.generation = thread.generation
        /\ thread'.observed = thread.observed /\ thread'.offset = thread.offset
    BY <1>8, ReadPendingStep DEF ReadPending
  <2>2. /\ window' = window /\ revision' = revision /\ feedback' = feedback
        /\ broadcast' = broadcast /\ request' = request /\ gui' = gui
    BY <1>8 DEF ReadPending, ReaderOnly
  <2> QED
    BY <2>1, <2>2 DEF WakeInv, Unnotified, Cancelled
<1>9. CASE ReadNothing
  BY <1>9
     DEF ReadNothing, FeedWindow!Answer, ReaderOnly, WakeInv, Unnotified, Cancelled, FeedTypeOK,
        WindowOK, FeedbackOK, ReaderOK, GuiOK
<1>10. CASE ReadBlock
  BY <1>10
, ZenonT(60) DEF ReadBlock, ReaderOnly, WakeInv, Unnotified, Cancelled, FeedTypeOK,
        WindowOK, FeedbackOK, ReaderOK, GuiOK
<1>11. CASE RecheckCancelled
  BY <1>11
     DEF RecheckCancelled, ReaderOnly, WakeInv, Unnotified, Cancelled,
        FeedTypeOK, WindowOK, FeedbackOK, ReaderOK, GuiOK
<1>12. CASE RecheckDeliver
  BY <1>12
     DEF RecheckDeliver, ReaderOnly, WakeInv, Unnotified, Cancelled, FeedTypeOK,
        WindowOK, FeedbackOK, ReaderOK, GuiOK
<1>13. CASE RecheckFiltered
  BY <1>13
     DEF RecheckFiltered, ReaderOnly, WakeInv, Unnotified, Cancelled,
        FeedTypeOK, WindowOK, FeedbackOK, ReaderOK, GuiOK
<1>14. CASE RecheckNothing
  BY <1>14
     DEF RecheckNothing, ReaderOnly, WakeInv, Unnotified, Cancelled, FeedTypeOK,
        WindowOK, FeedbackOK, ReaderOK, GuiOK
<1>15. CASE ReportAwaiting
  BY <1>15
     DEF ReportAwaiting, ReaderOnly, WakeInv, Unnotified, Cancelled, FeedTypeOK,
        WindowOK, FeedbackOK, ReaderOK, GuiOK
<1>16. CASE ReportExpired
  BY <1>16
     DEF ReportExpired, ReaderOnly, WakeInv, Unnotified, Cancelled, FeedTypeOK,
        WindowOK, FeedbackOK, ReaderOK, GuiOK
<1>17. CASE Wake
  BY <1>17
     DEF Wake, ReaderOnly, Asleep, WakeInv, Unnotified, Cancelled, FeedTypeOK,
        WindowOK, FeedbackOK, ReaderOK, GuiOK
<1>18. CASE Deliver
  BY <1>18
     DEF Deliver, ReaderOnly, WakeInv, Unnotified, Cancelled, FeedTypeOK,
        WindowOK, FeedbackOK, ReaderOK, GuiOK
<1>19. CASE Decode
  BY <1>19
     DEF Decode, WakeInv, Unnotified, Cancelled, FeedTypeOK, WindowOK,
        FeedbackOK, ReaderOK, GuiOK
<1>20. CASE SendSeek
  BY <1>20
     DEF SendSeek, GuiOnly, WakeInv, Unnotified, Cancelled, FeedTypeOK,
        WindowOK, FeedbackOK, ReaderOK, GuiOK
<1>21. CASE FlushStart
  BY <1>21
     DEF FlushStart, GuiOnly, WakeInv, Unnotified, Cancelled, FeedTypeOK,
        WindowOK, FeedbackOK, ReaderOK, GuiOK
<1>22. CASE FinishBeginSeek
  BY <1>22, NotifiedFacts
     DEF FinishBeginSeek, GuiOnly, WakeInv, Unnotified, Cancelled, FeedTypeOK,
        WindowOK, FeedbackOK, ReaderOK, GuiOK
<1>23. CASE SeekData
  <2>1. thread' = thread /\ thread.pc = "idle"
    BY <1>23 DEF SeekData
  <2>2. /\ revision.data \in Nat /\ revision.control \in Nat
        /\ thread.observed.data \in Nat /\ thread.observed.control \in Nat
    BY DEF FeedTypeOK, ReaderOK
  <2>3. /\ revision'.data \in Nat /\ revision.data <= revision'.data
        /\ revision'.control \in Nat /\ revision.control <= revision'.control
    BY <1>23, <2>2, NotifiedFacts DEF SeekData, FeedTypeOK
  <2> QED
    BY <2>1, <2>2, <2>3 DEF WakeInv, Unnotified, Cancelled
<1>24. CASE SetBroadcast
  BY <1>24
     DEF SetBroadcast, GuiOnly, WakeInv, Unnotified, Cancelled, FeedTypeOK,
        WindowOK, FeedbackOK, ReaderOK, GuiOK
<1>25. CASE Suspend
  BY <1>25
     DEF Suspend, GuiOnly, WakeInv, Unnotified, Cancelled, FeedTypeOK, WindowOK,
        FeedbackOK, ReaderOK, GuiOK
<1>26. CASE Resume
  BY <1>26
     DEF Resume, GuiOnly, WakeInv, Unnotified, Cancelled, FeedTypeOK, WindowOK,
        FeedbackOK, ReaderOK, GuiOK
<1>27. CASE NotifyControl
  BY <1>27, NotifiedFacts
     DEF NotifyControl, GuiOnly, WakeInv, Unnotified, Cancelled, FeedTypeOK,
        WindowOK, FeedbackOK, ReaderOK, GuiOK
<1>28. CASE Stop
  BY <1>28, NotifiedFacts
     DEF Stop, GuiOnly, WakeInv, Unnotified, Cancelled, FeedTypeOK, WindowOK,
        FeedbackOK, ReaderOK, GuiOK
<1>29. CASE TakeExpired
  BY <1>29
     DEF TakeExpired, GuiOnly, WakeInv, Unnotified, Cancelled, FeedTypeOK,
        WindowOK, FeedbackOK, ReaderOK, GuiOK
<1>30. CASE UNCHANGED feedVars
  BY <1>30 DEF feedVars, WakeInv, Unnotified, Cancelled, FeedTypeOK, WindowOK, FeedbackOK, ReaderOK, GuiOK
<1> QED
  BY <1>1, <1>2, <1>3, <1>4, <1>5, <1>6, <1>7, <1>8, <1>9, <1>10, <1>11,
     <1>12, <1>13, <1>14, <1>15, <1>16, <1>17, <1>18, <1>19, <1>20, <1>21,
     <1>22, <1>23, <1>24, <1>25, <1>26, <1>27, <1>28, <1>29, <1>30
     DEF FeedNext, Receiver, Streaming, Gui

LEMMA WakeInvariant == FeedSpec => []WakeInv
<1>1. FeedInit => WakeInv
  BY DEF FeedInit, WakeInv, None
<1> QED
  BY <1>1, WakeStep, FeedTypes, PTL DEF FeedSpec

(* Nothing the reader should act on is left to a sleeping reader, unless the
   GUI thread still owes the notification. *)
THEOREM WakeUps == FeedSpec => []NoLostWakeup
<1>1. WakeInv => NoLostWakeup
  BY DEF WakeInv, NoLostWakeup, Asleep, Unnotified
<1> QED
  BY <1>1, WakeInvariant, PTL

----------------------------------------------------------------------------
(* Recovery.                                                                *)

(* Generations only grow, so a report that equals the current generation was
   made by the call that still runs, and no seek is under way when a recovery
   is wanted. *)
RecoverInv ==
  /\ thread.generation <= feedback.generation
  /\ feedback.expired <= thread.generation
  /\ gui.pc \in {"seek_sent", "seek_begun", "flush_sent", "flushing"} => ~ gui.recover
  /\ RecoveryIsDeserved

(* Every action keeps the order of the generations. *)
LEMMA RecoverStep == FeedTypeOK /\ RecoverInv /\ [FeedNext]_feedVars => RecoverInv'
<1> SUFFICES ASSUME FeedTypeOK, RecoverInv, [FeedNext]_feedVars PROVE RecoverInv'
  OBVIOUS
<1>1. CASE AppendReceived
  BY <1>1, NotifiedFacts
     DEF AppendReceived, Receiving, RecoverInv, RecoveryIsDeserved, FeedTypeOK,
        FeedbackOK, ReaderOK, GuiOK, None
<1>2. CASE Reclaim
  BY <1>2
     DEF Reclaim, RecoverInv, RecoveryIsDeserved, FeedTypeOK, FeedbackOK,
        ReaderOK, GuiOK, None
<1>3. CASE FinishReception
  BY <1>3, NotifiedFacts
     DEF FinishReception, Receiving, RecoverInv, RecoveryIsDeserved, FeedTypeOK,
        FeedbackOK, ReaderOK, GuiOK, None
<1>4. CASE NeedData
  BY <1>4
     DEF NeedData, ReaderOnly, RecoverInv, RecoveryIsDeserved, FeedTypeOK,
        FeedbackOK, ReaderOK, GuiOK, None
<1>5. CASE Observe
  BY <1>5
     DEF Observe, ReaderOnly, RecoverInv, RecoveryIsDeserved, FeedTypeOK,
        FeedbackOK, ReaderOK, GuiOK, None
<1>6. CASE CheckCancelled
  BY <1>6
     DEF CheckCancelled, ReaderOnly, Cancelled, RecoverInv,
        RecoveryIsDeserved, FeedTypeOK, FeedbackOK, ReaderOK, GuiOK, None
<1>7. CASE TakeRequest
  BY <1>7
, ZenonT(60) DEF TakeRequest, ReaderOnly, Unindexed, RecoverInv, RecoveryIsDeserved,
        FeedTypeOK, FeedbackOK, ReaderOK, GuiOK, None
<1>8. CASE ReadPending
  BY <1>8
     DEF ReadPending, ReaderOnly, RecoverInv, RecoveryIsDeserved, FeedTypeOK,
        FeedbackOK, ReaderOK, GuiOK, None
<1>9. CASE ReadNothing
  BY <1>9
     DEF ReadNothing, ReaderOnly, RecoverInv, RecoveryIsDeserved, FeedTypeOK,
        FeedbackOK, ReaderOK, GuiOK, None
<1>10. CASE ReadBlock
  BY <1>10
, ZenonT(60) DEF ReadBlock, ReaderOnly, RecoverInv, RecoveryIsDeserved, FeedTypeOK,
        FeedbackOK, ReaderOK, GuiOK, None
<1>11. CASE RecheckCancelled
  BY <1>11
     DEF RecheckCancelled, ReaderOnly, Cancelled, RecoverInv,
        RecoveryIsDeserved, FeedTypeOK, FeedbackOK, ReaderOK, GuiOK, None
<1>12. CASE RecheckDeliver
  BY <1>12
     DEF RecheckDeliver, ReaderOnly, Cancelled, RecoverInv,
        RecoveryIsDeserved, FeedTypeOK, FeedbackOK, ReaderOK, GuiOK, None
<1>13. CASE RecheckFiltered
  BY <1>13
     DEF RecheckFiltered, ReaderOnly, Cancelled, RecoverInv,
        RecoveryIsDeserved, FeedTypeOK, FeedbackOK, ReaderOK, GuiOK, None
<1>14. CASE RecheckNothing
  BY <1>14
     DEF RecheckNothing, ReaderOnly, Cancelled, RecoverInv,
        RecoveryIsDeserved, FeedTypeOK, FeedbackOK, ReaderOK, GuiOK, None
<1>15. CASE ReportAwaiting
  BY <1>15
     DEF ReportAwaiting, ReaderOnly, RecoverInv, RecoveryIsDeserved, FeedTypeOK,
        FeedbackOK, ReaderOK, GuiOK, None
<1>16. CASE ReportExpired
  BY <1>16
     DEF ReportExpired, ReaderOnly, RecoverInv, RecoveryIsDeserved, FeedTypeOK,
        FeedbackOK, ReaderOK, GuiOK, None
<1>17. CASE Wake
  BY <1>17
     DEF Wake, ReaderOnly, Asleep, RecoverInv, RecoveryIsDeserved, FeedTypeOK,
        FeedbackOK, ReaderOK, GuiOK, None
<1>18. CASE Deliver
  BY <1>18
     DEF Deliver, ReaderOnly, RecoverInv, RecoveryIsDeserved, FeedTypeOK,
        FeedbackOK, ReaderOK, GuiOK, None
<1>19. CASE Decode
  BY <1>19
     DEF Decode, RecoverInv, RecoveryIsDeserved, FeedTypeOK, FeedbackOK,
        ReaderOK, GuiOK, None
<1>20. CASE SendSeek
  BY <1>20
     DEF SendSeek, GuiOnly, RecoverInv, RecoveryIsDeserved, FeedTypeOK,
        FeedbackOK, ReaderOK, GuiOK, None
<1>21. CASE FlushStart
  BY <1>21
     DEF FlushStart, GuiOnly, RecoverInv, RecoveryIsDeserved, FeedTypeOK,
        FeedbackOK, ReaderOK, GuiOK, None
<1>22. CASE FinishBeginSeek
  BY <1>22, NotifiedFacts
     DEF FinishBeginSeek, GuiOnly, RecoverInv, RecoveryIsDeserved, FeedTypeOK,
        FeedbackOK, ReaderOK, GuiOK, None
<1>23. CASE SeekData
  BY <1>23, NotifiedFacts
     DEF SeekData, Accepts, RecoverInv, RecoveryIsDeserved, FeedTypeOK,
        FeedbackOK, ReaderOK, GuiOK, None
<1>24. CASE SetBroadcast
  BY <1>24
     DEF SetBroadcast, GuiOnly, RecoverInv, RecoveryIsDeserved, FeedTypeOK,
        FeedbackOK, ReaderOK, GuiOK, None
<1>25. CASE Suspend
  BY <1>25
     DEF Suspend, GuiOnly, RecoverInv, RecoveryIsDeserved, FeedTypeOK,
        FeedbackOK, ReaderOK, GuiOK, None
<1>26. CASE Resume
  BY <1>26
     DEF Resume, GuiOnly, RecoverInv, RecoveryIsDeserved, FeedTypeOK,
        FeedbackOK, ReaderOK, GuiOK, None
<1>27. CASE NotifyControl
  BY <1>27, NotifiedFacts
     DEF NotifyControl, GuiOnly, RecoverInv, RecoveryIsDeserved, FeedTypeOK,
        FeedbackOK, ReaderOK, GuiOK, None
<1>28. CASE Stop
  BY <1>28, NotifiedFacts
     DEF Stop, GuiOnly, RecoverInv, RecoveryIsDeserved, FeedTypeOK, FeedbackOK,
        ReaderOK, GuiOK, None
<1>29. CASE TakeExpired
  BY <1>29
     DEF TakeExpired, GuiOnly, RecoverInv, RecoveryIsDeserved, FeedTypeOK,
        FeedbackOK, ReaderOK, GuiOK, None
<1>30. CASE UNCHANGED feedVars
  BY <1>30 DEF feedVars, RecoverInv, RecoveryIsDeserved, FeedTypeOK, FeedbackOK, ReaderOK, GuiOK, None
<1> QED
  BY <1>1, <1>2, <1>3, <1>4, <1>5, <1>6, <1>7, <1>8, <1>9, <1>10, <1>11,
     <1>12, <1>13, <1>14, <1>15, <1>16, <1>17, <1>18, <1>19, <1>20, <1>21,
     <1>22, <1>23, <1>24, <1>25, <1>26, <1>27, <1>28, <1>29, <1>30
     DEF FeedNext, Receiver, Streaming, Gui

(* A recovery seek is started only for an expiry of the current generation. *)
THEOREM Recovery == FeedSpec => []RecoveryIsDeserved
<1>1. FeedInit => RecoverInv
  BY DEF FeedInit, RecoverInv, RecoveryIsDeserved, None
<1> QED
  BY <1>1, RecoverStep, FeedTypes, PTL DEF FeedSpec, RecoverInv

----------------------------------------------------------------------------
(* Order.                                                                   *)

(* Everything on its way to the decoder lies between the last block decoded
   and the reader's position, in order: the queue, the block in hand, the
   outputs left of the last read.  An accepted seek that the reader has not
   taken yet finds nothing on its way. *)
OrderInv ==
  /\ thread.pc # "idle" => appsrc.queue = <<>>
  /\ Len(appsrc.queue) <= 1
  /\ request # None => played = None /\ appsrc.queue = <<>>
  /\ played < thread.offset
  /\ \A block \in thread.pending : played < block /\ block < thread.offset
  /\ Len(appsrc.queue) = 1 =>
       /\ played < appsrc.queue[1].block
       /\ appsrc.queue[1].block < thread.offset
       /\ \A block \in thread.pending : appsrc.queue[1].block < block
  /\ thread.pc \in {"recheck", "deliver"} /\ thread.result = "data" =>
       /\ played < thread.block /\ thread.block < thread.offset
       /\ \A block \in thread.pending : thread.block < block

(* A queue of at most one item. *)
LEMMA ShortQueue ==
  ASSUME NEW S, NEW queue \in Seq(S), queue # <<>>, Len(queue) <= 1
  PROVE  Len(queue) = 1 /\ Head(queue) = queue[1] /\ queue[1] \in S /\ Tail(queue) = <<>>
<1>1. Len(queue) \in Nat \ {0}
  BY EmptySeq
<1>2. Len(queue) = 1
  BY <1>1
<1>3. Tail(queue) \in Seq(S) /\ Len(Tail(queue)) = 0
  BY <1>2, HeadTailProperties
<1>4. Tail(queue) = <<>>
  BY <1>3, EmptySeq
<1>5. QED
  BY <1>2, <1>4

(* Every action keeps what is on its way to the decoder in order. *)
LEMMA OrderStep == FeedTypeOK /\ WakeInv /\ OrderInv /\ [FeedNext]_feedVars => OrderInv'
<1> SUFFICES ASSUME FeedTypeOK, WakeInv, OrderInv, [FeedNext]_feedVars PROVE OrderInv'
  OBVIOUS
<1>1. CASE AppendReceived
  BY <1>1, NotifiedFacts
     DEF AppendReceived, Receiving, OrderInv, FeedTypeOK, WindowOK, ReaderOK, AppsrcOK,
        None
<1>2. CASE Reclaim
  BY <1>2
     DEF Reclaim, OrderInv, FeedTypeOK, WindowOK, ReaderOK, AppsrcOK, None
<1>3. CASE FinishReception
  BY <1>3, NotifiedFacts
     DEF FinishReception, Receiving, OrderInv, FeedTypeOK, WindowOK, ReaderOK, AppsrcOK,
        None
<1>4. CASE NeedData
  BY <1>4
     DEF NeedData, ReaderOnly, OrderInv, FeedTypeOK, WindowOK, ReaderOK,
        AppsrcOK, None
<1>5. CASE Observe
  BY <1>5
     DEF Observe, ReaderOnly, OrderInv, FeedTypeOK, WindowOK, ReaderOK,
        AppsrcOK, None
<1>6. CASE CheckCancelled
  BY <1>6
     DEF CheckCancelled, ReaderOnly, Cancelled, OrderInv, FeedTypeOK, WindowOK,
        ReaderOK, AppsrcOK, None
<1>7. CASE TakeRequest
  <2>1. /\ thread.pc = "prepare" /\ request' = None
        /\ appsrc' = appsrc /\ played' = played
        /\ appsrc.queue = <<>>
    BY <1>7 DEF TakeRequest, ReaderOnly, OrderInv
  <2>2. CASE /\ thread'.pc # "deliver"
             /\ thread'.offset = thread.offset /\ thread'.pending = thread.pending
             /\ thread'.pc = "recheck" => thread'.result # "data"
    BY <2>1, <2>2 DEF OrderInv
  <2>3. CASE /\ request # None /\ thread'.offset \in Nat /\ thread'.pending = {}
             /\ thread'.pc = "read"
    <3>1. played = -1
      BY <2>3 DEF OrderInv, None
    <3> QED
      BY <2>1, <2>3, <3>1 DEF OrderInv
  <2>4. \/ thread' = [thread EXCEPT !.pc = "read"]
        \/ \E anchor \in window.start .. request :
             /\ request # None
             /\ thread' = [thread EXCEPT !.pc = "read", !.offset = anchor, !.pending = {}]
        \/ thread' = [thread EXCEPT !.pc = "recheck", !.result = "error"]
        \/ thread' = [thread EXCEPT !.pc = "recheck", !.result = "expired"]
    BY <1>7, Zenon DEF TakeRequest
  <2>5. window.start .. request \subseteq Nat
    BY DEF FeedTypeOK, WindowOK
  <2> QED
    BY <2>2, <2>3, <2>4, <2>5 DEF FeedTypeOK, ReaderOK
<1>8. CASE ReadPending
  BY <1>8
     DEF ReadPending, ReaderOnly, OrderInv, FeedTypeOK, WindowOK, ReaderOK,
        AppsrcOK, None
<1>9. CASE ReadNothing
  BY <1>9
     DEF ReadNothing, FeedWindow!Answer, ReaderOnly, OrderInv, FeedTypeOK, WindowOK, ReaderOK,
        AppsrcOK, None
<1>10. CASE ReadBlock
  <2>1. /\ thread.pc = "read" /\ thread.pending = {}
        /\ appsrc.queue = <<>> /\ appsrc' = appsrc
        /\ played' = played /\ request' = request
        /\ played < thread.offset
    BY <1>10 DEF ReadBlock, ReaderOnly, OrderInv
  <2>2. PICK count \in 1 .. BlockUnits :
          \/ thread' = [thread EXCEPT !.pc = "recheck", !.result = "filtered",
                                      !.offset = @ + count]
          \/ \E kept \in SUBSET (thread.offset .. thread.offset + count - 1),
                first \in thread.offset .. thread.offset + count - 1 :
               /\ first \in kept
               /\ \A other \in kept : first <= other
               /\ thread' = [thread EXCEPT !.pc = "recheck", !.result = "data",
                               !.offset = @ + count,
                               !.block = first, !.pending = kept \ {first}]
    BY <1>10, Zenon DEF ReadBlock
  <2>3. count \in Nat /\ count >= 1
    BY FeedAssumption
  <2>4. /\ thread.offset \in Nat /\ played \in Nat \cup {-1}
        /\ thread'.offset = thread.offset + count
        /\ thread'.pc = "recheck"
    BY <2>2 DEF FeedTypeOK, ReaderOK, None
  <2>5. \/ thread'.result = "filtered" /\ thread'.pending = {}
        \/ /\ thread'.block \in thread.offset .. thread.offset + count - 1
           /\ thread'.pending \subseteq thread.offset .. thread.offset + count - 1
           /\ \A other \in thread'.pending : thread'.block <= other /\ thread'.block # other
    <3>1. CASE thread' = [thread EXCEPT !.pc = "recheck", !.result = "filtered",
                                       !.offset = @ + count]
      BY <2>1, <3>1 DEF FeedTypeOK, ReaderOK
    <3>2. ASSUME NEW kept \in SUBSET (thread.offset .. thread.offset + count - 1),
                 NEW first \in kept,
                 \A other \in kept : first <= other,
                 thread' = [thread EXCEPT !.pc = "recheck", !.result = "data",
                              !.offset = @ + count,
                              !.block = first, !.pending = kept \ {first}]
          PROVE  /\ thread'.block \in thread.offset .. thread.offset + count - 1
                 /\ thread'.pending \subseteq thread.offset .. thread.offset + count - 1
                 /\ \A other \in thread'.pending :
                      thread'.block <= other /\ thread'.block # other
      <4>1. thread'.block = first /\ thread'.pending = kept \ {first}
        BY <3>2 DEF FeedTypeOK, ReaderOK
      <4> QED
        BY <3>2, <4>1
    <3> QED
      BY <2>2, <3>1, <3>2
  <2>6. \A block \in thread.offset .. thread.offset + count - 1 :
          block \in Nat /\ played < block /\ block < thread'.offset
    BY <2>1, <2>3, <2>4
  <2>7. played < thread'.offset
    BY <2>1, <2>3, <2>4
  <2>8. request # None => played = None
    BY DEF OrderInv
  <2> QED
    BY <2>1, <2>4, <2>5, <2>6, <2>7, <2>8 DEF OrderInv
<1>11. CASE RecheckCancelled
  BY <1>11
     DEF RecheckCancelled, ReaderOnly, Cancelled, OrderInv, FeedTypeOK,
        WindowOK, ReaderOK, AppsrcOK, None
<1>12. CASE RecheckDeliver
  BY <1>12
     DEF RecheckDeliver, ReaderOnly, Cancelled, OrderInv, FeedTypeOK, WindowOK,
        ReaderOK, AppsrcOK, None
<1>13. CASE RecheckFiltered
  BY <1>13
     DEF RecheckFiltered, ReaderOnly, Cancelled, OrderInv, FeedTypeOK, WindowOK,
        ReaderOK, AppsrcOK, None
<1>14. CASE RecheckNothing
  BY <1>14
     DEF RecheckNothing, ReaderOnly, Cancelled, OrderInv, FeedTypeOK, WindowOK,
        ReaderOK, AppsrcOK, None
<1>15. CASE ReportAwaiting
  BY <1>15
     DEF ReportAwaiting, ReaderOnly, OrderInv, FeedTypeOK, WindowOK, ReaderOK,
        AppsrcOK, None
<1>16. CASE ReportExpired
  BY <1>16
     DEF ReportExpired, ReaderOnly, OrderInv, FeedTypeOK, WindowOK, ReaderOK,
        AppsrcOK, None
<1>17. CASE Wake
  BY <1>17
     DEF Wake, ReaderOnly, Asleep, OrderInv, FeedTypeOK, WindowOK, ReaderOK,
        AppsrcOK, None
<1>18. CASE Deliver
  <2>1. /\ thread.pc = "deliver" /\ thread' = [thread EXCEPT !.pc = "idle"]
        /\ request' = request /\ played' = played
        /\ appsrc.queue = <<>> /\ request = None
    BY <1>18 DEF Deliver, ReaderOnly, OrderInv, WakeInv
  <2>2. CASE appsrc'.queue = appsrc.queue
    BY <2>1, <2>2 DEF OrderInv, FeedTypeOK, ReaderOK
  <2> DEFINE item == [block |-> thread.block, generation |-> thread.generation]
  <2>3. CASE thread.result = "data" /\ appsrc'.queue = Append(appsrc.queue, item)
    <3>1. Append(<<>>, item) = <<item>>
      OBVIOUS
    <3>2. appsrc'.queue = <<item>>
      BY <2>1, <2>3, <3>1
    <3>3. Len(appsrc'.queue) = 1 /\ appsrc'.queue[1].block = thread.block
      BY <3>2
    <3> QED
      BY <2>1, <2>3, <3>3 DEF OrderInv, FeedTypeOK, ReaderOK
  <2>4. \/ appsrc'.queue = appsrc.queue
        \/ thread.result = "data" /\ appsrc'.queue = Append(appsrc.queue, item)
    BY <1>18 DEF Deliver, FeedTypeOK, AppsrcOK
  <2> QED
    BY <2>2, <2>3, <2>4
<1>19. CASE Decode
  <2>1. /\ appsrc.queue # <<>> /\ played' = Head(appsrc.queue).block
        /\ appsrc'.queue = Tail(appsrc.queue)
        /\ request' = request /\ thread' = thread
    BY <1>19 DEF Decode, FeedTypeOK, AppsrcOK
  <2>2. Len(appsrc.queue) = 1 /\ appsrc'.queue = <<>> /\ Head(appsrc.queue) = appsrc.queue[1]
    <3>1. appsrc.queue \in Seq(Item) /\ Len(appsrc.queue) <= 1
      BY DEF OrderInv, FeedTypeOK, AppsrcOK
    <3> QED
      BY <2>1, <3>1, ShortQueue
  <2>3. thread.pc = "idle" /\ request = None
    BY <2>1 DEF OrderInv
  <2>4. Len(appsrc'.queue) = 0
    BY <2>2, EmptySeq
  <2>5. played' < thread.offset /\ \A block \in thread.pending : played' < block
    BY <2>1, <2>2 DEF OrderInv
  <2>6. \A block \in thread.pending : block < thread.offset
    BY DEF OrderInv
  <2>7. Len(appsrc'.queue) <= 1 /\ Len(appsrc'.queue) # 1
    BY <2>4
  <2>8. thread'.pc = "idle" /\ request' = None
    BY <2>1, <2>3
  <2> QED
    BY <2>1, <2>2, <2>5, <2>6, <2>7, <2>8 DEF OrderInv
<1>20. CASE SendSeek
  BY <1>20
     DEF SendSeek, GuiOnly, OrderInv, FeedTypeOK, WindowOK, ReaderOK, AppsrcOK,
        None
<1>21. CASE FlushStart
  BY <1>21
     DEF FlushStart, GuiOnly, OrderInv, FeedTypeOK, WindowOK, ReaderOK,
        AppsrcOK, None
<1>22. CASE FinishBeginSeek
  BY <1>22, NotifiedFacts
     DEF FinishBeginSeek, GuiOnly, OrderInv, FeedTypeOK, WindowOK, ReaderOK,
        AppsrcOK, None
<1>23. CASE SeekData
  <2>1. thread' = thread /\ thread.pc = "idle"
    BY <1>23 DEF SeekData
  <2>2. CASE appsrc'.queue = <<>> /\ played' = -1
    <3>1. \A block \in thread.pending : -1 < block
      BY DEF FeedTypeOK, ReaderOK
    <3>2. -1 < thread.offset
      BY DEF FeedTypeOK, ReaderOK
    <3> QED
      BY <2>1, <2>2, <3>1, <3>2 DEF OrderInv, None
  <2>3. CASE appsrc'.queue = appsrc.queue /\ played' = played /\ request' = request
    BY <2>1, <2>3 DEF OrderInv
  <2>4. \/ appsrc'.queue = <<>> /\ played' = -1
        \/ appsrc'.queue = appsrc.queue /\ played' = played /\ request' = request
    <3>1. CASE Accepts(gui.target)
      BY <1>23, <3>1 DEF SeekData, None
    <3>2. CASE ~ Accepts(gui.target)
      BY <1>23, <3>2 DEF SeekData, FeedTypeOK, AppsrcOK
    <3> QED
      BY <3>1, <3>2
  <2> QED
    BY <2>2, <2>3, <2>4
<1>24. CASE SetBroadcast
  BY <1>24
     DEF SetBroadcast, GuiOnly, OrderInv, FeedTypeOK, WindowOK, ReaderOK,
        AppsrcOK, None
<1>25. CASE Suspend
  BY <1>25
     DEF Suspend, GuiOnly, OrderInv, FeedTypeOK, WindowOK, ReaderOK, AppsrcOK,
        None
<1>26. CASE Resume
  BY <1>26
     DEF Resume, GuiOnly, OrderInv, FeedTypeOK, WindowOK, ReaderOK, AppsrcOK,
        None
<1>27. CASE NotifyControl
  BY <1>27, NotifiedFacts
     DEF NotifyControl, GuiOnly, OrderInv, FeedTypeOK, WindowOK, ReaderOK,
        AppsrcOK, None
<1>28. CASE Stop
  BY <1>28, NotifiedFacts
     DEF Stop, GuiOnly, OrderInv, FeedTypeOK, WindowOK, ReaderOK, AppsrcOK, None
<1>29. CASE TakeExpired
  BY <1>29
     DEF TakeExpired, GuiOnly, OrderInv, FeedTypeOK, WindowOK, ReaderOK,
        AppsrcOK, None
<1>30. CASE UNCHANGED feedVars
  BY <1>30 DEF feedVars, OrderInv, FeedTypeOK, WindowOK, ReaderOK, AppsrcOK, None
<1> QED
  BY <1>1, <1>2, <1>3, <1>4, <1>5, <1>6, <1>7, <1>8, <1>9, <1>10, <1>11,
     <1>12, <1>13, <1>14, <1>15, <1>16, <1>17, <1>18, <1>19, <1>20, <1>21,
     <1>22, <1>23, <1>24, <1>25, <1>26, <1>27, <1>28, <1>29, <1>30
     DEF FeedNext, Receiver, Streaming, Gui

(* The decoder takes a block after the last one. *)
LEMMA DecodeAscends == FeedTypeOK /\ OrderInv => [Decode => played' > played]_feedVars
<1> SUFFICES ASSUME FeedTypeOK, OrderInv, Decode PROVE played' > played
  BY DEF feedVars
<1>1. /\ appsrc.queue \in Seq(Item) /\ Len(appsrc.queue) <= 1
      /\ appsrc.queue # <<>>
  BY DEF OrderInv, FeedTypeOK, AppsrcOK, Decode
<1>2. Len(appsrc.queue) = 1 /\ Head(appsrc.queue) = appsrc.queue[1]
      /\ appsrc.queue[1] \in Item
  BY <1>1, ShortQueue
<1> QED
  BY <1>2 DEF Decode, OrderInv

(* The decoder gets blocks in stream order between accepted seeks. *)
THEOREM InOrder == FeedSpec => PlaysInOrder
<1>1. FeedInit => OrderInv
  BY DEF FeedInit, OrderInv, None
<1> QED
  BY <1>1, OrderStep, DecodeAscends, FeedTypes, WakeInvariant, PTL DEF FeedSpec, PlaysInOrder

----------------------------------------------------------------------------
(* The contract.                                                            *)

(* Everything the feed's threads rely on at once. *)
FeedInv == FeedTypeOK /\ WakeInv /\ RecoverInv /\ OrderInv

(* Any step RetentionWindow allows the store, in any state of the threads and
   beyond the model's bounds, with the notification the store gives for it:
   append_received and finish notify, a reclaim is silent. *)
Contract ==
  /\ FeedWindow!Next
  /\ revision' = IF window'.end # window.end THEN Notified("data")
                 ELSE IF window'.status # window.status THEN Notified("control")
                 ELSE revision
  /\ UNCHANGED <<feedback, broadcast, request, thread, appsrc, gui, played>>

(* The feed over a store of which nothing is known but the contract. *)
OpenSpec == FeedInit /\ [][FeedNext \/ Contract]_feedVars

(* What a step of the contract does to the window and to the revision. *)
LEMMA ContractStep ==
  ASSUME FeedTypeOK, Contract
  PROVE  /\ WindowOK'
         /\ revision' \in [data : Nat, control : Nat]
         /\ \/ window'.end = window.end /\ revision'.data = revision.data
            \/ revision'.data = revision.data + 1
         /\ \/ window'.status = window.status /\ revision'.control = revision.control
            \/ revision'.control = revision.control + 1
<1>1. /\ window \in [start : Nat, end : Nat, status : {"receiving", "failed"}]
      /\ window.start <= window.end
      /\ revision \in [data : Nat, control : Nat]
  BY DEF FeedTypeOK, WindowOK
<1>2. CASE FeedWindow!Extend
  <2>1. /\ window'.end \in Nat /\ window'.end > window.end
        /\ window'.start \in window.start .. window'.end - 1
        /\ window' = [window EXCEPT !.start = window'.start, !.end = window'.end]
    BY <1>2 DEF FeedWindow!Extend
  <2>2. window'.start \in Nat /\ window'.start <= window'.end
    BY <1>1, <2>1
  <2>3. \A start, end \in Nat :
          /\ [window EXCEPT !.start = start, !.end = end]
               \in [start : Nat, end : Nat, status : {"receiving", "failed"}]
          /\ [window EXCEPT !.start = start, !.end = end].status = window.status
    BY <1>1
  <2>4. WindowOK' /\ window'.status = window.status
    BY <2>1, <2>2, <2>3 DEF WindowOK
  <2>5. revision' = Notified("data")
    BY <1>1, <2>1 DEF Contract
  <2> QED
    BY <1>1, <2>4, <2>5, NotifiedFacts
<1>3. CASE FeedWindow!Reclaim
  <2>1. /\ window'.start \in window.start .. window.end
        /\ window' = [window EXCEPT !.start = window'.start]
    BY <1>3 DEF FeedWindow!Reclaim
  <2>2. window'.start \in Nat /\ window'.start <= window.end
    BY <1>1, <2>1
  <2>3. \A start \in Nat :
          /\ [window EXCEPT !.start = start]
               \in [start : Nat, end : Nat, status : {"receiving", "failed"}]
          /\ [window EXCEPT !.start = start].status = window.status
          /\ [window EXCEPT !.start = start].end = window.end
    BY <1>1
  <2>4. WindowOK' /\ window'.status = window.status /\ window'.end = window.end
    BY <2>1, <2>2, <2>3 DEF WindowOK
  <2>5. revision' = revision
    BY <2>4 DEF Contract
  <2> QED
    BY <1>1, <2>4, <2>5
<1>4. CASE FeedWindow!Finish
  <2>1. WindowOK' /\ window'.end = window.end
    BY <1>1, <1>4 DEF FeedWindow!Finish, WindowOK
  <2>2. revision' = IF window'.status # window.status THEN Notified("control") ELSE revision
    BY <2>1 DEF Contract
  <2> QED
    BY <1>1, <2>1, <2>2, NotifiedFacts
<1> QED
  BY <1>2, <1>3, <1>4 DEF Contract, FeedWindow!Next

(* A step of the contract keeps what the threads rely on, whenever it comes. *)
LEMMA ContractKeeps == ASSUME FeedInv, Contract PROVE FeedInv'
<1>1. FeedTypeOK /\ WakeInv /\ RecoverInv /\ OrderInv
  BY DEF FeedInv
<1>2. UNCHANGED <<feedback, broadcast, request, thread, appsrc, gui, played>>
  BY DEF Contract
<1>3. FeedTypeOK'
  BY <1>1, <1>2, ContractStep, UnchangedTypes DEF FeedTypeOK
<1>4. WakeInv'
  BY <1>1, <1>2, ContractStep
     DEF WakeInv, Unnotified, Cancelled, FeedTypeOK, ReaderOK
<1>5. RecoverInv'
  BY <1>1, <1>2 DEF RecoverInv, RecoveryIsDeserved
<1>6. OrderInv'
  BY <1>1, <1>2 DEF OrderInv
<1> QED
  BY <1>3, <1>4, <1>5, <1>6 DEF FeedInv

(* Playback assumes no more of the store than the store promises: over any
   window that moves as RetentionWindow allows (LiveStore implements it, see
   WindowRefined), whatever it gives up or receives between two steps of the
   threads, the reader never sleeps on something to act on, no stale expiry
   starts a recovery, and blocks are decoded in stream order. *)
THEOREM FeedToleratesWindow ==
  OpenSpec => [](FeedTypeOK /\ ReaderIsInformed) /\ PlaysInOrder
<1>1. FeedInit => FeedInv
  BY InitTypes
     DEF FeedInit, FeedInv, WakeInv, RecoverInv, RecoveryIsDeserved, OrderInv, None
<1>2. FeedInv /\ [FeedNext \/ Contract]_feedVars => FeedInv'
  BY TypeStep, WakeStep, RecoverStep, OrderStep, ContractKeeps DEF FeedInv
<1>3. FeedInv => FeedTypeOK /\ OrderInv /\ ReaderIsInformed
  BY DEF FeedInv, WakeInv, NoLostWakeup, Asleep, Unnotified, RecoverInv, ReaderIsInformed
<1> QED
  BY <1>1, <1>2, <1>3, DecodeAscends, PTL DEF OpenSpec, PlaysInOrder

(* Both invariants together: the reader sleeps only while nothing is left to
   do, and an expiry it reports late recovers nothing. *)
THEOREM ReaderAlwaysInformed == FeedSpec => []ReaderIsInformed
<1>1. NoLostWakeup /\ RecoveryIsDeserved => ReaderIsInformed
  BY DEF ReaderIsInformed
<1>2. QED
  BY <1>1, WakeUps, Recovery, PTL

=============================================================================
