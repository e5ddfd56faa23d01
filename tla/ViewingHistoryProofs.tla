------------------------ MODULE ViewingHistoryProofs ------------------------
(***************************************************************************)
(* Proofs about ViewingHistory, for every value of its constants: types,   *)
(* SilenceMeansSaved, FileMovesForward, KeysNameOne and ProgressIsKept.    *)
(***************************************************************************)
EXTENDS ViewingHistory, TLAPS
-----------------------------------------------------------------------------
(***************************************************************************)
(* The inductive invariant.                                                *)
(***************************************************************************)
Medias == [what: Recordings \union Services \union {None},
           phase: {"stopped", "connecting", "playing", "paused", "seeking", "ended", "stop failed"},
           position: Positions \union {None}, target: Positions \union {None}, ranged: BOOLEAN]
Sessions == [source: Recordings, resume: {"Waiting", "Seeking", "Running"},
             latest: Positions \union {None}]
Workers == [pc: {"none", "load", "wait", "save", "persist", "gone"},
            job: {None} \union Documents, closing: BOOLEAN, writable: BOOLEAN]
Updates == [kind: {"loaded", "saved"}, ok: BOOLEAN, doc: {None} \union Documents]
Histories == [ready: BOOLEAN, doc: Documents, error: {"", "load", "save"}]

StoreTypes ==
  /\ file \in {Absent, Broken} \union Documents
  /\ worker \in Workers /\ temp \in {"none", "synced"} /\ faults \in 0..MaxFaults
  /\ mailbox \in [closing: BOOLEAN, data: {None} \union Documents]
  /\ updates \in Seq(Updates) /\ history \in Histories

PlayTypes ==
  /\ live \in [service: Services \union {None}, recorded: BOOLEAN]
  /\ media \in Medias /\ session \in {None} \union Sessions /\ turned \in BOOLEAN

Types ==
  /\ StoreTypes /\ PlayTypes
  /\ process \in {"up", "closing", "down"} /\ deaths \in 0..MaxDeaths

\* What is on the disk is whole, and only the thread that could read it writes.
DiskInv ==
  /\ flushed = TRUE /\ (temp = "synced" <=> worker.pc = "persist")
  /\ file \in Documents => Sound(file)
  /\ worker.writable => file # Broken
  /\ worker.pc \in {"save", "persist"} => worker.writable /\ worker.job \in Documents
  /\ worker.pc = "persist" => Validates(worker.job)
  /\ history.ready => Sound(history.doc)

FileIs(d) == file = d \/ (file = Absent /\ d = Blank)
Saving == worker.pc \in {"save", "persist"}

\* Before the document is there.
LoadOK(h, box, ups) ==
  /\ h = Loading /\ box.data = None
  /\ worker.pc \in {"none", "load", "wait", "gone"}
  /\ IF worker.pc \in {"none", "load"} THEN ups = << >>
     ELSE /\ Len(ups) = 1 /\ ups[1].kind = "loaded" /\ worker.writable = ups[1].ok
          /\ ups[1].ok => ups[1].doc \in Documents /\ Sound(ups[1].doc) /\ FileIs(ups[1].doc)

ToldAfter(h, ups) == IF ups = << >> THEN h.error ELSE ErrorAfter(ups[Len(ups)], h.error)

\* Afterwards: the latest document lies in the mailbox, is being written, is in
\* the file, or an error is told; the older ones are on the way in order.
SaveOK(h, box, ups) ==
  /\ worker.pc \in {"wait", "save", "persist", "gone"}
  /\ \A i \in DOMAIN ups : ups[i].kind = "saved"
  /\ ~worker.writable => ups = << >> /\ h.error = "load"
  /\ box.data # None => box.data = h.doc
  /\ worker.writable =>
       /\ box.data = None /\ Saving => worker.job = h.doc
       /\ box.data = None /\ ~Saving => ToldAfter(h, ups) # "" \/ FileIs(h.doc)
       /\ file \in Documents =>
            /\ file.stamp <= h.doc.stamp
            /\ box.data # None => file.stamp < h.doc.stamp
            /\ Saving => file.stamp < worker.job.stamp
       /\ Saving => worker.job.stamp <= h.doc.stamp
       /\ Saving /\ box.data # None => worker.job.stamp < h.doc.stamp

Storing(h, box, ups) == IF h.ready THEN SaveOK(h, box, ups) ELSE LoadOK(h, box, ups)

\* The pipeline: a range comes with a position, and only a service is paused.
MediaSound(m) ==
  /\ m.ranged => m.position # None /\ m.phase # "connecting"
  /\ m.phase = "seeking" => m.target # None /\ m.ranged
  /\ m.phase = "paused" => m.what \in Services

MediaInv == MediaSound(media) /\ (session # None => media.what = session.source)

SessionInv(h, m, s) ==
  /\ s.resume = "Waiting" => s.latest = None
  /\ s.resume # "Waiting" => h.ready /\ (m.ranged \/ m.phase = "stop failed")

\* What the pipeline still has to show is not before p.
From(m, p) ==
  /\ m.phase = "playing" => m.position # None /\ p <= m.position
  /\ m.phase = "seeking" => p <= m.target

\* The sample and the pipeline are not behind what is stored, unless that had
\* been watched to the end.
OnTrack(h, m, s) ==
  LET p == Position(h.doc, s.source)
  IN  /\ s.resume = "Seeking" => s.latest = None
      /\ s.latest # None => From(m, s.latest)
      /\ p # None /\ ~Watched(p) => From(m, p) /\ (s.latest # None => p <= s.latest)

ProgressInv(h, m, s, t) == ~t /\ s.resume # "Waiting" => OnTrack(h, m, s)

StoreInv == DiskInv /\ Storing(history, mailbox, updates)

PlayInv ==
  /\ MediaInv
  /\ session # None =>
       /\ SessionInv(history, media, session)
       /\ ProgressInv(history, media, session, turned)

HistoryInv == Types /\ StoreInv /\ PlayInv

-----------------------------------------------------------------------------
(***************************************************************************)
(* Lists.                                                                  *)
(***************************************************************************)
LEMMA RemoveAtIs ==
  ASSUME NEW S, NEW s \in Seq(S), NEW i \in 1..Len(s)
  PROVE  /\ Lists!RemoveAt(s, i) \in Seq(S)
         /\ Len(Lists!RemoveAt(s, i)) = Len(s) - 1
         /\ \A j \in 1..(Len(s) - 1) :
              Lists!RemoveAt(s, i)[j] = IF j < i THEN s[j] ELSE s[j + 1]
<1> DEFINE a == SubSeq(s, 1, i - 1)
           b == SubSeq(s, i + 1, Len(s))
<1>1. a \in Seq(S) /\ Len(a) = i - 1 /\ \A j \in 1..(i - 1) : a[j] = s[j]
  OBVIOUS
<1>2. b \in Seq(S) /\ Len(b) = Len(s) - i /\ \A j \in 1..(Len(s) - i) : b[j] = s[i + j]
  OBVIOUS
<1> HIDE DEF a, b
<1>3. Lists!RemoveAt(s, i) = a \o b
  BY DEF a, b, Lists!RemoveAt
<1>4. a \o b \in Seq(S) /\ Len(a \o b) = Len(s) - 1
  <2>1. a \in Seq(S) /\ b \in Seq(S) /\ Len(a) = i - 1 /\ Len(b) = Len(s) - i
    BY <1>1, <1>2
  <2>2. Len(s) \in Nat /\ i \in 1..Len(s)
    OBVIOUS
  <2> QED BY ONLY <2>1, <2>2
<1>5. ASSUME NEW j \in 1..(Len(s) - 1) PROVE (a \o b)[j] = IF j < i THEN s[j] ELSE s[j + 1]
  <2>1. (a \o b)[j] = IF j <= Len(a) THEN a[j] ELSE b[j - Len(a)]
    BY <1>1, <1>2
  <2> QED BY <2>1, <1>1, <1>2
<1> QED BY <1>3, <1>4, <1>5

LEMMA InsertAtIs ==
  ASSUME NEW S, NEW s \in Seq(S), NEW i \in 1..(Len(s) + 1), NEW x \in S
  PROVE  /\ Lists!InsertAt(s, i, x) \in Seq(S)
         /\ Len(Lists!InsertAt(s, i, x)) = Len(s) + 1
         /\ \A j \in 1..(Len(s) + 1) :
              Lists!InsertAt(s, i, x)[j] =
                IF j < i THEN s[j] ELSE IF j = i THEN x ELSE s[j - 1]
<1> DEFINE a == SubSeq(s, 1, i - 1)
           b == SubSeq(s, i, Len(s))
           c == a \o << x >>
<1>1. a \in Seq(S) /\ Len(a) = i - 1 /\ \A j \in 1..(i - 1) : a[j] = s[j]
  OBVIOUS
<1>2. /\ b \in Seq(S) /\ Len(b) = Len(s) + 1 - i
      /\ \A j \in 1..(Len(s) + 1 - i) : b[j] = s[i + j - 1]
  OBVIOUS
<1> HIDE DEF a, b
<1>3. c \in Seq(S) /\ Len(c) = i /\ c[i] = x /\ \A j \in 1..(i - 1) : c[j] = s[j]
  BY <1>1
<1> HIDE DEF c
<1>4. Lists!InsertAt(s, i, x) = c \o b
  BY DEF a, b, c, Lists!InsertAt
<1>5. c \o b \in Seq(S) /\ Len(c \o b) = Len(s) + 1
  <2>1. c \in Seq(S) /\ b \in Seq(S) /\ Len(c) = i /\ Len(b) = Len(s) + 1 - i
    BY <1>2, <1>3
  <2>2. Len(s) \in Nat /\ i \in 1..(Len(s) + 1)
    OBVIOUS
  <2> QED BY ONLY <2>1, <2>2
<1>6. ASSUME NEW j \in 1..(Len(s) + 1)
      PROVE  (c \o b)[j] = IF j < i THEN s[j] ELSE IF j = i THEN x ELSE s[j - 1]
  <2>1. (c \o b)[j] = IF j <= Len(c) THEN c[j] ELSE b[j - Len(c)]
    BY <1>2, <1>3, <1>5
  <2>2. CASE j <= i
    BY <2>1, <2>2, <1>3
  <2>3. CASE j > i
    <3>1. (c \o b)[j] = b[j - i] /\ j - i \in 1..(Len(s) + 1 - i)
      BY <2>1, <2>3, <1>3
    <3> QED BY <3>1, <2>3, <1>2
  <2>4. j <= i \/ j > i
    OBVIOUS
  <2> QED BY ONLY <2>2, <2>3, <2>4
<1> QED BY <1>4, <1>5, <1>6

LEMMA TruncatedIs ==
  ASSUME NEW S, NEW s \in Seq(S), NEW n \in Nat
  PROVE  /\ Truncated(s, n) \in Seq(S)
         /\ Len(Truncated(s, n)) <= n
         /\ Len(Truncated(s, n)) = IF Len(s) > n THEN n ELSE Len(s)
         /\ \A j \in 1..Len(Truncated(s, n)) : j \in 1..Len(s) /\ Truncated(s, n)[j] = s[j]
BY DEF Truncated

LEMMA PutFirstIs ==
  ASSUME NEW S, NEW s \in Seq(S), NEW x \in S
  PROVE  /\ << x >> \o s \in Seq(S)
         /\ Len(<< x >> \o s) = Len(s) + 1
         /\ (<< x >> \o s)[1] = x
         /\ \A j \in 2..(Len(s) + 1) : (<< x >> \o s)[j] = s[j - 1]
OBVIOUS

LEMMA AppendIs ==
  ASSUME NEW S, NEW s \in Seq(S), NEW x \in S, NEW t, t = Append(s, x)
  PROVE  /\ t \in Seq(S) /\ t # << >>
         /\ Len(s) \in Nat /\ DOMAIN s = 1..Len(s)
         /\ Len(t) = Len(s) + 1 /\ DOMAIN t = 1..(Len(s) + 1)
         /\ \A i \in 1..Len(s) : t[i] = s[i]
         /\ t[Len(s) + 1] = x
OBVIOUS

\* A value taken out of a list without repetitions is gone, the others stay.
LEMMA WithoutIs ==
  ASSUME NEW S, NEW s \in Seq(S), NEW x, Distinct(s)
  PROVE  /\ Without(s, x) \in Seq(S)
         /\ Distinct(Without(s, x))
         /\ x \notin Elements(Without(s, x))
         /\ Len(Without(s, x)) = IF x \in Elements(s) THEN Len(s) - 1 ELSE Len(s)
<1>1. CASE x \notin Elements(s)
  BY <1>1 DEF Without
<1>2. CASE x \in Elements(s)
  <2> DEFINE i == CHOOSE k \in DOMAIN s : s[k] = x
             w == Lists!RemoveAt(s, i)
  <2>1. i \in 1..Len(s) /\ s[i] = x
    BY <1>2 DEF Elements
  <2> HIDE DEF i
  <2>2. /\ w \in Seq(S) /\ Len(w) = Len(s) - 1
        /\ \A j \in 1..(Len(s) - 1) : w[j] = IF j < i THEN s[j] ELSE s[j + 1]
    BY <2>1, RemoveAtIs
  <2>3. Without(s, x) = w
    BY <1>2 DEF Without, i
  <2> HIDE DEF w
  <2>4. DOMAIN w = 1..(Len(s) - 1) /\ DOMAIN s = 1..Len(s)
    BY <2>2
  <2>5. Distinct(w)
    <3> SUFFICES ASSUME NEW j \in DOMAIN w, NEW k \in DOMAIN w, w[j] = w[k] PROVE j = k
      BY DEF Distinct
    <3> DEFINE Old(n) == IF n < i THEN n ELSE n + 1
    <3>1. Old(j) \in DOMAIN s /\ Old(k) \in DOMAIN s /\ s[Old(j)] = s[Old(k)]
      BY <2>1, <2>2, <2>4
    <3>2. Old(j) = Old(k)
      BY <3>1 DEF Distinct
    <3> QED BY <3>2, <2>1, <2>4
  <2>6. x \notin Elements(w)
    <3> SUFFICES ASSUME NEW j \in DOMAIN w, w[j] = x PROVE FALSE
      BY DEF Elements
    <3> DEFINE o == IF j < i THEN j ELSE j + 1
    <3>1. o \in DOMAIN s /\ s[o] = s[i] /\ i \in DOMAIN s /\ o # i
      BY <2>1, <2>2, <2>4
    <3> QED BY <3>1 DEF Distinct
  <2> QED BY <1>2, <2>2, <2>3, <2>5, <2>6
<1> QED BY <1>1, <1>2

-----------------------------------------------------------------------------
(***************************************************************************)
(* Documents.                                                              *)
(***************************************************************************)
LEMMA Constants ==
  /\ Last \in Nat /\ WatchedFrom \in Nat /\ WatchedFrom <= Last
  /\ MaxRecordings \in Nat /\ MaxRecordings > 0
  /\ MaxRecent \in Nat /\ MaxRecent > 0 /\ MaxFavorites \in Nat /\ MaxEdits \in Nat
  /\ None \notin Nat /\ None \notin Recordings /\ None \notin Services
  /\ None \notin Positions /\ None \notin Documents
  /\ Absent \notin Documents /\ Broken \notin Documents /\ Absent # Broken
  /\ Recordings \intersect Services = {}
BY BoundsAssumption, DocumentsAssumption DEF Positions

LEMMA DocumentParts ==
  ASSUME NEW d \in Documents
  PROVE  /\ d.favorites \in Seq(Services) /\ d.recent \in Seq(Services)
         /\ d.recordings \in Seq(Entries) /\ d.nextKey \in Nat /\ d.stamp \in Nat
         /\ DOMAIN d.recordings = 1..Len(d.recordings)
         /\ \A i \in DOMAIN d.recordings :
              /\ d.recordings[i].key \in Nat /\ d.recordings[i].source \in Recordings
              /\ d.recordings[i].position \in Positions
<1>1. /\ d.favorites \in Seq(Services) /\ d.recent \in Seq(Services)
      /\ d.recordings \in Seq(Entries) /\ d.nextKey \in Nat /\ d.stamp \in Nat
  BY DEF Documents
<1>2. DOMAIN d.recordings = 1..Len(d.recordings)
  BY <1>1
<1>3. ASSUME NEW i \in DOMAIN d.recordings
      PROVE  /\ d.recordings[i].key \in Nat /\ d.recordings[i].source \in Recordings
             /\ d.recordings[i].position \in Positions
  <2>1. d.recordings[i] \in Entries
    BY <1>1, <1>3
  <2> QED BY <2>1 DEF Entries
<1> QED BY <1>1, <1>2, <1>3

LEMMA BlankIs == Blank \in Documents /\ Sound(Blank) /\ Blank.stamp = 0
<1>1. Blank \in Documents
  BY DEF Blank, Documents
<1>2. Sound(Blank)
  BY Constants DEF Sound, Distinct, Elements, Blank
<1> QED BY <1>1, <1>2 DEF Blank

\* A recording has at most one row, and its position is that of the row.
LEMMA PositionIs ==
  ASSUME NEW d \in Documents, Sound(d), NEW r
  PROVE  /\ \A i \in DOMAIN d.recordings : d.recordings[i].source = r =>
              Row(d, r) = i /\ Row(d, r) # None /\ Position(d, r) = d.recordings[i].position
         /\ (\A i \in DOMAIN d.recordings : d.recordings[i].source # r) =>
              Row(d, r) = None /\ Position(d, r) = None
         /\ Row(d, r) # None => Row(d, r) \in DOMAIN d.recordings /\ d.recordings[Row(d, r)].source = r
         /\ Position(d, r) \in Positions \union {None}
<1> DEFINE s == d.recordings
           rows == { i \in DOMAIN s : s[i].source = r }
<1>0. DOMAIN s = 1..Len(s) /\ Len(s) \in Nat
  BY DocumentParts
<1>1. ASSUME NEW i \in DOMAIN s, s[i].source = r
      PROVE  Row(d, r) = i /\ Row(d, r) # None /\ Position(d, r) = s[i].position
  <2>1. rows = {i}
    BY <1>1 DEF Sound
  <2>2. Row(d, r) = CHOOSE k \in rows : TRUE
    BY <2>1 DEF Row
  <2>3. Row(d, r) = i
    BY <2>1, <2>2
  <2>4. i # None
    BY Constants, <1>0, <1>1
  <2> QED BY <2>3, <2>4 DEF Position
<1>2. ASSUME \A i \in DOMAIN s : s[i].source # r
      PROVE  Row(d, r) = None /\ Position(d, r) = None
  BY <1>2 DEF Row, Position
<1>3. Row(d, r) # None => Row(d, r) \in DOMAIN s /\ s[Row(d, r)].source = r
  BY <1>1, <1>2
<1>4. Position(d, r) \in Positions \union {None}
  BY <1>1, <1>2, DocumentParts
<1> QED BY <1>1, <1>2, <1>3, <1>4

\* The change of a document: the parts named, and the stamp.
LEMMA ChangeIs ==
  ASSUME NEW h \in Histories, NEW d \in Documents, d.stamp = h.doc.stamp
  PROVE  LET g == Change(h, d) IN
         /\ g \in Histories /\ g.ready = h.ready /\ g.error = h.error
         /\ g.doc \in Documents /\ g.doc.stamp = h.doc.stamp + 1
         /\ g.doc.favorites = d.favorites /\ g.doc.recent = d.recent
         /\ g.doc.recordings = d.recordings /\ g.doc.nextKey = d.nextKey
         /\ Sound(d) => Sound(g.doc)
         /\ \A r : Position(g.doc, r) = Position(d, r)
<1> DEFINE c == Stamp(d)
           g == Change(h, d)
<1>1. /\ c \in Documents /\ c.stamp = d.stamp + 1
      /\ c.favorites = d.favorites /\ c.recent = d.recent
      /\ c.recordings = d.recordings /\ c.nextKey = d.nextKey
  BY SMTT(40) DEF Documents, Stamp
<1> HIDE DEF c
<1>2. g \in Histories /\ g.ready = h.ready /\ g.error = h.error /\ g.doc = c
  BY <1>1 DEF Change, Histories, c
<1>3. Sound(d) => Sound(c)
  BY <1>1 DEF Sound
<1>4. \A r : Position(c, r) = Position(d, r)
  BY <1>1 DEF Position, Row
<1> QED BY <1>1, <1>2, <1>3, <1>4

\* What the GUI thread makes of a history: the same one, or a later document.
Grown(h, g) ==
  /\ g \in Histories /\ g.ready = h.ready /\ g.error = h.error
  /\ h.ready => Sound(g.doc)
  /\ g = h \/ (h.ready /\ g.doc.stamp > h.doc.stamp)

Held(h) == h \in Histories /\ (h.ready => Sound(h.doc))

LEMMA ChangeGrows ==
  ASSUME NEW h \in Histories, h.ready, NEW d \in Documents, d.stamp = h.doc.stamp, Sound(d)
  PROVE  Grown(h, Change(h, d))
<1>1. h.doc.stamp \in Nat
  BY DocumentParts DEF Histories
<1> DEFINE g == Change(h, d)
<1>2. /\ g \in Histories /\ g.ready = h.ready /\ g.error = h.error
      /\ g.doc.stamp = h.doc.stamp + 1 /\ Sound(g.doc)
  BY ChangeIs
<1> HIDE DEF g
<1>3. Grown(h, g)
  BY <1>1, <1>2 DEF Grown
<1> QED BY <1>3 DEF g

LEMMA GrownTwice ==
  ASSUME NEW h, NEW g, NEW f, Held(h), Grown(h, g), Grown(g, f)
  PROVE  Grown(h, f)
<1>1. h.doc.stamp \in Nat /\ g.doc.stamp \in Nat /\ f.doc.stamp \in Nat
  BY DocumentParts DEF Grown, Held, Histories
<1> QED BY <1>1 DEF Grown, Held

LEMMA GrownHeld ==
  ASSUME NEW h, NEW g, Held(h), Grown(h, g)
  PROVE  Held(g)
BY DEF Grown, Held

LEMMA GrownSelf == ASSUME NEW h, Held(h) PROVE Grown(h, h)
BY DEF Grown, Held

-----------------------------------------------------------------------------
(***************************************************************************)
(* A position is recorded.                                                 *)
(***************************************************************************)
\* The list with an entry in front: the others keep their order, less the one
\* of the same recording and, at the limit, the last one.
Front(s, first, row) ==
  Truncated(<< first >> \o (IF row = None THEN s ELSE Lists!RemoveAt(s, row)), MaxRecordings)

\* Where the k-th entry was before, the first one being the new one.
Older(row, k) == IF row # None /\ k > row THEN k ELSE k - 1

LEMMA FrontIs ==
  ASSUME NEW s \in Seq(Entries), NEW first \in Entries, NEW row \in {None} \union DOMAIN s
  PROVE  /\ Front(s, first, row) \in Seq(Entries) /\ Len(Front(s, first, row)) \in 1..MaxRecordings
         /\ Front(s, first, row)[1] = first
         /\ \A k \in 2..Len(Front(s, first, row)) :
              /\ Older(row, k) \in DOMAIN s /\ Older(row, k) # row
              /\ Front(s, first, row)[k] = s[Older(row, k)]
<1> DEFINE rest == IF row = None THEN s ELSE Lists!RemoveAt(s, row)
           long == << first >> \o rest
           list == Truncated(long, MaxRecordings)
           Old(k) == Older(row, k)
<1>0. DOMAIN s = 1..Len(s) /\ Len(s) \in Nat /\ None \notin DOMAIN s
  BY Constants
<1>1. /\ rest \in Seq(Entries)
      /\ \A k \in 2..(Len(rest) + 1) :
           Old(k) \in DOMAIN s /\ Old(k) # row /\ rest[k - 1] = s[Old(k)]
  <2>1. CASE row = None
    BY <2>1, <1>0 DEF Older
  <2>2. CASE row # None
    <3>1. row \in 1..Len(s) /\ rest = Lists!RemoveAt(s, row)
      BY <2>2, <1>0
    <3>2. /\ rest \in Seq(Entries) /\ Len(rest) = Len(s) - 1
          /\ \A j \in 1..(Len(s) - 1) : rest[j] = IF j < row THEN s[j] ELSE s[j + 1]
      BY <3>1, RemoveAtIs
    <3> HIDE DEF rest
    <3>3. ASSUME NEW k \in 2..(Len(rest) + 1)
          PROVE  Old(k) \in DOMAIN s /\ Old(k) # row /\ rest[k - 1] = s[Old(k)]
      <4>1. k - 1 \in 1..(Len(s) - 1)
        BY <3>2, <1>0
      <4>2. rest[k - 1] = IF k - 1 < row THEN s[k - 1] ELSE s[k - 1 + 1]
        BY <4>1, <3>2
      <4>3. k - 1 + 1 = k /\ (k - 1 < row <=> ~(k > row))
        BY <4>1, <3>1, <1>0
      <4> QED BY <4>1, <4>2, <4>3, <2>2, <3>1, <1>0 DEF Older
    <3> QED BY <3>2, <3>3
  <2> QED BY <2>1, <2>2
<1> HIDE DEF rest
<1>2. /\ long \in Seq(Entries) /\ Len(long) = Len(rest) + 1 /\ long[1] = first
      /\ \A k \in 2..(Len(rest) + 1) : long[k] = rest[k - 1]
  BY <1>1, PutFirstIs
<1> HIDE DEF long
<1>3. /\ list \in Seq(Entries) /\ Len(list) <= MaxRecordings
      /\ Len(list) = IF Len(long) > MaxRecordings THEN MaxRecordings ELSE Len(long)
      /\ \A j \in 1..Len(list) : j \in 1..Len(long) /\ list[j] = long[j]
  BY <1>2, TruncatedIs, Constants
<1> HIDE DEF list
<1>4. Len(list) \in 1..MaxRecordings /\ list[1] = first
  <2>1. Len(rest) \in Nat /\ Len(list) \in Nat
    BY <1>1, <1>3
  <2> QED BY <2>1, <1>2, <1>3, Constants
<1>5. ASSUME NEW k \in 2..Len(list)
      PROVE  Old(k) \in DOMAIN s /\ Old(k) # row /\ list[k] = s[Old(k)]
  <2>1. Len(rest) \in Nat /\ Len(list) \in Nat
    BY <1>1, <1>3
  <2>2. k \in 1..Len(list) /\ k \in 2..(Len(rest) + 1)
    BY <2>1, <1>2, <1>3
  <2> QED BY <2>2, <1>1, <1>2, <1>3
<1> QED BY <1>3, <1>4, <1>5 DEF list, long, rest, Front

\* Recording a position keeps the document sound, stores it for its recording
\* and leaves that of every other in place or drops it.
LEMMA RecordIs ==
  ASSUME NEW h, Held(h), NEW r \in Recordings, NEW p \in Positions
  PROVE  LET g == Record(h, r, p) IN
         /\ Grown(h, g)
         /\ h.ready => Position(g.doc, r) = p
         /\ h.ready => \A o \in Recordings \ {r} :
              Position(g.doc, o) \in {Position(h.doc, o), None}
         /\ h.ready => \A e \in Elements(g.doc.recordings) :
              \/ \E o \in Elements(h.doc.recordings) : o.key = e.key /\ o.source = e.source
              \/ e.key > h.doc.nextKey
<1> DEFINE d == h.doc
           s == d.recordings
           row == Row(d, r)
           key == IF row = None THEN d.nextKey + 1 ELSE s[row].key
           first == [key |-> key, source |-> r, position |-> p]
           list == Front(s, first, row)
           next == IF row = None THEN key ELSE d.nextKey
           c == [d EXCEPT !.recordings = list, !.nextKey = next]
           Old(k) == Older(row, k)
<1>1. CASE ~h.ready \/ Position(h.doc, r) = p
  <2>1. Record(h, r, p) = h
    BY <1>1 DEF Record
  <2> QED BY <1>1, <2>1, GrownSelf
<1>2. CASE h.ready /\ Position(h.doc, r) # p
  <2>0. Record(h, r, p) = Change(h, c)
    BY <1>2 DEF Record, Front
  <2>1. h \in Histories /\ d \in Documents /\ Sound(d)
    BY <1>2 DEF Held, Histories
  <2>2. /\ s \in Seq(Entries) /\ DOMAIN s = 1..Len(s) /\ Len(s) \in Nat /\ d.nextKey \in Nat
        /\ \A i \in DOMAIN s : s[i].key \in Nat /\ s[i].source \in Recordings
    BY <2>1, DocumentParts
  <2>3. /\ \A i, j \in DOMAIN s : i # j => s[i].source # s[j].source /\ s[i].key # s[j].key
        /\ \A i \in DOMAIN s : s[i].key \in 1..d.nextKey
    BY <2>1 DEF Sound, Elements
  <2>4. row \in {None} \union DOMAIN s
        /\ (row # None => s[row].source = r)
        /\ (row = None => \A i \in DOMAIN s : s[i].source # r)
    BY <2>1, PositionIs
  <2>5. /\ key \in Nat /\ next \in Nat /\ key \in 1..next /\ d.nextKey <= next
        /\ row = None => key > d.nextKey
        /\ row # None => key = s[row].key
    BY <2>2, <2>3, <2>4
  <2>6. first \in Entries /\ first.key = key /\ first.source = r /\ first.position = p
    BY <2>5 DEF Entries
  <2> HIDE DEF first, row, key
  <2>7. /\ list \in Seq(Entries) /\ Len(list) \in 1..MaxRecordings /\ list[1] = first
        /\ \A k \in 2..Len(list) : Old(k) \in DOMAIN s /\ Old(k) # row /\ list[k] = s[Old(k)]
    <3>1. s \in Seq(Entries) /\ first \in Entries /\ row \in {None} \union DOMAIN s
      BY <2>2, <2>4, <2>6
    <3>2. list \in Seq(Entries) /\ Len(list) \in 1..MaxRecordings /\ list[1] = first
      BY ONLY <3>1, FrontIs
    <3>3. \A k \in 2..Len(list) : Old(k) \in DOMAIN s /\ Old(k) # row /\ list[k] = s[Old(k)]
      BY ONLY <3>1, FrontIs
    <3> QED BY <3>2, <3>3
  <2> HIDE DEF list, next
  <2>8. /\ c \in Documents /\ c.recordings = list /\ c.nextKey = next /\ c.stamp = d.stamp
        /\ c.recent = d.recent /\ c.favorites = d.favorites
    BY <2>1, <2>5, <2>7 DEF Documents
  <2> HIDE DEF c
  <2>9. DOMAIN list = 1..Len(list) /\ Len(list) \in Nat
    BY <2>7
  <2>10. ASSUME NEW k \in 2..Len(list)
         PROVE  /\ list[k].source # r /\ list[k].key # key
                /\ list[k] = s[Old(k)] /\ Old(k) \in DOMAIN s
    <3>1. Old(k) \in DOMAIN s /\ Old(k) # row /\ list[k] = s[Old(k)]
      BY <2>7
    <3> HIDE DEF Old
    <3>2. CASE row = None
      BY <3>1, <3>2, <2>2, <2>3, <2>4, <2>5
    <3>3. CASE row # None
      BY <3>1, <3>3, <2>3, <2>4, <2>5
    <3> QED BY <3>1, <3>2, <3>3
  <2>11. ASSUME NEW i \in DOMAIN list, NEW j \in DOMAIN list, i < j
         PROVE  list[i].source # list[j].source /\ list[i].key # list[j].key
    <3>1. CASE i = 1
      BY <3>1, <2>6, <2>7, <2>9, <2>10, <2>11
    <3>2. CASE i # 1
      <4>1. i \in 2..Len(list) /\ j \in 2..Len(list)
        BY <3>2, <2>9, <2>11
      <4>2. /\ list[i] = s[Old(i)] /\ Old(i) \in DOMAIN s
            /\ list[j] = s[Old(j)] /\ Old(j) \in DOMAIN s
        BY <4>1, <2>10
      <4>3. Old(i) # Old(j)
        BY <4>1, <2>4, <2>2, <2>11 DEF Older
      <4> HIDE DEF Old
      <4> QED BY <4>2, <4>3, <2>3
    <3> QED BY <3>1, <3>2
  <2>12. \A i, j \in DOMAIN list : i # j =>
           list[i].source # list[j].source /\ list[i].key # list[j].key
    <3> SUFFICES ASSUME NEW i \in DOMAIN list, NEW j \in DOMAIN list, i # j
                 PROVE  list[i].source # list[j].source /\ list[i].key # list[j].key
      OBVIOUS
    <3>1. i < j \/ j < i
      BY <2>9
    <3> QED BY <3>1, <2>11
  <2>13. \A k \in DOMAIN list : list[k].key \in 1..next
    <3> SUFFICES ASSUME NEW k \in DOMAIN list PROVE list[k].key \in 1..next
      OBVIOUS
    <3>1. CASE k = 1
      BY <3>1, <2>5, <2>6, <2>7
    <3>2. CASE k # 1
      <4>1. k \in 2..Len(list)
        BY <3>2, <2>9
      <4>2. list[k] = s[Old(k)] /\ Old(k) \in DOMAIN s
        BY <4>1, <2>10
      <4>3. list[k].key \in 1..d.nextKey
        BY <4>2, <2>3
      <4> QED BY <4>3, <2>2, <2>5
    <3> QED BY <3>1, <3>2
  <2>14. Sound(c)
    <3>1. \A e \in Elements(c.recordings) : e.key \in 1..c.nextKey
      BY <2>8, <2>13 DEF Elements
    <3>2. Len(c.recordings) <= MaxRecordings
      BY <2>7, <2>8, Constants
    <3> QED BY <3>1, <3>2, <2>1, <2>8, <2>12 DEF Sound
  <2>15. Position(c, r) = p
    <3>1. 1 \in DOMAIN list /\ list[1].source = r /\ list[1].position = p
      BY <2>6, <2>7, <2>9
    <3> QED BY <3>1, <2>8, <2>14, PositionIs
  <2>16. ASSUME NEW o \in Recordings \ {r}
         PROVE  Position(c, o) \in {Position(d, o), None}
    <3>1. CASE \A k \in DOMAIN list : list[k].source # o
      <4>1. Position(c, o) = None
        BY <3>1, <2>8, <2>14, PositionIs
      <4> QED BY <4>1
    <3>2. CASE \E k \in DOMAIN list : list[k].source = o
      <4>1. PICK k \in DOMAIN list : list[k].source = o
        BY <3>2
      <4>2. k \in 2..Len(list)
        BY <4>1, <2>6, <2>7, <2>9
      <4>3. list[k] = s[Old(k)] /\ Old(k) \in DOMAIN s
        BY <4>2, <2>10
      <4>4. Position(c, o) = list[k].position
        BY <4>1, <2>8, <2>14, PositionIs
      <4>5. Position(d, o) = s[Old(k)].position
        BY <4>1, <4>3, <2>1, PositionIs
      <4> QED BY <4>3, <4>4, <4>5
    <3> QED BY <3>1, <3>2
  <2>17. ASSUME NEW e \in Elements(list)
         PROVE  \/ \E o \in Elements(s) : o.key = e.key /\ o.source = e.source
                \/ e.key > d.nextKey
    <3>1. PICK k \in DOMAIN list : e = list[k]
      BY <2>17 DEF Elements
    <3>2. CASE k = 1 /\ row = None
      BY <3>1, <3>2, <2>5, <2>6, <2>7
    <3>3. CASE k = 1 /\ row # None
      <4>1. row \in DOMAIN s /\ s[row].key = e.key /\ s[row].source = e.source
        BY <3>1, <3>3, <2>4, <2>5, <2>6, <2>7
      <4> QED BY <4>1 DEF Elements
    <3>4. CASE k # 1
      <4>1. k \in 2..Len(list)
        BY <3>4, <2>9
      <4>2. list[k] = s[Old(k)] /\ Old(k) \in DOMAIN s
        BY <4>1, <2>10
      <4> QED BY <4>2, <3>1 DEF Elements
    <3> QED BY <3>2, <3>3, <3>4
  <2>18. LET g == Change(h, c) IN
           /\ Grown(h, g) /\ g.doc.recordings = list
           /\ \A o : Position(g.doc, o) = Position(c, o)
    BY <1>2, <2>1, <2>8, <2>14, ChangeIs, ChangeGrows
  <2> QED BY <2>0, <2>15, <2>16, <2>17, <2>18
<1> QED BY <1>1, <1>2

-----------------------------------------------------------------------------
(***************************************************************************)
(* The other changes of the document.                                      *)
(***************************************************************************)
LEMMA SavedSessionIs ==
  ASSUME NEW h, Held(h), NEW s \in Sessions, NEW due
  PROVE  LET g == SavedSession(h, s, due) IN
         /\ Grown(h, g)
         /\ h.ready =>
              /\ \/ Position(g.doc, s.source) = Position(h.doc, s.source)
                 \/ s.latest # None /\ Position(g.doc, s.source) = s.latest
              /\ \A o \in Recordings \ {s.source} :
                   Position(g.doc, o) \in {Position(h.doc, o), None}
              /\ \A e \in Elements(g.doc.recordings) :
                   \/ \E o \in Elements(h.doc.recordings) : o.key = e.key /\ o.source = e.source
                   \/ e.key > h.doc.nextKey
<1>1. s.source \in Recordings /\ s.latest \in Positions \union {None}
  BY DEF Sessions
<1>2. CASE due /\ s.latest # None
  <2>1. SavedSession(h, s, due) = Record(h, s.source, s.latest) /\ s.latest \in Positions
    BY <1>1, <1>2 DEF SavedSession
  <2> QED BY <1>1, <1>2, <2>1, RecordIs
<1>3. CASE ~(due /\ s.latest # None)
  <2>1. SavedSession(h, s, due) = h
    BY <1>3 DEF SavedSession
  <2> QED BY <2>1, GrownSelf
<1> QED BY <1>2, <1>3

LEMMA NotedIs ==
  ASSUME NEW h, Held(h), NEW l, NEW m \in Medias, NEW long
  PROVE  LET g == Noted(h, l, m, long) IN
         Grown(h, g) /\ g.doc.recordings = h.doc.recordings /\ g.doc.nextKey = h.doc.nextKey
<1>1. CASE ~Qualified(h, l, m, long)
  <2>1. Noted(h, l, m, long) = h
    BY <1>1 DEF Noted
  <2> QED BY <2>1, GrownSelf
<1>2. CASE Qualified(h, l, m, long)
  <2> DEFINE d == h.doc
             w == Without(d.recent, m.what)
             t == << m.what >> \o w
             list == Truncated(t, MaxRecent)
             c == [d EXCEPT !.recent = list]
  <2>1. h \in Histories /\ h.ready /\ d \in Documents /\ Sound(d)
    BY <1>2 DEF Qualified, Held, Histories
  <2>2. m.what \in Services
    BY <1>2 DEF Qualified, Watching, IsFile, Medias
  <2>3. d.recent \in Seq(Services) /\ Distinct(d.recent)
    BY <2>1, DocumentParts DEF Sound
  <2>4. w \in Seq(Services) /\ Distinct(w) /\ m.what \notin Elements(w)
    BY <2>3, WithoutIs
  <2> HIDE DEF w
  <2>5. /\ t \in Seq(Services) /\ Len(t) = Len(w) + 1 /\ t[1] = m.what
        /\ \A j \in 2..(Len(w) + 1) : t[j] = w[j - 1]
    BY <2>2, <2>4, PutFirstIs
  <2>6. Len(w) \in Nat /\ DOMAIN w = 1..Len(w)
    BY <2>4
  <2> HIDE DEF t
  <2>7. /\ list \in Seq(Services) /\ Len(list) <= MaxRecent
        /\ \A j \in 1..Len(list) : j \in 1..Len(t) /\ list[j] = t[j]
    BY <2>5, TruncatedIs, Constants
  <2> HIDE DEF list
  <2>8. DOMAIN list = 1..Len(list)
    BY <2>7
  <2>9. Distinct(list)
    <3>1. ASSUME NEW i \in 1..Len(t), NEW j \in 1..Len(t), i < j PROVE t[i] # t[j]
      <4>1. j - 1 \in DOMAIN w /\ t[j] = w[j - 1] /\ t[j] # m.what
        <5>1. j \in 2..(Len(w) + 1) /\ j - 1 \in DOMAIN w
          BY <3>1, <2>5, <2>6
        <5> QED BY <5>1, <2>4, <2>5 DEF Elements
      <4>2. CASE i = 1
        BY <4>1, <4>2, <2>5
      <4>3. CASE i # 1
        <5>1. i \in 2..(Len(w) + 1) /\ i - 1 \in DOMAIN w /\ i - 1 # j - 1
          BY <3>1, <4>3, <2>5, <2>6
        <5> QED BY <5>1, <4>1, <2>4, <2>5 DEF Distinct
      <4> QED BY <4>2, <4>3
    <3> SUFFICES ASSUME NEW i \in DOMAIN list, NEW j \in DOMAIN list, list[i] = list[j]
                 PROVE  i = j
      BY DEF Distinct
    <3>2. i \in 1..Len(t) /\ j \in 1..Len(t) /\ t[i] = t[j]
      BY <2>7, <2>8
    <3>3. i < j \/ j < i \/ i = j
      BY <3>2
    <3> QED BY <3>1, <3>2, <3>3
  <2>10. /\ c \in Documents /\ c.recordings = d.recordings /\ c.nextKey = d.nextKey
         /\ c.stamp = d.stamp /\ c.recent = list /\ c.favorites = d.favorites
    BY <2>1, <2>7 DEF Documents
  <2> HIDE DEF c
  <2>11. Sound(c)
    BY <2>1, <2>7, <2>9, <2>10 DEF Sound
  <2>12. Noted(h, l, m, long) = Change(h, c)
    BY <1>2 DEF Noted, c, list, t, w
  <2>13. Grown(h, Change(h, c))
    BY <2>1, <2>10, <2>11, ChangeGrows
  <2>14. LET g == Change(h, c) IN
         g.doc.recordings = d.recordings /\ g.doc.nextKey = d.nextKey
    BY <2>1, <2>10, ChangeIs
  <2> QED BY <2>12, <2>13, <2>14
<1> QED BY <1>1, <1>2

\* A favourite is added, taken away or moved.
FavoritesTo(h, f) == Change(h, [h.doc EXCEPT !.favorites = f])

LEMMA FavoritesIs ==
  ASSUME NEW h, Held(h), h.ready,
         NEW f \in Seq(Services), Len(f) <= MaxFavorites, Distinct(f)
  PROVE  /\ Grown(h, FavoritesTo(h, f))
         /\ FavoritesTo(h, f).doc.recordings = h.doc.recordings
         /\ FavoritesTo(h, f).doc.nextKey = h.doc.nextKey
<1> DEFINE d == h.doc
           c == [d EXCEPT !.favorites = f]
<1>1. h \in Histories /\ d \in Documents /\ Sound(d)
  BY DEF Held, Histories
<1>2. /\ c \in Documents /\ c.recordings = d.recordings /\ c.nextKey = d.nextKey
      /\ c.stamp = d.stamp /\ c.recent = d.recent /\ c.favorites = f
  BY <1>1 DEF Documents
<1>3. FavoritesTo(h, f) = Change(h, c)
  BY DEF FavoritesTo
<1> HIDE DEF c
<1>4. Sound(c)
  BY <1>1, <1>2 DEF Sound
<1>5. Grown(h, Change(h, c))
  BY <1>1, <1>2, <1>4, ChangeGrows
<1>6. LET g == Change(h, c) IN
      g.doc.recordings = d.recordings /\ g.doc.nextKey = d.nextKey
  BY <1>1, <1>2, ChangeIs
<1> QED BY <1>3, <1>5, <1>6

LEMMA AddedIs ==
  ASSUME NEW s \in Seq(Services), Distinct(s), NEW c \in Services \ Elements(s)
  PROVE  Append(s, c) \in Seq(Services) /\ Distinct(Append(s, c))
<1> DEFINE f == Append(s, c)
<1>1. /\ f \in Seq(Services) /\ DOMAIN f = 1..(Len(s) + 1) /\ f[Len(s) + 1] = c
      /\ \A i \in 1..Len(s) : f[i] = s[i]
  OBVIOUS
<1>2. Len(s) \in Nat /\ DOMAIN s = 1..Len(s) /\ \A i \in DOMAIN s : s[i] # c
  BY DEF Elements
<1> HIDE DEF f
<1> SUFFICES ASSUME NEW i \in DOMAIN f, NEW j \in DOMAIN f, f[i] = f[j] PROVE i = j
  BY <1>1 DEF Distinct, f
<1>3. CASE i \in 1..Len(s) /\ j \in 1..Len(s)
  BY <1>1, <1>2, <1>3 DEF Distinct
<1>4. CASE i \in 1..Len(s) /\ j = Len(s) + 1
  BY <1>1, <1>2, <1>4
<1>5. CASE j \in 1..Len(s) /\ i = Len(s) + 1
  BY <1>1, <1>2, <1>5
<1>6. \A k \in DOMAIN f : k \in 1..Len(s) \/ k = Len(s) + 1
  BY <1>1, <1>2
<1> QED BY <1>3, <1>4, <1>5, <1>6

LEMMA PutInIs ==
  ASSUME NEW s \in Seq(Services), Distinct(s), NEW c \in Services \ Elements(s),
         NEW i \in 1..(Len(s) + 1)
  PROVE  /\ Lists!InsertAt(s, i, c) \in Seq(Services)
         /\ Len(Lists!InsertAt(s, i, c)) = Len(s) + 1
         /\ Distinct(Lists!InsertAt(s, i, c))
<1> DEFINE f == Lists!InsertAt(s, i, c)
           Old(n) == IF n < i THEN n ELSE n - 1
<1>1. /\ f \in Seq(Services) /\ Len(f) = Len(s) + 1
      /\ \A j \in 1..(Len(s) + 1) : f[j] = IF j < i THEN s[j] ELSE IF j = i THEN c ELSE s[j - 1]
  BY InsertAtIs
<1> HIDE DEF f
<1>2. DOMAIN f = 1..(Len(s) + 1) /\ Len(s) \in Nat /\ DOMAIN s = 1..Len(s)
  BY <1>1
<1>3. ASSUME NEW j \in DOMAIN f, j # i
      PROVE  Old(j) \in DOMAIN s /\ f[j] = s[Old(j)] /\ f[j] # c
  <2>1. Old(j) \in DOMAIN s /\ f[j] = s[Old(j)]
    BY <1>1, <1>2, <1>3
  <2> QED BY <2>1 DEF Elements
<1>4. Distinct(f)
  <2> SUFFICES ASSUME NEW j \in DOMAIN f, NEW k \in DOMAIN f, f[j] = f[k] PROVE j = k
    BY DEF Distinct
  <2>0. f[i] = c
    BY <1>1
  <2>1. CASE j = i \/ k = i
    BY <2>0, <2>1, <1>3
  <2>2. CASE j # i /\ k # i
    <3>1. Old(j) = Old(k)
      BY <2>2, <1>3 DEF Distinct
    <3> QED BY <3>1, <2>2, <1>2
  <2> QED BY <2>1, <2>2
<1> QED BY <1>1, <1>4 DEF f

-----------------------------------------------------------------------------
(***************************************************************************)
(* Between the GUI thread and the file.                                    *)
(***************************************************************************)
Mailboxes == [closing: BOOLEAN, data: {None} \union Documents]

\* A change leaves its document in the mailbox: what was to be stored still is.
LEMMA ChangeStores ==
  ASSUME Types, DiskInv, NEW h, NEW g, NEW u, Held(h), Grown(h, g), Storing(h, mailbox, u)
  PROVE  Left(mailbox, h, g.doc) \in Mailboxes /\ Storing(g, Left(mailbox, h, g.doc), u)
<1>1. mailbox \in Mailboxes /\ g \in Histories /\ h \in Histories
  BY DEF Types, StoreTypes, Mailboxes, Held, Grown
<1>2. h.doc \in Documents /\ g.doc \in Documents /\ h.doc.stamp \in Nat /\ g.doc.stamp \in Nat
  BY <1>1, DocumentParts DEF Histories
<1>3. CASE g = h
  <2>1. Left(mailbox, h, g.doc) = mailbox
    BY <1>2, <1>3 DEF Left
  <2> QED BY <1>1, <1>3, <2>1
<1>4. CASE h.ready /\ g.doc.stamp > h.doc.stamp
  <2> DEFINE box == Left(mailbox, h, g.doc)
  <2>1. box \in Mailboxes /\ box.data = g.doc /\ g.doc # None
    BY <1>1, <1>2, <1>4, Constants DEF Left, Mailboxes
  <2>2. g.ready /\ g.error = h.error /\ SaveOK(h, mailbox, u)
    BY <1>4 DEF Grown, Storing
  <2> HIDE DEF box
  <2>3. file \in Documents => file.stamp \in Nat
    BY DocumentParts
  <2>4. Saving /\ worker.writable => worker.job.stamp <= h.doc.stamp
    BY <2>2 DEF SaveOK
  <2>5. worker.job \in {None} \union Documents
    BY DEF Types, StoreTypes, Workers
  <2>6. worker.job \in Documents => worker.job.stamp \in Nat
    BY DocumentParts
  <2>7. worker.writable =>
          /\ file \in Documents =>
               /\ file.stamp <= h.doc.stamp
               /\ Saving => file.stamp < worker.job.stamp
    BY <2>2 DEF SaveOK
  <2>8. Saving /\ worker.writable => worker.job \in Documents
    BY DEF DiskInv, Saving
  <2>9. SaveOK(g, box, u)
    <3>1. /\ worker.pc \in {"wait", "save", "persist", "gone"}
          /\ \A i \in DOMAIN u : u[i].kind = "saved"
          /\ ~worker.writable => u = << >> /\ g.error = "load"
      BY <2>2 DEF SaveOK
    <3>2. file \in Documents /\ worker.writable =>
            /\ file.stamp < g.doc.stamp
            /\ Saving => file.stamp < worker.job.stamp
      BY <2>3, <2>7, <1>2, <1>4
    <3>3. Saving /\ worker.writable => worker.job.stamp < g.doc.stamp
      BY <2>4, <2>6, <2>8, <1>2, <1>4
    <3>4. file \in Documents /\ worker.writable => file.stamp <= g.doc.stamp
      BY <3>2, <2>3, <1>2
    <3>5. Saving /\ worker.writable => worker.job.stamp <= g.doc.stamp
      BY <3>3, <2>6, <2>8, <1>2
    <3> QED BY <2>1, <3>1, <3>2, <3>3, <3>4, <3>5 DEF SaveOK
  <2> QED BY <2>1, <2>2, <2>9 DEF Storing, box
<1> QED BY <1>3, <1>4 DEF Grown

\* Draining the queue brings the document, or the error of the last answer.
LEMMA DrainIs ==
  ASSUME Types, DiskInv, Storing(history, mailbox, updates)
  PROVE  /\ Held(history) /\ Held(Drained(history))
         /\ Storing(Drained(history), mailbox, << >>)
         /\ history.ready => Drained(history).ready /\ Drained(history).doc = history.doc
         /\ ~Drained(history).ready => Drained(history) = history
<1> DEFINE h == history
           d == Drained(history)
           last == updates[Len(updates)]
<1>1. h \in Histories /\ Held(h) /\ h.doc \in Documents
  BY DEF Types, StoreTypes, DiskInv, Held, Histories
<1>2. CASE updates = << >>
  BY <1>1, <1>2 DEF Drained
<1>3. CASE updates # << >>
  <2>1. /\ d.ready = TRUE /\ d.doc = (IF h.ready THEN h.doc ELSE DocumentOf(updates[1]))
        /\ d.error = ErrorAfter(last, h.error)
    BY <1>3 DEF Drained
  <2>2. /\ updates \in Seq(Updates) /\ Len(updates) \in Nat \ {0} /\ DOMAIN updates = 1..Len(updates)
        /\ last \in Updates /\ updates[1] \in Updates
    BY <1>3 DEF Types, StoreTypes
  <2>3. d.error \in {"", "load", "save"}
    BY <1>1, <2>1, <2>2 DEF ErrorAfter, Updates, Histories
  <2>4. d = [ready |-> TRUE, doc |-> d.doc, error |-> d.error]
    BY <1>3 DEF Drained
  <2> HIDE DEF d
  <2>5. CASE h.ready
    <3>1. d \in Histories /\ Held(d)
      BY <1>1, <2>1, <2>3, <2>4, <2>5 DEF Held, Histories
    <3>2. SaveOK(h, mailbox, updates)
      BY <2>5 DEF Storing
    <3>3. d.error = ToldAfter(h, updates) /\ ToldAfter(d, << >>) = d.error /\ worker.writable
      BY <3>2, <2>1, <1>3 DEF ToldAfter, SaveOK
    <3>4. SaveOK(d, mailbox, << >>)
      <4>1. /\ worker.pc \in {"wait", "save", "persist", "gone"}
            /\ mailbox.data # None => mailbox.data = d.doc
        BY <3>2, <2>1, <2>5 DEF SaveOK
      <4>2. \A i \in DOMAIN << >> : << >>[i].kind = "saved"
        OBVIOUS
      <4>3. /\ mailbox.data = None /\ Saving => worker.job = d.doc
            /\ mailbox.data = None /\ ~Saving => ToldAfter(d, << >>) # "" \/ FileIs(d.doc)
        BY <3>2, <3>3, <2>1, <2>5 DEF SaveOK
      <4>4. /\ file \in Documents =>
                 /\ file.stamp <= d.doc.stamp
                 /\ mailbox.data # None => file.stamp < d.doc.stamp
                 /\ Saving => file.stamp < worker.job.stamp
            /\ Saving => worker.job.stamp <= d.doc.stamp
            /\ Saving /\ mailbox.data # None => worker.job.stamp < d.doc.stamp
        BY <3>2, <3>3, <2>1, <2>5 DEF SaveOK
      <4> QED BY <4>1, <4>2, <4>3, <4>4, <3>3 DEF SaveOK
    <3> QED BY <1>1, <2>1, <2>5, <3>1, <3>4 DEF Storing, d
  <2>6. CASE ~h.ready
    <3>1. LoadOK(h, mailbox, updates)
      BY <2>6 DEF Storing
    <3>2. /\ h = Loading /\ mailbox.data = None /\ worker.pc \in {"wait", "gone"}
          /\ Len(updates) = 1 /\ updates[1].kind = "loaded" /\ worker.writable = updates[1].ok
          /\ updates[1].ok => /\ updates[1].doc \in Documents /\ Sound(updates[1].doc)
                              /\ FileIs(updates[1].doc)
      BY <3>1, <1>3 DEF LoadOK
    <3>3. /\ d.doc \in Documents /\ Sound(d.doc)
          /\ worker.writable => FileIs(d.doc)
          /\ d.error = IF worker.writable THEN "" ELSE "load"
      BY <3>2, <2>1, <2>6, BlankIs DEF DocumentOf, ErrorAfter, Loading
    <3>4. d \in Histories /\ Held(d)
      BY <2>1, <2>3, <2>4, <3>3 DEF Held, Histories
    <3>5. ~Saving /\ d.doc.stamp \in Nat
      BY <3>2, <3>3, DocumentParts DEF Saving
    <3>6. worker.writable /\ file \in Documents => file = d.doc
      BY <3>3, Constants DEF FileIs
    <3>7. SaveOK(d, mailbox, << >>)
      <4>1. (\A i \in DOMAIN << >> : << >>[i].kind = "saved") /\ ToldAfter(d, << >>) = d.error
        BY DEF ToldAfter
      <4>2. worker.writable /\ file \in Documents => file.stamp <= d.doc.stamp
        BY <3>5, <3>6
      <4> QED BY <4>1, <4>2, <3>2, <3>3, <3>5 DEF SaveOK
    <3> QED BY <1>1, <2>1, <2>6, <3>4, <3>7 DEF Storing, d
  <2> QED BY <2>5, <2>6
<1> QED BY <1>2, <1>3

-----------------------------------------------------------------------------
(***************************************************************************)
(* The pipeline and the session.                                           *)
(***************************************************************************)
LEMMA PositionsAre ==
  /\ Last \in Nat /\ 0 \in Positions /\ Last \in Positions
  /\ \A p \in Positions : p \in Nat /\ p <= Last
  /\ \A p \in Nat : p <= Last => p \in Positions
  /\ None \notin Positions
<1>1. Last \in Nat
  BY Constants
<1>2. None \notin Positions
  BY Constants
<1> QED BY ONLY <1>1, <1>2 DEF Positions

LEMMA MediaParts ==
  ASSUME NEW m \in Medias
  PROVE  /\ m.what \in Recordings \union Services \union {None}
         /\ m.phase \in {"stopped", "connecting", "playing", "paused", "seeking", "ended", "stop failed"}
         /\ m.position \in Positions \union {None} /\ m.target \in Positions \union {None}
         /\ m.ranged \in BOOLEAN
BY DEF Medias

LEMMA OnwardIs ==
  ASSUME NEW m \in Medias, MediaSound(m), NEW x \in Onward(m)
  PROVE  /\ x \in Medias /\ MediaSound(x) /\ x.what = m.what
         /\ m.ranged => x.ranged
         /\ m.phase = "stop failed" => x = m
         /\ m.ranged \/ m.phase = "stop failed" =>
              \A p \in Positions : From(m, p) => From(x, p)
<1> USE MediaParts
<1> USE PositionsAre
<1>0. m.ranged \in BOOLEAN
  BY MediaParts
<1>1. CASE x = m
  BY <1>1
<1>2. CASE m.phase = "connecting" /\ x = [m EXCEPT !.phase = "playing"]
  BY <1>2 DEF Medias, MediaSound, From
<1>3. CASE m.phase = "playing" /\ m.position = None /\ x = [m EXCEPT !.position = 0]
  BY <1>3 DEF Medias, MediaSound, From
<1>4. CASE /\ m.phase = "playing" /\ m.position = None
           /\ x = [m EXCEPT !.position = 0, !.ranged = TRUE]
  BY <1>4 DEF Medias, MediaSound, From
<1>5. CASE m.phase = "playing" /\ m.position # None /\ ~m.ranged /\ x = [m EXCEPT !.ranged = TRUE]
  BY <1>5 DEF Medias, MediaSound, From
<1>6. CASE /\ m.phase = "playing" /\ m.position # None /\ m.ranged /\ m.position < Last
           /\ x = [m EXCEPT !.position = @ + 1]
  <2>0. m.position \in Nat /\ m.position + 1 \in Nat /\ m.position + 1 <= Last
    <3>1. m.position \in Positions
      BY <1>6, MediaParts
    <3>2. m.position \in Nat /\ m.position < Last
      BY <3>1, <1>6, PositionsAre
    <3>3. Last \in Nat
      BY PositionsAre
    <3> QED BY ONLY <3>2, <3>3
  <2>1. m.position \in Nat /\ m.position + 1 \in Positions /\ x.position = m.position + 1
    BY <2>0, <1>6 DEF Medias
  <2>2. x \in Medias /\ x.what = m.what /\ x.phase = "playing" /\ x.ranged = m.ranged
    BY <1>6, <2>1 DEF Medias
  <2>3. MediaSound(x) /\ x.position # None
    BY <1>6, <2>1, <2>2 DEF MediaSound
  <2>4. ASSUME NEW p \in Positions, From(m, p) PROVE From(x, p)
    <3>1. p <= m.position
      BY <1>6, <2>4 DEF From
    <3>2. p <= x.position
      BY ONLY <3>1, <2>0, <2>1, p \in Nat
    <3> QED BY <3>2, <2>2, <2>3 DEF From
  <2> QED BY <1>6, <2>2, <2>3, <2>4
<1>7. CASE m.phase = "playing" /\ m.position # None /\ m.ranged /\ x = [m EXCEPT !.phase = "ended"]
  BY <1>7 DEF Medias, MediaSound, From
<1>8. CASE /\ m.phase = "seeking"
           /\ x = [m EXCEPT !.phase = "playing", !.position = m.target, !.target = None]
  BY <1>8 DEF Medias, MediaSound, From
<1>9. CASE m.phase = "connecting"
  <2>1. Onward(m) = {m, [m EXCEPT !.phase = "playing"]}
    BY ONLY <1>9 DEF Onward
  <2> QED BY <2>1, <1>1, <1>2, <1>9
<1>10. CASE m.phase = "seeking"
  <2>1. Onward(m) = {m, [m EXCEPT !.phase = "playing", !.position = m.target, !.target = None]}
    BY ONLY <1>10 DEF Onward
  <2> QED BY <2>1, <1>1, <1>8, <1>10
<1>11. CASE m.phase = "playing" /\ m.what \in Recordings
  <2>1. Onward(m) = {m} \union PlayedOn(m)
    BY ONLY <1>11 DEF Onward, IsFile
  <2> QED BY <2>1, <1>1, <1>3, <1>4, <1>5, <1>6, <1>7, <1>11 DEF PlayedOn
<1>12. CASE /\ m.phase \notin {"connecting", "seeking"}
            /\ ~(m.phase = "playing" /\ m.what \in Recordings)
  <2>1. Onward(m) = {m}
    BY ONLY <1>12 DEF Onward, IsFile
  <2> QED BY <2>1, <1>1
<1> QED BY <1>9, <1>10, <1>11, <1>12

LEMMA SampleIs ==
  ASSUME NEW s \in Sessions, NEW m \in Medias, MediaSound(m)
  PROVE  LET t == Sample(s, Confirmed(m), Seeking(m)) IN
         /\ t \in Sessions /\ t.source = s.source
         /\ s.resume = "Waiting" => t = s
         /\ s.resume # "Waiting" => t.resume # "Waiting"
         /\ s.resume # "Waiting" /\ Seeking(m) => t = s
         /\ s.resume # "Waiting" /\ ~Seeking(m) =>
              /\ t.resume = "Running"
              /\ t.latest = IF Confirmed(m) = None THEN s.latest ELSE Confirmed(m)
<1>1. Confirmed(m) \in Positions \union {None}
  BY MediaParts, PositionsAre DEF Confirmed
<1> QED BY <1>1 DEF Sample, Sessions

\* A sample and a save leave the session on its track, and the stored position
\* does not go back.
Behind(h, g, r) ==
  LET p == Position(h.doc, r)
      q == Position(g.doc, r)
  IN  p # None /\ q # None /\ q < p

NotBack(h, g, r) == Behind(h, g, r) => Watched(Position(h.doc, r))

LEMMA SampledOnTrack ==
  ASSUME NEW h, Held(h), h.ready, NEW s \in Sessions, NEW m \in Medias, MediaSound(m),
         m.what = s.source, m.ranged \/ m.phase = "stop failed",
         s.resume # "Waiting", OnTrack(h, m, s), NEW due
  PROVE  LET t == Sample(s, Confirmed(m), Seeking(m))
             g == SavedSession(h, t, due)
         IN  OnTrack(g, m, t) /\ NotBack(h, g, s.source)
<1> DEFINE t == Sample(s, Confirmed(m), Seeking(m))
           g == SavedSession(h, t, due)
           p == Position(h.doc, s.source)
           q == Position(g.doc, s.source)
<1>0. None \notin Positions /\ \A a \in Positions : a \in Nat /\ a <= Last
  BY PositionsAre
<1>1. /\ t \in Sessions /\ t.source = s.source
      /\ Seeking(m) => t = s
      /\ ~Seeking(m) => /\ t.resume = "Running"
                        /\ t.latest = IF Confirmed(m) = None THEN s.latest ELSE Confirmed(m)
  BY SampleIs
<1> HIDE DEF t
<1>2. t.latest \in Positions \union {None} /\ s.latest \in Positions \union {None}
  BY <1>1 DEF Sessions
<1>3. h \in Histories /\ h.doc \in Documents /\ Sound(h.doc)
  BY DEF Held, Histories
<1>4. p \in Positions \union {None}
  BY <1>3, PositionIs
<1>5. OnTrack(h, m, t)
  <2>1. CASE Seeking(m)
    BY <1>1, <2>1
  <2>2. CASE ~Seeking(m) /\ Confirmed(m) = None
    BY <1>1, <2>2 DEF OnTrack
  <2>3. CASE ~Seeking(m) /\ Confirmed(m) # None
    <3>1. t.resume = "Running" /\ t.latest = Confirmed(m)
      BY <1>1, <2>3
    <3>2. m.phase # "paused" /\ m.phase # "seeking" /\ Active(m) /\ m.ranged
      <4>1. m.what \in Recordings
        BY DEF Sessions
      <4> QED BY <4>1, <2>3, Constants DEF MediaSound, Seeking, Confirmed
    <3>3. CASE m.phase = "ended"
      <4>1. Confirmed(m) = Last
        BY <2>3, <3>3 DEF Confirmed
      <4> QED BY <3>1, <3>3, <4>1, <1>0, <1>1, <1>4 DEF OnTrack, From
    <3>4. CASE m.phase = "playing"
      <4>1. Confirmed(m) = m.position /\ m.position \in Positions
        BY <2>3, <3>4, MediaParts DEF Confirmed
      <4>2. p # None /\ ~Watched(p) => p <= m.position
        BY <3>4 DEF OnTrack, From
      <4>3. From(m, m.position) /\ (p # None /\ ~Watched(p) => From(m, p))
        BY <3>4, <4>1, <1>0 DEF OnTrack, From
      <4> QED BY <3>1, <4>1, <4>2, <4>3, <1>1 DEF OnTrack
    <3> QED BY <3>2, <3>3, <3>4 DEF Active
  <2> QED BY <2>1, <2>2, <2>3
<1>6. q = p \/ (t.latest # None /\ q = t.latest)
  <2>1. \/ Position(g.doc, t.source) = Position(h.doc, t.source)
        \/ t.latest # None /\ Position(g.doc, t.source) = t.latest
    BY <1>1, SavedSessionIs
  <2> QED BY <2>1, <1>1
<1> HIDE DEF g
<1>7. OnTrack(g, m, t)
  <2>1. CASE q = p
    BY <2>1, <1>1, <1>5 DEF OnTrack
  <2>2. CASE t.latest # None /\ q = t.latest
    <3>1. Position(g.doc, t.source) = t.latest /\ t.latest \in Nat
      BY <2>2, <1>0, <1>1, <1>2
    <3>2. From(m, t.latest) /\ (t.resume = "Seeking" => t.latest = None)
      BY <2>2, <1>5 DEF OnTrack
    <3>3. t.latest <= t.latest
      BY ONLY <3>1
    <3> QED BY ONLY <3>1, <3>2, <3>3 DEF OnTrack, Watched
  <2> QED BY <2>1, <2>2, <1>6
<1>8. NotBack(h, g, s.source)
  <2>1. CASE q = p
    <3>1. p # None => p \in Nat
      BY <1>0, <1>4
    <3> QED BY ONLY <3>1, <2>1 DEF NotBack, Behind, Watched
  <2>2. CASE t.latest # None /\ q = t.latest
    <3>1. p # None /\ ~Watched(p) => p <= q
      BY <2>2, <1>1, <1>5 DEF OnTrack
    <3>2. (p # None => p \in Nat) /\ q \in Nat
      BY <2>2, <1>0, <1>2, <1>4
    <3> QED BY ONLY <3>1, <3>2 DEF NotBack, Behind, Watched
  <2> QED BY <2>1, <2>2, <1>6
<1> QED BY <1>7, <1>8 DEF g, t

\* The position of a recording depends on the list of recordings only.
LEMMA SamePosition ==
  ASSUME NEW c, NEW d, c.recordings = d.recordings, NEW r
  PROVE  Position(c, r) = Position(d, r)
BY DEF Position, Row

\* A tick of the pipeline, a drained queue and a noted service change nothing of it.
LEMMA Onwards ==
  ASSUME NEW m \in Medias, MediaSound(m), NEW x \in Onward(m),
         NEW s \in Sessions, NEW t,
         NEW h, Held(h), NEW n, h.ready => n.ready /\ n.doc.recordings = h.doc.recordings,
         SessionInv(h, m, s), ProgressInv(h, m, s, t)
  PROVE  SessionInv(n, x, s) /\ ProgressInv(n, x, s, t)
<1>1. /\ m.ranged => x.ranged
      /\ m.phase = "stop failed" => x = m
      /\ m.ranged \/ m.phase = "stop failed" =>
           \A p \in Positions : From(m, p) => From(x, p)
  BY OnwardIs
<1>2. SessionInv(n, x, s)
  BY <1>1 DEF SessionInv
<1>3. ASSUME ~t, s.resume # "Waiting" PROVE OnTrack(n, x, s)
  <2>1. h.ready /\ (m.ranged \/ m.phase = "stop failed") /\ OnTrack(h, m, s)
    BY <1>3 DEF SessionInv, ProgressInv
  <2>2. \A p \in Positions : From(m, p) => From(x, p)
    BY <1>1, <2>1
  <2>3. Position(n.doc, s.source) = Position(h.doc, s.source)
    BY <2>1, SamePosition
  <2>4. Position(h.doc, s.source) \in Positions \union {None}
    BY <2>1, PositionIs DEF Held, Histories
  <2>5. s.latest \in Positions \union {None}
    BY DEF Sessions
  <2> QED BY <2>1, <2>2, <2>3, <2>4, <2>5 DEF OnTrack
<1> QED BY <1>2, <1>3 DEF ProgressInv

LEMMA SessionParts ==
  ASSUME NEW s \in Sessions
  PROVE  /\ s.source \in Recordings /\ s.resume \in {"Waiting", "Seeking", "Running"}
         /\ s.latest \in Positions \union {None}
         /\ \A v \in {"Waiting", "Seeking", "Running"} :
              LET c == [s EXCEPT !.resume = v]
              IN  c \in Sessions /\ c.resume = v /\ c.source = s.source /\ c.latest = s.latest
BY DEF Sessions

\* What holds after the session was sampled and saved, whatever came before.
AfterSample(h, s, m, t, g, u) ==
  /\ Grown(h, g) /\ u \in Sessions /\ u.source = s.source
  /\ SessionInv(g, m, u) /\ ProgressInv(g, m, u, t)
  /\ h.ready => \A o \in Recordings :
       Behind(h, g, o) => o = s.source /\ (t \/ Watched(Position(h.doc, o)))
  /\ h.ready => \A e \in Elements(g.doc.recordings) :
       \/ \E o \in Elements(h.doc.recordings) : o.key = e.key /\ o.source = e.source
       \/ e.key > h.doc.nextKey

LEMMA Sampled ==
  ASSUME NEW h, Held(h), NEW s \in Sessions, NEW m \in Medias, MediaSound(m),
         m.what = s.source, NEW t, SessionInv(h, m, s), ProgressInv(h, m, s, t), NEW due
  PROVE  LET u == Sample(s, Confirmed(m), Seeking(m))
         IN  AfterSample(h, s, m, t, SavedSession(h, u, due), u)
<1> DEFINE u == Sample(s, Confirmed(m), Seeking(m))
           g == SavedSession(h, u, due)
<1>1. /\ u \in Sessions /\ u.source = s.source
      /\ s.resume = "Waiting" => u = s
      /\ s.resume # "Waiting" => u.resume # "Waiting"
  BY SampleIs
<1>2. CASE s.resume = "Waiting"
  <2>1. u = s /\ s.latest = None
    BY <1>1, <1>2 DEF SessionInv
  <2>2. g = h
    BY <2>1 DEF SavedSession
  <2>3. Grown(h, g) /\ SessionInv(g, m, u) /\ ProgressInv(g, m, u, t)
    BY <2>1, <2>2, <1>2, GrownSelf DEF ProgressInv
  <2>4. ASSUME h.ready, NEW o PROVE ~Behind(h, g, o)
    <3>1. Position(h.doc, o) \in Positions \union {None}
      BY <2>4, PositionIs DEF Held, Histories
    <3>2. Position(h.doc, o) # None => Position(h.doc, o) \in Nat
      BY <3>1, PositionsAre
    <3> QED BY ONLY <3>2, <2>2 DEF Behind
  <2> QED BY <1>1, <2>2, <2>3, <2>4 DEF AfterSample
<1>3. CASE s.resume # "Waiting"
  <2>1. h.ready /\ (m.ranged \/ m.phase = "stop failed")
    BY <1>3 DEF SessionInv
  <2>2. /\ Grown(h, g)
        /\ \A o \in Recordings \ {u.source} : Position(g.doc, o) \in {Position(h.doc, o), None}
        /\ \A e \in Elements(g.doc.recordings) :
             \/ \E o \in Elements(h.doc.recordings) : o.key = e.key /\ o.source = e.source
             \/ e.key > h.doc.nextKey
    BY <1>1, <2>1, SavedSessionIs
  <2>3. ~t => OnTrack(g, m, u) /\ NotBack(h, g, s.source)
    BY <1>3, <2>1, SampledOnTrack DEF ProgressInv
  <2> HIDE DEF u, g
  <2>4. SessionInv(g, m, u) /\ ProgressInv(g, m, u, t)
    BY <1>1, <1>3, <2>1, <2>2, <2>3 DEF SessionInv, ProgressInv, Grown
  <2>5. ASSUME NEW o \in Recordings \ {s.source} PROVE ~Behind(h, g, o)
    <3>1. Position(h.doc, o) \in Positions \union {None}
      BY <2>1, PositionIs DEF Held, Histories
    <3>2. Position(h.doc, o) # None => Position(h.doc, o) \in Nat
      BY <3>1, PositionsAre
    <3>3. Position(g.doc, o) \in {Position(h.doc, o), None}
      BY <1>1, <2>2, <2>5
    <3> QED BY ONLY <3>2, <3>3 DEF Behind
  <2>6. ASSUME NEW o \in Recordings, Behind(h, g, o)
        PROVE  o = s.source /\ (t \/ Watched(Position(h.doc, o)))
    BY <2>3, <2>5, <2>6 DEF NotBack
  <2> QED BY <1>1, <2>2, <2>4, <2>6 DEF AfterSample, g, u
<1> QED BY <1>2, <1>3

\* The session is polled: it decides, it is sampled and it is saved.
LEMMA PollRecordingIs ==
  ASSUME session \in Sessions, turned \in BOOLEAN,
         NEW h, Held(h), NEW m \in Medias, MediaSound(m), Active(m), m.what = session.source,
         SessionInv(h, m, session), ProgressInv(h, m, session, turned),
         NEW refused \in BOOLEAN, NEW due
  PROVE  LET r == PollRecording(h, m, refused, due) IN
         /\ r.media \in Medias /\ MediaSound(r.media) /\ r.media.what = m.what
         /\ r.turned \in BOOLEAN /\ (turned => r.turned)
         /\ AfterSample(h, session, r.media, r.turned, r.history, r.session)
<1> DEFINE r == PollRecording(h, m, refused, due)
           decides == m.ranged /\ ~Seeking(m) /\ session.resume = "Waiting" /\ h.ready
           target  == IF decides THEN ResumeTarget(h, session) ELSE None
           decided == IF decides THEN Decided(h, session) ELSE session
           chosen  == IF target # None /\ refused THEN [decided EXCEPT !.resume = "Running"] ELSE decided
           moved   == IF target # None /\ ~refused THEN Sought(m, target) ELSE m
           now     == turned \/ (target # None /\ refused)
           u       == Sample(chosen, Confirmed(moved), Seeking(moved))
           p       == Position(h.doc, session.source)
<1>0. /\ r.media = moved /\ r.session = u /\ r.turned = now
      /\ r.history = SavedSession(h, u, due \/ moved.phase = "ended")
  BY DEF PollRecording
<1>1. now \in BOOLEAN /\ (turned => now)
  OBVIOUS
<1>2. /\ chosen \in Sessions /\ chosen.source = session.source
      /\ moved \in Medias /\ MediaSound(moved) /\ moved.what = m.what
      /\ SessionInv(h, moved, chosen) /\ ProgressInv(h, moved, chosen, now)
  <2>1. CASE ~decides
    <3>1. target = None /\ chosen = session /\ moved = m /\ now = turned
      BY <2>1
    <3> QED BY ONLY <3>1, session \in Sessions, m \in Medias, MediaSound(m),
         SessionInv(h, m, session), ProgressInv(h, m, session, turned)
  <2>2. CASE decides
    <3>1. /\ m.ranged /\ ~Seeking(m) /\ session.resume = "Waiting" /\ h.ready
          /\ session.latest = None /\ session.source \in Recordings
          /\ target = ResumeTarget(h, session)
      BY <2>2, SessionParts DEF SessionInv
    <3>2. p \in Positions \union {None}
      BY <3>1, PositionIs DEF Held, Histories
    <3>3. m.phase \in {"playing", "paused", "ended"}
      BY <3>1 DEF Active, Seeking
    <3>4. CASE target = None
      <4>1. chosen = [session EXCEPT !.resume = "Running"] /\ moved = m /\ now = turned
        BY <2>2, <3>1, <3>4 DEF Decided
      <4> DEFINE c == [session EXCEPT !.resume = "Running"]
      <4>c. /\ c \in Sessions /\ c.source = session.source
            /\ c.resume = "Running" /\ c.latest = None
        BY <3>1 DEF Sessions
      <4>2. /\ chosen \in Sessions /\ chosen.source = session.source
            /\ chosen.resume = "Running" /\ chosen.latest = None
        BY ONLY <4>1, <4>c
      <4>3. SessionInv(h, moved, chosen)
        BY <3>1, <4>1, <4>2 DEF SessionInv
      <4>4. p # None /\ ~Watched(p) => From(m, p)
        <5>1. p # None => p \in Nat /\ ~Resumable(p)
          BY <3>1, <3>2, <3>4, PositionsAre DEF ResumeTarget
        <5>2. m.position # None /\ m.position \in Nat
          BY <3>1, MediaParts, PositionsAre DEF MediaSound
        <5> QED BY ONLY <5>1, <5>2, <3>3 DEF Resumable, From
      <4>5. ProgressInv(h, moved, chosen, now)
        BY <4>1, <4>2, <4>4 DEF ProgressInv, OnTrack
      <4> QED BY <4>1, <4>2, <4>3, <4>5
    <3>5. CASE target # None /\ refused
      <4>1. chosen.resume = "Running" /\ chosen \in Sessions /\ chosen.source = session.source
            /\ chosen.latest = None /\ moved = m /\ now
        BY <2>2, <3>1, <3>5, SessionParts DEF Decided, Sessions
      <4>2. SessionInv(h, moved, chosen) /\ ProgressInv(h, moved, chosen, now)
        BY <3>1, <4>1 DEF SessionInv, ProgressInv
      <4> QED BY <4>1, <4>2
    <3>6. CASE target # None /\ ~refused
      <4>1. chosen = [session EXCEPT !.resume = "Seeking"] /\ moved = Sought(m, target)
        BY <2>2, <3>1, <3>6 DEF Decided
      <4> DEFINE c == [session EXCEPT !.resume = "Seeking"]
      <4>c. /\ c \in Sessions /\ c.source = session.source
            /\ c.resume = "Seeking" /\ c.latest = None
        BY <3>1 DEF Sessions
      <4>2. /\ chosen \in Sessions /\ chosen.source = session.source
            /\ chosen.resume = "Seeking" /\ chosen.latest = None
        BY ONLY <4>1, <4>c
      <4>3. target = p /\ p \in Positions
        BY <3>1, <3>2, <3>6 DEF ResumeTarget
      <4> HIDE DEF target, chosen
      <4>4. /\ moved \in Medias /\ moved.what = m.what /\ moved.phase = "seeking"
            /\ moved.target = p /\ moved.ranged /\ moved.position = m.position
        BY <3>1, <4>1, <4>3, MediaParts, ZenonT(60) DEF Sought, Medias
      <4> HIDE DEF moved
      <4>5. MediaSound(moved)
        BY <3>1, <4>3, <4>4, PositionsAre DEF MediaSound
      <4>6. SessionInv(h, moved, chosen)
        BY <3>1, <4>2, <4>4 DEF SessionInv
      <4>7. p <= p
        <5>1. p \in Nat
          BY <4>3, PositionsAre
        <5> QED BY ONLY <5>1
      <4>8. From(moved, p)
        BY <4>4, <4>7 DEF From
      <4>9. ProgressInv(h, moved, chosen, now)
        BY <4>2, <4>8 DEF ProgressInv, OnTrack
      <4> QED BY <4>2, <4>4, <4>5, <4>6, <4>9
    <3> QED BY <3>4, <3>5, <3>6
  <2> QED BY <2>1, <2>2
<1> HIDE DEF chosen, moved, now
<1>3. AfterSample(h, chosen, moved, now, SavedSession(h, u, due \/ moved.phase = "ended"), u)
  BY <1>1, <1>2, Sampled
<1>4. AfterSample(h, session, moved, now, SavedSession(h, u, due \/ moved.phase = "ended"), u)
  BY <1>2, <1>3 DEF AfterSample
<1> QED BY <1>0, <1>1, <1>2, <1>4

\* A last sample and save of the session, if there is one.
LEMMA ForcedIs ==
  ASSUME HistoryInv
  PROVE  /\ Held(history) /\ Grown(history, Forced.history)
         /\ session = None => Forced.session = None /\ Forced.history = history
         /\ session # None =>
              AfterSample(history, session, media, turned, Forced.history, Forced.session)
<1>1. Held(history)
  BY DEF HistoryInv, StoreInv, Types, StoreTypes, DiskInv, Held
<1>2. CASE session = None
  BY <1>1, <1>2, GrownSelf DEF Forced
<1>3. CASE session # None
  <2> DEFINE u == Sample(session, Confirmed(media), Seeking(media))
  <2>1. /\ session \in Sessions /\ media \in Medias /\ MediaSound(media)
        /\ media.what = session.source
        /\ SessionInv(history, media, session) /\ ProgressInv(history, media, session, turned)
    BY <1>3 DEF HistoryInv, PlayInv, Types, PlayTypes, MediaInv
  <2>2. Forced.session = u /\ Forced.history = SavedSession(history, u, TRUE)
    BY <1>3 DEF Forced
  <2>3. AfterSample(history, session, media, turned, SavedSession(history, u, TRUE), u)
    BY <1>1, <2>1, Sampled
  <2> QED BY <1>1, <1>3, <2>2, <2>3 DEF AfterSample
<1> QED BY <1>2, <1>3

-----------------------------------------------------------------------------
(***************************************************************************)
(* The steps of the worker.                                                *)
(***************************************************************************)
\* The parts of the invariant a worker's step can disturb.
Stored == StoreTypes /\ StoreInv

LEMMA FailsIs == ASSUME faults \in 0..MaxFaults, Works \/ Fails PROVE faults' \in 0..MaxFaults
BY BoundsAssumption DEF Works, Fails

LEMMA LoadStores == ASSUME Stored, WorkerLoad PROVE Stored'
<1> USE DEF Stored, StoreInv
<1>1. worker.pc = "load" /\ worker \in Workers /\ worker' \in Workers /\ worker'.pc = "wait"
  BY DEF WorkerLoad, StoreTypes, Workers
<1>2. /\ history = Loading /\ mailbox.data = None /\ updates = << >> /\ ~history.ready
  BY <1>1 DEF Storing, SaveOK, LoadOK, Loading
<1>3. UNCHANGED << file, flushed, temp, mailbox, history >> /\ faults' \in 0..MaxFaults
  BY FailsIs DEF WorkerLoad, Fails, Works, StoreTypes
<1>4. \E ok \in BOOLEAN, d \in {None} \union Documents :
        /\ updates' = << Loaded(ok, d) >> /\ worker'.writable = ok
        /\ ok => d \in Documents /\ Sound(d) /\ FileIs(d) /\ file # Broken
  <2>1. CASE /\ file # Broken
             /\ updates' = Append(updates, Loaded(TRUE, IF file = Absent THEN Blank ELSE file))
             /\ worker' = [worker EXCEPT !.pc = "wait", !.writable = TRUE]
    <3> DEFINE d == IF file = Absent THEN Blank ELSE file
    <3>1. d \in Documents /\ Sound(d) /\ FileIs(d)
      BY <2>1, BlankIs DEF StoreTypes, DiskInv, FileIs
    <3>2. updates' = << Loaded(TRUE, d) >> /\ worker'.writable = TRUE
      BY <2>1, <1>1, <1>2 DEF Workers
    <3> HIDE DEF d
    <3> QED BY <3>1, <3>2, <2>1
  <2>2. CASE /\ updates' = Append(updates, Loaded(FALSE, None))
             /\ worker' = [worker EXCEPT !.pc = "wait", !.writable = FALSE]
    <3>1. updates' = << Loaded(FALSE, None) >> /\ worker'.writable = FALSE
      BY <2>2, <1>1, <1>2 DEF Workers
    <3> QED BY <3>1
  <2> QED BY <2>1, <2>2 DEF WorkerLoad
<1>5. PICK ok \in BOOLEAN, d \in {None} \union Documents :
        /\ updates' = << Loaded(ok, d) >> /\ worker'.writable = ok
        /\ ok => d \in Documents /\ Sound(d) /\ FileIs(d) /\ file # Broken
  BY <1>4
<1>6. Loaded(ok, d) \in Updates
  BY DEF Loaded, Updates
<1>7. updates' \in Seq(Updates) /\ Len(updates') = 1 /\ updates'[1] = Loaded(ok, d)
  BY <1>5, <1>6
<1>8. LoadOK(history, mailbox, updates)'
  BY <1>1, <1>2, <1>3, <1>5, <1>7 DEF LoadOK, Loaded, FileIs
<1>9. DiskInv'
  BY <1>1, <1>2, <1>3, <1>5 DEF DiskInv
<1> QED BY <1>1, <1>2, <1>3, <1>7, <1>8, <1>9 DEF StoreTypes, Storing

LEMMA TurnIs ==
  ASSUME NEW w \in Workers
  PROVE  /\ Turn(w) \in Workers /\ Turn(w).pc \in {"wait", "gone"} /\ Turn(w).job = None
         /\ Turn(w).writable = w.writable
BY DEF Turn, Workers

LEMMA TakeStores == ASSUME Stored, WorkerTake PROVE Stored'
<1> USE DEF Stored, StoreInv
<1> DEFINE w == [worker EXCEPT !.job = mailbox.data, !.closing = mailbox.closing]
<1>1. /\ worker.pc = "wait" /\ worker \in Workers /\ mailbox \in Mailboxes
      /\ mailbox' = [mailbox EXCEPT !.data = None]
      /\ UNCHANGED << file, flushed, temp, faults, history, updates >>
      /\ worker' = IF w.writable /\ w.job # None THEN [w EXCEPT !.pc = "save"] ELSE Turn(w)
  BY DEF WorkerTake, StoreTypes, Mailboxes
<1>2. /\ w \in Workers /\ w.pc = "wait" /\ w.job = mailbox.data /\ w.writable = worker.writable
      /\ mailbox' \in Mailboxes /\ mailbox'.data = None
  BY <1>1 DEF Workers, Mailboxes
<1> HIDE DEF w
<1>3. CASE w.writable /\ w.job # None
  <2>1. /\ worker' \in Workers /\ worker'.pc = "save" /\ worker'.job = mailbox.data
        /\ worker'.writable /\ worker.writable
    BY <1>1, <1>2, <1>3 DEF Workers
  <2>2. mailbox.data \in Documents /\ mailbox.data # None
    BY <1>1, <1>2, <1>3 DEF Mailboxes
  <2>3. history.ready /\ SaveOK(history, mailbox, updates)
    BY <2>2 DEF Storing, LoadOK
  <2>4. mailbox.data = history.doc
    BY <2>2, <2>3 DEF SaveOK
  <2>5. history.doc.stamp \in Nat /\ history.doc.stamp <= history.doc.stamp
    BY <2>2, <2>4, DocumentParts
  <2>6. SaveOK(history, mailbox, updates)'
    BY <1>1, <1>2, <2>1, <2>2, <2>3, <2>4, <2>5 DEF SaveOK, Saving, ToldAfter
  <2>7. DiskInv'
    BY <1>1, <2>1, <2>2 DEF DiskInv
  <2> QED BY <1>1, <1>2, <2>1, <2>3, <2>6, <2>7 DEF StoreTypes, Storing, Mailboxes
<1>4. CASE ~(w.writable /\ w.job # None)
  <2>1. /\ worker' \in Workers /\ worker'.pc \in {"wait", "gone"}
        /\ worker'.writable = worker.writable
    BY <1>1, <1>2, <1>4, TurnIs
  <2>2. DiskInv'
    BY <1>1, <2>1 DEF DiskInv
  <2>3. CASE history.ready
    <3>1. SaveOK(history, mailbox, updates)
      BY <2>3 DEF Storing
    <3>2. worker.writable => mailbox.data = None
      BY <1>2, <1>4
    <3>3. worker.writable \in BOOLEAN
      BY <1>1 DEF Workers
    <3>4. SaveOK(history, mailbox, updates)'
      BY <1>1, <1>2, <2>1, <3>1, <3>2, <3>3 DEF SaveOK, Saving, ToldAfter, FileIs
    <3> QED BY <1>1, <1>2, <2>1, <2>2, <2>3, <3>4 DEF StoreTypes, Storing, Mailboxes
  <2>4. CASE ~history.ready
    <3>1. LoadOK(history, mailbox, updates)
      BY <2>4 DEF Storing
    <3>2. LoadOK(history, mailbox, updates)'
      BY <1>1, <1>2, <2>1, <3>1 DEF LoadOK, FileIs
    <3> QED BY <1>1, <1>2, <2>1, <2>2, <2>4, <3>2 DEF StoreTypes, Storing, Mailboxes
  <2> QED BY <2>3, <2>4
<1> QED BY <1>3, <1>4

\* A save that fails is told.
LEMMA FailedStores ==
  ASSUME Stored, Saving, Answered(FALSE), faults' \in 0..MaxFaults,
         temp' = "none", UNCHANGED << file, flushed, mailbox, history >>
  PROVE  Stored'
<1> USE DEF Stored, StoreInv
<1>1. /\ history.ready /\ SaveOK(history, mailbox, updates) /\ worker.writable
      /\ worker \in Workers
  BY DEF Saving, Storing, LoadOK, DiskInv, StoreTypes
<1>2. /\ worker' \in Workers /\ worker'.pc \in {"wait", "gone"} /\ worker'.writable = worker.writable
  BY <1>1, TurnIs DEF Answered
<1>3. /\ updates \in Seq(Updates) /\ Saved(FALSE) \in Updates /\ updates' = Append(updates, Saved(FALSE))
  BY DEF Answered, Saved, Updates, StoreTypes
<1>4. /\ updates' \in Seq(Updates) /\ updates' # << >> /\ updates'[Len(updates')] = Saved(FALSE)
      /\ DOMAIN updates' = 1..(Len(updates) + 1) /\ Len(updates) \in Nat
      /\ \A i \in 1..Len(updates) : updates'[i] = updates[i]
      /\ updates'[Len(updates) + 1] = Saved(FALSE) /\ DOMAIN updates = 1..Len(updates)
  <2> DEFINE x == Saved(FALSE)
  <2>1. updates \in Seq(Updates) /\ x \in Updates /\ updates' = Append(updates, x)
    BY <1>3
  <2> HIDE DEF x
  <2>2. /\ updates' \in Seq(Updates) /\ updates' # << >>
        /\ Len(updates) \in Nat /\ DOMAIN updates = 1..Len(updates)
        /\ Len(updates') = Len(updates) + 1 /\ DOMAIN updates' = 1..(Len(updates) + 1)
        /\ \A i \in 1..Len(updates) : updates'[i] = updates[i]
        /\ updates'[Len(updates) + 1] = x
    BY ONLY <2>1, AppendIs
  <2> QED BY ONLY <2>2 DEF x
<1>5. \A i \in DOMAIN updates' : updates'[i].kind = "saved"
  <2> SUFFICES ASSUME NEW i \in DOMAIN updates' PROVE updates'[i].kind = "saved"
    OBVIOUS
  <2>1. i \in 1..Len(updates) \/ i = Len(updates) + 1
    BY <1>4
  <2> QED BY <2>1, <1>1, <1>4 DEF SaveOK, Saved
<1>6. ToldAfter(history, updates)' = "save"
  BY <1>4 DEF ToldAfter, ErrorAfter, Saved
<1>7. SaveOK(history, mailbox, updates)'
  BY <1>1, <1>2, <1>5, <1>6 DEF SaveOK, Saving
<1>8. DiskInv'
  BY <1>1, <1>2 DEF DiskInv
<1> QED BY <1>1, <1>2, <1>4, <1>7, <1>8 DEF StoreTypes, Storing

LEMMA WriteStores == ASSUME Stored, WorkerRefuse \/ WorkerWrite PROVE Stored'
<1> USE DEF Stored, StoreInv
<1>1. worker.pc = "save" /\ worker \in Workers /\ Saving /\ temp = "none" /\ faults \in 0..MaxFaults
  BY DEF WorkerRefuse, WorkerWrite, Saving, DiskInv, StoreTypes
<1>2. CASE WorkerRefuse
  BY <1>1, <1>2, FailedStores DEF WorkerRefuse
<1>3. CASE WorkerWrite
  <2>1. CASE Fails /\ Answered(FALSE) /\ UNCHANGED temp
    BY <1>1, <1>3, <2>1, FailsIs, FailedStores DEF WorkerWrite
  <2>2. CASE Works /\ temp' = "synced" /\ worker' = [worker EXCEPT !.pc = "persist"] /\ UNCHANGED updates
    <3>1. /\ worker' \in Workers /\ worker'.pc = "persist" /\ worker'.job = worker.job
          /\ worker'.writable = worker.writable /\ Validates(worker.job)
      BY <1>1, <1>3, <2>2 DEF Workers, WorkerWrite
    <3>2. /\ UNCHANGED << file, flushed, mailbox, history, updates >> /\ faults' \in 0..MaxFaults
          /\ temp' = "synced"
      BY <1>1, <1>3, <2>2, FailsIs DEF WorkerWrite
    <3>3. history.ready /\ SaveOK(history, mailbox, updates)
      BY <1>1 DEF Storing, LoadOK
    <3>4. SaveOK(history, mailbox, updates)'
      BY <1>1, <3>1, <3>2, <3>3 DEF SaveOK, Saving, ToldAfter, FileIs
    <3>5. DiskInv'
      BY <1>1, <3>1, <3>2 DEF DiskInv
    <3> QED BY <3>1, <3>2, <3>3, <3>4, <3>5 DEF StoreTypes, Storing
  <2> QED BY <1>3, <2>1, <2>2 DEF WorkerWrite
<1> QED BY <1>2, <1>3

LEMMA PersistStores == ASSUME Stored, WorkerPersist PROVE Stored'
<1> USE DEF Stored, StoreInv
<1>1. /\ worker.pc = "persist" /\ worker \in Workers /\ Saving /\ temp = "synced"
      /\ faults \in 0..MaxFaults /\ worker.writable /\ worker.job \in Documents
      /\ Sound(worker.job) /\ flushed = TRUE
  BY DEF WorkerPersist, Saving, DiskInv, StoreTypes, Validates
<1>2. CASE Fails /\ Answered(FALSE) /\ UNCHANGED << file, flushed >>
  BY <1>1, <1>2, FailsIs, FailedStores DEF WorkerPersist
<1>3. CASE Works /\ Answered(TRUE) /\ file' = worker.job /\ flushed' = (temp = "synced")
  <2>1. /\ worker' \in Workers /\ worker'.pc \in {"wait", "gone"}
        /\ worker'.writable = worker.writable
    BY <1>1, <1>3, TurnIs DEF Answered
  <2>2. /\ UNCHANGED << mailbox, history >> /\ temp' = "none" /\ faults' \in 0..MaxFaults
        /\ flushed' = TRUE /\ file' = worker.job
    BY <1>1, <1>3, FailsIs DEF WorkerPersist
  <2>3. /\ updates \in Seq(Updates) /\ Saved(TRUE) \in Updates /\ updates' = Append(updates, Saved(TRUE))
    BY <1>3 DEF Answered, Saved, Updates, StoreTypes
  <2>4. /\ updates' \in Seq(Updates)
        /\ DOMAIN updates' = 1..(Len(updates) + 1) /\ Len(updates) \in Nat
        /\ \A i \in 1..Len(updates) : updates'[i] = updates[i]
        /\ updates'[Len(updates) + 1] = Saved(TRUE) /\ DOMAIN updates = 1..Len(updates)
    <3> DEFINE x == Saved(TRUE)
    <3>1. updates \in Seq(Updates) /\ x \in Updates /\ updates' = Append(updates, x)
      BY <2>3
    <3> HIDE DEF x
    <3>2. /\ updates' \in Seq(Updates) /\ updates' # << >>
          /\ Len(updates) \in Nat /\ DOMAIN updates = 1..Len(updates)
          /\ Len(updates') = Len(updates) + 1 /\ DOMAIN updates' = 1..(Len(updates) + 1)
          /\ \A i \in 1..Len(updates) : updates'[i] = updates[i]
          /\ updates'[Len(updates) + 1] = x
      BY ONLY <3>1, AppendIs
    <3> QED BY ONLY <3>2 DEF x
  <2>5. history.ready /\ SaveOK(history, mailbox, updates)
    BY <1>1 DEF Storing, LoadOK, Saving
  <2>6. \A i \in DOMAIN updates' : updates'[i].kind = "saved"
    <3> SUFFICES ASSUME NEW i \in DOMAIN updates' PROVE updates'[i].kind = "saved"
      OBVIOUS
    <3>1. i \in 1..Len(updates) \/ i = Len(updates) + 1
      BY <2>4
    <3>2. \A k \in 1..Len(updates) : updates[k].kind = "saved"
      BY <2>4, <2>5 DEF SaveOK
    <3> QED BY ONLY <3>1, <3>2, <2>4 DEF Saved
  <2>7. mailbox.data = None => worker.job = history.doc
    BY <1>1, <2>5 DEF SaveOK
  <2>8. /\ worker.job.stamp <= history.doc.stamp
        /\ mailbox.data # None => worker.job.stamp < history.doc.stamp
    BY <1>1, <2>5 DEF SaveOK
  <2>9. SaveOK(history, mailbox, updates)'
    BY <1>1, <2>1, <2>2, <2>5, <2>6, <2>7, <2>8 DEF SaveOK, Saving, FileIs
  <2>10. DiskInv'
    BY <1>1, <2>1, <2>2, Constants DEF DiskInv
  <2> QED BY <1>1, <2>1, <2>2, <2>4, <2>5, <2>9, <2>10 DEF StoreTypes, Storing
<1> QED BY <1>2, <1>3 DEF WorkerPersist

-----------------------------------------------------------------------------
(***************************************************************************)
(* The steps of the GUI thread.                                            *)
(***************************************************************************)
\* What a step of the GUI thread makes of the progress and the keys.
KeysKept(h, g) ==
  h.ready => \A e \in Elements(g.doc.recordings) :
    \/ \E o \in Elements(h.doc.recordings) : o.key = e.key /\ o.source = e.source
    \/ e.key > h.doc.nextKey

ProgressKept(h, g, s, t) ==
  h.ready => \A r \in Recordings :
    LET p == Position(h.doc, r)
        q == Position(g.doc, r)
    IN  p # None /\ q # None /\ q < p => s # None /\ s.source = r /\ (t \/ Watched(p))

LEMMA SameKeeps ==
  ASSUME NEW h, Held(h), NEW g, h.ready => g.doc.recordings = h.doc.recordings, NEW s, NEW t
  PROVE  KeysKept(h, g) /\ ProgressKept(h, g, s, t)
<1>1. KeysKept(h, g)
  BY DEF KeysKept
<1>2. ASSUME h.ready, NEW r \in Recordings
      PROVE  /\ Position(g.doc, r) = Position(h.doc, r)
             /\ Position(h.doc, r) # None => Position(h.doc, r) \in Nat
  <2>1. Position(g.doc, r) = Position(h.doc, r)
    BY <1>2, SamePosition
  <2>2. Position(h.doc, r) \in Positions \union {None}
    BY <1>2, PositionIs DEF Held, Histories
  <2> QED BY <2>1, <2>2, PositionsAre
<1>3. ProgressKept(h, g, s, t)
  <2> SUFFICES ASSUME h.ready, NEW r \in Recordings,
                      Position(h.doc, r) # None, Position(g.doc, r) < Position(h.doc, r)
               PROVE  FALSE
    BY DEF ProgressKept
  <2>1. Position(h.doc, r) \in Nat /\ Position(h.doc, r) < Position(h.doc, r)
    BY <1>2
  <2> QED BY ONLY <2>1
<1> QED BY <1>1, <1>3

LEMMA SampleKeeps ==
  ASSUME NEW h, NEW g, NEW s \in Sessions, s # None, NEW m, NEW t, NEW u,
         AfterSample(h, s, m, t, g, u)
  PROVE  KeysKept(h, g) /\ ProgressKept(h, g, s, t)
<1>1. KeysKept(h, g)
  BY DEF AfterSample, KeysKept
<1>2. ASSUME h.ready, NEW r \in Recordings
      PROVE  Behind(h, g, r) => r = s.source /\ (t \/ Watched(Position(h.doc, r)))
  BY <1>2 DEF AfterSample
<1>3. ProgressKept(h, g, s, t)
  <2> SUFFICES ASSUME h.ready, NEW r \in Recordings,
                      Position(h.doc, r) # None, Position(g.doc, r) # None,
                      Position(g.doc, r) < Position(h.doc, r)
               PROVE  s # None /\ s.source = r /\ (t \/ Watched(Position(h.doc, r)))
    BY DEF ProgressKept
  <2>1. Behind(h, g, r)
    BY DEF Behind
  <2> QED BY <2>1, <1>2
<1> QED BY <1>1, <1>3

\* The storage side of a handler, and of a tick.
LEMMA SameStores ==
  ASSUME UNCHANGED storage, StoreTypes, DiskInv, Held(history'), mailbox' \in Mailboxes,
         updates' \in Seq(Updates), NEW box, box.data = mailbox'.data,
         Storing(history', box, updates')
  PROVE  Stored'
<1>1. UNCHANGED << file, flushed, temp, worker, faults >>
  BY DEF storage
<1>2. StoreTypes'
  BY <1>1 DEF StoreTypes, Mailboxes, Held
<1>3. DiskInv'
  BY <1>1 DEF DiskInv, Held
<1>4. Storing(history, mailbox, updates)'
  BY <1>1 DEF Storing, SaveOK, LoadOK, Saving, FileIs, ToldAfter
<1> QED BY <1>2, <1>3, <1>4 DEF Stored, StoreInv

LEMMA HandlerStores ==
  ASSUME HistoryInv, UNCHANGED storage, updates' = updates, Grown(history, history'),
         mailbox' \in Mailboxes,
         mailbox'.data = Left(mailbox, history, history'.doc).data
  PROVE  Stored'
<1>1. /\ Types /\ StoreTypes /\ DiskInv /\ Storing(history, mailbox, updates)
      /\ Held(history) /\ updates \in Seq(Updates)
  BY ForcedIs DEF HistoryInv, StoreInv, Types, StoreTypes
<1>2. Storing(history', Left(mailbox, history, history'.doc), updates)
  BY <1>1, ChangeStores
<1>3. Held(history')
  BY <1>1, GrownHeld
<1> QED BY <1>1, <1>2, <1>3, SameStores

LEMMA TickStores ==
  ASSUME HistoryInv, UNCHANGED storage, updates' = << >>,
         Grown(Drained(history), history'),
         mailbox' = Left(mailbox, Drained(history), history'.doc)
  PROVE  Stored'
<1>1. /\ Types /\ StoreTypes /\ DiskInv /\ Storing(history, mailbox, updates)
  BY DEF HistoryInv, StoreInv, Types
<1>2. Held(Drained(history)) /\ Storing(Drained(history), mailbox, << >>)
  BY <1>1, DrainIs
<1>3. /\ Left(mailbox, Drained(history), history'.doc) \in Mailboxes
      /\ Storing(history', Left(mailbox, Drained(history), history'.doc), << >>)
  BY <1>1, <1>2, ChangeStores
<1>4. Held(history')
  BY <1>2, GrownHeld
<1>5. << >> \in Seq(Updates)
  OBVIOUS
<1> QED BY <1>1, <1>3, <1>4, <1>5, SameStores

LEMMA LeftIs ==
  ASSUME HistoryInv, Grown(history, history')
  PROVE  Left(mailbox, history, history'.doc) \in Mailboxes
BY DEF HistoryInv, Types, StoreTypes, Mailboxes, Left, Grown, Histories

LEMMA ObservedIs ==
  ASSUME NEW h, NEW l \in [service: Services \union {None}, recorded: BOOLEAN],
         NEW m \in Medias, NEW long \in BOOLEAN
  PROVE  Observed(h, l, m, long) \in [service: Services \union {None}, recorded: BOOLEAN]
<1>1. Watching(m) \in Services \union {None}
  BY MediaParts DEF Watching, IsFile
<1> QED BY <1>1 DEF Observed, Idle

LEMMA OpenedIs ==
  ASSUME NEW x \in Recordings \union Services \union {None}
  PROVE  /\ Opened(x) \in Medias /\ MediaSound(Opened(x)) /\ Opened(x).what = x
         /\ ~Opened(x).ranged /\ Nothing \in Medias /\ MediaSound(Nothing)
         /\ LET f == [Opened(x) EXCEPT !.phase = "stop failed"]
            IN  f \in Medias /\ MediaSound(f) /\ f.what = x /\ f.phase = "stop failed"
BY DEF Opened, Nothing, Medias, MediaSound

\* A change of the favourites alone.
LEMMA FavoritesStep ==
  ASSUME HistoryInv, Grown(history, history'),
         history'.doc.recordings = history.doc.recordings,
         mailbox' = Left(mailbox, history, history'.doc),
         UNCHANGED << storage, player, process, updates, deaths >>
  PROVE  HistoryInv' /\ KeysKept(history, history')
         /\ ProgressKept(history, history', session, turned \/ turned')
<1>1. Stored'
  BY HandlerStores, LeftIs
<1>2. UNCHANGED << live, media, session, turned >> /\ Held(history)
  BY ForcedIs DEF player
<1>3. PlayInv'
  <2>1. CASE session = None
    BY <1>2, <2>1 DEF HistoryInv, PlayInv, MediaInv
  <2>2. CASE session # None
    <3>1. /\ session \in Sessions /\ media \in Medias /\ MediaSound(media)
          /\ SessionInv(history, media, session) /\ ProgressInv(history, media, session, turned)
          /\ media \in Onward(media)
      BY <2>2 DEF HistoryInv, PlayInv, Types, PlayTypes, MediaInv, Onward
    <3>2. history.ready => history'.ready /\ history'.doc.recordings = history.doc.recordings
      BY DEF Grown
    <3>3. SessionInv(history', media, session) /\ ProgressInv(history', media, session, turned)
      BY <1>2, <3>1, <3>2, Onwards
    <3> QED BY <1>2, <3>3 DEF HistoryInv, PlayInv, MediaInv, SessionInv, ProgressInv
  <2> QED BY <2>1, <2>2
<1>4. Types'
  BY <1>1, <1>2 DEF HistoryInv, Types, Stored, PlayTypes
<1>5. KeysKept(history, history') /\ ProgressKept(history, history', session, turned \/ turned')
  BY <1>2, SameKeeps
<1> QED BY <1>1, <1>3, <1>4, <1>5 DEF HistoryInv, Stored

\* What every step shows.
Step ==
  /\ HistoryInv'
  /\ history'.ready => KeysKept(history, history')
  /\ history'.ready => ProgressKept(history, history', session, turned \/ turned')

LEMMA ToggleStep == ASSUME HistoryInv, NEW c \in Services, ToggleFavorite(c) PROVE Step
<1> DEFINE s == history.doc.favorites
           f == IF c \in Elements(s) THEN Without(s, c) ELSE Append(s, c)
<1>1. history.ready /\ Held(history) /\ history.doc \in Documents
  BY ForcedIs DEF ToggleFavorite, Held, Histories
<1>2. /\ s \in Seq(Services) /\ Distinct(s)
      /\ Len(f) <= MaxFavorites /\ history' = FavoritesTo(history, f)
      /\ mailbox' = Left(mailbox, history, history'.doc)
      /\ UNCHANGED << storage, player, process, updates, deaths >>
  BY <1>1, DocumentParts DEF ToggleFavorite, FavoritesTo, Held, Sound
<1>3. f \in Seq(Services) /\ Distinct(f)
  <2>1. CASE c \in Elements(s)
    BY <1>2, <2>1, WithoutIs
  <2>2. CASE c \notin Elements(s)
    BY <1>2, <2>2, AddedIs
  <2> QED BY <2>1, <2>2
<1> HIDE DEF f
<1>4. Grown(history, history') /\ history'.doc.recordings = history.doc.recordings
  BY <1>1, <1>2, <1>3, FavoritesIs
<1> QED BY <1>2, <1>4, FavoritesStep DEF Step

LEMMA MoveStep ==
  ASSUME HistoryInv, NEW c \in Services, NEW i \in 0..(MaxFavorites - 1), MoveFavorite(c, i)
  PROVE  Step
<1> DEFINE s == history.doc.favorites
           w == Without(s, c)
           f == Lists!InsertAt(w, i + 1, c)
<1>1. history.ready /\ Held(history) /\ history.doc \in Documents
  BY ForcedIs DEF MoveFavorite, Held, Histories
<1>2. /\ s \in Seq(Services) /\ Distinct(s) /\ Len(s) <= MaxFavorites
      /\ i < Len(s) /\ c \in Elements(s) /\ history' = FavoritesTo(history, f)
      /\ mailbox' = Left(mailbox, history, history'.doc)
      /\ UNCHANGED << storage, player, process, updates, deaths >>
  BY <1>1, DocumentParts DEF MoveFavorite, FavoritesTo, Held, Sound
<1>3. /\ w \in Seq(Services) /\ Distinct(w) /\ c \notin Elements(w) /\ Len(w) = Len(s) - 1
  BY <1>2, WithoutIs
<1> HIDE DEF w
<1>4. i + 1 \in 1..(Len(w) + 1) /\ Len(w) + 1 = Len(s)
  <2>1. i \in Nat /\ Len(s) \in Nat
    BY <1>2, Constants
  <2> QED BY ONLY <2>1, <1>2, <1>3
<1>5. f \in Seq(Services) /\ Distinct(f) /\ Len(f) = Len(s)
  BY <1>3, <1>4, PutInIs
<1> HIDE DEF f
<1>6. Grown(history, history') /\ history'.doc.recordings = history.doc.recordings
  BY <1>1, <1>2, <1>5, FavoritesIs
<1> QED BY <1>2, <1>6, FavoritesStep DEF Step

LEMMA SeekStep == ASSUME HistoryInv, NEW p \in Positions, Seek(p) PROVE Step
<1>1. /\ history' = history /\ mailbox' = mailbox /\ updates' = updates /\ Held(history)
      /\ live' = live /\ session' = session /\ process' = process /\ deaths' = deaths
      /\ UNCHANGED storage /\ turned' = TRUE /\ media.ranged /\ media' = Sought(media, p)
  BY ForcedIs DEF Seek
<1>2. Stored'
  <2>1. Stored /\ UNCHANGED << file, flushed, temp, worker, faults >>
    BY <1>1 DEF HistoryInv, Types, Stored, storage
  <2> QED BY <1>1, <2>1
        DEF Stored, StoreTypes, StoreInv, DiskInv, Storing, SaveOK, LoadOK, Saving, FileIs, ToldAfter
<1>3. media \in Medias /\ MediaSound(media)
  BY DEF HistoryInv, Types, PlayTypes, PlayInv, MediaInv
<1>4. /\ media' \in Medias /\ media'.what = media.what /\ media'.phase = "seeking"
      /\ media'.ranged = media.ranged /\ media'.target = p /\ media'.position = media.position
  BY <1>1, <1>3, MediaParts DEF Sought, Medias
<1>5. MediaSound(media')
  BY <1>1, <1>3, <1>4, PositionsAre DEF MediaSound
<1>6. PlayTypes' /\ Types'
  BY <1>1, <1>2, <1>4 DEF HistoryInv, Types, PlayTypes, Stored
<1>7. PlayInv'
  BY <1>1, <1>4, <1>5 DEF HistoryInv, PlayInv, MediaInv, MediaSound, SessionInv, ProgressInv
<1>8. KeysKept(history, history') /\ ProgressKept(history, history', session, turned \/ turned')
  BY <1>1, SameKeeps
<1> QED BY <1>2, <1>6, <1>7, <1>8 DEF Step, HistoryInv, Stored

LEMMA PauseStep == ASSUME HistoryInv, Pause PROVE Step
<1>1. /\ history' = history /\ mailbox' = mailbox /\ updates' = updates /\ Held(history)
      /\ session' = session /\ process' = process /\ deaths' = deaths
      /\ UNCHANGED storage /\ turned' = turned /\ media.what \in Services
      /\ media.phase \in {"playing", "paused"}
      /\ media' = [media EXCEPT !.phase = IF @ = "playing" THEN "paused" ELSE "playing"]
      /\ live' = Observed(history, live, media', FALSE)
  BY ForcedIs DEF Pause
<1>2. Stored'
  <2>1. Stored /\ UNCHANGED << file, flushed, temp, worker, faults >>
    BY <1>1 DEF HistoryInv, Types, Stored, storage
  <2> QED BY <1>1, <2>1
        DEF Stored, StoreTypes, StoreInv, DiskInv, Storing, SaveOK, LoadOK, Saving, FileIs, ToldAfter
<1>3. /\ media \in Medias /\ MediaSound(media)
      /\ live \in [service: Services \union {None}, recorded: BOOLEAN]
      /\ session \in {None} \union Sessions /\ (session # None => media.what = session.source)
  BY DEF HistoryInv, Types, PlayTypes, PlayInv, MediaInv
<1>4. session = None
  <2> SUFFICES ASSUME session # None PROVE FALSE
    OBVIOUS
  <2>1. session.source \in Recordings /\ session.source \in Services
    BY <1>1, <1>3, SessionParts
  <2> QED BY <2>1, Constants
<1>5. /\ media' \in Medias /\ media'.what = media.what /\ media'.phase \in {"playing", "paused"}
      /\ media'.ranged = media.ranged /\ media'.position = media.position
  BY <1>1, <1>3, MediaParts DEF Medias
<1>6. MediaSound(media')
  BY <1>1, <1>3, <1>5 DEF MediaSound
<1>7. live' \in [service: Services \union {None}, recorded: BOOLEAN]
  BY <1>1, <1>3, <1>5, ObservedIs
<1>8. PlayTypes' /\ Types'
  BY <1>1, <1>2, <1>5, <1>7 DEF HistoryInv, Types, PlayTypes, Stored
<1>9. PlayInv'
  BY <1>1, <1>4, <1>6 DEF PlayInv, MediaInv, MediaSound
<1>10. KeysKept(history, history') /\ ProgressKept(history, history', session, turned \/ turned')
  BY <1>1, SameKeeps
<1> QED BY <1>2, <1>8, <1>9, <1>10 DEF Step, HistoryInv, Stored

\* Handlers that sample and save the session before they do anything else.
LEMMA ForcedStores ==
  ASSUME HistoryInv, history' = Forced.history, UNCHANGED storage, updates' = updates,
         mailbox' \in Mailboxes,
         mailbox'.data = Left(mailbox, history, history'.doc).data
  PROVE  /\ Stored' /\ Held(history) /\ Grown(history, history')
         /\ KeysKept(history, history')
         /\ ProgressKept(history, history', session, turned \/ turned')
<1>1. Held(history) /\ Grown(history, history')
  BY ForcedIs
<1>2. Stored'
  BY <1>1, HandlerStores
<1>3. CASE session = None
  <2>1. history' = history
    BY <1>3, ForcedIs
  <2>2. history'.doc.recordings = history.doc.recordings
    BY <2>1
  <2>3. KeysKept(history, history') /\ ProgressKept(history, history', session, turned \/ turned')
    BY <1>1, <2>2, SameKeeps
  <2> QED BY <1>1, <1>2, <2>3
<1>4. CASE session # None
  <2>1. session \in Sessions /\ AfterSample(history, session, media, turned, history', Forced.session)
    BY <1>4, ForcedIs DEF HistoryInv, Types, PlayTypes
  <2>2. KeysKept(history, history') /\ ProgressKept(history, history', session, turned)
    BY <1>4, <2>1, SampleKeeps
  <2>3. ProgressKept(history, history', session, turned \/ turned')
    BY <2>2 DEF ProgressKept
  <2> QED BY <1>1, <1>2, <2>2, <2>3
<1> QED BY <1>1, <1>2, <1>3, <1>4

\* The session is gone with its pipeline, and nothing plays or something new is opened.
LEMMA FreshPlay ==
  ASSUME NEW x \in Recordings \union Services \union {None}, media' = Opened(x),
         session' = None \/ (x \in Recordings /\ session' = NewSession(x)),
         turned' = FALSE, live' \in [service: Services \union {None}, recorded: BOOLEAN]
  PROVE  PlayTypes' /\ PlayInv'
<1>1. media' \in Medias /\ MediaSound(media') /\ media'.what = x
  BY OpenedIs
<1>2. CASE session' = None
  BY <1>1, <1>2 DEF PlayTypes, PlayInv, MediaInv, MediaSound
<1>3. CASE x \in Recordings /\ session' = NewSession(x)
  <2>1. /\ session' \in Sessions /\ session'.source = x
        /\ session'.resume = "Waiting" /\ session'.latest = None
    BY <1>3 DEF NewSession, Sessions
  <2> QED BY <1>1, <2>1 DEF PlayTypes, PlayInv, MediaInv, MediaSound, SessionInv, ProgressInv
<1> QED BY <1>2, <1>3

LEMMA NoPlay ==
  ASSUME media' = Nothing, session' = None, turned' = FALSE,
         live' \in [service: Services \union {None}, recorded: BOOLEAN]
  PROVE  PlayTypes' /\ PlayInv'
<1>1. media' \in Medias /\ MediaSound(media')
  BY OpenedIs
<1> QED BY <1>1 DEF PlayTypes, PlayInv, MediaInv, MediaSound

\* The pipeline stays as it is, or failed to stop, with the session it had.
LEMMA KeptPlay ==
  ASSUME HistoryInv, history' = Forced.history, session' = Forced.session, turned' = turned,
         live' \in [service: Services \union {None}, recorded: BOOLEAN],
         media' = media \/ media' = [Opened(media.what) EXCEPT !.phase = "stop failed"]
  PROVE  PlayTypes' /\ PlayInv'
<1>1. /\ media \in Medias /\ MediaSound(media) /\ session \in {None} \union Sessions
      /\ turned \in BOOLEAN /\ media.what \in Recordings \union Services \union {None}
      /\ (session # None => media.what = session.source)
  BY MediaParts DEF HistoryInv, Types, PlayTypes, PlayInv, MediaInv
<1>2. /\ media' \in Medias /\ MediaSound(media') /\ media'.what = media.what
      /\ media' = media \/ media'.phase = "stop failed"
  <2> DEFINE f == [Opened(media.what) EXCEPT !.phase = "stop failed"]
  <2>1. f \in Medias /\ MediaSound(f) /\ f.what = media.what /\ f.phase = "stop failed"
    BY <1>1, OpenedIs
  <2> HIDE DEF f
  <2>2. media' = media \/ media' = f
    BY DEF f
  <2> QED BY <1>1, <2>1, <2>2
<1>3. CASE session = None
  <2>1. session' = None
    BY <1>3, ForcedIs
  <2> QED BY <1>1, <1>2, <2>1 DEF PlayTypes, PlayInv, MediaInv, MediaSound
<1>4. CASE session # None
  <2>1. /\ session' \in Sessions /\ session'.source = session.source
        /\ SessionInv(history', media, session') /\ ProgressInv(history', media, session', turned)
    BY <1>4, ForcedIs DEF AfterSample
  <2>2. SessionInv(history', media', session')
    BY <1>2, <2>1 DEF SessionInv
  <2>3. ProgressInv(history', media', session', turned)
    <3>1. CASE media' = media
      BY <3>1, <2>1
    <3>2. CASE media'.phase = "stop failed"
      BY <3>2, <2>1 DEF ProgressInv, OnTrack, From
    <3> QED BY <3>1, <3>2, <1>2
  <2> QED BY <1>1, <1>2, <1>4, <2>1, <2>2, <2>3
        DEF PlayTypes, PlayInv, MediaInv, MediaSound, SessionInv, ProgressInv, OnTrack, From, Position, Row
<1> QED BY <1>3, <1>4

LEMMA LiveIs ==
  ASSUME HistoryInv, live' = (IF history.ready THEN Idle ELSE live) \/ live' = live \/ live' = Idle
  PROVE  live' \in [service: Services \union {None}, recorded: BOOLEAN]
<1>1. live \in [service: Services \union {None}, recorded: BOOLEAN]
  BY DEF HistoryInv, Types, PlayTypes
<1>2. Idle \in [service: Services \union {None}, recorded: BOOLEAN]
  BY DEF Idle
<1> QED BY <1>1, <1>2

LEMMA StopStep == ASSUME HistoryInv, NEW stopped \in BOOLEAN, Stop(stopped) PROVE Step
<1>1. /\ history' = Forced.history /\ mailbox' = Left(mailbox, history, history'.doc)
      /\ UNCHANGED storage /\ updates' = updates /\ process' = process /\ deaths' = deaths
      /\ live' \in [service: Services \union {None}, recorded: BOOLEAN]
  BY LiveIs DEF Stop
<1>2. /\ Stored' /\ KeysKept(history, history')
      /\ ProgressKept(history, history', session, turned \/ turned')
  BY <1>1, ForcedIs, ForcedStores, LeftIs
<1>3. PlayTypes' /\ PlayInv'
  <2>1. CASE stopped
    BY <1>1, <2>1, NoPlay DEF Stop
  <2>2. CASE ~stopped
    BY <1>1, <2>2, KeptPlay DEF Stop
  <2> QED BY <2>1, <2>2
<1> QED BY <1>1, <1>2, <1>3 DEF Step, HistoryInv, Types, Stored

LEMMA OpenStep ==
  ASSUME HistoryInv, NEW x \in Recordings \union Services, Open(x)
  PROVE  Step
<1>1. /\ history' = Forced.history /\ mailbox' = Left(mailbox, history, history'.doc)
      /\ UNCHANGED storage /\ updates' = updates /\ process' = process /\ deaths' = deaths
      /\ live' \in [service: Services \union {None}, recorded: BOOLEAN]
  BY LiveIs DEF Open
<1>2. /\ Stored' /\ KeysKept(history, history')
      /\ ProgressKept(history, history', session, turned \/ turned')
  BY <1>1, ForcedIs, ForcedStores, LeftIs
<1>3. PlayTypes' /\ PlayInv'
  BY <1>1, FreshPlay DEF Open
<1> QED BY <1>1, <1>2, <1>3 DEF Step, HistoryInv, Types, Stored

LEMMA OpenFailsStep == ASSUME HistoryInv, NEW stopped \in BOOLEAN, OpenFails(stopped) PROVE Step
<1>1. /\ history' = Forced.history /\ mailbox' = Left(mailbox, history, history'.doc)
      /\ UNCHANGED storage /\ updates' = updates /\ process' = process /\ deaths' = deaths
      /\ live' \in [service: Services \union {None}, recorded: BOOLEAN]
  BY LiveIs DEF OpenFails
<1>2. /\ Stored' /\ KeysKept(history, history')
      /\ ProgressKept(history, history', session, turned \/ turned')
  BY <1>1, ForcedIs, ForcedStores, LeftIs
<1>3. PlayTypes' /\ PlayInv'
  <2>1. CASE stopped
    BY <1>1, <2>1, NoPlay DEF OpenFails
  <2>2. CASE ~stopped
    BY <1>1, <2>2, KeptPlay DEF OpenFails
  <2> QED BY <2>1, <2>2
<1> QED BY <1>1, <1>2, <1>3 DEF Step, HistoryInv, Types, Stored

LEMMA CloseStep == ASSUME HistoryInv, Close PROVE Step
<1> DEFINE box == Left(mailbox, history, history'.doc)
<1>1. /\ history' = Forced.history /\ mailbox' = [box EXCEPT !.closing = TRUE]
      /\ UNCHANGED storage /\ updates' = updates /\ process' = "closing" /\ deaths' = deaths
      /\ live' \in [service: Services \union {None}, recorded: BOOLEAN]
      /\ media' = Nothing /\ session' = None /\ turned' = FALSE
  BY LiveIs DEF Close
<1>2. box \in Mailboxes
  BY <1>1, ForcedIs, LeftIs
<1>3. mailbox' \in Mailboxes /\ mailbox'.data = box.data
  BY <1>1, <1>2 DEF Mailboxes
<1>4. /\ Stored' /\ KeysKept(history, history')
      /\ ProgressKept(history, history', session, turned \/ turned')
  BY <1>1, <1>3, ForcedStores
<1>5. PlayTypes' /\ PlayInv'
  BY <1>1, NoPlay
<1> QED BY <1>1, <1>4, <1>5 DEF Step, HistoryInv, Types, Stored

-----------------------------------------------------------------------------
(***************************************************************************)
(* The tick.                                                               *)
(***************************************************************************)
LEMMA TickStep ==
  ASSUME HistoryInv, NEW m \in Onward(media), NEW timed \in BOOLEAN, NEW refused \in BOOLEAN,
         Tick(m, timed, refused)
  PROVE  Step
<1> DEFINE h == Drained(history)
           n == Noted(h, live, m, timed)
           r == PollRecording(n, m, refused, timed)
           polls == Active(m) /\ IsFile(m) /\ session # None
<1>1. /\ StoreTypes /\ PlayTypes /\ Types /\ DiskInv /\ Storing(history, mailbox, updates)
      /\ PlayInv /\ media \in Medias /\ MediaSound(media)
      /\ session \in {None} \union Sessions /\ turned \in BOOLEAN
      /\ live \in [service: Services \union {None}, recorded: BOOLEAN]
  BY DEF HistoryInv, StoreInv, PlayInv, Types, PlayTypes, MediaInv
<1>2. /\ Held(history) /\ Held(h)
      /\ history.ready => h.ready /\ h.doc = history.doc
  BY <1>1, DrainIs
<1>3. m \in Medias /\ MediaSound(m) /\ m.what = media.what
  BY <1>1, OnwardIs
<1>4. /\ live' = Observed(h, live, m, timed)
      /\ IF polls
         THEN /\ media' = r.media /\ session' = r.session
              /\ history' = r.history /\ turned' = r.turned
         ELSE media' = m /\ history' = n /\ session' = session /\ turned' = turned
      /\ mailbox' = Left(mailbox, h, history'.doc) /\ updates' = << >>
      /\ UNCHANGED storage /\ process' = process /\ deaths' = deaths
  BY DEF Tick
<1>5. Grown(h, n) /\ n.doc.recordings = h.doc.recordings /\ n.doc.nextKey = h.doc.nextKey
  BY <1>2, <1>3, NotedIs
<1> HIDE DEF n, h
<1>6. Held(n)
  BY <1>2, <1>5, GrownHeld
<1>7. /\ history.ready => /\ n.ready /\ n.doc.recordings = history.doc.recordings
                          /\ n.doc.nextKey = history.doc.nextKey
  BY <1>2, <1>5 DEF Grown
<1>8. session # None =>
        /\ session \in Sessions /\ m.what = session.source
        /\ SessionInv(n, m, session) /\ ProgressInv(n, m, session, turned)
  <2> SUFFICES ASSUME session # None
               PROVE  /\ session \in Sessions /\ m.what = session.source
                      /\ SessionInv(n, m, session) /\ ProgressInv(n, m, session, turned)
    OBVIOUS
  <2>1. /\ session \in Sessions /\ media.what = session.source
        /\ SessionInv(history, media, session) /\ ProgressInv(history, media, session, turned)
    BY <1>1 DEF PlayInv, MediaInv
  <2> QED BY <2>1, <1>1, <1>2, <1>3, <1>7, Onwards
<1>9. live' \in [service: Services \union {None}, recorded: BOOLEAN]
  BY <1>1, <1>3, <1>4, ObservedIs
<1>10. CASE polls
  <2>1. /\ Active(m) /\ session # None /\ media' = r.media /\ session' = r.session
        /\ history' = r.history /\ turned' = r.turned
    BY <1>4, <1>10
  <2>2. /\ r.media \in Medias /\ MediaSound(r.media) /\ r.media.what = m.what
        /\ r.turned \in BOOLEAN /\ (turned => r.turned)
        /\ AfterSample(n, session, r.media, r.turned, r.history, r.session)
    BY <1>1, <1>3, <1>6, <1>8, <2>1, PollRecordingIs
  <2> HIDE DEF r
  <2>3. /\ media' \in Medias /\ MediaSound(media') /\ media'.what = m.what
        /\ turned' \in BOOLEAN /\ AfterSample(n, session, media', turned', history', session')
    BY <2>1, <2>2
  <2>4. Grown(n, history') /\ Grown(h, history')
    BY <2>3, <1>2, <1>5, GrownTwice DEF AfterSample
  <2>5. Stored'
    BY <2>4, <1>4, TickStores DEF h
  <2>6. PlayTypes' /\ PlayInv'
    BY <1>8, <1>9, <2>1, <2>3
       DEF AfterSample, PlayTypes, PlayInv, MediaInv, MediaSound, SessionInv, ProgressInv, OnTrack,
           From, Position, Row
  <2>7. KeysKept(n, history') /\ ProgressKept(n, history', session, turned')
    BY <1>8, <2>1, <2>3, SampleKeeps
  <2>8. history.ready => KeysKept(history, history')
    BY <2>7, <1>7 DEF KeysKept
  <2>9. history.ready => ProgressKept(history, history', session, turned \/ turned')
    BY <2>7, <1>7, SamePosition DEF ProgressKept
  <2>10. KeysKept(history, history') /\ ProgressKept(history, history', session, turned \/ turned')
    BY <2>8, <2>9 DEF KeysKept, ProgressKept
  <2> QED BY <1>1, <1>4, <2>5, <2>6, <2>10 DEF Step, HistoryInv, Types, Stored
<1>11. CASE ~polls
  <2>1. media' = m /\ history' = n /\ session' = session /\ turned' = turned
    BY <1>4, <1>11
  <2>2. Stored'
    BY <1>4, <1>5, <2>1, TickStores DEF h
  <2>3. PlayTypes' /\ PlayInv'
    BY <1>1, <1>3, <1>8, <1>9, <2>1
       DEF PlayTypes, PlayInv, MediaInv, MediaSound, SessionInv, ProgressInv, OnTrack,
           From, Position, Row
  <2>4. KeysKept(history, history') /\ ProgressKept(history, history', session, turned \/ turned')
    BY <1>2, <1>7, <2>1, SameKeeps
  <2> QED BY <1>1, <1>4, <2>2, <2>3, <2>4 DEF Step, HistoryInv, Types, Stored
<1> QED BY <1>10, <1>11

-----------------------------------------------------------------------------
(***************************************************************************)
(* The other steps.                                                        *)
(***************************************************************************)
\* A step that leaves the document and the player alone.
LEMMA AsideStep ==
  ASSUME HistoryInv, Stored', UNCHANGED << player, history >>,
         process' \in {"up", "closing", "down"}, deaths' \in 0..MaxDeaths
  PROVE  Step
<1>1. /\ history' = history /\ live' = live /\ media' = media
      /\ session' = session /\ turned' = turned
  BY DEF player
<1>2. Held(history)
  BY ForcedIs
<1>3. PlayTypes' /\ PlayInv'
  BY <1>1 DEF HistoryInv, Types, PlayTypes, PlayInv, MediaInv, SessionInv, ProgressInv, OnTrack
<1>4. history'.doc.recordings = history.doc.recordings
  BY <1>1
<1>5. KeysKept(history, history') /\ ProgressKept(history, history', session, turned \/ turned')
  BY <1>2, <1>4, SameKeeps
<1> QED BY <1>3, <1>5 DEF Step, HistoryInv, Types, Stored

LEMMA WorkerStep == ASSUME HistoryInv, Worker PROVE Step
<1>1. Stored
  BY DEF HistoryInv, Types, Stored
<1>2. Stored'
  BY <1>1, LoadStores, TakeStores, WriteStores, PersistStores DEF Worker
<1>3. UNCHANGED << player, history >> /\ process' = process /\ deaths' = deaths
  BY DEF Worker, WorkerLoad, WorkerTake, WorkerRefuse, WorkerWrite, WorkerPersist
<1>4. process' \in {"up", "closing", "down"} /\ deaths' \in 0..MaxDeaths
  BY <1>3 DEF HistoryInv, Types
<1> QED BY <1>2, <1>3, <1>4, AsideStep

LEMMA JoinedStep == ASSUME HistoryInv, Joined PROVE Step
<1>1. /\ UNCHANGED << player, history >> /\ process' = "down" /\ deaths' = deaths
      /\ UNCHANGED << file, flushed, temp, worker, faults, mailbox, updates >>
  BY DEF Joined, storage
<1>2. Stored'
  BY <1>1 DEF HistoryInv, Types, Stored, StoreTypes, StoreInv, DiskInv, Storing, SaveOK, LoadOK,
              Saving, FileIs, ToldAfter
<1> QED BY <1>1, <1>2, AsideStep DEF HistoryInv, Types

\* A process that begins, or is no more, has nothing but the file.
LEMMA AnewStep ==
  ASSUME file' \in {Absent, Broken} \union Documents, file' \in Documents => Sound(file'),
         flushed' = TRUE, temp' = "none", faults' \in 0..MaxFaults,
         worker' = Asleep \/ worker' = [Asleep EXCEPT !.pc = "load"],
         mailbox' = Empty, updates' = << >>, history' = Loading,
         live' = Idle, media' = Nothing, session' = None, turned' = FALSE,
         process' \in {"up", "closing", "down"}, deaths' \in 0..MaxDeaths
  PROVE  Step
<1>1. worker' \in Workers /\ worker'.pc \in {"none", "load"} /\ worker'.writable = FALSE
  <2> DEFINE a == [pc |-> "none", job |-> None, closing |-> FALSE, writable |-> FALSE]
             b == [pc |-> "load", job |-> None, closing |-> FALSE, writable |-> FALSE]
  <2>1. a \in Workers /\ a.pc = "none" /\ a.writable = FALSE
    BY DEF Workers
  <2>2. b \in Workers /\ b.pc = "load" /\ b.writable = FALSE
    BY DEF Workers
  <2>3. worker' = a \/ worker' = b
    BY DEF Asleep
  <2> HIDE DEF a, b
  <2> QED BY ONLY <2>1, <2>2, <2>3
<1>2. history' \in Histories /\ ~history'.ready
  BY BlankIs DEF Loading, Histories
<1>3. mailbox' \in Mailboxes /\ mailbox'.data = None
  BY DEF Empty, Mailboxes
<1>4. StoreTypes'
  BY <1>1, <1>2, <1>3 DEF StoreTypes, Mailboxes
<1>5. DiskInv'
  BY <1>1, <1>2 DEF DiskInv
<1>6. Storing(history, mailbox, updates)'
  BY <1>1, <1>2, <1>3 DEF Storing, LoadOK
<1>7. PlayTypes' /\ PlayInv'
  BY NoPlay DEF Idle
<1> QED BY <1>2, <1>4, <1>5, <1>6, <1>7 DEF Step, HistoryInv, Types, StoreInv

LEMMA StartStep == ASSUME HistoryInv, Start PROVE Step
<1>1. /\ file \in {Absent, Broken} \union Documents /\ (file \in Documents => Sound(file))
      /\ flushed = TRUE /\ faults \in 0..MaxFaults /\ deaths \in 0..MaxDeaths
  BY DEF HistoryInv, Types, StoreTypes, StoreInv, DiskInv
<1> QED BY <1>1, AnewStep DEF Start

LEMMA DieStep == ASSUME HistoryInv, Die PROVE Step
<1>1. /\ file \in {Absent, Broken} \union Documents /\ (file \in Documents => Sound(file))
      /\ flushed = TRUE /\ faults \in 0..MaxFaults /\ deaths \in 0..MaxDeaths
  BY DEF HistoryInv, Types, StoreTypes, StoreInv, DiskInv
<1>2. file' = file /\ deaths' \in 0..MaxDeaths
  BY <1>1, BoundsAssumption DEF Die
<1> QED BY <1>1, <1>2, AnewStep DEF Die

LEMMA Begins == ASSUME Init PROVE HistoryInv
<1>1. file \in {Absent, Broken} \union Documents /\ (file \in Documents => Sound(file))
  <2>1. CASE file \in {Absent, Broken}
    BY <2>1, Constants
  <2>2. CASE file \in Kept
    <3>1. PICK r \in Recordings \ Unsavable :
            file = [Blank EXCEPT !.recordings = << [key |-> 1, source |-> r, position |-> 1] >>,
                                 !.nextKey = 1]
      BY <2>2 DEF Kept
    <3> DEFINE e == [key |-> 1, source |-> r, position |-> 1]
               s == << e >>
    <3>2. e \in Entries /\ e.key = 1
      BY Constants, BoundsAssumption DEF Entries, Positions
    <3>3. s \in Seq(Entries) /\ Len(s) = 1 /\ DOMAIN s = {1} /\ s[1] = e
      BY <3>2
    <3> HIDE DEF e, s
    <3>4. /\ file.favorites = << >> /\ file.recent = << >> /\ file.recordings = s
          /\ file.nextKey = 1 /\ file.stamp = 0
          /\ file = [favorites |-> << >>, recent |-> << >>, recordings |-> s,
                     nextKey |-> 1, stamp |-> 0]
      BY <3>1 DEF Blank, s, e
    <3>5. file \in Documents
      BY <3>3, <3>4 DEF Documents
    <3>6. Elements(s) = {e}
      BY <3>3 DEF Elements
    <3>7. Sound(file)
      <4>1. \A i, j \in DOMAIN s : i = j
        BY <3>3
      <4>2. Len(s) <= MaxRecordings
        BY <3>3, Constants
      <4>3. \A x \in Elements(s) : x.key \in 1..1
        BY <3>2, <3>6
      <4>4. Len(<< >>) = 0 /\ DOMAIN << >> = {} /\ 0 <= MaxRecent /\ 0 <= MaxFavorites
        BY Constants
      <4> QED BY ONLY <3>4, <4>1, <4>2, <4>3, <4>4 DEF Sound, Distinct
    <3> QED BY <3>5, <3>7
  <2> QED BY <2>1, <2>2 DEF Init
<1>2. worker \in Workers /\ worker.pc = "none" /\ worker.writable = FALSE
  BY DEF Init, Asleep, Workers
<1>3. history \in Histories /\ ~history.ready
  BY BlankIs DEF Init, Loading, Histories
<1>4. mailbox \in Mailboxes /\ mailbox.data = None
  BY DEF Init, Empty, Mailboxes
<1>5. StoreTypes
  BY <1>1, <1>2, <1>3, <1>4, BoundsAssumption DEF Init, StoreTypes, Mailboxes
<1>6. DiskInv
  BY <1>1, <1>2, <1>3 DEF Init, DiskInv
<1>7. Storing(history, mailbox, updates)
  BY <1>2, <1>3, <1>4 DEF Init, Storing, LoadOK
<1>8. PlayTypes /\ PlayInv
  <2>1. media \in Medias /\ MediaSound(media) /\ live \in [service: Services \union {None}, recorded: BOOLEAN]
    BY OpenedIs DEF Init, Idle
  <2> QED BY <2>1 DEF Init, PlayTypes, PlayInv, MediaInv
<1> QED BY <1>5, <1>6, <1>7, <1>8, BoundsAssumption DEF Init, HistoryInv, Types, StoreInv

LEMMA EachStep == ASSUME HistoryInv, [Next]_vars PROVE Step
<1>1. CASE Start
  BY <1>1, StartStep
<1>2. CASE Worker
  BY <1>2, WorkerStep
<1>3. CASE User
  BY <1>3, ToggleStep, MoveStep, OpenStep, OpenFailsStep, SeekStep, StopStep, PauseStep, CloseStep
     DEF User
<1>4. CASE Timer
  BY <1>4, TickStep DEF Timer
<1>5. CASE Joined
  BY <1>5, JoinedStep
<1>6. CASE Die
  BY <1>6, DieStep
<1>7. CASE UNCHANGED vars
  <2>1. /\ UNCHANGED << player, history >> /\ process' = process /\ deaths' = deaths
        /\ UNCHANGED << file, flushed, temp, worker, faults, mailbox, updates >>
    BY <1>7 DEF vars, storage
  <2>2. Stored'
    BY <2>1 DEF HistoryInv, Types, Stored, StoreTypes, StoreInv, DiskInv, Storing, SaveOK, LoadOK,
                Saving, FileIs, ToldAfter
  <2> QED BY <2>1, <2>2, AsideStep DEF HistoryInv, Types
<1> QED BY <1>1, <1>2, <1>3, <1>4, <1>5, <1>6, <1>7 DEF Next

-----------------------------------------------------------------------------
(***************************************************************************)
(* The theorems.                                                           *)
(***************************************************************************)
\* What the other theorems rest on: the file is whole and read before it is
\* written; the latest document is in the mailbox, with the thread, in the file,
\* or an error is told; the session and the pipeline are not behind the progress
\* that is stored (viewing_history.rs, storage.rs, recordings.rs).
THEOREM HistoryInvariant == Spec => []HistoryInv
<1>1. Init => HistoryInv
  BY Begins
<1>2. HistoryInv /\ [Next]_vars => HistoryInv'
  BY EachStep DEF Step
<1> QED BY <1>1, <1>2, PTL DEF Spec

\* The type invariant: the changes of the GUI thread keep the document one that
\* Document::validate accepts, but for unsavable identities; the thread owns a
\* temporary file only while it saves; a session is that of the recording opened.
THEOREM HistoryTypes == Spec => []TypeOK
<1>1. HistoryInv => TypeOK
  <2> SUFFICES ASSUME HistoryInv PROVE TypeOK
    OBVIOUS
  <2>1. /\ StoreTypes /\ PlayTypes /\ DiskInv /\ Storing(history, mailbox, updates) /\ MediaInv
        /\ process \in {"up", "closing", "down"} /\ deaths \in 0..MaxDeaths
    BY DEF HistoryInv, StoreInv, PlayInv, Types
  <2>2. /\ file \in {Absent, Broken} \union Documents /\ faults \in 0..MaxFaults
        /\ worker.pc \in {"none", "load", "wait", "save", "persist", "gone"}
        /\ mailbox.data \in {None} \union Documents /\ history \in Histories
    BY <2>1 DEF StoreTypes, Workers
  <2>3. (temp = "synced" <=> worker.pc = "persist") /\ (history.ready => Sound(history.doc))
    BY <2>1 DEF DiskInv
  <2>4. ~history.ready => history = Loading
    BY <2>1 DEF Storing, LoadOK
  <2>5. live.service \in Services \union {None}
    BY <2>1 DEF PlayTypes
  <2>6. session # None => /\ media.what = session.source
                          /\ session.resume \in {"Waiting", "Seeking", "Running"}
                          /\ session.latest \in Positions \union {None}
    BY <2>1, SessionParts DEF PlayTypes, MediaInv
  <2> QED BY <2>1, <2>2, <2>3, <2>4, <2>5, <2>6 DEF TypeOK, Histories
<1> QED BY <1>1, HistoryInvariant, PTL

\* Silence means saved: a thread with nothing left to do or to say, and no error
\* shown, has put the document of the GUI thread in the file
\* (History::poll, viewing_history.rs:244; Drop for Worker, storage.rs:142).
THEOREM SilenceAlwaysMeansSaved == Spec => []SilenceMeansSaved
<1>1. HistoryInv => SilenceMeansSaved
  <2> SUFFICES ASSUME HistoryInv, Quiet, Told = "" PROVE FileIs(history.doc)
    BY DEF SilenceMeansSaved, FileIs
  <2>1. /\ SaveOK(history, mailbox, updates) /\ mailbox.data = None /\ ~Saving
        /\ worker \in Workers
    BY DEF HistoryInv, Types, StoreTypes, StoreInv, Storing, Quiet, Saving
  <2>2. ToldAfter(history, updates) = ""
    BY DEF Told, Drained, ToldAfter
  <2>3. worker.writable
    <3> SUFFICES ASSUME ~worker.writable PROVE FALSE
      OBVIOUS
    <3>1. updates = << >> /\ history.error = "load"
      BY <2>1 DEF SaveOK
    <3> QED BY <2>2, <3>1 DEF ToldAfter
  <2> QED BY <2>1, <2>2, <2>3 DEF SaveOK
<1> QED BY <1>1, HistoryInvariant, PTL

LEMMA FileStep ==
  ASSUME HistoryInv, [Next]_vars
  PROVE  /\ file' # file /\ process' # "down" =>
              /\ worker.writable /\ file # Broken /\ file' \notin {Absent, Broken}
              /\ file # Absent => file'.stamp > file.stamp
         /\ file' = Broken => file = Broken
<1>1. CASE file' = file
  BY <1>1
<1>2. CASE WorkerPersist /\ file' = worker.job
  <2>1. /\ worker.pc = "persist" /\ Saving /\ worker.writable /\ worker.job \in Documents
        /\ file # Broken /\ file \in {Absent, Broken} \union Documents
        /\ Storing(history, mailbox, updates)
    BY <1>2 DEF HistoryInv, Types, StoreTypes, StoreInv, DiskInv, WorkerPersist, Saving
  <2>2. SaveOK(history, mailbox, updates)
    BY <2>1 DEF Storing, LoadOK
  <2>3. file \in Documents => file.stamp < worker.job.stamp
    BY <2>1, <2>2 DEF SaveOK
  <2>4. file \in Documents => file.stamp \in Nat
    BY DocumentParts
  <2>5. worker.job.stamp \in Nat
    BY <2>1, DocumentParts
  <2> QED BY <1>2, <2>1, <2>3, <2>4, <2>5, Constants
<1>3. file' = file \/ (WorkerPersist /\ file' = worker.job)
  <2>1. flushed = TRUE
    BY DEF HistoryInv, StoreInv, DiskInv
  <2>2. CASE Die
    BY <2>1, <2>2 DEF Die
  <2>3. CASE Start \/ Joined \/ UNCHANGED vars
    BY <2>3 DEF Start, Joined, vars, storage
  <2>4. CASE Worker
    BY <2>4 DEF Worker, WorkerLoad, WorkerTake, WorkerRefuse, WorkerWrite, WorkerPersist
  <2>5. CASE User
    BY <2>5 DEF User, ToggleFavorite, MoveFavorite, Open, OpenFails, Seek, Stop, Pause, Close, storage
  <2>6. CASE Timer
    BY <2>6 DEF Timer, Tick, storage
  <2> QED BY <2>2, <2>3, <2>4, <2>5, <2>6 DEF Next
<1> QED BY <1>1, <1>2, <1>3

\* The file only moves forward: a write puts there a later document, never over a
\* file that did not load, and no death of the process spoils it
\* (storage::save, storage.rs:175-188).
THEOREM FileAlwaysMovesForward == Spec => FileMovesForward
<1>1. HistoryInv /\ [Next]_vars =>
        [/\ file' # file /\ process' # "down" =>
              /\ worker.writable /\ file # Broken /\ file' \notin {Absent, Broken}
              /\ file # Absent => file'.stamp > file.stamp
         /\ file' = Broken => file = Broken]_vars
  BY FileStep
<1> QED BY <1>1, HistoryInvariant, PTL DEF Spec, FileMovesForward

\* A key names one recording for the life of the process: an entry has the key
\* and the recording of one that was there, or a key never given before
\* (History::record, viewing_history.rs:214-226).
THEOREM KeysAlwaysNameOne == Spec => KeysNameOne
<1>1. HistoryInv /\ [Next]_vars =>
        [history.ready /\ history'.ready =>
           \A e \in Elements(history'.doc.recordings) :
             \/ \E o \in Elements(history.doc.recordings) : o.key = e.key /\ o.source = e.source
             \/ e.key > history.doc.nextKey]_vars
  BY EachStep DEF Step, KeysKept
<1> QED BY <1>1, HistoryInvariant, PTL DEF Spec, KeysNameOne

\* The stored progress of a recording goes back only when its user sent the
\* playback elsewhere, when the automatic seek was refused, or when it had been
\* watched to the end (docs/viewing-history.md:101, recordings.rs:198-219).
THEOREM ProgressIsAlwaysKept == Spec => ProgressIsKept
<1>1. HistoryInv /\ [Next]_vars =>
        [history.ready /\ history'.ready =>
           \A r \in Recordings :
             LET p == Position(history.doc, r)
                 q == Position(history'.doc, r)
             IN  p # None /\ q # None /\ q < p =>
                   /\ session # None /\ session.source = r
                   /\ turned' \/ turned \/ Watched(p)]_vars
  <2> SUFFICES ASSUME HistoryInv, [Next]_vars, history.ready, history'.ready,
                      NEW r \in Recordings,
                      Position(history.doc, r) # None, Position(history'.doc, r) # None,
                      Position(history'.doc, r) < Position(history.doc, r)
               PROVE  /\ session # None /\ session.source = r
                      /\ turned' \/ turned \/ Watched(Position(history.doc, r))
    BY Zenon
  <2>1. ProgressKept(history, history', session, turned \/ turned')
    BY EachStep DEF Step
  <2> QED BY <2>1 DEF ProgressKept
<1> QED BY <1>1, HistoryInvariant, PTL DEF Spec, ProgressIsKept

=============================================================================
