------------------------ MODULE CommentArchiveProofs ------------------------
(***************************************************************************)
(* Proofs about CommentArchive, for any processes, recordings, limits and  *)
(* number of crashes and failures: types, CoverageIsHonest,                *)
(* RequestsAreSparing and PinnedIsKept.                                    *)
(***************************************************************************)
EXTENDS CommentArchive, FiniteSetTheorems, WellFoundedInduction, TLAPS
-----------------------------------------------------------------------------
(* The inductive invariant.                                                *)

Sending == {"create", "save", "send"}
Asking == Sending \cup {"plan", "reserve", "receive", "renamed"}
Importing == {"begin", "import"}

(* The clock of the database was turned back by no more than world.back. *)
Latest(back) == Larger(LATER_RETRY, RETRY_AFTER) + back
Clocks ==
  /\ \A a \in db.starts : -world.back <= a
  /\ db.observed <= world.back
  /\ db.wait <= Latest(world.back)
  /\ \A t \in Targets : db.targets[t].retry <= Latest(world.back)

(* Whoever holds the lock is alive. *)
Locked == job.pc # "none" => job.owner # None /\ app[job.owner].up # "down"

(* A plan asks for what lies side by side, and for something of its target. *)
Convex(units) == \A u, w \in units : \A v \in Units : u <= v /\ v <= w => v \in units
Sensible(plan) == Convex(plan.units) /\ plan.units \cap RangeOf[plan.target] # {}
Planned ==
  /\ job.pc \in (Asking \ {"plan"}) \cup Importing \cup {"check"} => job.plan # None
  /\ job.pc \in {"drop", "unlink", "fail"} =>
       /\ job.then # "none"
       /\ job.then \in {"failed", "rejected"} => job.plan # None
  /\ job.plan # None => Sensible(job.plan)
  /\ disk.meta # None => Sensible(disk.meta.plan)

(* How far the spool is at each step of the job. *)
Spooled ==
  /\ job.pc \in {"plan", "reserve", "create", "save", "fail"} => disk.meta = None
  /\ job.pc \in {"send", "receive", "renamed", "check"} \cup Importing => disk.meta # None
  /\ job.pc = "unlink" => disk.body = None
  /\ disk.body # None => disk.meta # None
  /\ job.pc \in Importing => disk.body # None /\ disk.body.valid

(* A receipt in the database is for the response in the spool. *)
Receipts == disk.meta = None \/ job.pc \in Asking => \A r \in db.rows : ~r.receipt

(* What is staged at each step of the job. *)
Stages(r) ==
  /\ ~r.published /\ r.receipt /\ r.units = job.plan.units /\ r.target = job.plan.target
  /\ \A u \in Units : r.count[u] <= disk.body.count[u]
  /\ \A q \in db.rows : q = r \/ q.published
Staging ==
  /\ job.pc \in Asking => \A r \in db.rows : r.published
  /\ job.pc \in {"check", "begin"} => \A r \in db.rows : r.published \/ r.receipt
  /\ job.pc = "import" => \E r \in db.rows : Stages(r)

OwnPin == job.pc \in Importing => db.pins[<<job.owner, "job">>] = job.plan.target

(* A response that was not published is in the spool, and was not imported. *)
Held ==
  seen.held =>
    /\ disk.body # None /\ disk.body.valid
    /\ \A r \in Published : ~r.receipt
    /\ job.pc \in {"none", "recover", "renamed", "check", "end"} \cup Importing

(* What the server asked for is in the database, on the wall clock of then; a
   response means that it asks for nothing. *)
Asked ==
  \A back \in 0 .. ROLLBACK :
    /\ seen.asked[back] > 0 => seen.asked[back] + (world.back - back) <= db.wait
    /\ disk.body # None => seen.asked[back] = 0
    /\ job.pc \in Sending => seen.asked[back] <= Lead(back)

(* Between the reservation and the request, the job's slot is the newest on
   its clock. *)
Reserved ==
  job.pc \in Sending =>
    /\ NewSlot \in db.starts
    /\ \A a \in db.starts : a = NewSlot \/ a + Now >= SPACING
    /\ Cardinality(db.starts \ {NewSlot}) < PER_WINDOW
    /\ db.observed <= Now

(* Each request has a slot of its own, by the clock it was sent on, until a
   clock was observed on which the slot has left the window. *)
Slots == IF job.pc \in Sending THEN db.starts \ {NewSlot} ELSE db.starts
SlotOf(r) == r.age + r.clock - world.back
Counted ==
  /\ \A r \in seen.sent : SlotOf(r) \in Slots \/ SlotOf(r) + db.observed >= WINDOW
  /\ \A q, r \in seen.sent : SlotOf(q) = SlotOf(r) => q = r

IInv ==
  /\ TypeOK
  /\ Clocks
  /\ Locked
  /\ Planned
  /\ Spooled
  /\ Receipts
  /\ Staging
  /\ OwnPin
  /\ Held
  /\ Asked
  /\ Reserved
  /\ Counted
  /\ CoverageIsHonest

-----------------------------------------------------------------------------
(* The parts of the types, one set for each variable.                      *)
Disks == [part : BOOLEAN, body : Body \cup {None}, meta : Meta \cup {None}]
TargetStates == [failures : 0 .. TARGET_FAILURES, retry : Stamp, stopped : BOOLEAN, refresh : BOOLEAN]
Dbs == [rows : SUBSET Row, starts : SUBSET (Past .. WINDOW + ROLLBACK - 1),
        observed : Past .. ROLLBACK, wait : Stamp, failures : 0 .. 1,
        targets : [Targets -> TargetStates], pins : [Sessions -> Targets \cup {None}]]
AppStates == [up : {"down", "up", "stopping"}, demand : Targets \cup {None},
              fetch : BOOLEAN, pinned : Targets \cup {None}, clock : 0 .. ROLLBACK]
Apps == [Processes -> AppStates]
Pcs == {"none", "recover", "plan", "reserve", "create", "save", "send", "receive", "renamed",
        "check", "begin", "import", "drop", "unlink", "fail", "end"}
Thens == {"none", "plan", "partial", "failed", "rejected", "complete"}
Jobs == [owner : Processes \cup {None}, pc : Pcs, target : Targets \cup {None},
         plan : Plan \cup {None}, then : Thens]
Worlds == [avail : Units, aged : BOOLEAN, events : 0 .. MaxEvents, back : 0 .. ROLLBACK]
Bests == [Units -> 0 .. 1 \cup {None}]
Requests == [age : 0 .. WINDOW - 1, clock : 0 .. ROLLBACK]
Seens == [best : Bests, held : BOOLEAN, sent : SUBSET Requests, asked : [0 .. ROLLBACK -> Nat]]

LEMMA TypeParts ==
  TypeOK <=> /\ disk \in Disks /\ db \in Dbs /\ app \in Apps /\ job \in Jobs
             /\ world \in Worlds /\ seen \in Seens
BY DEF TypeOK, Disks, Dbs, TargetStates, Apps, AppStates, Jobs, Pcs, Thens, Worlds, Bests, Seens, Requests

LEMMA TypePartsNext ==
  TypeOK' <=> /\ disk' \in Disks /\ db' \in Dbs /\ app' \in Apps /\ job' \in Jobs
              /\ world' \in Worlds /\ seen' \in Seens
BY DEF TypeOK, Disks, Dbs, TargetStates, Apps, AppStates, Jobs, Pcs, Thens, Worlds, Bests, Seens, Requests

-----------------------------------------------------------------------------
(* Numbers.                                                                *)
LEMMA Sizes ==
  /\ {SPACING, WINDOW, PER_WINDOW, MAX_REQUEST, UNITS} \subseteq Nat \ {0}
  /\ {FIRST_RETRY, LATER_RETRY, RETRY_AFTER, TARGET_FAILURES, ROLLBACK, MaxEvents} \subseteq Nat
  /\ SPACING <= WINDOW /\ FIRST_RETRY > 0 /\ FIRST_RETRY <= LATER_RETRY
  /\ Past = -ROLLBACK /\ Units = 1 .. UNITS
BY RangesAssumption, TimesAssumption DEF Past, Units

LEMMA LargerIs ==
  ASSUME NEW a \in Int, NEW b \in Int
  PROVE  /\ Larger(a, b) \in Int /\ Larger(a, b) >= a /\ Larger(a, b) >= b
         /\ (Larger(a, b) = a \/ Larger(a, b) = b)
BY DEF Larger

LEMMA LatestIs ==
  ASSUME NEW back \in 0 .. ROLLBACK
  PROVE  /\ Latest(back) \in Nat /\ Latest(back) >= LATER_RETRY /\ Latest(back) >= RETRY_AFTER
         /\ Latest(back) >= back
         /\ \A stamp \in Int : Past <= stamp /\ stamp <= Latest(back) => stamp \in Stamp
         /\ \A stamp \in Stamp : stamp \in Int /\ Past <= stamp
         /\ Latest(back + 1) = Latest(back) + 1
<1>1. LATER_RETRY \in Nat /\ RETRY_AFTER \in Nat /\ ROLLBACK \in Nat /\ Past = -ROLLBACK
  BY Sizes
<1> DEFINE most == Larger(LATER_RETRY, RETRY_AFTER)
<1>2. most \in Nat /\ most >= LATER_RETRY /\ most >= RETRY_AFTER
  BY <1>1 DEF Larger
<1>3. Latest(back) = most + back /\ Latest(back + 1) = most + (back + 1) /\ Stamp = Past .. most + ROLLBACK
  BY DEF Latest, Stamp
<1> HIDE DEF most
<1> QED BY <1>1, <1>2, <1>3

(* Every set of numbers has a least one. *)
LEMMA LeastOfSet ==
  ASSUME NEW T \in SUBSET Nat, T # {}
  PROVE  \E x \in T : \A y \in T : x <= y
<1>1. IsWellFoundedOn(OpToRel(<, Nat), Nat)
  BY NatLessThanWellFounded
<1>2. PICK x \in T : \A y \in T : ~ (<<y, x>> \in OpToRel(<, Nat))
  BY <1>1, WFMin
<1>3. \A y \in T : ~ (y < x)
  BY <1>2 DEF OpToRel
<1> QED BY <1>3

LEMMA LeastFrom ==
  ASSUME NEW low \in Int, NEW T \in SUBSET Int, T # {}, \A x \in T : low <= x
  PROVE  \E x \in T : \A y \in T : x <= y
<1> DEFINE D == {x - low : x \in T}
<1>1. D \in SUBSET Nat /\ D # {}
  <2>1. D \subseteq Nat
    OBVIOUS
  <2>2. PICK y \in T : TRUE
    OBVIOUS
  <2>3. y - low \in D
    OBVIOUS
  <2> QED BY <2>1, <2>3
<1>2. PICK d \in D : \A e \in D : d <= e
  BY <1>1, LeastOfSet
<1>3. PICK x \in T : d = x - low
  BY <1>2
<1>4. ASSUME NEW y \in T PROVE x <= y
  <2>1. y - low \in D
    OBVIOUS
  <2>2. d <= y - low
    BY <1>2, <2>1
  <2> QED BY <1>3, <2>2
<1> QED BY <1>4

(* ... and a greatest one when it is bounded. *)
LEMMA GreatestTo ==
  ASSUME NEW high \in Int, NEW T \in SUBSET Int, T # {}, \A x \in T : x <= high
  PROVE  \E x \in T : \A y \in T : y <= x
<1> DEFINE D == {-x : x \in T}
<1>1. D \in SUBSET Int /\ D # {} /\ -high \in Int /\ \A d \in D : -high <= d
  <2>1. D \subseteq Int /\ -high \in Int /\ \A d \in D : -high <= d
    OBVIOUS
  <2>2. PICK y \in T : TRUE
    OBVIOUS
  <2>3. -y \in D
    OBVIOUS
  <2> QED BY <2>1, <2>3
<1>2. PICK d \in D : \A e \in D : d <= e
  BY <1>1, LeastFrom
<1>3. PICK x \in T : d = -x
  BY <1>2
<1>4. ASSUME NEW y \in T PROVE y <= x
  <2>1. -y \in D
    OBVIOUS
  <2>2. d <= -y
    BY <1>2, <2>1
  <2> QED BY <1>3, <2>2
<1> QED BY <1>4

-----------------------------------------------------------------------------
(* What a step may leave alone.                                            *)
LEMMA ClocksKept ==
  ASSUME Clocks, world'.back = world.back, db'.starts = db.starts, db'.observed = db.observed,
         db'.wait = db.wait, \A t \in Targets : db'.targets[t].retry = db.targets[t].retry
  PROVE  Clocks'
BY DEF Clocks, Latest

LEMMA HonestKept ==
  ASSUME CoverageIsHonest, Published' = Published, seen'.best = seen.best
  PROVE  CoverageIsHonest'
BY DEF CoverageIsHonest, Coverage

LEMMA HonestSame ==
  ASSUME CoverageIsHonest, db'.rows = db.rows, seen'.best = seen.best
  PROVE  CoverageIsHonest'
<1>1. Published' = Published
  BY DEF Published
<1> QED BY <1>1, HonestKept

LEMMA CountedKept ==
  ASSUME Counted, seen'.sent = seen.sent, world'.back = world.back, db'.observed = db.observed,
         Slots \subseteq Slots'
  PROVE  Counted'
BY DEF Counted, SlotOf

(* The clock of the job goes on as it was. *)
SameClock == job'.owner = job.owner /\ app'[job.owner].clock = app[job.owner].clock
               /\ world'.back = world.back

LEMMA NowKept ==
  ASSUME SameClock
  PROVE  Now' = Now /\ NewSlot' = NewSlot /\ \A back : Lead(back)' = Lead(back)
BY DEF SameClock, Now, Ahead, NewSlot, Lead

LEMMA CountedSame ==
  ASSUME Counted, seen'.sent = seen.sent, db'.starts = db.starts, db'.observed = db.observed,
         world'.back = world.back, job'.pc \in Sending => job.pc \in Sending /\ SameClock
  PROVE  Counted'
<1>1. job'.pc \in Sending => NewSlot' = NewSlot
  BY NowKept
<1>2. Slots \subseteq Slots'
  BY <1>1 DEF Slots
<1> QED BY <1>2, CountedKept

LEMMA AskedKept ==
  ASSUME Asked, seen'.asked = seen.asked, db'.wait = db.wait, world'.back = world.back,
         disk'.body \in {None, disk.body},
         job'.pc \in Sending => job.pc \in Sending /\ SameClock
  PROVE  Asked'
<1>1. job'.pc \in Sending => \A back : Lead(back)' = Lead(back)
  BY NowKept
<1> QED BY <1>1 DEF Asked

(* The job goes on, is over, or begins to discard the spool. *)
Steps(pc) ==
  job'.pc = pc /\ job'.owner = job.owner /\ job'.plan = job.plan /\ job'.then = job.then
Rests == job'.pc = "end" /\ job'.owner = job.owner /\ job'.plan = None
Drops(then) ==
  job'.pc = "drop" /\ job'.owner = job.owner /\ job'.plan = job.plan /\ job'.then = then

LEMMA GoesIs ==
  ASSUME job \in Jobs, NEW pc \in Pcs, Goes(pc)
  PROVE  job' \in Jobs /\ Steps(pc)
BY DEF Jobs, Goes, Steps

LEMMA EndsIs ==
  ASSUME job \in Jobs, Ends
  PROVE  job' \in Jobs /\ Rests
BY DEF Jobs, Ends, Rests, NoJob, Pcs, Thens

LEMMA DiscardsIs ==
  ASSUME job \in Jobs, NEW then \in Thens, Discards(then)
  PROVE  job' \in Jobs /\ Drops(then)
BY DEF Jobs, Discards, Drops, Pcs

LEMMA LockKept ==
  ASSUME Locked, job.pc # "none", job'.owner = job.owner, app' = app
  PROVE  Locked'
BY DEF Locked

(* Whoever holds the lock goes on as it was. *)
Undisturbed ==
  job.pc # "none" => app'[job.owner].up # "down" /\ app'[job.owner].clock = app[job.owner].clock

(* Steps of a worker, of which the job sees only that nobody uses a row any more. *)
LEMMA BystanderHolds ==
  ASSUME IInv, TypeOK', job' = job, disk' = disk, world'.back = world.back,
         seen'.held = seen.held, seen'.asked = seen.asked, seen'.sent = seen.sent,
         db'.rows \subseteq db.rows, \A r \in db.rows : r.published \/ r \in db'.rows,
         db'.starts = db.starts, db'.observed = db.observed, db'.wait = db.wait,
         \A t \in Targets : db'.targets[t].retry = db.targets[t].retry,
         Undisturbed,
         job.pc # "none" => db'.pins[<<job.owner, "job">>] = db.pins[<<job.owner, "job">>],
         CoverageIsHonest'
  PROVE  IInv'
<1>1. Clocks'
  BY ClocksKept DEF IInv
<1>2. Locked'
  BY DEF IInv, Locked, Undisturbed
<1>3. Planned' /\ Spooled'
  BY DEF IInv, Planned, Spooled
<1>4. Receipts'
  BY DEF IInv, Receipts
<1>5. Staging'
  <2>1. job.pc = "import" => \E r \in db'.rows : Stages(r)'
    BY DEF IInv, Staging, Stages
  <2> QED BY <2>1 DEF IInv, Staging
<1>6. OwnPin'
  BY DEF IInv, OwnPin, Importing
<1>7. Held'
  BY DEF IInv, Held, Published
<1>8. job'.pc \in Sending => job.pc \in Sending /\ SameClock
  BY DEF SameClock, Sending, Undisturbed
<1>9. Asked' /\ Reserved' /\ Counted'
  <2>1. Asked' /\ Counted'
    BY <1>8, AskedKept, CountedSame DEF IInv
  <2>2. Reserved'
    BY <1>8, NowKept DEF IInv, Reserved
  <2> QED BY <2>1, <2>2
<1> QED BY <1>1, <1>2, <1>3, <1>4, <1>5, <1>6, <1>7, <1>9 DEF IInv

(* The end of a job, wherever it is, and the start of one. *)
LEMMA EndCounted ==
  ASSUME IInv, TypeOK', Clocks', Locked', Asked', Counted',
         job'.pc \in {"none", "end", "recover"}, job'.plan = None, disk' = disk, db'.rows = db.rows,
         seen'.held = seen.held, seen'.best = seen.best
  PROVE  IInv'
<1>1. Planned' /\ Spooled'
  BY DEF IInv, Planned, Spooled, Asking, Importing, Sending
<1>2. Receipts' /\ Staging'
  <2>1. Receipts'
    BY DEF IInv, Receipts, Asking, Sending
  <2> QED BY <2>1 DEF Staging, Asking, Sending
<1>3. OwnPin' /\ Reserved'
  BY DEF OwnPin, Reserved, Importing, Sending
<1>4. Held'
  BY DEF IInv, Held, Published
<1>5. CoverageIsHonest'
  BY HonestSame DEF IInv
<1> QED BY <1>1, <1>2, <1>3, <1>4, <1>5 DEF IInv

LEMMA EndHolds ==
  ASSUME IInv, TypeOK', Clocks', Locked', Asked',
         job'.pc \in {"none", "end", "recover"}, job'.plan = None, disk' = disk, db'.rows = db.rows,
         seen'.held = seen.held, seen'.best = seen.best, seen'.sent = seen.sent,
         world'.back = world.back, db'.observed = db.observed, Slots \subseteq db'.starts
  PROVE  IInv'
<1>1. Slots' = db'.starts
  BY DEF Slots, Sending
<1>2. Counted'
  BY <1>1, CountedKept DEF IInv
<1> QED BY <1>2, EndCounted

LEMMA SlotsAreStarts == Slots \subseteq db.starts
BY DEF Slots

-----------------------------------------------------------------------------
(* The initial states.                                                     *)
LEMMA DownIs ==
  /\ Down \in AppStates
  /\ \A p \in Processes : \A a \in Started(p) : a \in AppStates /\ a.up = "up" /\ a.pinned = None
<1>1. Down \in AppStates
  BY Sizes DEF Down, AppStates
<1>2. ASSUME NEW p \in Processes, NEW a \in Started(p)
      PROVE  a \in AppStates /\ a.up = "up" /\ a.pinned = None
  <2>1. PICK d \in Demands[p] : a = [Down EXCEPT !.up = "up", !.demand = d[1], !.fetch = d[2]]
    BY <1>2 DEF Started
  <2>2. d[1] \in Targets \cup {None} /\ d[2] \in BOOLEAN
    BY <2>1, RangesAssumption
  <2>3. Down.clock \in 0 .. ROLLBACK
    BY <1>1 DEF AppStates
  <2> QED BY <2>1, <2>2, <2>3 DEF Down, AppStates
<1> QED BY <1>1, <1>2

LEMMA FreshIs == FreshTarget \in TargetStates /\ FreshTarget.retry = Past
<1>1. Past \in Stamp
  <2>1. 0 \in 0 .. ROLLBACK /\ Past \in Int /\ Past <= 0
    BY Sizes
  <2>2. Past <= Latest(0)
    BY <2>1, LatestIs
  <2> QED BY <2>1, <2>2, LatestIs
<1> QED BY <1>1, Sizes DEF FreshTarget, TargetStates

LEMMA InitHolds == Init => IInv
<1> SUFFICES ASSUME Init PROVE IInv
  OBVIOUS
<1>1. ROLLBACK \in Nat /\ Past = -ROLLBACK /\ WINDOW \in Nat /\ MaxEvents \in Nat
  BY Sizes
<1>2. Past \in Stamp /\ Past \in Past .. ROLLBACK /\ Latest(0) \in Nat /\ 0 \in 0 .. ROLLBACK
  BY <1>1, FreshIs, LatestIs DEF FreshTarget, TargetStates
<1>3. TypeOK
  <2>1. disk \in Disks
    BY DEF Init, Disks
  <2>2. db \in Dbs
    BY <1>2, FreshIs DEF Init, Dbs
  <2>3. app \in Apps
    <3>1. app \in [Processes -> {Down} \cup UNION {Started(p) : p \in Processes}]
      BY DEF Init
    <3>2. \A p \in Processes : app[p] \in AppStates
      BY <3>1, DownIs
    <3> QED BY <3>1, <3>2 DEF Apps
  <2>4. job \in Jobs
    BY DEF Init, Jobs, NoJob, Pcs, Thens
  <2>5. world \in Worlds
    BY <1>2, <1>1 DEF Init, Worlds
  <2>6. seen \in Seens
    BY DEF Init, Seens, Bests
  <2> QED BY <2>1, <2>2, <2>3, <2>4, <2>5, <2>6, TypeParts
<1>4. /\ db.rows = {} /\ db.starts = {} /\ db.observed = Past /\ db.wait = Past
      /\ \A t \in Targets : db.targets[t].retry = Past
      /\ world.back = 0 /\ job.pc = "none" /\ job.plan = None /\ disk.meta = None /\ disk.body = None
      /\ seen.held = FALSE /\ seen.sent = {}
      /\ \A back \in 0 .. ROLLBACK : seen.asked[back] = 0
      /\ \A u \in Units : seen.best[u] = None
  BY FreshIs DEF Init, NoJob
<1>5. Clocks
  BY <1>1, <1>2, <1>4 DEF Clocks
<1>6. Locked /\ Planned /\ Spooled /\ Receipts /\ OwnPin /\ Held /\ Asked /\ Reserved
  BY <1>4 DEF Locked, Planned, Spooled, Receipts, OwnPin, Held, Asked, Reserved, Asking,
              Importing, Sending
<1>7. Staging
  BY <1>4 DEF Staging, Asking, Sending
<1>8. Counted
  BY <1>4 DEF Counted
<1>9. CoverageIsHonest
  BY <1>4 DEF CoverageIsHonest, Published
<1> QED BY <1>3, <1>5, <1>6, <1>7, <1>8, <1>9 DEF IInv

-----------------------------------------------------------------------------
(* The workers.                                                            *)
LEMMA CoveredIs ==
  /\ \A u : u \in Coverage(FALSE) <=> \E r \in Published : u \in r.units
  /\ \A u : u \in Coverage(FALSE)' <=> \E r \in Published' : u \in r.units
BY DEF Coverage

(* Rows that go take with them what they say of their units, and no more. *)
LEMMA CleanedIsHonest ==
  ASSUME CoverageIsHonest, db \in Dbs, seen \in Seens, NEW gone \in SUBSET Published,
         db'.rows = db.rows \ gone, seen'.best = Forgotten(gone)
  PROVE  CoverageIsHonest'
<1>1. Published' = Published \ gone
  BY DEF Published
<1>2. \A u \in Units :
        seen'.best[u] = IF \E r \in gone : u \in r.units THEN None ELSE seen.best[u]
  BY DEF Forgotten
<1>3. ASSUME NEW r \in Published', NEW u \in r.units, u \in Units PROVE r.count[u] = seen'.best[u]
  <2>1. ~ \E q \in gone : u \in q.units
    BY <1>1, <1>3 DEF CoverageIsHonest, Overlaps
  <2> QED BY <1>1, <1>2, <1>3, <2>1 DEF CoverageIsHonest
<1>4. ASSUME NEW u \in Units, seen'.best[u] # None PROVE \E r \in Published' : u \in r.units
  <2>1. ~ (\E q \in gone : u \in q.units) /\ seen.best[u] # None
    BY <1>2, <1>4
  <2>2. PICK r \in Published : u \in r.units
    BY <2>1, CoveredIs DEF CoverageIsHonest
  <2> QED BY <1>1, <2>1, <2>2
<1>5. \A q, r \in Published' : q # r => ~Overlaps(q, r.units)
  BY <1>1 DEF CoverageIsHonest
<1>6. \A r \in Published' : r.units \subseteq Units
  BY <1>1 DEF Published, Dbs, Row
<1>7. \A r \in Published' : \A u \in r.units : r.count[u] = seen'.best[u]
  BY <1>3, <1>6
<1>8. \A u \in Units : seen'.best[u] # None => u \in Coverage(FALSE)'
  BY <1>4, CoveredIs
<1> QED BY <1>5, <1>7, <1>8 DEF CoverageIsHonest

LEMMA EvictedIs ==
  ASSUME NEW pins, NEW groups
  PROVE  Evicted(groups) \in SUBSET Published
BY DEF Evicted

LEMMA ForgottenIs ==
  ASSUME seen \in Seens, NEW gone
  PROVE  Forgotten(gone) \in Bests
BY DEF Forgotten, Seens, Bests

(* A cleanup with the pins of the database or of what is left of them. *)
LEMMA CleanupHolds ==
  ASSUME IInv, NEW pins \in [Sessions -> Targets \cup {None}], Cleanup(pins),
         job.pc # "none" => pins[<<job.owner, "job">>] = db.pins[<<job.owner, "job">>],
         app' \in Apps, Undisturbed,
         UNCHANGED <<disk, job, world>>
  PROVE  IInv'
<1>1. PICK groups \in SUBSET Evictable(pins) :
        /\ db' = [db EXCEPT !.pins = pins, !.rows = @ \ Evicted(groups)]
        /\ seen' = [seen EXCEPT !.best = Forgotten(Evicted(groups))]
  BY DEF Cleanup
<1> DEFINE gone == Evicted(groups)
<1>2. gone \in SUBSET Published
  BY EvictedIs
<1>3. disk \in Disks /\ db \in Dbs /\ job \in Jobs /\ world \in Worlds /\ seen \in Seens
  BY TypeParts DEF IInv
<1>4. Forgotten(gone) \in Bests
  BY <1>3, ForgottenIs
<1> HIDE DEF gone
<1>5. /\ db' \in Dbs /\ db'.rows = db.rows \ gone /\ db'.pins = pins
      /\ db'.starts = db.starts /\ db'.observed = db.observed /\ db'.wait = db.wait
      /\ db'.targets = db.targets
  BY <1>1, <1>3 DEF Dbs, gone
<1>6. /\ seen' \in Seens /\ seen'.best = Forgotten(gone) /\ seen'.held = seen.held
      /\ seen'.asked = seen.asked /\ seen'.sent = seen.sent
  BY <1>1, <1>3, <1>4 DEF Seens, gone
<1>7. TypeOK'
  BY <1>3, <1>5, <1>6, TypePartsNext
<1>8. CoverageIsHonest'
  BY <1>2, <1>3, <1>5, <1>6, CleanedIsHonest DEF IInv
<1>9. db'.rows \subseteq db.rows /\ \A r \in db.rows : r.published \/ r \in db'.rows
  BY <1>2, <1>5 DEF Published
<1> QED BY <1>5, <1>6, <1>7, <1>8, <1>9, BystanderHolds

LEMMA OwnerIs ==
  ASSUME IInv, job.pc # "none"
  PROVE  job.owner \in Processes /\ <<job.owner, "job">> \in Sessions
BY TypeParts DEF IInv, Locked, Jobs, Sessions

(* What the clock of a job reads. *)
LEMMA NowIs ==
  ASSUME IInv, job.pc # "none"
  PROVE  /\ world.back \in 0 .. ROLLBACK /\ app[job.owner].clock \in 0 .. ROLLBACK
         /\ Now = world.back - app[job.owner].clock /\ NewSlot = -Now
         /\ Now \in Int /\ Past <= Now /\ Now <= world.back /\ -ROLLBACK <= NewSlot /\ NewSlot <= ROLLBACK
<1>1. /\ world.back \in 0 .. ROLLBACK /\ app[job.owner].clock \in 0 .. ROLLBACK
      /\ ROLLBACK \in Nat /\ Past = -ROLLBACK
  BY OwnerIs, TypeParts, Sizes DEF IInv, Worlds, Apps, AppStates
<1>2. Now = world.back - app[job.owner].clock /\ NewSlot = -Now
  BY DEF Now, Ahead, NewSlot
<1> QED BY <1>1, <1>2

LEMMA LeadIs ==
  ASSUME IInv, job.pc # "none", NEW clock \in 0 .. ROLLBACK
  PROVE  Lead(clock) \in Nat /\ Lead(clock) >= clock - app[job.owner].clock
<1>1. clock - app[job.owner].clock \in Int
  BY NowIs
<1> QED BY <1>1 DEF Lead, Larger

LEMMA MaintainHolds ==
  ASSUME IInv, NEW p \in Processes, Maintain(p)
  PROVE  IInv'
<1>1. db \in Dbs /\ app \in Apps
  BY TypeParts DEF IInv
<1>2. db.pins \in [Sessions -> Targets \cup {None}]
  BY <1>1 DEF Dbs
<1>3. Cleanup(db.pins) /\ app' = app /\ UNCHANGED <<disk, job, world>>
  BY DEF Maintain
<1>4. Undisturbed
  BY <1>3 DEF IInv, Locked, Undisturbed
<1> QED BY <1>1, <1>2, <1>3, <1>4, CleanupHolds

LEMMA StoppedHolds ==
  ASSUME IInv, NEW p \in Processes, Stopped(p)
  PROVE  IInv'
<1> DEFINE pins == [db.pins EXCEPT ![<<p, "worker">>] = None]
<1>1. db \in Dbs /\ app \in Apps
  BY TypeParts DEF IInv
<1>2. /\ pins \in [Sessions -> Targets \cup {None}]
      /\ job.pc # "none" => pins[<<job.owner, "job">>] = db.pins[<<job.owner, "job">>]
  <2>1. db.pins \in [Sessions -> Targets \cup {None}]
    BY <1>1 DEF Dbs
  <2>2. \A s \in Sessions : s # <<p, "worker">> => pins[s] = db.pins[s]
    BY <2>1
  <2>3. job.pc # "none" => <<job.owner, "job">> \in Sessions
    BY OwnerIs
  <2>4. <<job.owner, "job">> # <<p, "worker">>
    OBVIOUS
  <2>5. pins \in [Sessions -> Targets \cup {None}]
    BY <2>1
  <2> HIDE DEF pins
  <2> QED BY <2>2, <2>3, <2>4, <2>5
<1>3. Cleanup(pins) /\ app' = [app EXCEPT ![p] = Down] /\ UNCHANGED <<disk, job, world>> /\ job.owner # p
  BY DEF Stopped
<1>4. app' \in Apps /\ Undisturbed
  BY <1>1, <1>3, DownIs DEF IInv, Locked, Apps, Undisturbed
<1> HIDE DEF pins
<1> QED BY <1>2, <1>3, <1>4, CleanupHolds

LEMMA StartHolds ==
  ASSUME IInv, NEW p \in Processes, Start(p)
  PROVE  IInv'
<1>1. disk \in Disks /\ db \in Dbs /\ app \in Apps /\ job \in Jobs /\ world \in Worlds /\ seen \in Seens
  BY TypeParts DEF IInv
<1>2. PICK started \in Started(p) : app' = [app EXCEPT ![p] = [started EXCEPT !.clock = world.back]]
  BY DEF Start
<1>3. [started EXCEPT !.clock = world.back] \in AppStates /\ started.up = "up" /\ app[p].up = "down"
  BY <1>1, <1>2, DownIs DEF AppStates, Worlds, Start
<1>4. app' \in Apps /\ Undisturbed
  BY <1>1, <1>2, <1>3 DEF IInv, Locked, Apps, Undisturbed
<1> DEFINE pins == [s \in Sessions |-> IF Alive(s) THEN db.pins[s] ELSE None]
<1>5. pins \in [Sessions -> Targets \cup {None}]
  BY <1>1 DEF Dbs
<1>6. job.pc # "none" => pins[<<job.owner, "job">>] = db.pins[<<job.owner, "job">>]
  <2>1. SUFFICES ASSUME job.pc # "none" PROVE Alive(<<job.owner, "job">>)
    BY OwnerIs
  <2> QED BY <2>1 DEF IInv, Locked, Alive
<1>7. db' = [db EXCEPT !.pins = pins] /\ UNCHANGED <<disk, job, world, seen>>
  BY DEF Start
<1> HIDE DEF pins
<1>8. /\ db' \in Dbs /\ db'.rows = db.rows /\ db'.starts = db.starts /\ db'.observed = db.observed
      /\ db'.wait = db.wait /\ db'.targets = db.targets /\ db'.pins = pins
  BY <1>1, <1>5, <1>7 DEF Dbs
<1>9. TypeOK'
  BY <1>1, <1>4, <1>7, <1>8, TypePartsNext
<1>10. CoverageIsHonest'
  BY <1>7, <1>8, HonestSame DEF IInv
<1> QED BY <1>4, <1>6, <1>7, <1>8, <1>9, <1>10, BystanderHolds

(* A worker that says what it wants, or pins for itself. *)
LEMMA WorkerHolds ==
  ASSUME IInv, NEW p \in Processes, NEW up \in {"up", "stopping"},
         app' \in Apps, app'[p].up = up, app'[p].clock = app[p].clock, \A q \in Processes \ {p} : app'[q] = app[q],
         world' \in Worlds, world'.back = world.back,
         NEW pins \in [Sessions -> Targets \cup {None}], db' = [db EXCEPT !.pins = pins],
         \A s \in Sessions : s # <<p, "worker">> => pins[s] = db.pins[s],
         UNCHANGED <<disk, job, seen>>
  PROVE  IInv'
<1>1. disk \in Disks /\ db \in Dbs /\ app \in Apps /\ job \in Jobs /\ seen \in Seens
  BY TypeParts DEF IInv
<1>2. Undisturbed
  BY OwnerIs DEF IInv, Locked, Undisturbed
<1>3. job.pc # "none" => pins[<<job.owner, "job">>] = db.pins[<<job.owner, "job">>]
  <2>1. <<job.owner, "job">> # <<p, "worker">>
    OBVIOUS
  <2> QED BY <2>1, OwnerIs
<1>4. /\ db' \in Dbs /\ db'.rows = db.rows /\ db'.starts = db.starts /\ db'.observed = db.observed
      /\ db'.wait = db.wait /\ db'.targets = db.targets /\ db'.pins = pins
  BY <1>1 DEF Dbs
<1>5. TypeOK'
  BY <1>1, <1>4, TypePartsNext
<1>6. CoverageIsHonest'
  BY <1>4, HonestSame DEF IInv
<1> QED BY <1>2, <1>3, <1>4, <1>5, <1>6, BystanderHolds

LEMMA EventIs ==
  ASSUME world \in Worlds, Event
  PROVE  world' \in Worlds /\ world'.back = world.back
<1>1. world.events \in 0 .. MaxEvents /\ world.events + 1 \in 0 .. MaxEvents
  BY Sizes DEF Worlds, Event
<1> QED BY <1>1 DEF Worlds, Event

LEMMA PinsSame ==
  ASSUME db \in Dbs
  PROVE  db.pins \in [Sessions -> Targets \cup {None}] /\ db = [db EXCEPT !.pins = db.pins]
BY DEF Dbs

LEMMA PinsWith ==
  ASSUME db \in Dbs, NEW s \in Sessions, NEW t \in Targets \cup {None}
  PROVE  LET pins == [db.pins EXCEPT ![s] = t] IN
         /\ pins \in [Sessions -> Targets \cup {None}] /\ pins[s] = t
         /\ \A q \in Sessions : q # s => pins[q] = db.pins[q]
         /\ [db EXCEPT !.pins[s] = t] = [db EXCEPT !.pins = pins]
BY DEF Dbs

LEMMA ConfigureHolds ==
  ASSUME IInv, NEW p \in Processes, NEW d \in Demands[p], Configure(p, d[1], d[2])
  PROVE  IInv'
<1>1. db \in Dbs /\ app \in Apps /\ world \in Worlds
  BY TypeParts DEF IInv
<1>2. d[1] \in Targets \cup {None} /\ d[2] \in BOOLEAN
  BY RangesAssumption
<1>3. app' = [app EXCEPT ![p].demand = d[1], ![p].fetch = d[2]] /\ app[p].up = "up"
  BY DEF Configure
<1>4. app' \in Apps /\ app'[p].up = "up" /\ app'[p].clock = app[p].clock /\ \A q \in Processes \ {p} : app'[q] = app[q]
  BY <1>1, <1>2, <1>3 DEF Apps, AppStates
<1>5. world' \in Worlds /\ world'.back = world.back
  BY <1>1, EventIs DEF Configure
<1>6. db' = [db EXCEPT !.pins = db.pins] /\ UNCHANGED <<disk, job, seen>>
  BY <1>1, PinsSame DEF Configure
<1> QED BY <1>1, <1>4, <1>5, <1>6, PinsSame, WorkerHolds

LEMMA StopHolds ==
  ASSUME IInv, NEW p \in Processes, Stop(p)
  PROVE  IInv'
<1>1. db \in Dbs /\ app \in Apps /\ world \in Worlds
  BY TypeParts DEF IInv
<1>2. app' = [app EXCEPT ![p].up = "stopping"]
  BY DEF Stop
<1>3. app' \in Apps /\ app'[p].up = "stopping" /\ app'[p].clock = app[p].clock /\ \A q \in Processes \ {p} : app'[q] = app[q]
  BY <1>1, <1>2 DEF Apps, AppStates
<1>4. world' \in Worlds /\ world'.back = world.back
  BY <1>1, EventIs DEF Stop
<1>5. db' = [db EXCEPT !.pins = db.pins] /\ UNCHANGED <<disk, job, seen>>
  BY <1>1, PinsSame DEF Stop
<1> QED BY <1>1, <1>3, <1>4, <1>5, PinsSame, WorkerHolds

LEMMA PinsHold ==
  ASSUME IInv, NEW p \in Processes, ResetSource(p) \/ PinTarget(p)
  PROVE  IInv'
<1>1. db \in Dbs /\ app \in Apps /\ world \in Worlds
  BY TypeParts DEF IInv
<1>2. PICK t \in Targets \cup {None} :
        app' = [app EXCEPT ![p].pinned = t] /\ db' = [db EXCEPT !.pins[<<p, "worker">>] = t]
  BY <1>1 DEF ResetSource, PinTarget, Apps, AppStates
<1>3. app' \in Apps /\ app'[p].up = "up" /\ app'[p].clock = app[p].clock /\ \A q \in Processes \ {p} : app'[q] = app[q]
  <2>1. app[p].up = "up"
    BY DEF ResetSource, PinTarget
  <2> QED BY <1>1, <1>2, <2>1 DEF Apps, AppStates
<1> DEFINE pins == [db.pins EXCEPT ![<<p, "worker">>] = t]
<1>4. <<p, "worker">> \in Sessions
  BY DEF Sessions
<1>5. /\ pins \in [Sessions -> Targets \cup {None}] /\ db' = [db EXCEPT !.pins = pins]
      /\ \A s \in Sessions : s # <<p, "worker">> => pins[s] = db.pins[s]
  BY <1>1, <1>2, <1>4, PinsWith
<1>6. UNCHANGED <<disk, job, seen, world>>
  BY DEF ResetSource, PinTarget
<1> HIDE DEF pins
<1> QED BY <1>1, <1>3, <1>5, <1>6, WorkerHolds

LEMMA RefreshHolds ==
  ASSUME IInv, NEW p \in Processes, Refresh(p)
  PROVE  IInv'
<1>1. disk \in Disks /\ db \in Dbs /\ app \in Apps /\ job \in Jobs /\ world \in Worlds /\ seen \in Seens
  BY TypeParts DEF IInv
<1> DEFINE t == app[p].pinned
           state == [db.targets[t] EXCEPT !.refresh = TRUE, !.failures = 0, !.stopped = FALSE]
<1>2. t \in Targets /\ db.targets[t] \in TargetStates
  BY <1>1 DEF Refresh, Apps, AppStates, Dbs
<1>3. state \in TargetStates /\ state.retry = db.targets[t].retry
  <2>1. 0 \in 0 .. TARGET_FAILURES
    BY Sizes
  <2> QED BY <1>2, <2>1 DEF TargetStates
<1>4. db' = [db EXCEPT !.targets[t] = state] /\ UNCHANGED <<disk, app, job, seen>>
  BY DEF Refresh
<1>5. world' \in Worlds /\ world'.back = world.back
  BY <1>1, EventIs DEF Refresh
<1> HIDE DEF state, t
<1>6. /\ db' \in Dbs /\ db'.rows = db.rows /\ db'.starts = db.starts /\ db'.observed = db.observed
      /\ db'.wait = db.wait /\ db'.pins = db.pins /\ db'.targets = [db.targets EXCEPT ![t] = state]
  BY <1>1, <1>2, <1>3, <1>4 DEF Dbs
<1>7. \A x \in Targets : db'.targets[x].retry = db.targets[x].retry
  BY <1>1, <1>3, <1>6 DEF Dbs
<1>8. TypeOK'
  BY <1>1, <1>4, <1>5, <1>6, TypePartsNext
<1>9. CoverageIsHonest'
  BY <1>4, <1>6, HonestSame DEF IInv
<1>10. Undisturbed
  BY <1>4 DEF IInv, Locked, Undisturbed
<1> QED BY <1>4, <1>5, <1>6, <1>7, <1>8, <1>9, <1>10, BystanderHolds

LEMMA CollectsHolds ==
  ASSUME IInv, Collects
  PROVE  IInv'
<1>1. disk \in Disks /\ db \in Dbs /\ app \in Apps /\ job \in Jobs /\ world \in Worlds /\ seen \in Seens
  BY TypeParts DEF IInv
<1>2. UNCHANGED <<disk, db, app, job, seen>>
  BY DEF Collects
<1>3. world' \in Worlds /\ world'.back = world.back
  <2>1. world.avail \in Units /\ (world.avail < UNITS => world.avail + 1 \in Units)
    <3>1. world.avail \in Units
      BY <1>1 DEF Worlds
    <3>2. Units = 1 .. UNITS /\ UNITS \in Nat
      BY Sizes
    <3> QED BY <3>1, <3>2
  <2> QED BY <1>1, <2>1 DEF Collects, Worlds
<1>4. TypeOK'
  BY <1>1, <1>2, <1>3, TypePartsNext
<1>5. CoverageIsHonest'
  BY <1>2, HonestSame DEF IInv
<1>6. Undisturbed
  BY <1>2 DEF IInv, Locked, Undisturbed
<1> QED BY <1>2, <1>3, <1>4, <1>5, <1>6, BystanderHolds

-----------------------------------------------------------------------------
(* A job starts, and ends.                                                 *)
LEMMA StartJobHolds ==
  ASSUME IInv, NEW p \in Processes, StartJob(p)
  PROVE  IInv'
<1>1. disk \in Disks /\ db \in Dbs /\ app \in Apps /\ job \in Jobs /\ world \in Worlds /\ seen \in Seens
  BY TypeParts DEF IInv
<1> DEFINE target == IF app[p].fetch THEN app[p].demand ELSE None
           pins == [db.pins EXCEPT ![<<p, "job">>] = target]
<1>2. target \in Targets \cup {None} /\ <<p, "job">> \in Sessions
  BY <1>1 DEF Apps, AppStates, Sessions
<1>3. /\ pins \in [Sessions -> Targets \cup {None}] /\ db' = [db EXCEPT !.pins = pins]
      /\ job' = [NoJob EXCEPT !.owner = p, !.pc = "recover", !.target = target]
      /\ UNCHANGED <<disk, app, world, seen>> /\ app[p].up = "up" /\ job = NoJob
  BY <1>1, <1>2, PinsWith DEF StartJob
<1> HIDE DEF target, pins
<1>4. job' \in Jobs /\ job'.pc = "recover" /\ job'.owner = p /\ job'.plan = None
  BY <1>2, <1>3 DEF NoJob, Jobs, Pcs, Thens
<1>5. /\ db' \in Dbs /\ db'.rows = db.rows /\ db'.starts = db.starts /\ db'.observed = db.observed
      /\ db'.wait = db.wait /\ db'.targets = db.targets
  BY <1>1, <1>3 DEF Dbs
<1>6. TypeOK'
  BY <1>1, <1>3, <1>4, <1>5, TypePartsNext
<1>7. Clocks'
  BY <1>3, <1>5, ClocksKept DEF IInv
<1>8. Locked'
  BY <1>3, <1>4, RangesAssumption DEF Locked
<1>9. Asked'
  BY <1>3, <1>4, <1>5, AskedKept DEF IInv, Sending
<1>10. Slots \subseteq db'.starts
  BY <1>5, SlotsAreStarts
<1> QED BY <1>3, <1>4, <1>5, <1>6, <1>7, <1>8, <1>9, <1>10, EndHolds

(* An end that leaves everything else as it was. *)
LEMMA RestHolds ==
  ASSUME IInv, job' \in Jobs, Rests, job.pc # "none", world' \in Worlds, world'.back = world.back,
         UNCHANGED <<disk, db, app, seen>>
  PROVE  IInv'
<1>1. disk \in Disks /\ db \in Dbs /\ app \in Apps /\ job \in Jobs /\ world \in Worlds /\ seen \in Seens
  BY TypeParts DEF IInv
<1>2. TypeOK'
  BY <1>1, TypePartsNext
<1>3. Clocks'
  BY ClocksKept DEF IInv
<1>4. Locked'
  BY LockKept DEF IInv, Rests
<1>5. Asked'
  BY AskedKept DEF IInv, Rests, Sending
<1>6. Slots \subseteq db'.starts
  BY SlotsAreStarts
<1> QED BY <1>2, <1>3, <1>4, <1>5, <1>6, EndHolds DEF Rests

LEMMA LocalFailsHolds ==
  ASSUME IInv, LocalFails
  PROVE  IInv'
<1>1. job \in Jobs /\ world \in Worlds
  BY TypeParts DEF IInv
<1>2. job' \in Jobs /\ Rests /\ job.pc # "none" /\ UNCHANGED <<disk, db, app, seen>>
  BY <1>1, EndsIs DEF LocalFails, Working
<1>3. world' \in Worlds /\ world'.back = world.back
  BY <1>1, EventIs DEF LocalFails
<1> QED BY <1>2, <1>3, RestHolds

LEMMA CancelledHolds ==
  ASSUME IInv, Cancelled
  PROVE  IInv'
<1>1. job \in Jobs /\ world \in Worlds
  BY TypeParts DEF IInv
<1>2. job' \in Jobs /\ Rests /\ job.pc # "none" /\ UNCHANGED <<disk, db, app, world, seen>>
  BY <1>1, EndsIs DEF Cancelled
<1> QED BY <1>1, <1>2, RestHolds

LEMMA NoJobIs == NoJob \in Jobs /\ NoJob.pc = "none" /\ NoJob.plan = None
BY DEF NoJob, Jobs, Pcs, Thens

LEMMA ReleaseHolds ==
  ASSUME IInv, Release
  PROVE  IInv'
<1>1. disk \in Disks /\ db \in Dbs /\ app \in Apps /\ job \in Jobs /\ world \in Worlds /\ seen \in Seens
  BY TypeParts DEF IInv
<1>2. job.pc = "end" /\ <<job.owner, "job">> \in Sessions
  BY OwnerIs DEF Release, At
<1> DEFINE pins == [db.pins EXCEPT ![<<job.owner, "job">>] = None]
<1>3. /\ pins \in [Sessions -> Targets \cup {None}] /\ db' = [db EXCEPT !.pins = pins]
      /\ job' = NoJob /\ UNCHANGED <<disk, app, world, seen>>
  BY <1>1, <1>2, PinsWith DEF Release
<1> HIDE DEF pins
<1>4. job' \in Jobs /\ job'.pc = "none" /\ job'.plan = None
  BY <1>3, NoJobIs
<1>5. /\ db' \in Dbs /\ db'.rows = db.rows /\ db'.starts = db.starts /\ db'.observed = db.observed
      /\ db'.wait = db.wait /\ db'.targets = db.targets
  BY <1>1, <1>3 DEF Dbs
<1>6. TypeOK'
  BY <1>1, <1>3, <1>4, <1>5, TypePartsNext
<1>7. Clocks'
  BY <1>3, <1>5, ClocksKept DEF IInv
<1>8. Locked' /\ Asked'
  BY <1>3, <1>4, <1>5, AskedKept DEF IInv, Sending, Locked
<1>9. Slots \subseteq db'.starts
  BY <1>5, SlotsAreStarts
<1> QED BY <1>3, <1>4, <1>5, <1>6, <1>7, <1>8, <1>9, EndHolds

LEMMA CrashHolds ==
  ASSUME IInv, NEW p \in Processes, Crash(p)
  PROVE  IInv'
<1>1. disk \in Disks /\ db \in Dbs /\ app \in Apps /\ job \in Jobs /\ world \in Worlds /\ seen \in Seens
  BY TypeParts DEF IInv
<1>2. world' \in Worlds /\ world'.back = world.back
  BY <1>1, EventIs DEF Crash
<1>3. app' = [app EXCEPT ![p] = Down] /\ UNCHANGED <<disk, db, seen>>
  BY DEF Crash
<1>4. app' \in Apps /\ \A q \in Processes \ {p} : app'[q] = app[q]
  BY <1>1, <1>3, DownIs DEF Apps
<1>5. CASE job.owner = p
  <2>1. job' = NoJob
    BY <1>5 DEF Crash
  <2>2. job' \in Jobs /\ job'.pc = "none" /\ job'.plan = None
    BY <2>1, NoJobIs
  <2>3. TypeOK'
    BY <1>1, <1>2, <1>3, <1>4, <2>2, TypePartsNext
  <2>4. Clocks'
    BY <1>2, <1>3, ClocksKept DEF IInv
  <2>5. Locked' /\ Asked'
    BY <1>2, <1>3, <2>2, AskedKept DEF IInv, Sending, Locked
  <2>6. Slots \subseteq db'.starts
    BY <1>3, SlotsAreStarts
  <2> QED BY <1>2, <1>3, <2>2, <2>3, <2>4, <2>5, <2>6, EndHolds
<1>6. CASE job.owner # p
  <2>1. job' = job
    BY <1>6 DEF Crash
  <2>2. Undisturbed
    BY <1>4, <1>6, OwnerIs DEF IInv, Locked, Undisturbed
  <2>3. TypeOK'
    BY <1>1, <1>2, <1>3, <1>4, <2>1, TypePartsNext
  <2>4. CoverageIsHonest'
    BY <1>3, HonestSame DEF IInv
  <2> QED BY <1>2, <1>3, <2>1, <2>2, <2>3, <2>4, BystanderHolds
<1> QED BY <1>5, <1>6

-----------------------------------------------------------------------------
(* The steps of a job up to the import.                                    *)
LEMMA JobHolds ==
  ASSUME IInv, TypeOK', job.pc # "none", job'.owner = job.owner, app' = app,
         world'.back = world.back,
         db'.starts = db.starts, db'.observed = db.observed, db'.wait = db.wait,
         \A t \in Targets : db'.targets[t].retry = db.targets[t].retry,
         seen'.sent = seen.sent, job'.pc \in Sending => job.pc \in Sending,
         Planned', Spooled', Receipts', Staging', OwnPin', Held', Asked', CoverageIsHonest'
  PROVE  IInv'
<1>1. Clocks'
  BY ClocksKept DEF IInv
<1>2. Locked'
  BY LockKept DEF IInv
<1>3. SameClock
  BY DEF SameClock
<1>4. Reserved'
  BY <1>3, NowKept DEF IInv, Reserved
<1>5. Counted'
  BY <1>3, CountedSame DEF IInv
<1> QED BY <1>1, <1>2, <1>4, <1>5 DEF IInv

LEMMA PlanIs ==
  ASSUME IInv, job.pc \in (Asking \ {"plan"}) \cup Importing \cup {"check"}
  PROVE  job.plan \in Plan /\ job.plan # None /\ Sensible(job.plan)
<1>1. job.plan \in Plan \cup {None} /\ job.plan # None
  BY TypeParts DEF IInv, Jobs, Planned
<1> QED BY <1>1 DEF IInv, Planned

LEMMA CreatePartHolds ==
  ASSUME IInv, CreatePart
  PROVE  IInv'
<1>1. disk \in Disks /\ db \in Dbs /\ app \in Apps /\ job \in Jobs /\ world \in Worlds /\ seen \in Seens
  BY TypeParts DEF IInv
<1>2. job' \in Jobs /\ Steps("save") /\ job.pc = "create"
  BY <1>1, GoesIs DEF CreatePart, At, Pcs
<1>3. disk' \in Disks /\ disk'.meta = disk.meta /\ disk'.body = disk.body
  BY <1>1 DEF CreatePart, Disks
<1>4. UNCHANGED <<db, app, world, seen>>
  BY DEF CreatePart
<1>5. TypeOK'
  BY <1>1, <1>2, <1>3, <1>4, TypePartsNext
<1>6. Planned' /\ Spooled' /\ Receipts' /\ OwnPin'
  BY <1>2, <1>3, <1>4
     DEF IInv, Planned, Spooled, Receipts, OwnPin, Steps, Asking, Importing, Sending
<1>7. Staging'
  BY <1>2, <1>3, <1>4 DEF IInv, Staging, Steps, Asking, Sending
<1>8. Held' /\ Asked'
  <2>1. Held'
    BY <1>2, <1>3, <1>4 DEF IInv, Held, Steps, Importing
  <2>2. SameClock
    BY <1>2, <1>4 DEF SameClock, Steps
  <2> QED BY <1>2, <1>3, <1>4, <2>1, <2>2, AskedKept DEF IInv, Sending
<1>9. CoverageIsHonest'
  BY <1>4, HonestSame DEF IInv
<1> QED BY <1>2, <1>4, <1>5, <1>6, <1>7, <1>8, <1>9, JobHolds DEF Steps, Sending

LEMMA MetaIs ==
  ASSUME disk \in Disks, NEW stage \in {"receiving", "downloaded"}, NEW plan \in Plan
  PROVE  [stage |-> stage, plan |-> plan] \in Meta /\ [stage |-> stage, plan |-> plan] # None
BY NothingAssumption DEF Meta

LEMMA SaveReceiptHolds ==
  ASSUME IInv, SaveReceipt
  PROVE  IInv'
<1>1. disk \in Disks /\ db \in Dbs /\ app \in Apps /\ job \in Jobs /\ world \in Worlds /\ seen \in Seens
  BY TypeParts DEF IInv
<1>2. job' \in Jobs /\ Steps("send") /\ job.pc = "save"
  BY <1>1, GoesIs DEF SaveReceipt, At, Pcs
<1>3. job.plan \in Plan /\ Sensible(job.plan)
  BY <1>2, PlanIs DEF Asking, Sending
<1>4. /\ disk' \in Disks /\ disk'.meta # None /\ disk'.meta.plan = job.plan
      /\ disk'.body = disk.body
  BY <1>1, <1>3, MetaIs DEF SaveReceipt, Disks
<1>5. UNCHANGED <<db, app, world, seen>>
  BY DEF SaveReceipt
<1>6. TypeOK'
  BY <1>1, <1>2, <1>4, <1>5, TypePartsNext
<1>7. Planned'
  BY <1>2, <1>3, <1>4 DEF IInv, Planned, Steps, Asking, Importing, Sending, Sensible
<1>8. Spooled' /\ Receipts' /\ OwnPin'
  BY <1>2, <1>4, <1>5 DEF IInv, Spooled, Receipts, OwnPin, Steps, Asking, Importing, Sending
<1>9. Staging'
  BY <1>2, <1>5 DEF IInv, Staging, Steps, Asking, Sending
<1>10. Held' /\ Asked'
  <2>1. Held'
    BY <1>2, <1>4, <1>5 DEF IInv, Held, Steps, Importing
  <2>2. SameClock
    BY <1>2, <1>5 DEF SameClock, Steps
  <2> QED BY <1>2, <1>4, <1>5, <2>1, <2>2, AskedKept DEF IInv, Sending
<1>11. CoverageIsHonest'
  BY <1>5, HonestSame DEF IInv
<1> QED BY <1>2, <1>5, <1>6, <1>7, <1>8, <1>9, <1>10, <1>11, JobHolds DEF Steps, Sending

(* The request leaves, and the newest slot is its. *)
LEMMA SendHolds ==
  ASSUME IInv, Send
  PROVE  IInv'
<1> DEFINE request == [age |-> 0, clock |-> app[job.owner].clock]
<1>1. disk \in Disks /\ db \in Dbs /\ app \in Apps /\ job \in Jobs /\ world \in Worlds /\ seen \in Seens
  BY TypeParts DEF IInv
<1>2. job' \in Jobs /\ Steps("receive") /\ job.pc = "send"
  BY <1>1, GoesIs DEF Send, At, Pcs
<1>3. /\ UNCHANGED <<disk, db, app, world>>
      /\ seen' \in Seens /\ seen'.sent = seen.sent \cup {request} /\ seen'.held = seen.held
      /\ seen'.asked = seen.asked /\ seen'.best = seen.best
  <2>1. request \in Requests
    <3>1. job.owner \in Processes
      BY <1>2, OwnerIs
    <3> QED BY <1>1, <3>1, Sizes DEF Requests, Apps, AppStates
  <2> QED BY <1>1, <2>1 DEF Send, Seens
<1>4. TypeOK'
  BY <1>1, <1>2, <1>3, TypePartsNext
<1>5. Planned' /\ Spooled' /\ Receipts' /\ OwnPin'
  BY <1>2, <1>3
     DEF IInv, Planned, Spooled, Receipts, OwnPin, Steps, Asking, Importing, Sending
<1>6. Staging'
  BY <1>2, <1>3 DEF IInv, Staging, Steps, Asking, Sending
<1>7. Held' /\ Asked'
  BY <1>2, <1>3, AskedKept DEF IInv, Held, Steps, Importing, Sending
<1>8. Reserved'
  BY <1>2 DEF Reserved, Steps, Sending
<1>9. Counted'
  <2>1. /\ Slots = db.starts \ {NewSlot} /\ NewSlot \in db.starts /\ Slots' = db.starts
        /\ db.observed <= Now
    BY <1>2, <1>3 DEF IInv, Reserved, Slots, Steps, Sending
  <2>2. SlotOf(request) = NewSlot /\ NewSlot = -Now /\ Now \in Int
    <3>1. job.owner \in Processes /\ app[job.owner].clock \in Int /\ world.back \in Int
      BY <1>1, <1>2, OwnerIs DEF Apps, AppStates, Worlds
    <3> QED BY <3>1 DEF SlotOf, NewSlot, Now, Ahead
  <2>3. \A r : SlotOf(r)' = SlotOf(r)
    BY <1>3 DEF SlotOf
  <2>4. \A r \in seen'.sent : SlotOf(r) \in Slots' \/ SlotOf(r) + db.observed >= WINDOW
    BY <1>3, <2>1, <2>2 DEF IInv, Counted
  <2>5. \A r \in seen.sent : SlotOf(r) # NewSlot
    <3>1. db.observed \in Int /\ WINDOW \in Nat \ {0}
      BY <1>1, Sizes DEF Dbs
    <3>2. ~ (NewSlot + db.observed >= WINDOW)
      BY <2>1, <2>2, <3>1
    <3> QED BY <2>1, <3>2 DEF IInv, Counted
  <2>6. \A q, r \in seen'.sent : SlotOf(q) = SlotOf(r) => q = r
    BY <1>3, <2>2, <2>5 DEF IInv, Counted
  <2> QED BY <1>3, <2>3, <2>4, <2>6 DEF Counted
<1>10. CoverageIsHonest'
  BY <1>3, HonestSame DEF IInv
<1>11. Clocks' /\ Locked'
  BY <1>2, <1>3, ClocksKept, LockKept DEF IInv, Steps
<1> QED BY <1>4, <1>5, <1>6, <1>7, <1>8, <1>9, <1>10, <1>11 DEF IInv

LEMMA BodyIs ==
  ASSUME NEW valid \in BOOLEAN, NEW n \in 0 .. 1, NEW units
  PROVE  LET body == [valid |-> valid, count |-> Restricted([u \in Units |-> n], units)] IN
         body \in Body /\ body # None
<1>1. Restricted([u \in Units |-> n], units) \in [Units -> 0 .. 1]
  BY DEF Restricted
<1> QED BY <1>1, NothingAssumption DEF Body

LEMMA ReceivedHolds ==
  ASSUME IInv, Received
  PROVE  IInv'
<1>1. disk \in Disks /\ db \in Dbs /\ app \in Apps /\ job \in Jobs /\ world \in Worlds /\ seen \in Seens
  BY TypeParts DEF IInv
<1>2. job' \in Jobs /\ Steps("renamed") /\ job.pc = "receive"
  BY <1>1, GoesIs DEF Received, At, Pcs
<1>3. PICK valid \in BOOLEAN, n \in 0 .. 1 :
        /\ IF valid THEN UNCHANGED world
           ELSE Event /\ Restricted([u \in Units |-> n], job.plan.units) = Nothing
        /\ disk' = [disk EXCEPT !.part = FALSE, !.body =
             [valid |-> valid, count |-> Restricted([u \in Units |-> n], job.plan.units)]]
        /\ seen' = [seen EXCEPT !.held = valid, !.asked = [back \in 0 .. ROLLBACK |-> 0]]
  BY DEF Received
<1>4. world' \in Worlds /\ world'.back = world.back
  BY <1>1, <1>3, EventIs
<1> DEFINE body == [valid |-> valid, count |-> Restricted([u \in Units |-> n], job.plan.units)]
<1>5. body \in Body /\ body # None /\ body.valid = valid /\ disk' = [disk EXCEPT !.part = FALSE, !.body = body]
  BY <1>3, BodyIs
<1> HIDE DEF body
<1>6. disk' \in Disks /\ disk'.body = body /\ disk'.meta = disk.meta
  BY <1>1, <1>5 DEF Disks
<1>7. /\ seen' \in Seens /\ seen'.held = valid /\ seen'.sent = seen.sent
      /\ seen'.asked = [back \in 0 .. ROLLBACK |-> 0] /\ seen'.best = seen.best
  BY <1>1, <1>3 DEF Seens
<1>8. UNCHANGED <<db, app>>
  BY DEF Received
<1>9. TypeOK'
  BY <1>1, <1>2, <1>4, <1>6, <1>7, <1>8, TypePartsNext
<1>10. Planned' /\ Spooled' /\ Receipts' /\ OwnPin'
  BY <1>2, <1>6, <1>8
     DEF IInv, Planned, Spooled, Receipts, OwnPin, Steps, Asking, Importing, Sending
<1>11. Staging'
  BY <1>2, <1>8 DEF IInv, Staging, Steps, Asking, Sending
<1>12. Held'
  BY <1>2, <1>5, <1>6, <1>7, <1>8 DEF IInv, Held, Receipts, Published, Steps, Asking, Importing, Sending
<1>13. Asked'
  BY <1>2, <1>7 DEF Asked, Steps, Sending
<1>14. CoverageIsHonest'
  BY <1>7, <1>8, HonestSame DEF IInv
<1> QED BY <1>2, <1>4, <1>7, <1>8, <1>9, <1>10, <1>11, <1>12, <1>13, <1>14, JobHolds DEF Steps, Sending

LEMMA StagedIs ==
  ASSUME disk \in Disks, disk.meta # None, NEW stage \in {"receiving", "downloaded"}
  PROVE  LET d == [disk EXCEPT !.meta.stage = stage] IN
         /\ d \in Disks /\ d.body = disk.body /\ d.part = disk.part
         /\ d.meta # None /\ d.meta.plan = disk.meta.plan
<1>1. disk.meta \in Meta
  BY DEF Disks
<1>2. [disk.meta EXCEPT !.stage = stage] \in Meta /\ [disk.meta EXCEPT !.stage = stage].plan = disk.meta.plan
  BY <1>1 DEF Meta
<1>3. [disk.meta EXCEPT !.stage = stage] # None
  BY <1>2, NothingAssumption
<1> QED BY <1>2, <1>3 DEF Disks

LEMMA SaveDownloadedHolds ==
  ASSUME IInv, SaveDownloaded
  PROVE  IInv'
<1>1. disk \in Disks /\ db \in Dbs /\ app \in Apps /\ job \in Jobs /\ world \in Worlds /\ seen \in Seens
  BY TypeParts DEF IInv
<1>2. job' \in Jobs /\ Steps("check") /\ job.pc = "renamed"
  BY <1>1, GoesIs DEF SaveDownloaded, At, Pcs
<1>3. disk.meta # None
  BY <1>2 DEF IInv, Spooled
<1>4. disk' \in Disks /\ disk'.body = disk.body /\ disk'.meta # None /\ disk'.meta.plan = disk.meta.plan
  BY <1>1, <1>3, StagedIs DEF SaveDownloaded
<1>5. UNCHANGED <<db, app, world, seen>>
  BY DEF SaveDownloaded
<1>6. TypeOK'
  BY <1>1, <1>2, <1>4, <1>5, TypePartsNext
<1>7. Planned'
  BY <1>2, <1>3, <1>4 DEF IInv, Planned, Steps, Asking, Importing, Sending, Sensible
<1>8. Spooled' /\ Receipts' /\ OwnPin'
  BY <1>2, <1>4, <1>5 DEF IInv, Spooled, Receipts, OwnPin, Steps, Asking, Importing, Sending
<1>9. Staging'
  BY <1>2, <1>5 DEF IInv, Staging, Steps, Asking, Sending
<1>10. Held'
  BY <1>2, <1>4, <1>5 DEF IInv, Held, Published, Steps, Importing
<1>11. Asked'
  BY <1>2, <1>4, <1>5 DEF IInv, Asked, Steps, Sending
<1>12. CoverageIsHonest'
  BY <1>5, HonestSame DEF IInv
<1> QED BY <1>2, <1>5, <1>6, <1>7, <1>8, <1>9, <1>10, <1>11, <1>12, JobHolds DEF Steps, Sending

(* A job that gives its spool up. *)
LEMMA DropHolds ==
  ASSUME IInv, TypeOK', NEW then \in Thens, Drops(then), job.pc # "none", then # "none",
         then \in {"failed", "rejected"} => job.plan # None, disk' = disk,
         app' = app, world'.back = world.back, Published' = Published,
         ~seen.held, disk.meta = None => \A r \in db'.rows : ~r.receipt,
         db'.starts = db.starts, db'.observed = db.observed, db'.wait = db.wait,
         \A t \in Targets : db'.targets[t].retry = db.targets[t].retry, UNCHANGED seen
  PROVE  IInv'
<1>1. Planned' /\ Spooled' /\ OwnPin'
  BY DEF IInv, Planned, Spooled, OwnPin, Drops, Asking, Importing, Sending
<1>2. Receipts' /\ Staging'
  BY DEF Receipts, Staging, Drops, Asking, Sending
<1>3. Held' /\ Asked'
  BY DEF IInv, Held, Asked, Drops, Sending
<1>4. CoverageIsHonest'
  BY HonestKept DEF IInv
<1> QED BY <1>1, <1>2, <1>3, <1>4, JobHolds DEF Drops, Sending

LEMMA RemoteFailsHolds ==
  ASSUME IInv, RemoteFails
  PROVE  IInv'
<1>1. disk \in Disks /\ db \in Dbs /\ app \in Apps /\ job \in Jobs /\ world \in Worlds /\ seen \in Seens
  BY TypeParts DEF IInv
<1>2. job' \in Jobs /\ Drops("failed") /\ job.pc = "receive" /\ "failed" \in Thens
  BY <1>1, DiscardsIs DEF RemoteFails, At, Thens
<1>3. world' \in Worlds /\ world'.back = world.back
  BY <1>1, EventIs DEF RemoteFails
<1>4. UNCHANGED <<disk, db, app, seen>>
  BY DEF RemoteFails
<1>5. TypeOK'
  BY <1>1, <1>2, <1>3, <1>4, TypePartsNext
<1>6. job.plan # None
  BY <1>2, PlanIs DEF Asking
<1>7. ~seen.held /\ disk.meta # None
  BY <1>2 DEF IInv, Held, Spooled, Importing
<1>8. Published' = Published
  BY <1>4 DEF Published
<1> QED BY <1>2, <1>3, <1>4, <1>5, <1>6, <1>7, <1>8, DropHolds

LEMMA WithoutIs ==
  ASSUME db \in Dbs, NEW keep \in BOOLEAN, db' = WithoutStaged(keep)
  PROVE  /\ db' \in Dbs /\ db'.starts = db.starts /\ db'.observed = db.observed
         /\ db'.wait = db.wait /\ db'.targets = db.targets /\ db'.pins = db.pins
         /\ db'.rows = {r \in db.rows : r.published \/ (keep /\ r.receipt)}
         /\ Published' = Published
<1> DEFINE rest == {r \in db.rows : r.published \/ (keep /\ r.receipt)}
<1>1. rest \in SUBSET Row /\ {r \in rest : r.published} = {r \in db.rows : r.published}
  BY DEF Dbs
<1>2. db' = [db EXCEPT !.rows = rest]
  BY DEF WithoutStaged
<1> HIDE DEF rest
<1>3. /\ db' \in Dbs /\ db'.starts = db.starts /\ db'.observed = db.observed
      /\ db'.wait = db.wait /\ db'.targets = db.targets /\ db'.pins = db.pins /\ db'.rows = rest
  BY <1>1, <1>2 DEF Dbs
<1> QED BY <1>1, <1>3 DEF rest, Published

LEMMA RecoverHolds ==
  ASSUME IInv, Recover
  PROVE  IInv'
<1>1. disk \in Disks /\ db \in Dbs /\ app \in Apps /\ job \in Jobs /\ world \in Worlds /\ seen \in Seens
  BY TypeParts DEF IInv
<1>2. job.pc = "recover" /\ UNCHANGED <<app, world, seen>>
  BY DEF Recover, At
<1>3. CASE disk.meta = None /\ disk.part /\ Discards("plan") /\ UNCHANGED <<db, disk>>
  <2>1. job' \in Jobs /\ Drops("plan") /\ "plan" \in Thens
    BY <1>1, <1>3, DiscardsIs DEF Thens
  <2>2. TypeOK'
    BY <1>1, <1>2, <1>3, <2>1, TypePartsNext
  <2>3. ~seen.held /\ \A r \in db.rows : ~r.receipt
    BY <1>3 DEF IInv, Held, Spooled, Receipts
  <2>4. Published' = Published
    BY <1>3 DEF Published
  <2> QED BY <1>2, <1>3, <2>1, <2>2, <2>3, <2>4, DropHolds
<1>4. CASE disk.meta = None /\ ~disk.part /\ Goes("plan") /\ db' = WithoutStaged(FALSE) /\ disk' = disk
  <2>1. job' \in Jobs /\ Steps("plan")
    BY <1>1, <1>4, GoesIs DEF Pcs
  <2>2. /\ db' \in Dbs /\ db'.starts = db.starts /\ db'.observed = db.observed
        /\ db'.wait = db.wait /\ db'.targets = db.targets /\ db'.pins = db.pins
        /\ db'.rows = {r \in db.rows : r.published} /\ Published' = Published
    BY <1>1, <1>4, WithoutIs
  <2>3. TypeOK'
    BY <1>1, <1>2, <1>4, <2>1, <2>2, TypePartsNext
  <2>4. Planned' /\ Spooled' /\ OwnPin'
    BY <1>2, <1>4, <2>1 DEF IInv, Planned, Spooled, OwnPin, Steps, Asking, Importing, Sending
  <2>5. Receipts' /\ Staging'
    BY <1>4, <2>1, <2>2 DEF IInv, Receipts, Staging, Steps, Asking, Sending
  <2>6. Held' /\ Asked'
    BY <1>2, <1>4, <2>1, <2>2 DEF IInv, Held, Spooled, Asked, Steps, Sending
  <2>7. CoverageIsHonest'
    BY <1>2, <2>2, HonestKept DEF IInv
  <2> QED BY <1>2, <2>1, <2>2, <2>3, <2>4, <2>5, <2>6, <2>7, JobHolds DEF Steps, Sending
<1>5. CASE /\ Complete /\ disk' = [disk EXCEPT !.meta.stage = "downloaded"] /\ db' = WithoutStaged(TRUE)
           /\ job' = [job EXCEPT !.pc = "check", !.target = None, !.plan = disk.meta.plan]
  <2>1. disk.meta # None /\ disk.meta \in Meta /\ disk.meta.plan \in Plan /\ disk.meta.plan # None
    BY <1>1, <1>5, NothingAssumption DEF Complete, Disks, Meta
  <2>2. disk' \in Disks /\ disk'.body = disk.body /\ disk'.meta # None /\ disk'.meta.plan = disk.meta.plan
    BY <1>1, <1>5, <2>1, StagedIs
  <2>3. /\ job' \in Jobs /\ job'.pc = "check" /\ job'.owner = job.owner
        /\ job'.plan = disk.meta.plan /\ job'.then = job.then
    BY <1>1, <1>5, <2>1 DEF Jobs, Pcs
  <2>4. /\ db' \in Dbs /\ db'.starts = db.starts /\ db'.observed = db.observed
        /\ db'.wait = db.wait /\ db'.targets = db.targets /\ db'.pins = db.pins
        /\ db'.rows = {r \in db.rows : r.published \/ r.receipt} /\ Published' = Published
    BY <1>1, <1>5, WithoutIs
  <2>5. TypeOK'
    BY <1>1, <1>2, <2>2, <2>3, <2>4, TypePartsNext
  <2>6. Planned'
    BY <2>1, <2>2, <2>3 DEF IInv, Planned, Sensible
  <2>7. Spooled' /\ Receipts' /\ OwnPin' /\ Staging'
    BY <2>2, <2>3, <2>4 DEF IInv, Spooled, Receipts, OwnPin, Staging, Asking, Importing, Sending
  <2>8. Held' /\ Asked'
    BY <1>2, <2>2, <2>3, <2>4 DEF IInv, Held, Asked, Sending
  <2>9. CoverageIsHonest'
    BY <1>2, <2>4, HonestKept DEF IInv
  <2> QED BY <1>2, <2>3, <2>4, <2>5, <2>6, <2>7, <2>8, <2>9, JobHolds DEF Sending
<1>6. CASE disk.meta # None /\ ~Complete /\ Discards("partial") /\ UNCHANGED <<disk, db>>
  <2>1. job' \in Jobs /\ Drops("partial") /\ "partial" \in Thens
    BY <1>1, <1>6, DiscardsIs DEF Thens
  <2>2. TypeOK'
    BY <1>1, <1>2, <1>6, <2>1, TypePartsNext
  <2>3. ~seen.held
    BY <1>6 DEF IInv, Held, Complete
  <2>4. Published' = Published
    BY <1>6 DEF Published
  <2> QED BY <1>2, <1>6, <2>1, <2>2, <2>3, <2>4, DropHolds
<1>7. \/ disk.meta = None /\ disk.part /\ Discards("plan") /\ UNCHANGED <<db, disk>>
      \/ disk.meta = None /\ ~disk.part /\ Goes("plan") /\ db' = WithoutStaged(FALSE) /\ disk' = disk
      \/ /\ Complete /\ disk' = [disk EXCEPT !.meta.stage = "downloaded"] /\ db' = WithoutStaged(TRUE)
         /\ job' = [job EXCEPT !.pc = "check", !.target = None, !.plan = disk.meta.plan]
      \/ disk.meta # None /\ ~Complete /\ Discards("partial") /\ UNCHANGED <<disk, db>>
  BY <1>1 DEF Recover, Disks
<1> QED BY <1>3, <1>4, <1>5, <1>6, <1>7

-----------------------------------------------------------------------------
(* The spool goes, the body first.                                         *)
LEMMA DropsBody ==
  ASSUME IInv, Drop
  PROVE  IInv'
<1>1. disk \in Disks /\ db \in Dbs /\ app \in Apps /\ job \in Jobs /\ world \in Worlds /\ seen \in Seens
  BY TypeParts DEF IInv
<1>2. job' \in Jobs /\ Steps("unlink") /\ job.pc = "drop"
  BY <1>1, GoesIs DEF Drop, At, Pcs
<1>3. disk' \in Disks /\ disk'.meta = disk.meta /\ disk'.body = None
  BY <1>1 DEF Drop, Disks
<1>4. UNCHANGED <<db, app, world, seen>>
  BY DEF Drop
<1>5. TypeOK'
  BY <1>1, <1>2, <1>3, <1>4, TypePartsNext
<1>6. ~seen.held
  BY <1>2 DEF IInv, Held, Importing
<1>7. Planned' /\ Spooled' /\ Receipts' /\ OwnPin'
  BY <1>2, <1>3, <1>4
     DEF IInv, Planned, Spooled, Receipts, OwnPin, Steps, Asking, Importing, Sending
<1>8. Staging' /\ Held'
  BY <1>2, <1>4, <1>6 DEF Staging, Held, Steps, Asking, Sending
<1>9. Asked'
  BY <1>2, <1>3, <1>4 DEF IInv, Asked, Steps, Sending
<1>10. CoverageIsHonest'
  BY <1>4, HonestSame DEF IInv
<1> QED BY <1>2, <1>4, <1>5, <1>7, <1>8, <1>9, <1>10, JobHolds DEF Steps, Sending

(* What forgetting the receipts leaves of each row. *)
Unreceipted(r) == [r EXCEPT !.receipt = FALSE]

LEMMA UnreceiptedIsHonest ==
  ASSUME CoverageIsHonest, db \in Dbs, NEW rows \in SUBSET db.rows, Published \subseteq rows,
         db'.rows = {Unreceipted(r) : r \in rows}, seen'.best = seen.best
  PROVE  CoverageIsHonest'
<1>1. \A r \in rows : /\ Unreceipted(r).units = r.units /\ Unreceipted(r).count = r.count
                      /\ Unreceipted(r).published = r.published
  BY DEF Unreceipted, Dbs, Row
<1>2. \A q \in Published' : \E r \in Published : q = Unreceipted(r)
  BY <1>1 DEF Published
<1>3. \A r \in Published : Unreceipted(r) \in Published'
  BY <1>1 DEF Published
<1>4. \A r \in Published : /\ Unreceipted(r).units = r.units /\ Unreceipted(r).count = r.count
  BY <1>1
<1>5. \A q, r \in Published' : q # r => ~Overlaps(q, r.units)
  BY <1>2, <1>4 DEF CoverageIsHonest, Overlaps
<1>6. \A r \in Published' : \A u \in r.units : r.count[u] = seen'.best[u]
  BY <1>2, <1>4 DEF CoverageIsHonest
<1>7. ASSUME NEW u \in Units, seen'.best[u] # None PROVE \E q \in Published' : u \in q.units
  <2>1. PICK r \in Published : u \in r.units
    BY <1>7, CoveredIs DEF CoverageIsHonest
  <2> QED BY <1>3, <1>4, <2>1
<1> QED BY <1>5, <1>6, <1>7, CoveredIs DEF CoverageIsHonest

LEMMA UnlinkHolds ==
  ASSUME IInv, Unlink
  PROVE  IInv'
<1>1. disk \in Disks /\ db \in Dbs /\ app \in Apps /\ job \in Jobs /\ world \in Worlds /\ seen \in Seens
  BY TypeParts DEF IInv
<1>2. job.pc = "unlink" /\ UNCHANGED <<app, world, seen>>
  BY DEF Unlink, At
<1>3. /\ ~seen.held /\ disk.body = None /\ job.then # "none"
      /\ (job.then \in {"failed", "rejected"} => job.plan # None)
  BY <1>2 DEF IInv, Held, Spooled, Planned, Importing
<1>4. disk' \in Disks /\ disk'.meta = None /\ disk'.body = None
  BY <1>1, <1>3 DEF Unlink, Disks
<1> DEFINE rows == IF job.then = "plan" THEN Published ELSE db.rows
<1>5. rows \in SUBSET db.rows /\ Published \subseteq rows
  BY DEF Published
<1>6. db' = [db EXCEPT !.rows = {Unreceipted(r) : r \in rows}]
  BY DEF Unlink, Unreceipted
<1>7. job.then = "plan" => \A r \in rows : r.published
  BY DEF Published
<1> HIDE DEF rows
<1>8. \A r \in rows : /\ Unreceipted(r) \in Row /\ ~Unreceipted(r).receipt
                      /\ Unreceipted(r).published = r.published
  <2>1. \A r \in rows : r \in Row
    BY <1>1, <1>5 DEF Dbs
  <2> QED BY <2>1 DEF Unreceipted, Row
<1>9. /\ db' \in Dbs /\ db'.rows = {Unreceipted(r) : r \in rows}
      /\ db'.starts = db.starts /\ db'.observed = db.observed /\ db'.wait = db.wait
      /\ db'.targets = db.targets /\ db'.pins = db.pins
  <2>1. {Unreceipted(r) : r \in rows} \in SUBSET Row
    BY <1>8
  <2> QED BY <1>1, <1>6, <2>1 DEF Dbs
<1>10. \A q \in db'.rows : ~q.receipt
  BY <1>8, <1>9
<1>11. CoverageIsHonest'
  BY <1>1, <1>2, <1>5, <1>9, UnreceiptedIsHonest DEF IInv
<1>12. CASE job.then = "complete"
  <2>1. job' \in Jobs /\ Rests
    BY <1>1, <1>12, EndsIs DEF Unlink
  <2>2. TypeOK'
    BY <1>1, <1>2, <1>4, <1>9, <2>1, TypePartsNext
  <2>3. Planned' /\ Spooled' /\ Receipts' /\ OwnPin'
    BY <1>4, <1>10, <2>1
       DEF Planned, Spooled, Receipts, OwnPin, Rests, Asking, Importing, Sending
  <2>4. Staging' /\ Held' /\ Asked'
    BY <1>2, <1>3, <1>4, <1>9, <2>1 DEF IInv, Staging, Held, Asked, Rests, Asking, Sending
  <2> QED BY <1>2, <1>9, <1>11, <2>1, <2>2, <2>3, <2>4, JobHolds DEF Rests, Sending
<1>13. CASE job.then = "plan"
  <2>1. job' \in Jobs /\ Steps("plan")
    BY <1>1, <1>13, GoesIs DEF Unlink, Pcs
  <2>2. TypeOK'
    BY <1>1, <1>2, <1>4, <1>9, <2>1, TypePartsNext
  <2>3. Planned'
    BY <1>4, <2>1 DEF IInv, Planned, Steps, Asking, Importing, Sending
  <2>4. Spooled' /\ Receipts' /\ OwnPin'
    BY <1>4, <1>10, <2>1 DEF Spooled, Receipts, OwnPin, Steps, Asking, Importing, Sending
  <2>5. Staging'
    <3>1. \A q \in db'.rows : q.published
      BY <1>7, <1>8, <1>9, <1>13
    <3> QED BY <2>1, <3>1 DEF Staging, Steps, Asking, Sending
  <2>6. Held' /\ Asked'
    BY <1>2, <1>3, <1>4, <1>9, <2>1 DEF IInv, Held, Asked, Steps, Sending
  <2> QED BY <1>2, <1>9, <1>11, <2>1, <2>2, <2>3, <2>4, <2>5, <2>6, JobHolds DEF Steps, Sending
<1>14. CASE job.then \notin {"complete", "plan"}
  <2>1. job' \in Jobs /\ Steps("fail")
    BY <1>1, <1>14, GoesIs DEF Unlink, Pcs
  <2>2. TypeOK'
    BY <1>1, <1>2, <1>4, <1>9, <2>1, TypePartsNext
  <2>3. Planned'
    BY <1>3, <1>4, <2>1 DEF IInv, Planned, Steps, Asking, Importing, Sending
  <2>4. Spooled' /\ Receipts' /\ OwnPin'
    BY <1>4, <1>10, <2>1 DEF Spooled, Receipts, OwnPin, Steps, Asking, Importing, Sending
  <2>5. Staging' /\ Held' /\ Asked'
    BY <1>2, <1>3, <1>4, <1>9, <2>1 DEF IInv, Staging, Held, Asked, Steps, Asking, Sending
  <2> QED BY <1>2, <1>9, <1>11, <2>1, <2>2, <2>3, <2>4, <2>5, JobHolds DEF Steps, Sending
<1> QED BY <1>12, <1>13, <1>14

-----------------------------------------------------------------------------
(* A failure of the server.                                                *)
LEMMA DelayedIs ==
  ASSUME IInv, job.pc # "none", NEW failures, NEW after \in {0, RETRY_AFTER}
  PROVE  /\ Delayed(failures, after) \in Int /\ Delayed(failures, after) \in Stamp
         /\ Delayed(failures, after) >= after /\ Delayed(failures, after) <= Latest(world.back)
<1>1. /\ FIRST_RETRY \in Nat /\ LATER_RETRY \in Nat /\ RETRY_AFTER \in Nat /\ FIRST_RETRY <= LATER_RETRY
      /\ ROLLBACK \in Nat /\ Past = -ROLLBACK
  BY Sizes
<1>2. Now \in Int /\ Now <= world.back /\ world.back \in 0 .. ROLLBACK
  BY NowIs
<1> DEFINE most == Larger(LATER_RETRY, RETRY_AFTER)
           retry == IF failures = 0 THEN FIRST_RETRY ELSE LATER_RETRY
<1>3. /\ most \in Nat /\ LATER_RETRY <= most /\ RETRY_AFTER <= most /\ Latest(world.back) = most + world.back
  BY <1>1 DEF Larger, Latest
<1>4. retry \in Nat /\ retry <= most /\ after \in Nat /\ after <= most
  BY <1>1, <1>3
<1> HIDE DEF most, retry
<1>5. Delayed(failures, after) = Larger(Now + retry, after)
  BY DEF Delayed, retry
<1>6. /\ Delayed(failures, after) \in Int /\ Past <= Delayed(failures, after)
      /\ Delayed(failures, after) >= after /\ Delayed(failures, after) <= Latest(world.back)
  BY <1>1, <1>2, <1>3, <1>4, <1>5 DEF Larger
<1> QED BY <1>2, <1>6, LatestIs

LEMMA FailedWith ==
  ASSUME IInv, job.pc # "none", NEW after \in {0, RETRY_AFTER}
  PROVE  LET d == ProviderFailed(after) IN
         /\ d \in Dbs /\ d.rows = db.rows /\ d.starts = db.starts /\ d.observed = db.observed
         /\ d.targets = db.targets /\ d.pins = db.pins
         /\ d.wait \in Int /\ d.wait >= db.wait /\ d.wait >= after /\ d.wait <= Latest(world.back)
<1>1. db \in Dbs /\ world \in Worlds /\ db.wait \in Stamp /\ world.back \in 0 .. ROLLBACK
  BY TypeParts DEF IInv, Dbs, Worlds
<1>2. Latest(world.back) \in Nat /\ LATER_RETRY <= Latest(world.back) /\ RETRY_AFTER <= Latest(world.back)
  BY <1>1, LatestIs
<1>3. FIRST_RETRY \in Nat /\ LATER_RETRY \in Nat /\ RETRY_AFTER \in Nat /\ FIRST_RETRY <= LATER_RETRY
  BY Sizes
<1>4. db.wait \in Int /\ Past <= db.wait /\ db.wait <= Latest(world.back)
  BY <1>1, LatestIs DEF IInv, Clocks
<1> DEFINE least == Delayed(db.failures, after)
           wait == Larger(db.wait, least)
<1>5. least \in Int /\ least >= after /\ least <= Latest(world.back)
  BY DelayedIs
<1> HIDE DEF least
<1>6. after \in Int
  BY <1>3
<1>7. wait \in Int /\ wait >= db.wait /\ wait >= after /\ wait <= Latest(world.back)
  BY <1>2, <1>4, <1>5, <1>6 DEF Larger
<1> HIDE DEF wait
<1>8. wait \in Stamp
  <2>1. Past \in Int
    BY Sizes
  <2> QED BY <1>1, <1>4, <1>7, <2>1, LatestIs
<1>9. ProviderFailed(after) = [db EXCEPT !.failures = 1, !.wait = wait]
  BY DEF ProviderFailed, wait, least
<1>10. /\ ProviderFailed(after) \in Dbs /\ ProviderFailed(after).wait = wait
       /\ ProviderFailed(after).rows = db.rows /\ ProviderFailed(after).starts = db.starts
       /\ ProviderFailed(after).observed = db.observed
       /\ ProviderFailed(after).targets = db.targets /\ ProviderFailed(after).pins = db.pins
  <2> DEFINE d == [db EXCEPT !.failures = 1, !.wait = wait]
  <2>1. d \in Dbs
    <3>1. 1 \in 0 .. 1
      OBVIOUS
    <3> QED BY <1>1, <1>8, <3>1 DEF Dbs
  <2>2. /\ d.wait = wait /\ d.rows = db.rows /\ d.starts = db.starts /\ d.observed = db.observed
        /\ d.targets = db.targets /\ d.pins = db.pins
    BY <1>1 DEF Dbs
  <2>3. ProviderFailed(after) = d
    BY <1>9
  <2> HIDE DEF d
  <2> QED BY <2>1, <2>2, <2>3
<1> QED BY <1>7, <1>10

LEMMA FailHolds ==
  ASSUME IInv, Fail
  PROVE  IInv'
<1>1. disk \in Disks /\ db \in Dbs /\ app \in Apps /\ job \in Jobs /\ world \in Worlds /\ seen \in Seens
  BY TypeParts DEF IInv
<1>2. job' \in Jobs /\ Rests /\ job.pc = "fail" /\ UNCHANGED <<disk, app, world>>
  BY <1>1, EndsIs DEF Fail, At
<1>3. disk.body = None
  BY <1>2 DEF IInv, Spooled
<1>4. /\ world.back \in 0 .. ROLLBACK /\ Latest(world.back) \in Nat
      /\ seen.asked \in [0 .. ROLLBACK -> Nat]
  BY <1>1, LatestIs DEF Worlds, Seens
(* What the database and the caller know afterwards. *)
<1> DEFINE Knows == /\ db' \in Dbs /\ db'.rows = db.rows /\ db'.starts = db.starts
                    /\ db'.observed = db.observed /\ db'.wait <= Latest(world.back)
                    /\ \A t \in Targets : db'.targets[t].retry <= Latest(world.back)
                    /\ seen' \in Seens /\ seen'.held = seen.held /\ seen'.best = seen.best
                    /\ seen'.sent = seen.sent
                    /\ \A back \in 0 .. ROLLBACK :
                         seen'.asked[back] > 0 => seen'.asked[back] + (world.back - back) <= db'.wait
<1>5. ASSUME db' = ProviderFailed(0), UNCHANGED seen PROVE Knows
  <2>1. /\ db' \in Dbs /\ db'.rows = db.rows /\ db'.starts = db.starts /\ db'.observed = db.observed
        /\ db'.targets = db.targets /\ db'.wait \in Int /\ db'.wait >= db.wait
        /\ db'.wait <= Latest(world.back)
    BY <1>2, <1>5, FailedWith
  <2>2. db.wait \in Int
    BY <1>1, <1>4, LatestIs DEF Dbs
  <2>3. \A back \in 0 .. ROLLBACK :
          seen'.asked[back] > 0 => seen'.asked[back] + (world.back - back) <= db'.wait
    <3>1. SUFFICES ASSUME NEW back \in 0 .. ROLLBACK, seen.asked[back] > 0
                   PROVE  seen.asked[back] + (world.back - back) <= db'.wait
      BY <1>5
    <3>2. seen.asked[back] + (world.back - back) <= db.wait
      BY <3>1 DEF IInv, Asked
    <3>3. seen.asked[back] \in Nat
      BY <1>4
    <3>4. back \in Int /\ world.back \in Int
      BY <1>4, Sizes
    <3> QED BY <2>1, <2>2, <3>2, <3>3, <3>4
  <2> QED BY <1>1, <1>5, <2>1, <2>3 DEF IInv, Clocks
<1> DEFINE t == job.plan.target
           old == db.targets[t]
<1>6. ASSUME job.then \in {"failed", "rejected"},
             NEW permanent \in BOOLEAN, NEW after \in {0, RETRY_AFTER},
             LET stopped == permanent \/ old.failures + 1 >= TARGET_FAILURES
             IN  /\ db' = [ProviderFailed(after) EXCEPT !.targets[t] =
                             [old EXCEPT !.failures = IF @ < TARGET_FAILURES THEN @ + 1 ELSE @,
                                         !.retry = Delayed(old.failures, after),
                                         !.stopped = stopped]]
                 /\ seen' = [seen EXCEPT !.asked[world.back] = Larger(@, after)]
      PROVE  Knows
  <2> DEFINE stopped == permanent \/ old.failures + 1 >= TARGET_FAILURES
             until == Delayed(old.failures, after)
             d == ProviderFailed(after)
             state == [old EXCEPT !.failures = IF @ < TARGET_FAILURES THEN @ + 1 ELSE @,
                                  !.retry = until, !.stopped = stopped]
  <2>1. /\ d \in Dbs /\ d.rows = db.rows /\ d.starts = db.starts /\ d.observed = db.observed
        /\ d.targets = db.targets /\ d.wait \in Int /\ d.wait >= db.wait /\ d.wait >= after
        /\ d.wait <= Latest(world.back)
    BY <1>2, FailedWith
  <2>2. /\ db' = [d EXCEPT !.targets[t] = state]
        /\ seen' = [seen EXCEPT !.asked[world.back] = Larger(@, after)]
    BY <1>6
  <2>3. t \in Targets
    <3>1. job.plan # None /\ job.plan \in Plan \cup {None}
      BY <1>1, <1>2, <1>6 DEF IInv, Planned, Jobs
    <3> QED BY <3>1 DEF Plan
  <2>4. until \in Stamp /\ until <= Latest(world.back)
    BY <1>2, DelayedIs
  <2> HIDE DEF until, stopped, t, d
  <2>5. stopped \in BOOLEAN
    BY DEF stopped
  <2>6. old \in TargetStates
    BY <1>1, <2>3 DEF Dbs
  <2>7. state \in TargetStates /\ state.retry = until
    <3> DEFINE f == IF old.failures < TARGET_FAILURES THEN old.failures + 1 ELSE old.failures
    <3>1. f \in 0 .. TARGET_FAILURES
      <4>1. old.failures \in 0 .. TARGET_FAILURES /\ TARGET_FAILURES \in Nat
        BY <2>6, Sizes DEF TargetStates
      <4> HIDE DEF old
      <4> QED BY <4>1
    <3>2. state = [old EXCEPT !.failures = f, !.retry = until, !.stopped = stopped]
      BY <2>6 DEF TargetStates
    <3> HIDE DEF f, state, old
    <3> QED BY <2>4, <2>5, <2>6, <3>1, <3>2 DEF TargetStates
  <2> HIDE DEF state, old
  <2>8. /\ db' \in Dbs /\ db'.rows = db.rows /\ db'.starts = db.starts /\ db'.observed = db.observed
        /\ db'.wait = d.wait /\ db'.targets = [db.targets EXCEPT ![t] = state]
    BY <2>1, <2>2, <2>3, <2>7 DEF Dbs
  <2>9. \A x \in Targets : db'.targets[x].retry <= Latest(world.back)
    <3>1. \A x \in Targets : db'.targets[x] = IF x = t THEN state ELSE db.targets[x]
      BY <1>1, <2>8 DEF Dbs
    <3> QED BY <2>4, <2>7, <3>1 DEF IInv, Clocks
  <2> DEFINE asked == Larger(seen.asked[world.back], after)
  <2>10. /\ seen' \in Seens /\ seen'.held = seen.held /\ seen'.best = seen.best
         /\ seen'.sent = seen.sent /\ seen'.asked = [seen.asked EXCEPT ![world.back] = asked]
    <3>1. asked \in Nat
      <4>1. after \in Nat
        BY Sizes
      <4>2. seen.asked[world.back] \in Nat
        BY <1>4
      <4> QED BY <4>1, <4>2 DEF Larger
    <3>2. seen' = [seen EXCEPT !.asked = [seen.asked EXCEPT ![world.back] = asked]]
      BY <1>1, <2>2 DEF Seens
    <3> HIDE DEF asked
    <3>3. [seen.asked EXCEPT ![world.back] = asked] \in [0 .. ROLLBACK -> Nat]
      BY <1>4, <3>1
    <3> QED BY <1>1, <3>2, <3>3 DEF Seens
  <2>11. ASSUME NEW back \in 0 .. ROLLBACK, seen'.asked[back] > 0
         PROVE  seen'.asked[back] + (world.back - back) <= db'.wait
    <3>1. db.wait \in Int /\ after \in Nat /\ seen.asked[back] \in Nat /\ seen.asked[world.back] \in Nat
      <4>1. db.wait \in Int
        BY <1>1, <1>4, LatestIs DEF Dbs
      <4>2. after \in Nat
        BY Sizes
      <4> QED BY <1>4, <4>1, <4>2
    <3>2. \A b \in 0 .. ROLLBACK : seen.asked[b] > 0 => seen.asked[b] + (world.back - b) <= db.wait
      BY DEF IInv, Asked
    <3>3. CASE back # world.back
      <4>1. seen'.asked[back] = seen.asked[back]
        BY <1>4, <2>10, <3>3
      <4>2. seen.asked[back] + (world.back - back) <= db.wait
        BY <2>11, <3>2, <4>1
      <4>3. world.back \in Int /\ back \in Int
        BY <1>4, Sizes
      <4>4. seen'.asked[back] + (world.back - back) <= db.wait
        BY <4>1, <4>2
      <4>5. db'.wait \in Int /\ db.wait <= db'.wait
        BY <2>1, <2>8
      <4> QED BY <3>1, <4>1, <4>3, <4>4, <4>5
    <3>4. CASE back = world.back
      <4>1. seen'.asked[back] = asked /\ (asked = after \/ asked = seen.asked[world.back])
        BY <1>4, <2>10, <3>4 DEF Larger
      <4>2. CASE asked = after
        <5>1. world.back \in Int /\ world.back - back = 0
          BY <1>4, <3>4, Sizes
        <5>2. seen'.asked[back] = after /\ after <= db'.wait /\ db'.wait \in Int
          BY <2>1, <2>8, <4>1, <4>2
        <5> QED BY <3>1, <5>1, <5>2
      <4>3. CASE asked = seen.asked[world.back]
        <5>1. seen.asked[world.back] + (world.back - world.back) <= db.wait
          BY <1>4, <2>11, <3>2, <4>1, <4>3
        <5>2. world.back \in Int /\ world.back - back = 0 /\ world.back - world.back = 0
          BY <1>4, <3>4, Sizes
        <5>3. seen'.asked[back] = seen.asked[world.back] /\ db.wait <= db'.wait /\ db'.wait \in Int
          BY <2>1, <2>8, <4>1, <4>3
        <5> QED BY <3>1, <5>1, <5>2, <5>3
      <4> QED BY <4>1, <4>2, <4>3
    <3> QED BY <3>3, <3>4
  <2> QED BY <2>1, <2>8, <2>9, <2>10, <2>11
<1>7. Knows
  <2>1. CASE db' = ProviderFailed(0) /\ UNCHANGED seen
    BY <1>5, <2>1
  <2>2. CASE /\ job.then \in {"failed", "rejected"}
             /\ \E permanent \in BOOLEAN, after \in {0, RETRY_AFTER} :
                  LET stopped == permanent \/ old.failures + 1 >= TARGET_FAILURES
                  IN  /\ db' = [ProviderFailed(after) EXCEPT !.targets[t] =
                                  [old EXCEPT !.failures = IF @ < TARGET_FAILURES THEN @ + 1 ELSE @,
                                              !.retry = Delayed(old.failures, after),
                                              !.stopped = stopped]]
                      /\ seen' = [seen EXCEPT !.asked[world.back] = Larger(@, after)]
    <3> HIDE DEF Knows
    <3> QED BY <1>6, <2>2
  <2> QED BY <2>1, <2>2 DEF Fail
<1>8. TypeOK'
  BY <1>1, <1>2, <1>7, TypePartsNext
<1>9. Clocks'
  BY <1>2, <1>7 DEF IInv, Clocks
<1>10. Locked'
  BY <1>2, LockKept DEF IInv, Rests
<1>11. Asked'
  BY <1>2, <1>3, <1>7 DEF Asked, Rests, Sending
<1>12. Slots \subseteq db'.starts
  BY <1>7, SlotsAreStarts
<1> QED BY <1>2, <1>7, <1>8, <1>9, <1>10, <1>11, <1>12, EndHolds DEF Rests

-----------------------------------------------------------------------------
(* The next request.                                                       *)
LEMMA EnvelopeIs ==
  ASSUME NEW gaps \in SUBSET Units, gaps # {}
  PROVE  Envelope(gaps) \subseteq Units /\ Convex(Envelope(gaps)) /\ Envelope(gaps) \cap gaps # {}
<1>1. Units \subseteq Int /\ (\A u \in Units : 1 <= u) /\ MAX_REQUEST \in Nat \ {0}
  BY Sizes
<1>2. Envelope(gaps) \subseteq Units
  BY DEF Envelope
<1>3. Convex(Envelope(gaps))
  <2>1. SUFFICES ASSUME NEW u \in Envelope(gaps), NEW w \in Envelope(gaps), NEW v \in Units,
                        u <= v, v <= w
                 PROVE  v \in Envelope(gaps)
    BY DEF Convex
  <2>2. u \in Units /\ w \in Units /\ u \in Int /\ v \in Int /\ w \in Int
    BY <1>1, <1>2
  <2>3. \E a \in gaps : a <= v
    <3>1. PICK a \in gaps : a <= u
      BY DEF Envelope
    <3> QED BY <1>1, <2>1, <2>2, <3>1
  <2>4. \E b \in gaps : v <= b
    <3>1. PICK b \in gaps : w <= b
      BY DEF Envelope
    <3> QED BY <1>1, <2>1, <2>2, <3>1
  <2>5. ASSUME NEW a \in gaps, \A b \in gaps : a <= b PROVE v < a + MAX_REQUEST
    <3>1. w < a + MAX_REQUEST
      BY <2>5 DEF Envelope
    <3> QED BY <1>1, <2>1, <2>2, <3>1
  <2> QED BY <2>3, <2>4, <2>5 DEF Envelope
<1>4. \E u \in gaps : u \in Envelope(gaps)
  <2>1. gaps \in SUBSET Int /\ 1 \in Int /\ \A x \in gaps : 1 <= x
    BY <1>1
  <2>2. PICK u \in gaps : \A b \in gaps : u <= b
    BY <2>1, LeastFrom
  <2>3. u \in Int /\ u <= u
    BY <1>1
  <2>4. ASSUME NEW a \in gaps, \A b \in gaps : a <= b PROVE u < a + MAX_REQUEST
    BY <1>1, <2>2, <2>4
  <2> QED BY <2>3, <2>4 DEF Envelope
<1> QED BY <1>2, <1>3, <1>4

LEMMA MakePlanHolds ==
  ASSUME IInv, MakePlan
  PROVE  IInv'
<1>1. disk \in Disks /\ db \in Dbs /\ app \in Apps /\ job \in Jobs /\ world \in Worlds /\ seen \in Seens
  BY TypeParts DEF IInv
<1>2. job.pc = "plan" /\ UNCHANGED <<disk, db, app, world, seen>>
  BY DEF MakePlan, At
<1>3. CASE Ends
  <2>1. job' \in Jobs /\ Rests
    BY <1>1, <1>3, EndsIs
  <2> QED BY <1>1, <1>2, <2>1, RestHolds
<1> DEFINE t == job.target
           plan == [target |-> t, units |-> Envelope(Gaps(t)),
                    refresh |-> db.targets[t].refresh, settled |-> FALSE]
<1>4. CASE t # None /\ Gaps(t) # {} /\ job' = [job EXCEPT !.pc = "reserve", !.target = None, !.plan = plan]
  <2>1. t \in Targets /\ db.targets[t].refresh \in BOOLEAN
    BY <1>1, <1>4 DEF Jobs, Dbs, TargetStates
  <2>2. Gaps(t) \subseteq RangeOf[t] /\ RangeOf[t] \in SUBSET Units
    BY <2>1, RangesAssumption DEF Gaps, Available
  <2>3. /\ Envelope(Gaps(t)) \subseteq Units /\ Convex(Envelope(Gaps(t)))
        /\ Envelope(Gaps(t)) \cap RangeOf[t] # {}
    BY <1>4, <2>2, EnvelopeIs
  <2>4. plan \in Plan /\ plan.target = t /\ plan.units = Envelope(Gaps(t))
    BY <2>1, <2>3 DEF Plan
  <2>5. Sensible(plan) /\ plan # None
    BY <2>3, <2>4, NothingAssumption DEF Sensible
  <2> HIDE DEF plan
  <2>6. job' \in Jobs /\ job'.pc = "reserve" /\ job'.owner = job.owner /\ job'.plan = plan
    BY <1>1, <1>4, <2>4 DEF Jobs, Pcs
  <2>7. TypeOK'
    BY <1>1, <1>2, <2>6, TypePartsNext
  <2>8. Planned'
    <3>1. Sensible(job'.plan)
      BY <2>5, <2>6
    <3> QED BY <1>2, <2>5, <2>6, <3>1 DEF IInv, Planned, Sensible
  <2>9. Spooled' /\ Receipts' /\ OwnPin' /\ Staging'
    BY <1>2, <2>6 DEF IInv, Spooled, Receipts, OwnPin, Staging, Asking, Importing, Sending
  <2>10. Held' /\ Asked'
    BY <1>2, <2>6, AskedKept DEF IInv, Held, Importing, Sending
  <2>11. CoverageIsHonest'
    BY <1>2, HonestSame DEF IInv
  <2> QED BY <1>2, <2>6, <2>7, <2>8, <2>9, <2>10, <2>11, JobHolds DEF Sending
<1> QED BY <1>3, <1>4 DEF MakePlan

-----------------------------------------------------------------------------
(* The import.                                                             *)
LEMMA CheckHolds ==
  ASSUME IInv, Check
  PROVE  IInv'
<1>1. disk \in Disks /\ db \in Dbs /\ app \in Apps /\ job \in Jobs /\ world \in Worlds /\ seen \in Seens
  BY TypeParts DEF IInv
<1>2. job.pc = "check" /\ UNCHANGED <<disk, app, world, seen>>
  BY DEF Check, At
<1>3. job.plan # None /\ job.plan.target \in Targets /\ disk.meta # None
  BY <1>2, PlanIs DEF IInv, Plan, Spooled
<1> DEFINE s == <<job.owner, "job">>
           rows == IF Imported THEN {r \in db.rows : r.published} ELSE db.rows
<1>4. s \in Sessions
  BY <1>2, OwnerIs
<1>5. rows \in SUBSET db.rows /\ {r \in rows : r.published} = {r \in db.rows : r.published}
  OBVIOUS
<1>6. db' = [db EXCEPT !.pins[s] = job.plan.target, !.rows = rows]
  BY DEF Check
<1> HIDE DEF rows, s
<1>7. /\ db' \in Dbs /\ db'.rows = rows /\ db'.pins[s] = job.plan.target
      /\ db'.starts = db.starts /\ db'.observed = db.observed /\ db'.wait = db.wait
      /\ db'.targets = db.targets
  BY <1>1, <1>3, <1>4, <1>5, <1>6 DEF Dbs
<1>8. Published' = Published
  BY <1>5, <1>7 DEF Published
<1>9. CASE Imported
  <2>1. job' \in Jobs /\ Drops("complete") /\ "complete" \in Thens
    BY <1>1, <1>9, DiscardsIs DEF Check, Thens
  <2>2. TypeOK'
    BY <1>1, <1>2, <1>7, <2>1, TypePartsNext
  <2>3. ~seen.held
    BY <1>9 DEF IInv, Held, Imported
  <2> QED BY <1>2, <1>3, <1>7, <1>8, <2>1, <2>2, <2>3, DropHolds
<1>10. CASE ~Imported /\ disk.body = None
  <2>1. job' \in Jobs /\ Rests
    BY <1>1, <1>10, EndsIs DEF Check
  <2>2. TypeOK'
    BY <1>1, <1>2, <1>7, <2>1, TypePartsNext
  <2>3. db'.rows = db.rows
    BY <1>7, <1>10 DEF rows
  <2>4. Clocks' /\ Locked'
    BY <1>2, <1>7, <2>1, ClocksKept, LockKept DEF IInv, Rests
  <2>5. Asked'
    BY <1>2, <1>7, <2>1, AskedKept DEF IInv, Rests, Sending
  <2>6. Slots \subseteq db'.starts
    BY <1>7, SlotsAreStarts
  <2> QED BY <1>2, <1>7, <2>1, <2>2, <2>3, <2>4, <2>5, <2>6, EndHolds DEF Rests
<1>11. CASE ~Imported /\ disk.body # None /\ disk.body.valid
  <2>1. job' \in Jobs /\ Steps("begin")
    BY <1>1, <1>11, GoesIs DEF Check, Pcs
  <2>2. TypeOK'
    BY <1>1, <1>2, <1>7, <2>1, TypePartsNext
  <2>3. db'.rows = db.rows
    BY <1>7, <1>11 DEF rows
  <2>4. Planned'
    BY <1>2, <1>3, <2>1 DEF IInv, Planned, Steps, Sensible
  <2>5. Spooled' /\ Receipts' /\ Staging'
    BY <1>2, <1>3, <1>11, <2>1, <2>3
       DEF IInv, Spooled, Receipts, Staging, Steps, Asking, Importing, Sending
  <2>6. OwnPin'
    BY <1>7, <2>1 DEF OwnPin, Steps, s
  <2>7. Held'
    BY <1>2, <1>8, <1>11, <2>1 DEF IInv, Held, Steps, Importing
  <2>8. Asked'
    BY <1>2, <1>7, <2>1 DEF IInv, Asked, Steps, Sending
  <2>9. CoverageIsHonest'
    BY <1>2, <1>8, HonestKept DEF IInv
  <2> QED BY <1>2, <1>7, <2>1, <2>2, <2>4, <2>5, <2>6, <2>7, <2>8, <2>9, JobHolds DEF Steps, Sending
<1>12. CASE ~Imported /\ disk.body # None /\ ~disk.body.valid
  <2>1. job' \in Jobs /\ Drops("rejected") /\ "rejected" \in Thens
    BY <1>1, <1>12, DiscardsIs DEF Check, Thens
  <2>2. TypeOK'
    BY <1>1, <1>2, <1>7, <2>1, TypePartsNext
  <2>3. ~seen.held
    BY <1>12 DEF IInv, Held
  <2> QED BY <1>2, <1>3, <1>7, <1>8, <2>1, <2>2, <2>3, DropHolds
<1> QED BY <1>9, <1>10, <1>11, <1>12

(* A row of the response with the comments imported so far. *)
LEMMA ImportHolds ==
  ASSUME IInv, job' \in Jobs, Steps("import"), job.pc \in Importing, UNCHANGED <<disk, app, world, seen>>,
         NEW new \in Row, NEW old, Stages(new)',
         db' = [db EXCEPT !.rows = (@ \ old) \cup {new}],
         \A r \in db.rows : r \in old <=> ~r.published
  PROVE  IInv'
<1>1. disk \in Disks /\ db \in Dbs /\ app \in Apps /\ job \in Jobs /\ world \in Worlds /\ seen \in Seens
  BY TypeParts DEF IInv
<1>2. /\ db' \in Dbs /\ db'.rows = (db.rows \ old) \cup {new} /\ db'.pins = db.pins
      /\ db'.starts = db.starts /\ db'.observed = db.observed /\ db'.wait = db.wait
      /\ db'.targets = db.targets
  BY <1>1 DEF Dbs
<1>3. ~new.published
  BY DEF Stages
<1>4. Published' = Published
  BY <1>2, <1>3 DEF Published
<1>5. TypeOK'
  BY <1>1, <1>2, TypePartsNext
<1>6. Planned' /\ Spooled' /\ OwnPin'
  BY <1>2 DEF IInv, Planned, Spooled, OwnPin, Steps, Asking, Importing, Sending
<1>7. Receipts'
  BY DEF IInv, Spooled, Receipts, Steps, Asking, Sending, Importing
<1>8. Staging'
  <2>1. \E r \in db'.rows : Stages(r)'
    BY <1>2
  <2> QED BY <2>1 DEF Staging, Steps, Asking, Sending
<1>9. Held' /\ Asked'
  BY <1>2, <1>4 DEF IInv, Held, Asked, Steps, Importing, Sending
<1>10. CoverageIsHonest'
  BY <1>4, HonestKept DEF IInv
<1>11. job.pc # "none"
  BY DEF Importing
<1> QED BY <1>2, <1>5, <1>6, <1>7, <1>8, <1>9, <1>10, <1>11, JobHolds DEF Steps, Sending

LEMMA BeginImportHolds ==
  ASSUME IInv, BeginImport
  PROVE  IInv'
<1>1. disk \in Disks /\ db \in Dbs /\ app \in Apps /\ job \in Jobs /\ world \in Worlds /\ seen \in Seens
  BY TypeParts DEF IInv
<1>2. job' \in Jobs /\ Steps("import") /\ job.pc = "begin"
  BY <1>1, GoesIs DEF BeginImport, At, Pcs
<1>3. UNCHANGED <<disk, app, world, seen>>
  BY DEF BeginImport
<1>4. job.plan \in Plan /\ disk.body # None /\ disk.body \in Body
  BY <1>1, <1>2, PlanIs DEF IInv, Spooled, Importing, Disks
<1>5. PICK new \in Row :
        new = [units |-> job.plan.units, count |-> Nothing, target |-> job.plan.target,
               settled |-> FALSE, published |-> FALSE, receipt |-> TRUE]
  <2>1. Nothing \in Count
    BY DEF Nothing, Count
  <2> QED BY <1>4, <2>1 DEF Row, Plan
<1> DEFINE old == {r \in db.rows : ~r.published}
<1>6. \A r \in db.rows : r.published \in BOOLEAN /\ (r.published \/ r.receipt)
  BY <1>1, <1>2 DEF IInv, Staging, Dbs, Row
<1>7. db' = [db EXCEPT !.rows = (@ \ old) \cup {new}]
  <2>1. {r \in db.rows : ~(r.receipt /\ ~r.published)} = db.rows \ old
    BY <1>6
  <2> HIDE DEF old
  <2> QED BY <1>5, <2>1 DEF BeginImport
<1>8. Stages(new)'
  <2>1. db'.rows = (db.rows \ old) \cup {new}
    BY <1>1, <1>7 DEF Dbs
  <2>2. \A u \in Units : new.count[u] <= disk.body.count[u]
    BY <1>4, <1>5 DEF Nothing, Body
  <2>3. \A q \in db'.rows : q = new \/ q.published
    BY <2>1
  <2> QED BY <1>2, <1>3, <1>5, <2>2, <2>3 DEF Stages, Steps
<1>9. \A r \in db.rows : r \in old <=> ~r.published
  OBVIOUS
<1> HIDE DEF old
<1> QED BY <1>2, <1>3, <1>5, <1>7, <1>8, <1>9, ImportHolds DEF Importing

LEMMA StagedRow ==
  ASSUME IInv, job.pc = "import"
  PROVE  /\ Staged \in db.rows /\ Staged \in Row /\ Stages(Staged)
         /\ \A r \in db.rows : r \in {Staged} <=> ~r.published
<1>1. PICK r \in db.rows : Stages(r)
  BY DEF IInv, Staging
<1>2. ~r.published /\ \A q \in db.rows : q = r \/ q.published
  BY <1>1 DEF Stages
<1>3. Staged \in db.rows /\ ~Staged.published
  BY <1>2 DEF Staged
<1>4. Staged = r
  BY <1>2, <1>3
<1>5. db.rows \subseteq Row
  BY TypeParts DEF IInv, Dbs
<1> QED BY <1>1, <1>2, <1>4, <1>5

LEMMA ImportBatchHolds ==
  ASSUME IInv, ImportBatch
  PROVE  IInv'
<1>1. disk \in Disks /\ db \in Dbs /\ app \in Apps /\ job \in Jobs /\ world \in Worlds /\ seen \in Seens
  BY TypeParts DEF IInv
<1>2. job.pc = "import" /\ UNCHANGED <<disk, app, job, world, seen>>
  BY DEF ImportBatch, At
<1>3. job' \in Jobs /\ Steps("import")
  BY <1>1, <1>2 DEF Steps
<1>4. disk.body # None /\ disk.body \in Body
  BY <1>1, <1>2 DEF IInv, Spooled, Importing, Disks
<1>5. PICK u \in Missing :
        db' = [db EXCEPT !.rows = (@ \ {Staged}) \cup {[Staged EXCEPT !.count[u] = @ + 1]}]
  BY DEF ImportBatch
<1>6. /\ Staged \in Row /\ Stages(Staged) /\ \A r \in db.rows : r \in {Staged} <=> ~r.published
  BY <1>2, StagedRow
<1>7. u \in Units /\ Staged.count[u] < disk.body.count[u]
  BY DEF Missing
<1>8. /\ Staged.count \in [Units -> 0 .. 2] /\ disk.body.count \in [Units -> 0 .. 1]
  BY <1>4, <1>6 DEF Row, Count, Body
<1>9. Staged.count[u] + 1 \in 0 .. 2 /\ Staged.count[u] + 1 <= disk.body.count[u]
  <2>1. Staged.count[u] \in 0 .. 2 /\ disk.body.count[u] \in 0 .. 1
    BY <1>7, <1>8
  <2> QED BY <1>7, <2>1
<1>10. PICK new \in Row :
         /\ new = [Staged EXCEPT !.count[u] = @ + 1]
         /\ new.count = [Staged.count EXCEPT ![u] = @ + 1]
         /\ new.units = Staged.units /\ new.target = Staged.target
         /\ new.published = Staged.published /\ new.receipt = Staged.receipt
  <2> DEFINE n == [Staged EXCEPT !.count[u] = @ + 1]
             count == [Staged.count EXCEPT ![u] = @ + 1]
  <2>1. count \in Count
    BY <1>7, <1>8, <1>9 DEF Count
  <2>2. n = [Staged EXCEPT !.count = count]
    BY <1>6 DEF Row
  <2> HIDE DEF count
  <2>3. /\ n \in Row /\ n.count = count /\ n.units = Staged.units /\ n.target = Staged.target
        /\ n.published = Staged.published /\ n.receipt = Staged.receipt
    BY <1>6, <2>1, <2>2 DEF Row
  <2> QED BY <2>3 DEF count
<1>11. Stages(new)'
  <2>1. db'.rows = (db.rows \ {Staged}) \cup {new}
    BY <1>1, <1>5, <1>10 DEF Dbs
  <2>2. \A v \in Units : new.count[v] <= disk.body.count[v]
    BY <1>6, <1>7, <1>8, <1>9, <1>10 DEF Stages
  <2>3. \A q \in db'.rows : q = new \/ q.published
    BY <1>6, <2>1
  <2> QED BY <1>2, <1>6, <1>10, <2>2, <2>3 DEF Stages
<1>12. db' = [db EXCEPT !.rows = (@ \ {Staged}) \cup {new}]
  BY <1>5, <1>10
<1> QED BY <1>2, <1>3, <1>6, <1>10, <1>11, <1>12, ImportHolds DEF Importing

-----------------------------------------------------------------------------
(* The reservation.                                                        *)
LEMMA SlotIs ==
  ASSUME IInv, NEW r \in seen.sent
  PROVE  /\ r \in Requests /\ r.age \in Nat /\ r.age < WINDOW /\ r.clock \in 0 .. ROLLBACK
         /\ SlotOf(r) \in Int /\ SlotOf(r) = r.age + r.clock - world.back
<1>1. r \in Requests /\ world.back \in 0 .. ROLLBACK /\ WINDOW \in Nat /\ ROLLBACK \in Nat
  BY TypeParts, Sizes DEF IInv, Seens, Worlds
<1> QED BY <1>1 DEF Requests, SlotOf

LEMMA StartsFinite ==
  ASSUME db \in Dbs, NEW S \in SUBSET db.starts
  PROVE  IsFiniteSet(S) /\ S \subseteq Int /\ \A a \in S : Past <= a /\ a < WINDOW + ROLLBACK
<1>1. Past \in Int /\ WINDOW + ROLLBACK - 1 \in Int /\ WINDOW \in Nat /\ ROLLBACK \in Nat
  BY Sizes
<1>2. S \subseteq Past .. WINDOW + ROLLBACK - 1
  BY DEF Dbs
<1>3. IsFiniteSet(Past .. WINDOW + ROLLBACK - 1)
  BY <1>1, FS_Interval
<1>4. IsFiniteSet(S)
  BY <1>2, <1>3, FS_Subset
<1>5. \A a \in Past .. WINDOW + ROLLBACK - 1 : a \in Int /\ Past <= a /\ a < WINDOW + ROLLBACK
  BY <1>1
<1> QED BY <1>2, <1>4, <1>5

(* In a set with k numbers, one of them has k - 1 below it. *)
LEMMA RankIs ==
  ASSUME NEW S \in SUBSET Int, IsFiniteSet(S), NEW low \in Int, NEW high \in Int,
         \A a \in S : low <= a /\ a <= high, NEW k \in Nat \ {0},
         \A a \in S : Cardinality({b \in S : b < a}) # k - 1
  PROVE  Cardinality(S) < k
<1> DEFINE Below(a) == {b \in S : b < a}
           T == {a \in S : Cardinality(Below(a)) >= k - 1}
<1>1. \A P \in SUBSET S : IsFiniteSet(P) /\ Cardinality(P) \in Nat
  BY FS_Subset, FS_CardinalityType
<1>2. ASSUME NEW P \in SUBSET S, P # {}
      PROVE  \E m \in P : (\A b \in P : b <= m) /\ Cardinality(P \ {m}) = Cardinality(P) - 1
  <2>1. PICK m \in P : \A b \in P : b <= m
    BY <1>2, GreatestTo
  <2>2. Cardinality(P \ {m}) = Cardinality(P) - 1
    BY <1>1, FS_RemoveElement
  <2> QED BY <2>1, <2>2
<1>3. SUFFICES ASSUME Cardinality(S) >= k PROVE FALSE
  BY <1>1
<1>4. T # {}
  <2>1. S # {}
    BY <1>3, FS_EmptySet
  <2>2. PICK m \in S : (\A b \in S : b <= m) /\ Cardinality(S \ {m}) = Cardinality(S) - 1
    BY <1>2, <2>1
  <2>3. Below(m) = S \ {m}
    <3>1. \A b \in S : b < m <=> b # m
      BY <2>2
    <3> QED BY <3>1
  <2>4. Cardinality(Below(m)) >= k - 1
    BY <1>1, <1>3, <2>2, <2>3
  <2> QED BY <2>4
<1>5. PICK x \in T : \A y \in T : x <= y
  <2>1. T \in SUBSET Int /\ \A y \in T : low <= y
    OBVIOUS
  <2> HIDE DEF T
  <2> QED BY <1>4, <2>1, LeastFrom
<1>6. x \in S /\ Cardinality(Below(x)) \in Nat /\ Cardinality(Below(x)) >= k
  <2>1. x \in S /\ Cardinality(Below(x)) >= k - 1 /\ Below(x) \in SUBSET S
    OBVIOUS
  <2>2. Cardinality(Below(x)) # k - 1
    BY <2>1
  <2>3. Cardinality(Below(x)) \in Nat
    BY <1>1, <2>1
  <2> HIDE DEF Below, T
  <2> QED BY <2>1, <2>2, <2>3
<1>7. Below(x) # {} /\ Below(x) \in SUBSET S
  BY <1>6, FS_EmptySet
<1>8. PICK m \in Below(x) :
        (\A b \in Below(x) : b <= m) /\ Cardinality(Below(x) \ {m}) = Cardinality(Below(x)) - 1
  <2> HIDE DEF Below
  <2> QED BY <1>2, <1>7
<1>9. Below(m) = Below(x) \ {m}
  <2>1. m \in S /\ m < x /\ x \in S
    BY <1>6, <1>8
  <2>2. \A b \in S : b < m => b < x
    BY <2>1
  <2>3. \A b \in S : b < x => b <= m
    BY <1>8
  <2>4. \A b \in S : b < x /\ b # m => b < m
    BY <2>1, <2>3
  <2>5. \A b \in S : b < m <=> b < x /\ b # m
    BY <2>1, <2>2, <2>4
  <2> QED BY <2>5
<1>10. m \in S /\ m < x /\ Cardinality(Below(m)) >= k - 1
  <2>1. m \in S /\ m < x
    BY <1>8
  <2> HIDE DEF Below
  <2> QED BY <1>6, <1>8, <1>9, <2>1
<1>11. m \in T
  BY <1>10
<1>12. x <= m /\ x \in Int /\ m \in Int
  BY <1>5, <1>6, <1>10, <1>11
<1> QED BY <1>10, <1>12

(* A slot is granted when the provider waits no longer, the youngest request
   is old enough and fewer than PER_WINDOW are in the window. *)
LEMMA GrantedIs ==
  ASSUME db \in Dbs, NEW now \in Int, NEW starts \in SUBSET db.starts,
         \A a \in starts : a + now < WINDOW, EarliestStart(starts) <= now
  PROVE  /\ db.wait <= now
         /\ \A a \in starts : a + now >= SPACING
         /\ Cardinality(starts) < PER_WINDOW
<1>1. /\ IsFiniteSet(starts) /\ starts \subseteq Int
      /\ \A a \in starts : Past <= a /\ a < WINDOW + ROLLBACK
  BY StartsFinite
<1>2. /\ SPACING \in Nat /\ WINDOW \in Nat /\ SPACING <= WINDOW /\ ROLLBACK \in Nat
      /\ PER_WINDOW \in Nat \ {0} /\ Past = -ROLLBACK
  BY Sizes
<1>3. db.wait \in Int
  <2>1. 0 \in 0 .. ROLLBACK
    BY <1>2
  <2> QED BY <2>1, LatestIs DEF Dbs
<1> DEFINE youngest == {a \in starts : \A b \in starts : a <= b}
           ranked == {a \in starts : Cardinality({b \in starts : b < a}) = PER_WINDOW - 1}
           untils == {db.wait} \cup {SPACING - a : a \in youngest} \cup {WINDOW - a : a \in ranked}
           high == Larger(db.wait, WINDOW + ROLLBACK)
<1>4. high \in Int /\ db.wait <= high /\ WINDOW + ROLLBACK <= high
  <2>1. WINDOW + ROLLBACK \in Int
    BY <1>2
  <2> QED BY <1>3, <2>1, LargerIs
<1>5. untils \in SUBSET Int /\ untils # {} /\ \A u \in untils : u <= high
  <2>1. youngest \subseteq starts /\ ranked \subseteq starts
    OBVIOUS
  <2> HIDE DEF youngest, ranked, high
  <2>2. untils \subseteq Int
    BY <1>1, <1>2, <1>3, <2>1
  <2>3. \A a \in starts : SPACING - a <= high /\ WINDOW - a <= high
    BY <1>1, <1>2, <1>4
  <2>4. \A u \in untils : u <= high
    BY <1>4, <2>1, <2>3
  <2>5. db.wait \in untils
    OBVIOUS
  <2> QED BY <2>2, <2>4, <2>5
<1>6. EarliestStart(starts) = CHOOSE u \in untils : \A v \in untils : v <= u
  BY DEF EarliestStart
<1> HIDE DEF high
<1>7. EarliestStart(starts) \in untils /\ \A v \in untils : v <= EarliestStart(starts)
  <2> HIDE DEF untils
  <2>1. \E u \in untils : \A v \in untils : v <= u
    BY <1>4, <1>5, GreatestTo
  <2> QED BY <1>6, <2>1
<1>8. \A v \in untils : v <= now
  <2> HIDE DEF untils
  <2>1. EarliestStart(starts) \in Int
    BY <1>5, <1>7
  <2> QED BY <1>5, <1>7, <2>1
<1>9. db.wait <= now
  BY <1>8
<1>10. ASSUME NEW a \in starts PROVE a + now >= SPACING
  <2>1. PICK x \in starts : \A b \in starts : x <= b
    <3>1. Past \in Int /\ starts # {} /\ starts \in SUBSET Int /\ \A b \in starts : Past <= b
      BY <1>1, <1>2
    <3> QED BY <3>1, LeastFrom
  <2>2. SPACING - x \in untils
    BY <2>1
  <2>3. SPACING - x <= now /\ x <= a
    BY <1>8, <2>1, <2>2
  <2> QED BY <1>1, <1>2, <2>1, <2>3
<1>11. ASSUME NEW a \in starts PROVE Cardinality({b \in starts : b < a}) # PER_WINDOW - 1
  <2>1. SUFFICES ASSUME a \in ranked PROVE FALSE
    OBVIOUS
  <2>2. WINDOW - a \in untils
    BY <2>1
  <2>3. WINDOW - a <= now
    BY <1>8, <2>2
  <2> QED BY <1>1, <1>2, <2>3
<1>12. Cardinality(starts) < PER_WINDOW
  <2>1. Past \in Int /\ WINDOW + ROLLBACK \in Int /\ \A a \in starts : Past <= a /\ a <= WINDOW + ROLLBACK
    BY <1>1, <1>2
  <2> HIDE DEF untils, ranked, youngest
  <2> QED BY <1>1, <1>2, <1>11, <2>1, RankIs
<1> QED BY <1>9, <1>10, <1>12

(* The slots that go have left the window on the clock observed. *)
Current == {a \in db.starts : a + Now < WINDOW}

LEMMA PrunedCounts ==
  ASSUME IInv, job.pc = "reserve", db.observed <= Now
  PROVE  \A r \in seen.sent : SlotOf(r) \in Current \/ SlotOf(r) + Now >= WINDOW
<1>1. SUFFICES ASSUME NEW r \in seen.sent, SlotOf(r) \notin Current PROVE SlotOf(r) + Now >= WINDOW
  OBVIOUS
<1>2. SlotOf(r) \in db.starts \/ SlotOf(r) + db.observed >= WINDOW
  BY DEF IInv, Counted, Slots, Sending
<1>3. Now \in Int /\ db.observed \in Int /\ SlotOf(r) \in Int /\ WINDOW \in Int
  <2>1. db.observed \in Past .. ROLLBACK
    BY TypeParts DEF IInv, Dbs
  <2>2. db.observed \in Int /\ WINDOW \in Int
    BY <2>1, Sizes
  <2>3. SlotOf(r) \in Int
    BY SlotIs
  <2>4. Now \in Int
    BY NowIs
  <2> QED BY <2>2, <2>3, <2>4
<1> QED BY <1>1, <1>2, <1>3 DEF Current

LEMMA ReserveHolds ==
  ASSUME IInv, Reserve
  PROVE  IInv'
<1>1. disk \in Disks /\ db \in Dbs /\ app \in Apps /\ job \in Jobs /\ world \in Worlds /\ seen \in Seens
  BY TypeParts DEF IInv
<1>2. job.pc = "reserve" /\ UNCHANGED <<disk, app, world, seen>>
  BY DEF Reserve, At
<1>3. CASE Ends /\ db' = db
  <2>1. job' \in Jobs /\ Rests
    BY <1>1, <1>3, EndsIs
  <2> QED BY <1>1, <1>2, <1>3, <2>1, RestHolds
<1> DEFINE starts == Current
           granted == EarliestStart(starts) <= Now
           slots == IF granted THEN starts \cup {NewSlot} ELSE starts
<1>4. /\ db' = db /\ Ends
      \/ /\ ~ (db.observed > Now)
         /\ db' = [db EXCEPT !.observed = Now, !.starts = slots]
         /\ IF granted THEN job' = [job EXCEPT !.pc = "create", !.plan.settled = world.aged] ELSE Ends
  BY DEF Reserve, Current
<1>5. /\ starts \in SUBSET db.starts /\ starts \subseteq Int
      /\ \A a \in starts : Past <= a /\ a + Now < WINDOW
  BY <1>1, StartsFinite DEF Current
<1>6. /\ WINDOW \in Nat \ {0} /\ SPACING \in Nat \ {0} /\ ROLLBACK \in Nat /\ Past = -ROLLBACK
      /\ world.back \in 0 .. ROLLBACK
  BY <1>1, Sizes DEF Worlds
<1>7. /\ Now \in Int /\ NewSlot \in Int /\ Now = -NewSlot /\ Now <= world.back
      /\ Now = world.back - app[job.owner].clock /\ app[job.owner].clock \in 0 .. ROLLBACK
  BY <1>2, NowIs
<1>8. NewSlot \in Past .. WINDOW + ROLLBACK - 1 /\ Now \in Past .. ROLLBACK
  BY <1>6, <1>7
<1> HIDE DEF starts
<1>9. ASSUME db' = [db EXCEPT !.observed = Now, !.starts = slots]
      PROVE  /\ db' \in Dbs /\ db'.rows = db.rows /\ db'.starts = slots /\ db'.observed = Now
             /\ db'.wait = db.wait /\ db'.targets = db.targets /\ db'.pins = db.pins
  <2>1. slots \in SUBSET (Past .. WINDOW + ROLLBACK - 1)
    BY <1>1, <1>5, <1>8 DEF Dbs
  <2> HIDE DEF slots
  <2> QED BY <1>1, <1>8, <1>9, <2>1 DEF Dbs
<1>10. ASSUME db' = [db EXCEPT !.observed = Now, !.starts = slots] PROVE Clocks'
  <2>1. \A a \in slots : -world.back <= a
    <3>1. \A a \in db.starts : -world.back <= a
      BY DEF IInv, Clocks
    <3>2. -world.back <= NewSlot
      BY <1>6, <1>7
    <3> QED BY <1>5, <3>1, <3>2
  <2> HIDE DEF slots
  <2> QED BY <1>2, <1>6, <1>7, <1>9, <1>10, <2>1 DEF IInv, Clocks
<1>11. ~ (db.observed > Now) => db.observed <= Now
  BY <1>1, <1>7, <1>6 DEF Dbs
<1>12. CASE /\ db' = [db EXCEPT !.observed = Now, !.starts = slots] /\ ~granted /\ Ends
            /\ ~ (db.observed > Now)
  <2>1. job' \in Jobs /\ Rests
    BY <1>1, <1>12, EndsIs
  <2>2. TypeOK'
    BY <1>1, <1>2, <1>9, <1>12, <2>1, TypePartsNext
  <2>3. Locked'
    BY <1>2, <2>1, LockKept DEF IInv, Rests
  <2>4. Asked'
    BY <1>2, <1>9, <1>12, <2>1, AskedKept DEF IInv, Rests, Sending
  <2>5. Counted'
    <3>1. Slots' = starts
      BY <1>9, <1>12, <2>1 DEF Slots, Rests, Sending
    <3>2. \A r \in seen.sent : SlotOf(r) \in starts \/ SlotOf(r) + Now >= WINDOW
      BY <1>2, <1>11, <1>12, PrunedCounts DEF starts
    <3>3. db'.observed = Now /\ \A r : SlotOf(r)' = SlotOf(r)
      BY <1>2, <1>9, <1>12 DEF SlotOf
    <3> QED BY <1>2, <3>1, <3>2, <3>3 DEF IInv, Counted
  <2> HIDE DEF slots, granted
  <2> QED BY <1>2, <1>9, <1>10, <1>12, <2>1, <2>2, <2>3, <2>4, <2>5, EndCounted DEF Rests
<1>13. CASE /\ db' = [db EXCEPT !.observed = Now, !.starts = slots] /\ granted
            /\ ~ (db.observed > Now)
            /\ job' = [job EXCEPT !.pc = "create", !.plan.settled = world.aged]
  <2>1. db.wait <= Now /\ (\A a \in starts : a + Now >= SPACING) /\ Cardinality(starts) < PER_WINDOW
    BY <1>1, <1>5, <1>7, <1>13, GrantedIs
  <2>2. slots \ {NewSlot} = starts /\ NewSlot \in slots
    <3>1. NewSlot \notin starts
      BY <1>6, <1>7, <2>1
    <3> QED BY <1>13, <3>1
  <2>3. job.plan \in Plan /\ job.plan # None /\ Sensible(job.plan)
    BY <1>2, PlanIs DEF Asking
  <2> DEFINE plan == [job.plan EXCEPT !.settled = world.aged]
  <2>4. /\ plan \in Plan /\ plan # None /\ plan.units = job.plan.units
        /\ plan.target = job.plan.target
    <3>1. /\ plan \in Plan /\ plan.units = job.plan.units /\ plan.target = job.plan.target
      BY <1>1, <2>3 DEF Plan, Worlds
    <3> QED BY <3>1, NothingAssumption
  <2>5. job' \in Jobs /\ job'.pc = "create" /\ job'.owner = job.owner /\ job'.plan = plan
    <3>1. job' = [job EXCEPT !.pc = "create", !.plan = plan]
      BY <1>13
    <3> HIDE DEF plan
    <3> QED BY <1>1, <2>4, <3>1 DEF Jobs, Pcs
  <2> HIDE DEF plan
  <2>6. TypeOK'
    BY <1>1, <1>2, <1>9, <1>13, <2>5, TypePartsNext
  <2>7. Locked'
    BY <1>2, <2>5, LockKept DEF IInv
  <2>8. Planned'
    <3>1. Sensible(job'.plan)
      BY <2>3, <2>4, <2>5 DEF Sensible
    <3> QED BY <1>2, <2>4, <2>5, <3>1 DEF IInv, Planned, Sensible
  <2>9. /\ db'.rows = db.rows /\ db'.starts = slots /\ db'.wait = db.wait
    BY <1>9, <1>13
  <2>10. Spooled' /\ Receipts' /\ OwnPin' /\ Staging'
    BY <1>2, <2>5, <2>9 DEF IInv, Spooled, Receipts, OwnPin, Staging, Asking, Importing, Sending
  <2>11. Held'
    BY <1>2, <2>5 DEF IInv, Held, Importing
  <2>12. SameClock
    BY <1>2, <2>5 DEF SameClock
  <2>13. Asked'
    <3>1. db.wait \in Int /\ seen.asked \in [0 .. ROLLBACK -> Nat]
      BY <1>1, <1>6, LatestIs DEF Seens, Dbs
    <3>2. ASSUME NEW back \in 0 .. ROLLBACK PROVE seen.asked[back] <= Lead(back)
      <4>1. Lead(back) \in Nat /\ Lead(back) >= back - app[job.owner].clock
        BY <1>2, LeadIs
      <4>2. seen.asked[back] > 0 => seen.asked[back] + (world.back - back) <= db.wait
        BY DEF IInv, Asked
      <4>3. seen.asked[back] \in Nat /\ back \in Int
        <5>1. back \in Int
          BY <1>6
        <5>2. seen.asked[back] \in Nat
          BY <3>1
        <5> QED BY <5>1, <5>2
      <4>4. CASE seen.asked[back] = 0
        BY <4>1, <4>4
      <4>5. CASE seen.asked[back] > 0
        <5>1. world.back \in Int /\ app[job.owner].clock \in Int
          BY <1>6, <1>7
        <5>2. seen.asked[back] + (world.back - back) <= world.back - app[job.owner].clock
          BY <1>7, <2>1, <3>1, <4>2, <4>3, <4>5, <5>1
        <5> QED BY <4>1, <4>3, <5>1, <5>2
      <4> QED BY <4>3, <4>4, <4>5
    <3>3. \A back : Lead(back)' = Lead(back)
      BY <2>12, NowKept
    <3> QED BY <1>2, <2>9, <3>2, <3>3 DEF IInv, Asked
  <2>14. Slots' = starts
    BY <2>2, <2>5, <2>9, <2>12, NowKept DEF Slots, Sending
  <2>15. Reserved'
    <3>1. db'.observed <= Now
      BY <1>7, <1>9, <1>13
    <3> QED BY <2>1, <2>2, <2>9, <2>12, <3>1, NowKept DEF Reserved
  <2>16. Counted'
    <3>1. \A r \in seen.sent : SlotOf(r) \in starts \/ SlotOf(r) + Now >= WINDOW
      BY <1>2, <1>13, <1>11, PrunedCounts DEF starts
    <3>2. db'.observed = Now /\ \A r : SlotOf(r)' = SlotOf(r)
      BY <1>2, <1>9, <1>13 DEF SlotOf
    <3> QED BY <1>2, <2>14, <3>1, <3>2 DEF IInv, Counted
  <2>17. CoverageIsHonest'
    BY <1>2, <2>9, HonestSame DEF IInv
  <2>18. Clocks'
    BY <1>10, <1>13
  <2> QED BY <2>6, <2>7, <2>8, <2>10, <2>11, <2>13, <2>15, <2>16, <2>17, <2>18 DEF IInv
<1> QED BY <1>3, <1>4, <1>12, <1>13

-----------------------------------------------------------------------------
(* The publication.                                                        *)

(* The part of a row on one side of a response. *)
Cut(r, part) == [r EXCEPT !.units = part, !.count = Restricted(@, part), !.receipt = FALSE]
Below(r, units) == {u \in r.units : \A v \in units : u < v}
Above(r, units) == {u \in r.units : \A v \in units : u > v}

LEMMA CutIs ==
  ASSUME NEW r \in Row, NEW part \in SUBSET r.units
  PROVE  /\ Cut(r, part) \in Row /\ Cut(r, part).units = part
         /\ Cut(r, part).published = r.published
         /\ \A u \in part : Cut(r, part).count[u] = r.count[u]
<1>1. r.units \in SUBSET Units /\ r.count \in [Units -> 0 .. 2]
  BY DEF Row, Count
<1> DEFINE count == Restricted(r.count, part)
<1>2. count \in Count /\ \A u \in part : count[u] = r.count[u]
  BY <1>1 DEF Restricted, Count
<1>3. Cut(r, part) = [r EXCEPT !.units = part, !.count = count, !.receipt = FALSE]
  BY DEF Cut, Row
<1> HIDE DEF count
<1>4. /\ Cut(r, part) \in Row /\ Cut(r, part).units = part /\ Cut(r, part).count = count
      /\ Cut(r, part).published = r.published
  BY <1>1, <1>2, <1>3 DEF Row
<1> QED BY <1>2, <1>4

LEMMA RemainsIs ==
  ASSUME NEW r \in Row, NEW units \in SUBSET Units, units # {}, Convex(units)
  PROVE  /\ \A q \in Remains(r, units) :
              /\ q \in Row /\ q.published = r.published /\ q.units \subseteq r.units
              /\ q.units \cap units = {} /\ \A u \in q.units : q.count[u] = r.count[u]
         /\ \A p, q \in Remains(r, units) : p = q \/ p.units \cap q.units = {}
         /\ \A u \in r.units \ units : \E q \in Remains(r, units) : u \in q.units
<1>1. r.units \subseteq Units /\ Units \subseteq Int
  BY Sizes DEF Row
<1> DEFINE below == Below(r, units)
           above == Above(r, units)
<1>2. below \in SUBSET r.units /\ above \in SUBSET r.units
  BY DEF Below, Above
<1>3. below \cap units = {} /\ above \cap units = {} /\ below \cap above = {}
  <2>1. \A u \in below : \A v \in units : u < v /\ u \in Int /\ v \in Int
    BY <1>1 DEF Below
  <2>2. \A u \in above : \A v \in units : u > v /\ u \in Int /\ v \in Int
    BY <1>1 DEF Above
  <2> HIDE DEF below, above
  <2>3. below \cap units = {}
    BY <2>1
  <2>4. above \cap units = {}
    BY <2>2
  <2>5. PICK v \in units : TRUE
    OBVIOUS
  <2>6. below \cap above = {}
    BY <2>1, <2>2, <2>5
  <2> QED BY <2>3, <2>4, <2>6
<1>4. \A u \in r.units \ units : u \in below \/ u \in above
  <2>1. SUFFICES ASSUME NEW u \in r.units, u \notin units, NEW v \in units, ~(u < v),
                        NEW w \in units, ~(u > w)
                 PROVE  FALSE
    BY DEF Below, Above
  <2>2. u \in Units /\ u \in Int /\ v \in Int /\ w \in Int
    BY <1>1
  <2>3. v <= u /\ u <= w
    BY <2>1, <2>2
  <2> QED BY <2>1, <2>2, <2>3 DEF Convex
<1>5. Remains(r, units) = {Cut(r, part) : part \in {below, above} \ {{}}}
  BY DEF Remains, Cut, Below, Above
<1> HIDE DEF below, above
<1>6. \A part \in {below, above} :
        /\ Cut(r, part) \in Row /\ Cut(r, part).units = part /\ Cut(r, part).published = r.published
        /\ \A u \in part : Cut(r, part).count[u] = r.count[u]
  BY <1>2, CutIs
<1>7. \A q \in Remains(r, units) :
        /\ q \in Row /\ q.published = r.published /\ q.units \subseteq r.units
        /\ q.units \cap units = {} /\ \A u \in q.units : q.count[u] = r.count[u]
  <2>1. SUFFICES ASSUME NEW part \in {below, above}
                 PROVE  /\ part \subseteq r.units /\ part \cap units = {}
    BY <1>5, <1>6
  <2> QED BY <1>2, <1>3
<1>8. \A p, q \in Remains(r, units) : p = q \/ p.units \cap q.units = {}
  <2>1. SUFFICES ASSUME NEW a \in {below, above}, NEW b \in {below, above}
                 PROVE  a = b \/ a \cap b = {}
    BY <1>5, <1>6
  <2> QED BY <1>3
<1>9. ASSUME NEW u \in r.units \ units PROVE \E q \in Remains(r, units) : u \in q.units
  <2>1. PICK part \in {below, above} : u \in part
    BY <1>4
  <2>2. Cut(r, part) \in Remains(r, units) /\ Cut(r, part).units = part
    BY <1>5, <1>6, <2>1
  <2> QED BY <2>1, <2>2
<1> QED BY <1>7, <1>8, <1>9

(* What the database has for the units of a response, and what was seen. *)
LEMMA OldCountIs ==
  ASSUME CoverageIsHonest, db \in Dbs, seen \in Seens, NEW units \in SUBSET Units, NEW u \in units
  PROVE  /\ OldCount(units)[u] \in 0 .. 2
         /\ OldCount(units)[u] = IF seen.best[u] = None THEN 0 ELSE seen.best[u]
<1>1. u \in Units /\ None \notin Int
  BY RangesAssumption
<1>2. \A r \in Published : r.count \in [Units -> 0 .. 2]
  BY DEF Published, Dbs, Row, Count
<1>3. CASE \E r \in Overlapping(units) : u \in r.units \cap units
  <2> DEFINE r == CHOOSE q \in Overlapping(units) : u \in q.units
  <2>1. r \in Overlapping(units) /\ u \in r.units
    BY <1>3
  <2>2. OldCount(units)[u] = r.count[u]
    BY <1>1, <1>3 DEF OldCount
  <2> HIDE DEF r
  <2>3. r \in Published
    BY <2>1 DEF Overlapping
  <2>4. r.count[u] = seen.best[u] /\ r.count[u] \in 0 .. 2
    BY <1>1, <1>2, <2>1, <2>3 DEF CoverageIsHonest
  <2>5. seen.best[u] # None
    BY <1>1, <2>4
  <2> QED BY <2>2, <2>4, <2>5
<1>4. CASE ~ \E r \in Overlapping(units) : u \in r.units \cap units
  <2>1. OldCount(units)[u] = 0
    BY <1>1, <1>4 DEF OldCount
  <2>2. \A r \in Published : u \notin r.units
    BY <1>4 DEF Overlapping, Overlaps
  <2>3. seen.best[u] = None
    BY <1>1, <2>2, CoveredIs DEF CoverageIsHonest
  <2> QED BY <2>1, <2>3
<1> QED BY <1>3, <1>4

(* The published rows after the publication of a response. *)
LEMMA PublishedIsHonest ==
  ASSUME CoverageIsHonest, db \in Dbs, NEW units \in SUBSET Units, units # {}, Convex(units),
         NEW row, row.units = units, \A u \in units : row.count[u] = seen'.best[u],
         \A u \in Units \ units : seen'.best[u] = seen.best[u],
         \A q : q \in Published' <=>
            \/ q \in Published \ Overlapping(units)
            \/ \E r \in Overlapping(units) : q \in Remains(r, units)
            \/ q = row
  PROVE  CoverageIsHonest'
<1> DEFINE over == Overlapping(units)
           rest == Published \ over
<1>1. over \subseteq Published /\ Published \subseteq Row /\ \A r \in rest : r.units \cap units = {}
  BY DEF Overlapping, Overlaps, Published, Dbs
<1>2. \A r \in over :
        /\ \A q \in Remains(r, units) :
             /\ q.units \subseteq r.units /\ q.units \cap units = {}
             /\ \A u \in q.units : q.count[u] = r.count[u]
        /\ \A p, q \in Remains(r, units) : p = q \/ p.units \cap q.units = {}
        /\ \A u \in r.units \ units : \E q \in Remains(r, units) : u \in q.units
  BY <1>1, RemainsIs
<1>3. \A q, r \in Published : q = r \/ q.units \cap r.units = {}
  BY DEF CoverageIsHonest, Overlaps
(* A published row is an old one, the rest of an old one, or the new one. *)
<1>4. \A q : q \in Published' <=>
        \/ q \in rest
        \/ \E r \in over : q \in Remains(r, units)
        \/ q = row
  OBVIOUS
<1>5. \A r \in Published : r.units \subseteq Units
  BY <1>1 DEF Row
<1> HIDE DEF over, rest
<1>6. ASSUME NEW q \in Published', q # row PROVE q.units \cap units = {}
  BY <1>1, <1>2, <1>4, <1>6
<1>7. ASSUME NEW q \in Published', q # row
      PROVE  \E r \in Published : /\ q.units \subseteq r.units
                                  /\ \A u \in q.units : q.count[u] = r.count[u]
                                  /\ q = r \/ (r \in over /\ q \in Remains(r, units))
  BY <1>1, <1>2, <1>4, <1>7 DEF rest
<1>8. ASSUME NEW p \in Published', NEW q \in Published', p # q, p # row, q # row
      PROVE  p.units \cap q.units = {}
  <2>1. PICK r \in Published : p.units \subseteq r.units /\ (p = r \/ (r \in over /\ p \in Remains(r, units)))
    BY <1>7, <1>8
  <2>2. PICK s \in Published : q.units \subseteq s.units /\ (q = s \/ (s \in over /\ q \in Remains(s, units)))
    BY <1>7, <1>8
  <2>3. CASE r # s
    <3>1. r.units \cap s.units = {}
      BY <1>3, <2>3
    <3> QED BY <2>1, <2>2, <3>1
  <2>4. CASE r = s /\ r \in over
    <3>1. r.units \cap units # {}
      BY <2>4 DEF over, Overlapping, Overlaps
    <3>2. p \in Remains(r, units) /\ q \in Remains(r, units)
      BY <1>6, <1>8, <2>1, <2>2, <2>4, <3>1
    <3> QED BY <1>2, <1>8, <2>4, <3>2
  <2>5. CASE r = s /\ r \notin over
    BY <1>8, <2>1, <2>2, <2>5
  <2> QED BY <2>3, <2>4, <2>5
<1>9. \A p, q \in Published' : p # q => ~Overlaps(p, q.units)
  <2>1. SUFFICES ASSUME NEW p \in Published', NEW q \in Published', p # q
                 PROVE  p.units \cap q.units = {}
    BY DEF Overlaps
  <2>2. CASE p = row
    <3>1. q.units \cap units = {}
      BY <1>6, <2>1, <2>2
    <3> QED BY <2>2, <3>1
  <2>3. CASE q = row
    <3>1. p.units \cap units = {}
      BY <1>6, <2>1, <2>3
    <3> QED BY <2>3, <3>1
  <2>4. CASE p # row /\ q # row
    BY <1>8, <2>1, <2>4
  <2> QED BY <2>2, <2>3, <2>4
<1>10. ASSUME NEW q \in Published', NEW u \in q.units PROVE q.count[u] = seen'.best[u]
  <2>1. CASE q = row
    BY <1>10, <2>1
  <2>2. CASE q # row
    <3>1. u \notin units
      BY <1>6, <1>10, <2>2
    <3>2. PICK r \in Published : q.units \subseteq r.units /\ q.count[u] = r.count[u]
      BY <1>7, <1>10, <2>2
    <3>3. r.count[u] = seen.best[u] /\ u \in Units
      BY <1>5, <1>10, <3>2 DEF CoverageIsHonest
    <3> QED BY <3>1, <3>2, <3>3
  <2> QED BY <2>1, <2>2
<1>11. ASSUME NEW u \in Units, seen'.best[u] # None PROVE \E q \in Published' : u \in q.units
  <2>1. CASE u \in units
    BY <1>4, <2>1
  <2>2. CASE u \notin units
    <3>1. PICK r \in Published : u \in r.units
      BY <1>11, <2>2, CoveredIs DEF CoverageIsHonest
    <3>2. CASE r \in over
      <4>1. PICK q \in Remains(r, units) : u \in q.units
        BY <1>2, <2>2, <3>1, <3>2
      <4>2. q \in Published'
        BY <1>4, <3>2, <4>1
      <4> QED BY <4>1, <4>2
    <3>3. CASE r \notin over
      <4>1. r \in Published'
        BY <1>4, <3>3 DEF rest
      <4> QED BY <3>1, <4>1
    <3> QED BY <3>2, <3>3
  <2> QED BY <2>1, <2>2
<1> QED BY <1>9, <1>10, <1>11, CoveredIs DEF CoverageIsHonest

LEMMA CanPublishIs ==
  ASSUME IInv, job.pc = "import"
  PROVE  CanPublish(job.plan.units)
<1>1. db \in Dbs /\ <<job.owner, "job">> \in Sessions /\ job.plan \in Plan /\ Sensible(job.plan)
  BY TypeParts, OwnerIs, PlanIs DEF IInv, Importing
<1> DEFINE s == <<job.owner, "job">>
<1>2. db.pins[s] = job.plan.target /\ job.plan.target \in Targets /\ s \in Sessions
  BY <1>1 DEF IInv, OwnPin, Importing, Plan
<1> HIDE DEF s
<1>3. db.pins[s] # None
  BY <1>2, RangesAssumption
<1>4. RangeOf[job.plan.target] \subseteq PinnedUnits(db.pins)
  BY <1>2, <1>3 DEF PinnedUnits
<1> QED BY <1>1, <1>4 DEF Sensible, CanPublish

(* What a publication changes. *)
LEMMA PublishIs ==
  ASSUME IInv, Publish
  PROVE  \E row \in Row :
           /\ row.units = job.plan.units /\ row.published
           /\ \A u \in job.plan.units : row.count[u] = seen'.best[u]
           /\ \A u \in job.plan.units :
                seen.best[u] # None => seen'.best[u] >= seen.best[u]
           /\ \A u \in Units \ job.plan.units : seen'.best[u] = seen.best[u]
           /\ \A q : q \in Published' <=>
                \/ q \in Published \ Overlapping(job.plan.units)
                \/ \E r \in Overlapping(job.plan.units) : q \in Remains(r, job.plan.units)
                \/ q = row
           /\ db' \in Dbs /\ seen' \in Seens /\ db'.pins = db.pins /\ db'.starts = db.starts
           /\ db'.observed = db.observed /\ db'.wait = Past
           /\ \A t \in Targets : db'.targets[t].retry = db.targets[t].retry \/ db'.targets[t].retry = Past
           /\ ~seen'.held /\ seen'.sent = seen.sent /\ seen'.asked = seen.asked
<1>1. disk \in Disks /\ db \in Dbs /\ app \in Apps /\ job \in Jobs /\ world \in Worlds /\ seen \in Seens
  BY TypeParts DEF IInv
<1>2. job.pc = "import" /\ Missing = {} /\ CanPublish(job.plan.units)
  BY CanPublishIs DEF Publish, At
<1> DEFINE plan == job.plan
           units == plan.units
           over == Overlapping(units)
           kept == UNION {Remains(r, units) : r \in over}
           count == Merged(OldCount(units), Staged.count)
           best == [u \in Units |-> IF u \notin units THEN seen.best[u]
                                    ELSE IF seen.best[u] = None THEN disk.body.count[u]
                                    ELSE Larger(seen.best[u], disk.body.count[u])]
<1>3. plan \in Plan /\ Sensible(plan) /\ disk.body # None /\ disk.body \in Body
  BY <1>1, <1>2, PlanIs DEF IInv, Spooled, Importing, Disks
<1>4. /\ units \in SUBSET Units /\ units # {} /\ Convex(units) /\ plan.target \in Targets
      /\ plan.settled \in BOOLEAN /\ plan.refresh \in BOOLEAN
  BY <1>3 DEF Plan, Sensible
<1>5. /\ Staged \in Row /\ Stages(Staged) /\ \A r \in db.rows : r \in {Staged} <=> ~r.published
  BY <1>2, StagedRow
<1>6. \A u \in Units : /\ Staged.count[u] = disk.body.count[u] /\ disk.body.count[u] \in 0 .. 1
                       /\ Staged.count[u] \in 0 .. 2
  <2>1. SUFFICES ASSUME NEW u \in Units PROVE Staged.count[u] = disk.body.count[u]
    BY <1>3, <1>5 DEF Row, Count, Body
  <2>2. Staged.count[u] \in 0 .. 2 /\ disk.body.count[u] \in 0 .. 1
    BY <1>3, <1>5 DEF Row, Count, Body
  <2>3. Staged.count[u] <= disk.body.count[u] /\ ~(Staged.count[u] < disk.body.count[u])
    BY <1>2, <1>5 DEF Stages, Missing
  <2> QED BY <2>2, <2>3
<1>7. \A u \in Units : seen.best[u] \in 0 .. 1 \cup {None}
  BY <1>1 DEF Seens, Bests
<1>8. best \in Bests
  <2>1. \A u \in Units : Larger(seen.best[u], disk.body.count[u]) \in 0 .. 1 \/ seen.best[u] = None
    BY <1>6, <1>7 DEF Larger
  <2> HIDE DEF units
  <2> QED BY <1>6, <1>7, <2>1 DEF Bests
<1>9. count \in Count
  <2>1. \A u \in Units : OldCount(units)[u] \in 0 .. 2
    <3>1. \A u \in units : OldCount(units)[u] \in 0 .. 2
      BY <1>1, <1>4, OldCountIs DEF IInv
    <3>2. \A u \in Units \ units : OldCount(units)[u] = 0
      BY DEF OldCount
    <3> HIDE DEF units
    <3> QED BY <3>1, <3>2
  <2> HIDE DEF units
  <2>2. \A u \in Units : Larger(OldCount(units)[u], Staged.count[u]) \in 0 .. 2
    BY <1>6, <2>1 DEF Larger
  <2> QED BY <2>2 DEF Merged, Count
<1>10. \A u \in units : count[u] = best[u]
  <2>1. SUFFICES ASSUME NEW u \in units PROVE count[u] = best[u]
    OBVIOUS
  <2>2. u \in Units
    BY <1>4
  <2>3. count[u] = Larger(OldCount(units)[u], disk.body.count[u])
    BY <1>6, <2>2 DEF Merged
  <2>4. OldCount(units)[u] = IF seen.best[u] = None THEN 0 ELSE seen.best[u]
    BY <1>1, <1>4, OldCountIs DEF IInv
  <2>5. disk.body.count[u] \in 0 .. 1
    BY <1>6, <2>2
  <2>6. best[u] = IF seen.best[u] = None THEN disk.body.count[u] ELSE Larger(seen.best[u], disk.body.count[u])
    BY <2>2
  <2> HIDE DEF count, best, units
  <2>7. CASE seen.best[u] = None
    <3>1. Larger(0, disk.body.count[u]) = disk.body.count[u]
      BY <2>5 DEF Larger
    <3> QED BY <2>3, <2>4, <2>6, <2>7, <3>1
  <2>8. CASE seen.best[u] # None
    BY <2>3, <2>4, <2>6, <2>8
  <2> QED BY <2>7, <2>8
<1>11. \A u \in units : seen.best[u] # None => best[u] >= seen.best[u]
  <2>1. SUFFICES ASSUME NEW u \in units, seen.best[u] # None PROVE best[u] >= seen.best[u]
    OBVIOUS
  <2>2. u \in Units
    BY <1>4
  <2>3. best[u] = Larger(seen.best[u], disk.body.count[u])
    BY <2>1, <2>2
  <2>4. seen.best[u] \in 0 .. 1 /\ disk.body.count[u] \in 0 .. 1
    BY <1>6, <1>7, <2>1, <2>2
  <2> HIDE DEF best, units
  <2> QED BY <2>3, <2>4 DEF Larger
<1>12. \A u \in Units \ units : best[u] = seen.best[u]
  OBVIOUS
<1>13. PICK row \in Row :
         /\ row = [Staged EXCEPT !.count = count, !.settled = plan.settled, !.published = TRUE]
         /\ row.units = units /\ row.published /\ row.count = count
  <2> DEFINE n == [Staged EXCEPT !.count = count, !.settled = plan.settled, !.published = TRUE]
  <2>1. Staged.units = units
    BY <1>5 DEF Stages
  <2> HIDE DEF count, units
  <2>2. n \in Row /\ n.units = units /\ n.published /\ n.count = count
    BY <1>4, <1>5, <1>9, <2>1 DEF Row
  <2> QED BY <2>2
<1> DEFINE rows == (db.rows \ (over \cup {Staged})) \cup kept \cup {row}
           target == [FreshTarget EXCEPT !.refresh = db.targets[plan.target].refresh /\ ~plan.refresh]
<1>14. /\ db' = [db EXCEPT !.rows = rows, !.targets[plan.target] = target, !.failures = 0, !.wait = Past]
       /\ seen' = [seen EXCEPT !.held = FALSE, !.best = best]
  <2>1. row = [Staged EXCEPT !.count = Merged(OldCount(plan.units), @),
                             !.settled = plan.settled, !.published = TRUE]
    BY <1>13
  <2>2. db' = [db EXCEPT !.rows = rows, !.targets[plan.target] = target, !.failures = 0, !.wait = Past]
    BY <1>2, <2>1 DEF Publish
  <2>3. seen' = [seen EXCEPT !.held = FALSE, !.best = best]
    BY <1>2 DEF Publish
  <2> QED BY <2>2, <2>3
<1>15. \A r \in over : /\ r \in db.rows /\ r.published
                       /\ \A q \in Remains(r, units) : q \in Row /\ q.published
  <2>1. \A r \in over : r \in db.rows /\ r.published /\ r \in Row
    BY <1>1 DEF Overlapping, Published, Dbs
  <2> HIDE DEF over, units
  <2> QED BY <1>4, <2>1, RemainsIs
<1>16. rows \in SUBSET Row
  <2>1. db.rows \in SUBSET Row
    BY <1>1 DEF Dbs
  <2>2. kept \subseteq Row
    BY <1>15
  <2> HIDE DEF kept
  <2> QED BY <2>1, <2>2
<1>17. target \in TargetStates /\ target.retry = Past
  <2>1. (db.targets[plan.target].refresh /\ ~plan.refresh) \in BOOLEAN
    OBVIOUS
  <2> QED BY <2>1, FreshIs DEF TargetStates
<1>18. \A q : q \in rows /\ q.published <=>
          \/ q \in Published \ over
          \/ \E r \in over : q \in Remains(r, units)
          \/ q = row
  <2> HIDE DEF over, units
  <2>1. \A q : q \in kept <=> \E r \in over : q \in Remains(r, units)
    OBVIOUS
  <2> HIDE DEF kept
  <2> QED BY <1>5, <1>13, <1>15, <2>1 DEF Published
<1> HIDE DEF rows, target, best, count, kept, over
<1>19. /\ db' \in Dbs /\ db'.rows = rows /\ db'.pins = db.pins /\ db'.starts = db.starts
       /\ db'.observed = db.observed /\ db'.wait = Past
       /\ db'.targets = [db.targets EXCEPT ![plan.target] = target]
  <2>1. Past \in Stamp /\ 0 \in 0 .. 1
    BY FreshIs DEF TargetStates
  <2> QED BY <1>1, <1>4, <1>14, <1>16, <1>17, <2>1 DEF Dbs
<1>20. \A t \in Targets : db'.targets[t].retry = db.targets[t].retry \/ db'.targets[t].retry = Past
  BY <1>1, <1>17, <1>19 DEF Dbs
<1>21. /\ seen' \in Seens /\ seen'.best = best /\ ~seen'.held /\ seen'.sent = seen.sent
       /\ seen'.asked = seen.asked
  BY <1>1, <1>8, <1>14 DEF Seens
<1>22. \A q : q \in Published' <=> q \in rows /\ q.published
  BY <1>19 DEF Published
<1>23. \A q : q \in Published' <=>
          \/ q \in Published \ over
          \/ \E r \in over : q \in Remains(r, units)
          \/ q = row
  BY <1>18, <1>22
<1>24. /\ \A u \in units : row.count[u] = seen'.best[u]
       /\ \A u \in units : seen.best[u] # None => seen'.best[u] >= seen.best[u]
       /\ \A u \in Units \ units : seen'.best[u] = seen.best[u]
  <2> HIDE DEF units
  <2> QED BY <1>10, <1>11, <1>12, <1>13, <1>21
<1> QED BY <1>13, <1>19, <1>20, <1>21, <1>23, <1>24 DEF over

LEMMA PublishHolds ==
  ASSUME IInv, Publish
  PROVE  IInv'
<1>1. disk \in Disks /\ db \in Dbs /\ app \in Apps /\ job \in Jobs /\ world \in Worlds /\ seen \in Seens
  BY TypeParts DEF IInv
<1>2. job.pc = "import" /\ UNCHANGED <<disk, app, world>>
  BY DEF Publish, At
<1>3. PICK row \in Row :
        /\ row.units = job.plan.units /\ row.published
        /\ \A u \in job.plan.units : row.count[u] = seen'.best[u]
        /\ \A u \in Units \ job.plan.units : seen'.best[u] = seen.best[u]
        /\ \A q : q \in Published' <=>
             \/ q \in Published \ Overlapping(job.plan.units)
             \/ \E r \in Overlapping(job.plan.units) : q \in Remains(r, job.plan.units)
             \/ q = row
        /\ db' \in Dbs /\ seen' \in Seens /\ db'.starts = db.starts
        /\ db'.observed = db.observed /\ db'.wait = Past
        /\ \A t \in Targets : db'.targets[t].retry = db.targets[t].retry \/ db'.targets[t].retry = Past
        /\ ~seen'.held /\ seen'.sent = seen.sent /\ seen'.asked = seen.asked
  BY PublishIs
<1>4. job' \in Jobs /\ Drops("complete")
  BY <1>1, DiscardsIs DEF Publish, Thens
<1>5. TypeOK'
  BY <1>1, <1>2, <1>3, <1>4, TypePartsNext
<1>6. job.plan \in Plan /\ Sensible(job.plan) /\ disk.body # None /\ disk.meta # None
  BY <1>2, PlanIs DEF IInv, Spooled, Importing
<1>7. CoverageIsHonest'
  <2> DEFINE units == job.plan.units
  <2>1. units \in SUBSET Units /\ units # {} /\ Convex(units)
    BY <1>6 DEF Plan, Sensible
  <2>2. /\ row.units = units
        /\ \A u \in units : row.count[u] = seen'.best[u]
        /\ \A u \in Units \ units : seen'.best[u] = seen.best[u]
        /\ \A q : q \in Published' <=>
             \/ q \in Published \ Overlapping(units)
             \/ \E r \in Overlapping(units) : q \in Remains(r, units)
             \/ q = row
    BY <1>3
  <2>3. CoverageIsHonest
    BY DEF IInv
  <2> HIDE DEF units
  <2> QED BY <1>1, <2>1, <2>2, <2>3, PublishedIsHonest
<1>8. Clocks'
  <2>1. world.back \in 0 .. ROLLBACK /\ Past \in Int /\ Past <= 0
    BY <1>1, Sizes DEF Worlds
  <2>2. Latest(world.back) \in Nat
    BY <2>1, LatestIs
  <2>3. Past <= Latest(world.back)
    BY <2>1, <2>2
  <2> QED BY <1>2, <1>3, <2>3 DEF IInv, Clocks
<1>9. Locked'
  BY <1>2, <1>4, LockKept DEF IInv, Drops
<1>10. Planned' /\ Spooled' /\ OwnPin'
  BY <1>2, <1>4, <1>6 DEF IInv, Planned, Spooled, OwnPin, Drops, Asking, Importing, Sending
<1>11. Receipts' /\ Staging' /\ Reserved'
  BY <1>2, <1>4, <1>6 DEF Receipts, Staging, Reserved, Drops, Asking, Sending
<1>12. Held'
  BY <1>3 DEF Held
<1>13. Asked'
  <2>1. \A back \in 0 .. ROLLBACK : seen.asked[back] = 0
    BY <1>6 DEF IInv, Asked
  <2> QED BY <1>3, <1>4, <2>1 DEF Asked, Drops, Sending
<1>14. Counted'
  BY <1>2, <1>3, <1>4, CountedSame DEF IInv, Drops, Sending
<1> QED BY <1>5, <1>7, <1>8, <1>9, <1>10, <1>11, <1>12, <1>13, <1>14 DEF IInv

-----------------------------------------------------------------------------
(* Time.                                                                   *)
LEMMA TimeHolds ==
  ASSUME IInv, TypeOK', job' = job, disk' = disk, app' = app, db'.rows = db.rows,
         db'.pins = db.pins, seen'.held = seen.held, seen'.best = seen.best,
         Clocks', Asked', Reserved', Counted'
  PROVE  IInv'
<1>1. Locked' /\ Planned' /\ Spooled' /\ OwnPin'
  BY DEF IInv, Locked, Planned, Spooled, OwnPin
<1>2. Receipts' /\ Staging'
  BY DEF IInv, Receipts, Staging, Stages
<1>3. Held'
  BY DEF IInv, Held, Published
<1>4. CoverageIsHonest'
  BY HonestSame DEF IInv
<1> QED BY <1>1, <1>2, <1>3, <1>4 DEF IInv

LEMMA SoonerIs ==
  ASSUME NEW stamp \in Int, Past <= stamp
  PROVE  /\ Sooner(stamp) \in Int /\ Past <= Sooner(stamp) /\ Sooner(stamp) <= stamp
         /\ Sooner(stamp) >= stamp - 1
<1>1. Past \in Int
  BY Sizes
<1> QED BY <1>1 DEF Sooner

LEMMA StampSooner ==
  ASSUME NEW stamp \in Stamp
  PROVE  Sooner(stamp) \in Stamp /\ stamp \in Int /\ Sooner(stamp) \in Int
         /\ Sooner(stamp) <= stamp /\ Sooner(stamp) >= stamp - 1
<1>1. 0 \in 0 .. ROLLBACK /\ Past \in Int
  BY Sizes
<1>2. ROLLBACK \in 0 .. ROLLBACK
  BY Sizes
<1>3. stamp \in Int /\ Past <= stamp
  BY <1>1, LatestIs
<1>4. /\ Sooner(stamp) \in Int /\ Past <= Sooner(stamp) /\ Sooner(stamp) <= stamp
      /\ Sooner(stamp) >= stamp - 1
  BY <1>3, SoonerIs
<1>5. Sooner(stamp) \in Stamp
  <2>1. Latest(ROLLBACK) \in Int /\ stamp <= Latest(ROLLBACK)
    BY <1>2, LatestIs DEF Latest, Stamp
  <2>2. Sooner(stamp) <= Latest(ROLLBACK)
    BY <1>3, <1>4, <2>1
  <2> QED BY <1>2, <1>4, <2>2, LatestIs
<1> QED BY <1>3, <1>4, <1>5

(* Slots and requests grow old together. *)
Older(r) == [r EXCEPT !.age = @ + 1]

LEMMA OlderIs ==
  ASSUME IInv, NEW r \in seen.sent, r.age + 1 < WINDOW, world'.back = world.back
  PROVE  /\ Older(r) \in Requests /\ SlotOf(r) \in Int
         /\ SlotOf(Older(r))' = SlotOf(r) + 1
         /\ SlotOf(r) + 1 < WINDOW + ROLLBACK
<1>1. /\ r \in Requests /\ r.age \in Nat /\ r.clock \in 0 .. ROLLBACK /\ SlotOf(r) \in Int
      /\ SlotOf(r) = r.age + r.clock - world.back
  BY SlotIs
<1>2. WINDOW \in Nat /\ ROLLBACK \in Nat /\ world.back \in 0 .. ROLLBACK
  BY TypeParts, Sizes DEF IInv, Worlds
<1>3. Older(r) \in Requests /\ Older(r).age = r.age + 1 /\ Older(r).clock = r.clock
  BY <1>1, <1>2 DEF Older, Requests
<1>4. SlotOf(Older(r))' = r.age + 1 + r.clock - world.back
  BY <1>3 DEF SlotOf
<1> QED BY <1>1, <1>2, <1>3, <1>4

LEMMA TickHolds ==
  ASSUME IInv, Tick
  PROVE  IInv'
<1>1. disk \in Disks /\ db \in Dbs /\ app \in Apps /\ job \in Jobs /\ world \in Worlds /\ seen \in Seens
  BY TypeParts DEF IInv
<1>2. job.pc \notin Sending /\ UNCHANGED <<disk, app, job, world>>
  BY DEF Tick, Sending
<1>3. /\ WINDOW \in Nat \ {0} /\ ROLLBACK \in Nat /\ Past = -ROLLBACK /\ world.back \in 0 .. ROLLBACK
  BY <1>1, Sizes DEF Worlds
<1> DEFINE starts == {a + 1 : a \in db.starts} \ {WINDOW + ROLLBACK}
           targets == [t \in Targets |-> [db.targets[t] EXCEPT !.retry = Sooner(@)]]
           sent == {Older(r) : r \in {q \in seen.sent : q.age + 1 < WINDOW}}
           asked == [back \in 0 .. ROLLBACK |-> IF seen.asked[back] = 0 THEN 0 ELSE seen.asked[back] - 1]
<1>4. /\ db' = [db EXCEPT !.starts = starts, !.observed = Sooner(@), !.wait = Sooner(@),
                          !.targets = targets]
      /\ seen' = [seen EXCEPT !.sent = sent, !.asked = asked]
  BY DEF Tick, Older
<1>5. starts \in SUBSET (Past .. WINDOW + ROLLBACK - 1)
  <2>1. \A a \in Past .. WINDOW + ROLLBACK - 1 :
          a + 1 # WINDOW + ROLLBACK => a + 1 \in Past .. WINDOW + ROLLBACK - 1
    BY <1>3
  <2> QED BY <1>1, <2>1 DEF Dbs
<1>6. sent \in SUBSET Requests /\ asked \in [0 .. ROLLBACK -> Nat]
  <2>1. \A r \in seen.sent : r.age + 1 < WINDOW => Older(r) \in Requests
    BY <1>2, OlderIs
  <2>2. sent \in SUBSET Requests
    BY <2>1
  <2>3. seen.asked \in [0 .. ROLLBACK -> Nat]
    BY <1>1 DEF Seens
  <2>4. ASSUME NEW back \in 0 .. ROLLBACK
        PROVE  (IF seen.asked[back] = 0 THEN 0 ELSE seen.asked[back] - 1) \in Nat
    <3>1. seen.asked[back] \in Nat
      BY <2>3
    <3> QED BY <3>1
  <2>5. asked \in [0 .. ROLLBACK -> Nat]
    BY <2>4
  <2> QED BY <2>2, <2>5
<1>7. /\ db.observed \in Int /\ Sooner(db.observed) \in Past .. ROLLBACK
      /\ Sooner(db.observed) <= db.observed
  <2>1. db.observed \in Past .. ROLLBACK
    BY <1>1 DEF Dbs
  <2>2. db.observed \in Int /\ Past <= db.observed /\ db.observed <= ROLLBACK
    BY <1>3, <2>1
  <2> QED BY <1>3, <2>2, SoonerIs
<1>8. /\ db.wait \in Int /\ Sooner(db.wait) \in Stamp /\ Sooner(db.wait) \in Int
      /\ Sooner(db.wait) <= db.wait /\ Sooner(db.wait) >= db.wait - 1
  BY <1>1, StampSooner DEF Dbs
<1>9. /\ targets \in [Targets -> TargetStates]
      /\ \A t \in Targets : /\ targets[t].retry \in Int /\ db.targets[t].retry \in Int
                            /\ targets[t].retry <= db.targets[t].retry
  <2>1. SUFFICES ASSUME NEW t \in Targets
                 PROVE  /\ targets[t] \in TargetStates
                        /\ targets[t].retry \in Int /\ db.targets[t].retry \in Int
                        /\ targets[t].retry <= db.targets[t].retry
    OBVIOUS
  <2>2. db.targets[t] \in TargetStates /\ db.targets[t].retry \in Stamp
    BY <1>1 DEF Dbs, TargetStates
  <2>3. /\ Sooner(db.targets[t].retry) \in Stamp /\ Sooner(db.targets[t].retry) \in Int
        /\ db.targets[t].retry \in Int /\ Sooner(db.targets[t].retry) <= db.targets[t].retry
    BY <2>2, StampSooner
  <2> QED BY <2>2, <2>3 DEF TargetStates
<1> HIDE DEF starts, sent, asked, targets
<1>10. /\ db' \in Dbs /\ db'.rows = db.rows /\ db'.pins = db.pins /\ db'.starts = starts
       /\ db'.observed = Sooner(db.observed) /\ db'.wait = Sooner(db.wait) /\ db'.targets = targets
  BY <1>1, <1>4, <1>5, <1>7, <1>8, <1>9 DEF Dbs
<1>11. /\ seen' \in Seens /\ seen'.sent = sent /\ seen'.asked = asked /\ seen'.held = seen.held
       /\ seen'.best = seen.best
  BY <1>1, <1>4, <1>6 DEF Seens
<1>12. TypeOK'
  BY <1>1, <1>2, <1>10, <1>11, TypePartsNext
<1>13. Clocks'
  <2>1. Latest(world.back) \in Nat
    BY <1>3, LatestIs
  <2>2. \A a \in starts : -world.back <= a
    <3>1. \A a \in db.starts : a \in Int /\ -world.back <= a
      BY <1>1, StartsFinite DEF IInv, Clocks
    <3> QED BY <1>3, <3>1 DEF starts
  <2>3. db'.observed <= world.back /\ db'.wait <= Latest(world.back)
    <3>1. db.observed <= world.back /\ db.wait <= Latest(world.back)
      BY DEF IInv, Clocks
    <3>2. Sooner(db.observed) \in Int
      BY <1>3, <1>7
    <3> QED BY <1>3, <1>7, <1>8, <1>10, <2>1, <3>1, <3>2
  <2>4. \A t \in Targets : db'.targets[t].retry <= Latest(world.back)
    <3>1. \A t \in Targets : db.targets[t].retry <= Latest(world.back)
      BY DEF IInv, Clocks
    <3> QED BY <1>9, <1>10, <2>1, <3>1
  <2> QED BY <1>2, <1>10, <2>2, <2>3, <2>4 DEF Clocks
<1>14. Asked'
  <2>1. SUFFICES ASSUME NEW back \in 0 .. ROLLBACK
                 PROVE  /\ asked[back] > 0 => asked[back] + (world.back - back) <= Sooner(db.wait)
                        /\ disk.body # None => asked[back] = 0
    BY <1>2, <1>10, <1>11 DEF Asked
  <2>2. /\ seen.asked[back] \in Nat /\ (disk.body # None => seen.asked[back] = 0)
        /\ (seen.asked[back] > 0 => seen.asked[back] + (world.back - back) <= db.wait)
    BY <1>1 DEF IInv, Asked, Seens
  <2>3. asked[back] = IF seen.asked[back] = 0 THEN 0 ELSE seen.asked[back] - 1
    BY DEF asked
  <2> QED BY <1>3, <1>8, <2>2, <2>3
<1>15. Counted'
  <2>1. Slots = db.starts /\ Slots' = starts
    BY <1>2, <1>10 DEF Slots
  <2>2. \A r \in sent : \E q \in seen.sent : q.age + 1 < WINDOW /\ r = Older(q)
    BY DEF sent
  <2>3. ASSUME NEW r \in sent PROVE SlotOf(r)' \in starts \/ SlotOf(r)' + Sooner(db.observed) >= WINDOW
    <3>1. PICK q \in seen.sent : q.age + 1 < WINDOW /\ r = Older(q)
      BY <2>2
    <3>2. SlotOf(q) \in Int /\ SlotOf(r)' = SlotOf(q) + 1 /\ SlotOf(q) + 1 < WINDOW + ROLLBACK
      BY <1>2, <3>1, OlderIs
    <3>3. CASE SlotOf(q) \in db.starts
      BY <1>3, <3>2, <3>3 DEF starts
    <3>4. CASE SlotOf(q) + db.observed >= WINDOW
      <4>1. Sooner(db.observed) \in Int /\ Sooner(db.observed) >= db.observed - 1
        BY <1>1, <1>3, <1>7, SoonerIs DEF Dbs
      <4> QED BY <1>3, <1>7, <3>2, <3>4, <4>1
    <3> QED BY <2>1, <3>3, <3>4 DEF IInv, Counted
  <2>4. ASSUME NEW a \in sent, NEW b \in sent, SlotOf(a)' = SlotOf(b)' PROVE a = b
    <3>1. PICK q \in seen.sent : q.age + 1 < WINDOW /\ a = Older(q)
      BY <2>2
    <3>2. PICK r \in seen.sent : r.age + 1 < WINDOW /\ b = Older(r)
      BY <2>2
    <3>3. SlotOf(q) \in Int /\ SlotOf(a)' = SlotOf(q) + 1 /\ SlotOf(r) \in Int /\ SlotOf(b)' = SlotOf(r) + 1
      BY <1>2, <3>1, <3>2, OlderIs
    <3>4. SlotOf(q) = SlotOf(r)
      <4>1. SlotOf(q) + 1 = SlotOf(r) + 1
        BY <2>4, <3>3
      <4> QED BY <3>3, <4>1
    <3> QED BY <3>1, <3>2, <3>4 DEF IInv, Counted
  <2> QED BY <1>10, <1>11, <2>1, <2>3, <2>4 DEF Counted
<1>16. Reserved'
  BY <1>2 DEF Reserved
<1> QED BY <1>2, <1>10, <1>11, <1>12, <1>13, <1>14, <1>15, <1>16, TimeHolds

LEMMA RollbackHolds ==
  ASSUME IInv, Rollback
  PROVE  IInv'
<1>1. disk \in Disks /\ db \in Dbs /\ app \in Apps /\ job \in Jobs /\ world \in Worlds /\ seen \in Seens
  BY TypeParts DEF IInv
<1>2. UNCHANGED <<disk, app, job, seen>>
  BY DEF Rollback
<1>3. /\ WINDOW \in Nat \ {0} /\ ROLLBACK \in Nat /\ Past = -ROLLBACK /\ world.back \in 0 .. ROLLBACK
      /\ world.back < ROLLBACK
  BY <1>1, Sizes DEF Worlds, Rollback
<1>4. world' \in Worlds /\ world'.back = world.back + 1
  <2>1. world.back + 1 \in 0 .. ROLLBACK
    BY <1>3
  <2>2. world.events + 1 \in 0 .. MaxEvents
    BY <1>1, Sizes DEF Worlds, Rollback
  <2> QED BY <1>1, <2>1, <2>2 DEF Worlds, Rollback
<1> DEFINE starts == {a - 1 : a \in db.starts}
           targets == [t \in Targets |-> [db.targets[t] EXCEPT !.retry = @ + 1]]
<1>5. db' = [db EXCEPT !.starts = starts, !.observed = @ + 1, !.wait = @ + 1, !.targets = targets]
  BY DEF Rollback
<1>6. /\ Latest(world.back) \in Nat /\ Latest(world.back + 1) = Latest(world.back) + 1
      /\ world.back + 1 \in 0 .. ROLLBACK
  BY <1>3, LatestIs
<1>7. /\ starts \in SUBSET (Past .. WINDOW + ROLLBACK - 1)
      /\ \A a \in starts : -(world.back + 1) <= a
  <2>1. \A a \in db.starts : a \in Int /\ -world.back <= a /\ a < WINDOW + ROLLBACK
    BY <1>1, StartsFinite DEF IInv, Clocks
  <2>2. \A a \in db.starts : a - 1 \in Past .. WINDOW + ROLLBACK - 1 /\ -(world.back + 1) <= a - 1
    BY <1>3, <2>1
  <2> QED BY <2>2
<1>8. db.observed + 1 \in Past .. ROLLBACK /\ db.observed + 1 <= world.back + 1
  <2>1. db.observed \in Past .. ROLLBACK /\ db.observed <= world.back
    BY <1>1 DEF Dbs, IInv, Clocks
  <2> QED BY <1>3, <2>1
<1>9. ASSUME NEW stamp \in Stamp, stamp <= Latest(world.back)
      PROVE  stamp \in Int /\ stamp + 1 \in Stamp /\ stamp + 1 <= Latest(world.back + 1)
  <2>1. stamp \in Int /\ Past <= stamp
    BY <1>3, LatestIs
  <2>2. stamp + 1 \in Int /\ Past <= stamp + 1 /\ stamp + 1 <= Latest(world.back + 1)
    BY <1>3, <1>6, <1>9, <2>1
  <2> QED BY <1>6, <2>1, <2>2, LatestIs
<1>10. db.wait \in Int /\ db.wait + 1 \in Stamp /\ db.wait + 1 <= Latest(world.back + 1)
  BY <1>1, <1>9 DEF Dbs, IInv, Clocks
<1>11. /\ targets \in [Targets -> TargetStates]
       /\ \A t \in Targets : targets[t].retry <= Latest(world.back + 1)
  <2>1. SUFFICES ASSUME NEW t \in Targets
                 PROVE  targets[t] \in TargetStates /\ targets[t].retry <= Latest(world.back + 1)
    OBVIOUS
  <2>2. db.targets[t] \in TargetStates /\ db.targets[t].retry \in Stamp
        /\ db.targets[t].retry <= Latest(world.back)
    BY <1>1 DEF Dbs, TargetStates, IInv, Clocks
  <2>3. db.targets[t].retry + 1 \in Stamp /\ db.targets[t].retry + 1 <= Latest(world.back + 1)
    BY <1>9, <2>2
  <2> QED BY <2>2, <2>3 DEF TargetStates
<1> HIDE DEF starts, targets
<1>12. /\ db' \in Dbs /\ db'.rows = db.rows /\ db'.pins = db.pins /\ db'.starts = starts
       /\ db'.observed = db.observed + 1 /\ db'.wait = db.wait + 1 /\ db'.targets = targets
  BY <1>1, <1>5, <1>7, <1>8, <1>10, <1>11 DEF Dbs
<1>13. TypeOK'
  BY <1>1, <1>2, <1>4, <1>12, TypePartsNext
<1>14. Clocks'
  BY <1>4, <1>7, <1>8, <1>10, <1>11, <1>12 DEF Clocks
<1>15. Asked'
  <2>1. \A back : Lead(back)' = Lead(back)
    BY <1>2 DEF Lead
  <2>2. seen' = seen /\ disk' = disk /\ job' = job
    BY <1>2
  <2>3. ASSUME NEW back \in 0 .. ROLLBACK
        PROVE  /\ seen'.asked[back] > 0 => seen'.asked[back] + (world'.back - back) <= db'.wait
               /\ disk'.body # None => seen'.asked[back] = 0
               /\ job'.pc \in Sending => seen'.asked[back] <= Lead(back)'
    <3>1. /\ disk.body # None => seen.asked[back] = 0
          /\ seen.asked[back] > 0 => seen.asked[back] + (world.back - back) <= db.wait
          /\ job.pc \in Sending => seen.asked[back] <= Lead(back)
      BY DEF IInv, Asked
    <3>2. seen.asked[back] \in Nat
      BY <1>1 DEF Seens
    <3>3. back \in Int /\ world.back \in Int
      BY <1>3
    <3>4. seen.asked[back] > 0 => seen.asked[back] + (world'.back - back) <= db'.wait
      BY <1>4, <1>10, <1>12, <3>1, <3>2, <3>3
    <3> QED BY <2>1, <2>2, <3>1, <3>4
  <2> QED BY <2>3 DEF Asked
<1>16. db.starts \subseteq Int /\ IsFiniteSet(db.starts)
  BY <1>1, StartsFinite
<1>17. job.pc \in Sending => /\ NewSlot \in Int /\ NewSlot' = NewSlot - 1
                            /\ Now \in Int /\ Now' = Now + 1
  <2>1. SUFFICES ASSUME job.pc \in Sending
                 PROVE  NewSlot \in Int /\ NewSlot' = NewSlot - 1 /\ Now \in Int /\ Now' = Now + 1
    OBVIOUS
  <2>2. /\ Now = world.back - app[job.owner].clock /\ app[job.owner].clock \in Int
        /\ NewSlot = -Now /\ Now \in Int
    BY <2>1, NowIs DEF Sending
  <2>3. Now' = world.back + 1 - app[job.owner].clock
    <3>1. job' = job /\ app' = app
      BY <1>2
    <3>2. Now' = world'.back - app'[job'.owner].clock
      BY DEF Now, Ahead
    <3> QED BY <1>3, <1>4, <2>2, <3>1, <3>2
  <2>4. NewSlot' = -(Now')
    BY DEF NewSlot
  <2> QED BY <1>3, <2>2, <2>3, <2>4
<1>18. Reserved'
  <2>1. SUFFICES ASSUME job.pc \in Sending
                 PROVE  /\ NewSlot - 1 \in starts
                        /\ \A a \in starts : a = NewSlot - 1 \/ a + (Now + 1) >= SPACING
                        /\ Cardinality(starts \ {NewSlot - 1}) < PER_WINDOW
                        /\ db.observed + 1 <= Now + 1
    BY <1>2, <1>12, <1>17 DEF Reserved
  <2>2. /\ NewSlot \in db.starts /\ \A a \in db.starts : a = NewSlot \/ a + Now >= SPACING
        /\ Cardinality(db.starts \ {NewSlot}) < PER_WINDOW /\ db.observed <= Now
    BY <2>1 DEF IInv, Reserved
  <2>3. \A a \in starts : a \in Int /\ a + 1 \in db.starts /\ a = a + 1 - 1
    BY <1>16 DEF starts
  <2>4. NewSlot - 1 \in starts
    BY <2>2 DEF starts
  <2>5. \A a \in starts : a = NewSlot - 1 \/ a + (Now + 1) >= SPACING
    <3>1. SUFFICES ASSUME NEW a \in starts PROVE a = NewSlot - 1 \/ a + (Now + 1) >= SPACING
      OBVIOUS
    <3>2. a \in Int /\ (a + 1 = NewSlot \/ a + 1 + Now >= SPACING)
      BY <2>2, <2>3
    <3> QED BY <1>17, <2>1, <3>2
  <2>6. Cardinality(starts \ {NewSlot - 1}) < PER_WINDOW
    <3> DEFINE S == starts \ {NewSlot - 1}
               T == db.starts \ {NewSlot}
               f == [a \in S |-> a + 1]
    <3>1. \A a \in S : a \in Int /\ a + 1 \in T
      BY <1>17, <2>1, <2>3
    <3>2. f \in Injection(S, T)
      <4>1. f \in [S -> T]
        BY <3>1
      <4>2. \A a, b \in S : f[a] = f[b] => a = b
        BY <3>1
      <4> HIDE DEF f, S, T
      <4> QED BY <4>1, <4>2 DEF Injection, IsInjective
    <3>3. IsFiniteSet(T)
      BY <1>16, FS_Subset
    <3> HIDE DEF f, S, T
    <3>4. Cardinality(S) <= Cardinality(T) /\ IsFiniteSet(S)
      BY <3>2, <3>3, FS_Injection
    <3>5. Cardinality(S) \in Nat /\ Cardinality(T) \in Nat /\ PER_WINDOW \in Nat
      BY <3>3, <3>4, FS_CardinalityType, Sizes
    <3> QED BY <2>2, <3>4, <3>5 DEF S, T
  <2>7. db.observed + 1 <= Now + 1
    BY <1>1, <1>3, <1>17, <2>1, <2>2 DEF Dbs
  <2> QED BY <2>4, <2>5, <2>6, <2>7
<1>19. Counted'
  <2>1. ASSUME NEW r \in seen.sent PROVE SlotOf(r) \in Int /\ SlotOf(r)' = SlotOf(r) - 1
    <3>1. r.age \in Int /\ r.clock \in Int /\ SlotOf(r) = r.age + r.clock - world.back
      BY <1>3, SlotIs
    <3>2. SlotOf(r)' = r.age + r.clock - (world.back + 1)
      BY <1>4 DEF SlotOf
    <3> QED BY <1>3, <3>1, <3>2
  <2>2. \A a \in Slots : a \in Int /\ a - 1 \in Slots'
    <3>1. \A a \in db.starts : a \in Int /\ a - 1 \in db'.starts
      BY <1>12, <1>16 DEF starts
    <3>2. CASE job.pc \in Sending
      BY <1>2, <1>17, <3>1, <3>2 DEF Slots
    <3>3. CASE job.pc \notin Sending
      BY <1>2, <3>1, <3>3 DEF Slots
    <3> QED BY <3>2, <3>3
  <2>3. ASSUME NEW r \in seen.sent PROVE SlotOf(r)' \in Slots' \/ SlotOf(r)' + db'.observed >= WINDOW
    <3>1. SlotOf(r) \in Slots \/ SlotOf(r) + db.observed >= WINDOW
      BY DEF IInv, Counted
    <3>2. CASE SlotOf(r) + db.observed >= WINDOW
      <4>1. db.observed \in Int
        BY <1>1, <1>3 DEF Dbs
      <4> QED BY <1>3, <1>12, <2>1, <3>2, <4>1
    <3> QED BY <2>1, <2>2, <3>1, <3>2
  <2>4. ASSUME NEW q \in seen.sent, NEW r \in seen.sent, SlotOf(q)' = SlotOf(r)' PROVE q = r
    <3>1. SlotOf(q) = SlotOf(r)
      BY <2>1, <2>4
    <3> QED BY <3>1 DEF IInv, Counted
  <2> QED BY <1>2, <2>3, <2>4 DEF Counted
<1> QED BY <1>2, <1>12, <1>13, <1>14, <1>15, <1>18, <1>19, TimeHolds

-----------------------------------------------------------------------------
(* Every step keeps the invariant.                                         *)
LEMMA StutterHolds ==
  ASSUME IInv, UNCHANGED vars
  PROVE  IInv'
<1>1. UNCHANGED <<disk, db, app, job, world, seen>>
  BY DEF vars
<1>2. disk \in Disks /\ db \in Dbs /\ app \in Apps /\ job \in Jobs /\ world \in Worlds /\ seen \in Seens
  BY TypeParts DEF IInv
<1>3. TypeOK'
  BY <1>1, <1>2, TypePartsNext
<1>4. CoverageIsHonest'
  BY <1>1, HonestSame DEF IInv
<1>5. Undisturbed
  BY <1>1 DEF IInv, Locked, Undisturbed
<1> QED BY <1>1, <1>3, <1>4, <1>5, BystanderHolds

LEMMA JobKeeps ==
  ASSUME IInv, JobStep
  PROVE  IInv'
<1>1. CASE Recover
  BY <1>1, RecoverHolds
<1>2. CASE Drop
  BY <1>2, DropsBody
<1>3. CASE Unlink
  BY <1>3, UnlinkHolds
<1>4. CASE MakePlan
  BY <1>4, MakePlanHolds
<1>5. CASE Reserve
  BY <1>5, ReserveHolds
<1>6. CASE CreatePart
  BY <1>6, CreatePartHolds
<1>7. CASE SaveReceipt
  BY <1>7, SaveReceiptHolds
<1>8. CASE Send
  BY <1>8, SendHolds
<1>9. CASE SaveDownloaded
  BY <1>9, SaveDownloadedHolds
<1>10. CASE Fail
  BY <1>10, FailHolds
<1>11. CASE Check
  BY <1>11, CheckHolds
<1>12. CASE BeginImport
  BY <1>12, BeginImportHolds
<1>13. CASE ImportBatch
  BY <1>13, ImportBatchHolds
<1>14. CASE Publish
  BY <1>14, PublishHolds
<1>15. CASE Release
  BY <1>15, ReleaseHolds
<1> QED BY <1>1, <1>2, <1>3, <1>4, <1>5, <1>6, <1>7, <1>8, <1>9, <1>10, <1>11, <1>12, <1>13,
           <1>14, <1>15 DEF JobStep

LEMMA NextKeeps == IInv /\ [Next]_vars => IInv'
<1> SUFFICES ASSUME IInv, [Next]_vars PROVE IInv'
  OBVIOUS
<1>1. ASSUME NEW p \in Processes,
             \/ Start(p) \/ ResetSource(p) \/ PinTarget(p) \/ StartJob(p) \/ Maintain(p)
             \/ Refresh(p) \/ Stop(p) \/ Stopped(p) \/ Crash(p)
             \/ \E d \in Demands[p] : Configure(p, d[1], d[2])
      PROVE  IInv'
  <2>1. CASE Start(p)
    BY <2>1, StartHolds
  <2>2. CASE ResetSource(p) \/ PinTarget(p)
    BY <2>2, PinsHold
  <2>3. CASE StartJob(p)
    BY <2>3, StartJobHolds
  <2>4. CASE Maintain(p)
    BY <2>4, MaintainHolds
  <2>5. CASE Refresh(p)
    BY <2>5, RefreshHolds
  <2>6. CASE Stop(p)
    BY <2>6, StopHolds
  <2>7. CASE Stopped(p)
    BY <2>7, StoppedHolds
  <2>8. CASE Crash(p)
    BY <2>8, CrashHolds
  <2>9. CASE \E d \in Demands[p] : Configure(p, d[1], d[2])
    BY <2>9, ConfigureHolds
  <2> QED BY <1>1, <2>1, <2>2, <2>3, <2>4, <2>5, <2>6, <2>7, <2>8, <2>9
<1>2. CASE JobStep
  BY <1>2, JobKeeps
<1>3. CASE Answered
  BY <1>3, ReceivedHolds, RemoteFailsHolds DEF Answered
<1>4. CASE LocalFails \/ Cancelled
  BY <1>4, LocalFailsHolds, CancelledHolds
<1>5. CASE Collects \/ Tick \/ Rollback
  BY <1>5, CollectsHolds, TickHolds, RollbackHolds
<1>6. CASE UNCHANGED vars
  BY <1>6, StutterHolds
<1> QED BY <1>1, <1>2, <1>3, <1>4, <1>5, <1>6 DEF Next

(* The inductive invariant holds in every state (worker.rs, download.rs,
   store.rs, spool.rs of viewer-comments/src/cache). *)
THEOREM ArchiveInvariant == Spec => []IInv
<1>1. Init => IInv
  BY InitHolds
<1>2. IInv /\ [Next]_vars => IInv'
  BY NextKeeps
<1> QED BY <1>1, <1>2, PTL DEF Spec

(* The variables have their types. *)
THEOREM ArchiveTypes == Spec => []TypeOK
<1>1. IInv => TypeOK
  BY DEF IInv
<1> QED BY <1>1, ArchiveInvariant, PTL

(* Published rows never overlap, and each unit shows exactly what the complete
   responses published for it showed (publish, merge_comments.sql). *)
THEOREM ArchiveIsHonest == Spec => []CoverageIsHonest
<1>1. IInv => CoverageIsHonest
  BY DEF IInv
<1> QED BY <1>1, ArchiveInvariant, PTL

LEMMA SparingHolds == IInv => RequestsAreSparing
<1> SUFFICES ASSUME IInv PROVE ReceivedOnce /\ RequestsAreSpaced
  BY DEF RequestsAreSparing
<1>1. ReceivedOnce
  BY DEF IInv, Held, ReceivedOnce, Importing
<1>2. SUFFICES ASSUME job.pc = "send" PROVE RequestsAreSpaced
  BY <1>1 DEF RequestsAreSpaced
<1>3. \A back \in 0 .. ROLLBACK : seen.asked[back] <= Lead(back)
  BY <1>2 DEF IInv, Asked, Sending
<1>4. /\ \A a \in Slots : a + Now >= SPACING
      /\ Cardinality(Slots) < PER_WINDOW /\ Slots = db.starts \ {NewSlot} /\ db.observed <= Now
  BY <1>2 DEF IInv, Reserved, Slots, Sending
<1>5. /\ db \in Dbs /\ db.observed \in Int /\ SPACING \in Nat /\ WINDOW \in Nat /\ SPACING <= WINDOW
      /\ PER_WINDOW \in Nat /\ ROLLBACK \in Nat
  BY TypeParts, Sizes DEF IInv, Dbs
<1>6. IsFiniteSet(Slots) /\ Slots \subseteq Int
  BY <1>4, <1>5, StartsFinite
(* The age of a request on the clock of the job. *)
<1>7. ASSUME NEW r \in seen.sent
      PROVE  /\ SlotOf(r) \in Int /\ Now \in Int /\ r.age + Lead(r.clock) \in Int
             /\ SlotOf(r) + Now <= r.age + Lead(r.clock)
             /\ SlotOf(r) \in Slots \/ SlotOf(r) + Now >= WINDOW
  <2>1. r.age \in Nat /\ r.clock \in 0 .. ROLLBACK /\ SlotOf(r) \in Int
        /\ SlotOf(r) = r.age + r.clock - world.back
    BY SlotIs
  <2>2. /\ world.back \in 0 .. ROLLBACK /\ app[job.owner].clock \in 0 .. ROLLBACK
        /\ Now = world.back - app[job.owner].clock /\ Now \in Int
    BY <1>2, NowIs
  <2>3. Lead(r.clock) \in Nat /\ Lead(r.clock) >= r.clock - app[job.owner].clock
    BY <1>2, <2>1, LeadIs
  <2>4. SlotOf(r) \in Slots \/ SlotOf(r) + db.observed >= WINDOW
    BY DEF IInv, Counted
  <2>5. SlotOf(r) + Now <= r.age + Lead(r.clock)
    BY <1>5, <2>1, <2>2, <2>3
  <2> QED BY <1>4, <1>5, <2>1, <2>2, <2>3, <2>4, <2>5
<1>8. ASSUME NEW r \in seen.sent PROVE r.age + Lead(r.clock) >= SPACING
  <2>1. SlotOf(r) + Now >= SPACING
    BY <1>4, <1>5, <1>7
  <2> QED BY <1>5, <1>7, <2>1
<1> DEFINE recent == {r \in seen.sent : r.age + Lead(r.clock) < WINDOW}
           slot == [r \in recent |-> SlotOf(r)]
<1>9. Cardinality(recent) < PER_WINDOW
  <2>1. \A r \in recent : SlotOf(r) \in Slots
    BY <1>5, <1>7
  <2>2. slot \in [recent -> Slots] /\ \A q, r \in recent : slot[q] = slot[r] => q = r
    BY <2>1 DEF IInv, Counted
  <2> HIDE DEF recent, slot
  <2>3. slot \in Injection(recent, Slots)
    BY <2>2 DEF Injection, IsInjective
  <2>4. IsFiniteSet(recent) /\ Cardinality(recent) <= Cardinality(Slots)
    BY <1>6, <2>3, FS_Injection
  <2>5. Cardinality(recent) \in Nat /\ Cardinality(Slots) \in Nat
    BY <1>6, <2>4, FS_CardinalityType
  <2> QED BY <1>4, <1>5, <2>4, <2>5
<1> QED BY <1>3, <1>8, <1>9 DEF RequestsAreSpaced

(* No request is made twice, and on any run of clocks, with a wall clock that
   goes back under running processes too: none comes closer to the last than
   SPACING, more often than PER_WINDOW in a window or before the server said
   so, except by what the clock of the process that sends is ahead of the
   other clock (Store::reserve_slot, spool.rs, download.rs retry_after). *)
THEOREM ArchiveIsSparing == Spec => []RequestsAreSparing
<1>1. IInv => RequestsAreSparing
  BY SparingHolds
<1> QED BY <1>1, ArchiveInvariant, PTL

-----------------------------------------------------------------------------
(* What a session pins stays.                                              *)
Keeps(s) ==
  \A r \in Published : \A u \in r.units \cap RangeOf[db.pins[s]] :
    \E q \in Published' : u \in q.units /\ q.count[u] >= r.count[u]
Pinned(s) == s \in Sessions /\ db.pins[s] # None /\ db'.pins[s] = db.pins[s]

LEMMA PublishedRows ==
  ASSUME IInv
  PROVE  \A r \in Published : r \in Row /\ r.units \subseteq Units /\ \A u \in r.units : r.count[u] \in 0 .. 2
BY TypeParts DEF IInv, Dbs, Published, Row, Count

LEMMA MoreIsKept ==
  ASSUME IInv, Published \subseteq Published', NEW s
  PROVE  Keeps(s)
BY PublishedRows DEF Keeps

LEMMA SameIsKept ==
  ASSUME IInv, db'.rows = db.rows, NEW s
  PROVE  Keeps(s)
<1>1. Published' = Published
  BY DEF Published
<1> QED BY <1>1, MoreIsKept

LEMMA CleanupIsKept ==
  ASSUME IInv, NEW pins \in [Sessions -> Targets \cup {None}], Cleanup(pins), NEW s, Pinned(s)
  PROVE  Keeps(s)
<1>1. PICK groups \in SUBSET Evictable(pins) :
        db' = [db EXCEPT !.pins = pins, !.rows = @ \ Evicted(groups)]
  BY DEF Cleanup
<1>2. db \in Dbs
  BY TypeParts DEF IInv
<1>3. db'.rows = db.rows \ Evicted(groups) /\ db'.pins = pins
  BY <1>1, <1>2 DEF Dbs
<1>4. ASSUME NEW r \in Published, NEW u \in r.units \cap RangeOf[db.pins[s]] PROVE r \in Published'
  <2>1. u \in PinnedUnits(pins)
    BY <1>3, <1>4 DEF Pinned, PinnedUnits
  <2>2. r.target \notin Evictable(pins)
    BY <1>4, <2>1 DEF Evictable, Overlaps
  <2>3. r \notin Evicted(groups)
    BY <2>2 DEF Evicted
  <2> QED BY <1>3, <2>3 DEF Published
<1> QED BY <1>4, PublishedRows DEF Keeps

LEMMA UnlinkIsKept ==
  ASSUME IInv, Unlink, NEW s
  PROVE  Keeps(s)
<1> DEFINE rows == IF job.then = "plan" THEN Published ELSE db.rows
<1>1. db \in Dbs /\ Published \subseteq rows /\ rows \subseteq db.rows
  BY TypeParts DEF IInv, Published
<1>2. db' = [db EXCEPT !.rows = {Unreceipted(r) : r \in rows}]
  BY DEF Unlink, Unreceipted
<1> HIDE DEF rows
<1>3. db'.rows = {Unreceipted(r) : r \in rows}
  BY <1>1, <1>2 DEF Dbs
<1>4. \A r \in Published : /\ Unreceipted(r).units = r.units /\ Unreceipted(r).count = r.count
                           /\ Unreceipted(r).published
  BY PublishedRows DEF Unreceipted, Row, Published
<1>5. \A r \in Published : Unreceipted(r) \in Published'
  BY <1>1, <1>3, <1>4 DEF Published
<1> QED BY <1>4, <1>5, PublishedRows DEF Keeps

LEMMA PublishIsKept ==
  ASSUME IInv, Publish, NEW s
  PROVE  Keeps(s)
<1> DEFINE units == job.plan.units
           over == Overlapping(units)
<1>1. PICK row \in Row :
        /\ row.units = units
        /\ \A u \in units : row.count[u] = seen'.best[u]
        /\ \A u \in units : seen.best[u] # None => seen'.best[u] >= seen.best[u]
        /\ \A q : q \in Published' <=>
             \/ q \in Published \ over
             \/ \E r \in over : q \in Remains(r, units)
             \/ q = row
  BY PublishIs
<1>2. units \in SUBSET Units /\ units # {} /\ Convex(units)
  <2>1. job.plan \in Plan /\ Sensible(job.plan)
    BY PlanIs DEF Publish, At, Importing
  <2> QED BY <2>1 DEF Plan, Sensible
<1>3. over \subseteq Published
  BY DEF Overlapping
<1> HIDE DEF units, over
<1>4. ASSUME NEW r \in Published, NEW u \in r.units
      PROVE  \E q \in Published' : u \in q.units /\ q.count[u] >= r.count[u]
  <2>1. r \in Row /\ u \in Units /\ r.count[u] \in 0 .. 2 /\ r.count[u] = seen.best[u]
    BY <1>4, PublishedRows DEF IInv, CoverageIsHonest
  <2>2. CASE r \notin over
    BY <1>1, <1>4, <2>1, <2>2
  <2>3. CASE r \in over /\ u \notin units
    <3>1. PICK q \in Remains(r, units) : u \in q.units /\ q.count[u] = r.count[u]
      BY <1>2, <1>4, <2>1, <2>3, RemainsIs
    <3> QED BY <1>1, <2>1, <2>3, <3>1
  <2>4. CASE u \in units
    <3>1. seen.best[u] # None
      BY <2>1, RangesAssumption
    <3> QED BY <1>1, <2>1, <2>4, <3>1
  <2> QED BY <2>2, <2>3, <2>4
<1> QED BY <1>4 DEF Keeps

LEMMA JobIsKept ==
  ASSUME IInv, JobStep, NEW s
  PROVE  Keeps(s)
<1>1. db \in Dbs
  BY TypeParts DEF IInv
<1>2. CASE Recover
  <2>1. db' = db \/ db' = WithoutStaged(FALSE) \/ db' = WithoutStaged(TRUE)
    BY <1>2 DEF Recover
  <2>2. Published' = Published
    BY <1>1, <2>1, WithoutIs DEF Published
  <2> QED BY <2>2, MoreIsKept
<1>3. CASE Unlink
  BY <1>3, UnlinkIsKept
<1>4. CASE Drop \/ MakePlan \/ CreatePart \/ SaveReceipt \/ Send \/ SaveDownloaded
  <2>1. db' = db
    BY <1>4 DEF Drop, MakePlan, CreatePart, SaveReceipt, Send, SaveDownloaded
  <2> QED BY <2>1, SameIsKept
<1>5. CASE Reserve
  <2>1. db'.rows = db.rows
    BY <1>1, <1>5 DEF Reserve, Dbs
  <2> QED BY <2>1, SameIsKept
<1>6. CASE Fail
  <2>1. db'.rows = db.rows
    BY <1>1, <1>6 DEF Fail, ProviderFailed, Dbs
  <2> QED BY <2>1, SameIsKept
<1>7. CASE Check
  <2>1. db'.rows = IF Imported THEN {r \in db.rows : r.published} ELSE db.rows
    BY <1>1, <1>7 DEF Check, Dbs
  <2>2. Published \subseteq Published'
    BY <2>1 DEF Published
  <2> QED BY <2>2, MoreIsKept
<1>8. CASE BeginImport
  <2>1. {r \in db.rows : ~(r.receipt /\ ~r.published)} \subseteq db'.rows
    BY <1>1, <1>8 DEF BeginImport, Dbs
  <2>2. Published \subseteq Published'
    BY <2>1 DEF Published
  <2> QED BY <2>2, MoreIsKept
<1>9. CASE ImportBatch
  <2>1. db.rows \ {Staged} \subseteq db'.rows
    BY <1>1, <1>9 DEF ImportBatch, Dbs
  <2>2. ~Staged.published
    BY <1>9, StagedRow DEF ImportBatch, At, Stages
  <2>3. Published \subseteq Published'
    BY <2>1, <2>2 DEF Published
  <2> QED BY <2>3, MoreIsKept
<1>10. CASE Publish
  BY <1>10, PublishIsKept
<1>11. CASE Release
  <2>1. db'.rows = db.rows
    BY <1>1, <1>11 DEF Release, Dbs
  <2> QED BY <2>1, SameIsKept
<1> QED BY <1>2, <1>3, <1>4, <1>5, <1>6, <1>7, <1>8, <1>9, <1>10, <1>11 DEF JobStep

LEMMA StepIsKept ==
  ASSUME IInv, [Next]_vars, NEW s, Pinned(s)
  PROVE  Keeps(s)
<1>1. db \in Dbs
  BY TypeParts DEF IInv
<1>2. ASSUME NEW p \in Processes, Maintain(p) \/ Stopped(p) PROVE Keeps(s)
  <2>1. db.pins \in [Sessions -> Targets \cup {None}]
    BY <1>1 DEF Dbs
  <2>2. [db.pins EXCEPT ![<<p, "worker">>] = None] \in [Sessions -> Targets \cup {None}]
    BY <2>1
  <2>3. Cleanup(db.pins) \/ Cleanup([db.pins EXCEPT ![<<p, "worker">>] = None])
    BY <1>2 DEF Maintain, Stopped
  <2> QED BY <2>1, <2>2, <2>3, CleanupIsKept
<1>3. ASSUME NEW p \in Processes,
             Start(p) \/ ResetSource(p) \/ PinTarget(p) \/ StartJob(p) \/ Refresh(p)
      PROVE  db'.rows = db.rows
  BY <1>1, <1>3 DEF Start, ResetSource, PinTarget, StartJob, Refresh, Dbs
<1>4. ASSUME NEW p \in Processes,
             Stop(p) \/ Crash(p) \/ \E d \in Demands[p] : Configure(p, d[1], d[2])
      PROVE  db' = db
  BY <1>4 DEF Stop, Crash, Configure
<1>5. CASE JobStep
  BY <1>5, JobIsKept
<1>6. CASE Answered \/ LocalFails \/ Cancelled \/ Collects \/ UNCHANGED vars
  <2>1. db' = db
    BY <1>6 DEF Answered, Received, RemoteFails, LocalFails, Cancelled, Collects, vars
  <2> QED BY <2>1, SameIsKept
<1>7. CASE Tick \/ Rollback
  <2>1. db'.rows = db.rows
    BY <1>1, <1>7 DEF Tick, Rollback, Dbs
  <2> QED BY <2>1, SameIsKept
<1> QED BY <1>2, <1>3, <1>4, <1>5, <1>6, <1>7, SameIsKept DEF Next

(* What a session pins stays covered and loses no comment, whichever process
   publishes, cleans up, starts or crashes (eviction_candidates.sql). *)
THEOREM ArchiveKeepsPinned == Spec => PinnedIsKept
<1>1. IInv /\ [Next]_vars =>
        [db'.rows # db.rows =>
           \A s \in Sessions :
             db.pins[s] # None /\ db'.pins[s] = db.pins[s] =>
               \A r \in Published : \A u \in r.units \cap RangeOf[db.pins[s]] :
                 \E q \in Published' : u \in q.units /\ q.count[u] >= r.count[u]]_vars
  <2>1. SUFFICES ASSUME IInv, [Next]_vars, NEW s \in Sessions,
                        db.pins[s] # None, db'.pins[s] = db.pins[s]
                 PROVE  Keeps(s)
    BY DEF Keeps
  <2>2. Pinned(s)
    BY <2>1 DEF Pinned
  <2> QED BY <2>1, <2>2, StepIsKept
<1> QED BY <1>1, ArchiveInvariant, PTL DEF Spec, PinnedIsKept

=============================================================================
