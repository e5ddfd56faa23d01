--------------------------- MODULE CommentArchive ---------------------------
(***************************************************************************)
(* The archive of recorded comments (viewer-comments/src/cache): a SQLite  *)
(* database and a response spool in one directory, shared by the processes *)
(* of the viewer.  Each process has a worker thread (worker.rs), which     *)
(* pins what is on the screen and evicts what nobody uses, and at most one *)
(* job thread (download.rs), which recovers, requests, receives and        *)
(* imports under the lock of the provider.                                 *)
(*                                                                         *)
(* A crash ends a process between any two steps; `disk` and `db` are what  *)
(* it leaves.  One action is one transaction, one rename or unlink, or one *)
(* part of a pass of the worker.  What a worker waits for before it starts *)
(* a job is left out: it may start one at any time.                        *)
(*                                                                         *)
(* Time is relative: a stamp of the database is its distance from what the *)
(* wall clock says now.  A process reads the wall clock when it starts and *)
(* counts from there: once the wall clock went back, the clocks of running *)
(* processes disagree.                                                     *)
(* Units are pieces of broadcast time, longer than a second; a comment is  *)
(* one possible text of its unit, and `count` says how often it occurs.    *)
(***************************************************************************)
EXTENDS Integers, FiniteSets

CONSTANTS
  None,
  Processes,
  Demands,          \* [Processes -> sets of <<target, fetch>>]: what each may ask
  RangeOf,          \* [targets -> intervals]
  UNITS,
  MAX_REQUEST,      \* MAX_REQUEST_SECONDS, in units
  SPACING, WINDOW, PER_WINDOW,                \* of requests
  FIRST_RETRY, LATER_RETRY, TARGET_FAILURES,  \* after remote failures
  RETRY_AFTER,      \* what the server may ask for
  ROLLBACK,         \* how far the wall clock may go back, in all
  MaxEvents         \* calls of the users, crashes, local and remote failures

Units == 1 .. UNITS
Targets == DOMAIN RangeOf
Past == -ROLLBACK     \* an earlier stamp cannot become due again

ASSUME RangesAssumption ==
  /\ UNITS \in Nat \ {0} /\ MAX_REQUEST \in Nat \ {0}
  /\ RangeOf \in [Targets -> (SUBSET Units) \ {{}}]
  /\ Demands \in [Processes -> SUBSET ((Targets \cup {None}) \X BOOLEAN)]
  /\ None \notin Targets \cup Processes \cup Int
ASSUME TimesAssumption ==
  /\ {SPACING, PER_WINDOW, FIRST_RETRY, TARGET_FAILURES, MaxEvents} \subseteq Nat
  /\ {LATER_RETRY, RETRY_AFTER, WINDOW, ROLLBACK} \subseteq Nat
  /\ SPACING > 0 /\ WINDOW >= SPACING /\ PER_WINDOW > 0
  /\ 0 < FIRST_RETRY /\ FIRST_RETRY <= LATER_RETRY

VARIABLES
  disk,     \* the spool: response.part, response.json, response.meta
  db,       \* rows of coverage with their comments, provider, targets, pins
  app,      \* of each process: the input and the state of the worker
  job,      \* the job that holds the provider's lock
  world,    \* the archive and the clock, and what may still happen
  seen      \* not in the code: what was published, received and requested

vars == <<disk, db, app, job, world, seen>>

Larger(a, b) == IF a > b THEN a ELSE b
Nothing == [u \in Units |-> 0]
Restricted(count, units) == [u \in Units |-> IF u \in units THEN count[u] ELSE 0]

Count == [Units -> 0 .. 2]
Stamp == Past .. Larger(LATER_RETRY, RETRY_AFTER) + ROLLBACK
Plan == [target : Targets, units : SUBSET Units, refresh : BOOLEAN, settled : BOOLEAN]
Body == [valid : BOOLEAN, count : [Units -> 0 .. 1]]
Meta == [stage : {"receiving", "downloaded"}, plan : Plan]
Row == [units : SUBSET Units, count : Count, target : Targets,
        settled : BOOLEAN, published : BOOLEAN, receipt : BOOLEAN]
ASSUME NothingAssumption == None \notin Plan \cup Body \cup Meta

Sessions == Processes \X {"worker", "job"}

NoJob == [owner |-> None, pc |-> "none", target |-> None, plan |-> None, then |-> "none"]
Down == [up |-> "down", demand |-> None, fetch |-> FALSE, pinned |-> None, clock |-> 0]

(* A worker that has just started finds what the GUI asks for by then. *)
Started(p) ==
  {[Down EXCEPT !.up = "up", !.demand = d[1], !.fetch = d[2]] : d \in Demands[p]}
FreshTarget == [failures |-> 0, retry |-> Past, stopped |-> FALSE, refresh |-> FALSE]

TypeOK ==
  /\ disk \in [part : BOOLEAN,
               body : Body \cup {None}, meta : Meta \cup {None}]
  /\ db \in [rows : SUBSET Row,
             starts : SUBSET (Past .. WINDOW + ROLLBACK - 1),
             observed : Past .. ROLLBACK, wait : Stamp, failures : 0 .. 1,
             targets : [Targets -> [failures : 0 .. TARGET_FAILURES, retry : Stamp,
                                    stopped : BOOLEAN, refresh : BOOLEAN]],
             pins : [Sessions -> Targets \cup {None}]]
  /\ app \in [Processes ->
               [up : {"down", "up", "stopping"}, demand : Targets \cup {None},
                fetch : BOOLEAN, pinned : Targets \cup {None}, clock : 0 .. ROLLBACK]]
  /\ job \in [owner : Processes \cup {None},
              pc : {"none", "recover", "plan", "reserve", "create", "save", "send", "receive",
                    "renamed", "check", "begin", "import", "drop", "unlink",
                    "fail", "end"},
              target : Targets \cup {None}, plan : Plan \cup {None},
              then : {"none", "plan", "partial", "failed", "rejected", "complete"}]
  /\ world \in [avail : Units, aged : BOOLEAN, events : 0 .. MaxEvents, back : 0 .. ROLLBACK]
  /\ seen \in [best : [Units -> 0 .. 1 \cup {None}], held : BOOLEAN,
               sent : SUBSET [age : 0 .. WINDOW - 1, clock : 0 .. ROLLBACK],
               asked : [0 .. ROLLBACK -> Nat]]

Init ==
  /\ disk = [part |-> FALSE, body |-> None, meta |-> None]
  /\ db = [rows |-> {}, starts |-> {}, observed |-> Past, wait |-> Past, failures |-> 0,
           targets |-> [t \in Targets |-> FreshTarget], pins |-> [s \in Sessions |-> None]]
  /\ app \in {a \in [Processes -> {Down} \cup UNION {Started(p) : p \in Processes}] :
               \A p \in Processes : a[p] \in {Down} \cup Started(p)}
  /\ job = NoJob
  /\ \E avail \in Units : world = [avail |-> avail, aged |-> FALSE, events |-> 0, back |-> 0]
  /\ seen = [best |-> [u \in Units |-> None], held |-> FALSE, sent |-> {},
             asked |-> [back \in 0 .. ROLLBACK |-> 0]]

-----------------------------------------------------------------------------
(* What the database says. *)

Published == {r \in db.rows : r.published}
Coverage(settled) == UNION {r.units : r \in {q \in Published : settled => q.settled}}
Overlaps(r, units) == r.units \cap units # {}
PinnedUnits(pins) == UNION {RangeOf[pins[s]] : s \in {x \in Sessions : pins[x] # None}}
Imported == \E r \in Published : r.receipt

(* The generation only adds to what may be published: a job pins its own
   response before it asks. *)
CanPublish(units) == units \cap PinnedUnits(db.pins) # {}

(* Slip: the inclusive end of the request counted as exclusive. *)
EnvelopeInclusive(gaps) ==
  {u \in 1 .. UNITS + 1 : \E a \in gaps : a <= u /\ \E b \in gaps : u <= b + 1}

(* The gaps of a target in one request: from the first to the last, at most
   MAX_REQUEST long. *)
Envelope(gaps) ==
  {u \in Units : /\ \E a \in gaps : a <= u
                 /\ \E b \in gaps : u <= b
                 /\ \A a \in gaps : (\A b \in gaps : a <= b) => u < a + MAX_REQUEST}

Available(t) == RangeOf[t] \cap 1 .. world.avail
Gaps(t) == Available(t) \ (IF db.targets[t].refresh THEN {} ELSE Coverage(world.aged))

(* Slip: one row that is not pinned gives its whole group away. *)
EvictableByRow(pins) ==
  {k \in {r.target : r \in Published} :
     \E r \in Published : r.target = k /\ ~Overlaps(r, PinnedUnits(pins))}

(* Groups of rows of one target, none of which a pin touches. *)
Evictable(pins) ==
  {k \in {r.target : r \in Published} :
     \A r \in Published : r.target = k => ~Overlaps(r, PinnedUnits(pins))}

Evicted(groups) == {r \in Published : r.target \in groups}

(* The clock of a process was set when its worker started: it is ahead of the
   wall clock by what that went back since.  A job has the clock of its
   worker. *)
Ahead(p) == world.back - app[p].clock
Now == Ahead(job.owner)

(* Store::failed: the provider's backoff, never shortened.  The delay is on
   the job's clock, what the server asks for on the wall clock. *)
Delayed(failures, after) ==
  Larger(Now + (IF failures = 0 THEN FIRST_RETRY ELSE LATER_RETRY), after)

ProviderFailed(after) ==
  [db EXCEPT !.failures = 1, !.wait = Larger(@, Delayed(db.failures, after))]

-----------------------------------------------------------------------------
(* The worker of a process. *)

(* A start reaps the sessions whose lock nobody holds; its own are new. *)
Alive(s) == app[s[1]].up # "down" /\ (s[2] = "job" => job.owner = s[1])

Start(p) ==
  /\ app[p].up = "down"
  /\ \E started \in Started(p) :
       app' = [app EXCEPT ![p] = [started EXCEPT !.clock = world.back]]
  /\ db' = [db EXCEPT !.pins = [s \in Sessions |-> IF Alive(s) THEN db.pins[s] ELSE None]]
  /\ UNCHANGED <<disk, job, world, seen>>

(* What a user does and what fails is bounded together. *)
Event == /\ world.events < MaxEvents
         /\ world' = [world EXCEPT !.events = @ + 1]

(* Controller::configure: another recording, or none, with or without the
   permission to fetch. *)
Configure(p, t, fetch) ==
  /\ app[p].up = "up" /\ <<t, fetch>> # <<app[p].demand, app[p].fetch>>
  /\ Event
  /\ app' = [app EXCEPT ![p].demand = t, ![p].fetch = fetch]
  /\ UNCHANGED <<disk, db, job, seen>>

(* A pass with another source: what was pinned for the last one goes, and in
   a later transaction the new target is pinned. *)
ResetSource(p) ==
  /\ app[p].up = "up" /\ app[p].pinned \notin {None, app[p].demand}
  /\ app' = [app EXCEPT ![p].pinned = None]
  /\ db' = [db EXCEPT !.pins[<<p, "worker">>] = None]
  /\ UNCHANGED <<disk, job, world, seen>>

PinTarget(p) ==
  /\ app[p].up = "up" /\ app[p].pinned = None /\ app[p].demand # None
  /\ app' = [app EXCEPT ![p].pinned = app[p].demand]
  /\ db' = [db EXCEPT !.pins[<<p, "worker">>] = app[p].demand]
  /\ UNCHANGED <<disk, job, world, seen>>

(* Store::cleanup: which of the groups go depends on the budget; all of them
   when the user clears what is not used. *)
Forgotten(gone) == [u \in Units |-> IF \E r \in gone : u \in r.units THEN None ELSE seen.best[u]]

Cleanup(pins) ==
  \E groups \in SUBSET Evictable(pins) :
    /\ pins = db.pins => groups # {}
    /\ db' = [db EXCEPT !.pins = pins, !.rows = @ \ Evicted(groups)]
    /\ seen' = [seen EXCEPT !.best = Forgotten(Evicted(groups))]

Maintain(p) ==
  /\ app[p].up = "up"
  /\ Cleanup(db.pins)
  /\ UNCHANGED <<disk, app, job, world>>

(* Store::request_refresh of the target on the screen; a wait for the
   provider stays. *)
Refresh(p) ==
  /\ app[p].up = "up" /\ app[p].pinned # None
  /\ Event
  /\ db' = [db EXCEPT !.targets[app[p].pinned] =
              [@ EXCEPT !.refresh = TRUE, !.failures = 0, !.stopped = FALSE]]
  /\ UNCHANGED <<disk, app, job, seen>>

(* Job::start, with the lock of the provider; a job that finds it taken ends
   at once.  Without permission to fetch a job only recovers. *)
StartJob(p) ==
  LET target == IF app[p].fetch THEN app[p].demand ELSE None
  IN  /\ app[p].up = "up" /\ app[p].pinned = app[p].demand
      /\ job = NoJob
      /\ job' = [NoJob EXCEPT !.owner = p, !.pc = "recover", !.target = target]
      /\ db' = [db EXCEPT !.pins[<<p, "job">>] = target]
      /\ UNCHANGED <<disk, app, world, seen>>

Stop(p) ==
  /\ app[p].up = "up" /\ Event
  /\ app' = [app EXCEPT ![p].up = "stopping"]
  /\ UNCHANGED <<disk, db, job, seen>>

(* The worker joined its job: it releases its session and cleans up. *)
Stopped(p) ==
  /\ app[p].up = "stopping" /\ job.owner # p
  /\ app' = [app EXCEPT ![p] = Down]
  /\ Cleanup([db.pins EXCEPT ![<<p, "worker">>] = None])
  /\ UNCHANGED <<disk, job, world>>

-----------------------------------------------------------------------------
(* A job, under the lock. *)

At(pc) == job.pc = pc
Goes(pc) == job' = [job EXCEPT !.pc = pc]
Discards(then) == job' = [job EXCEPT !.pc = "drop", !.then = then]
Ends == job' = [NoJob EXCEPT !.owner = job.owner, !.pc = "end"]

(* Store::discard_staged *)
WithoutStaged(keep) ==
  [db EXCEPT !.rows = {r \in db.rows : r.published \/ (keep /\ r.receipt)}]

(* Slip: the record alone tells a complete response. *)
CompleteByRecord == disk.meta # None /\ disk.meta.stage = "downloaded"

(* spool::recover.  A complete body counts, whatever its record says. *)
Complete == disk.meta # None /\ (disk.meta.stage = "downloaded" \/ disk.body # None)

Recover ==
  /\ At("recover")
  /\ \/ /\ disk.meta = None
        /\ IF disk.part THEN Discards("plan") /\ UNCHANGED db
                        ELSE Goes("plan") /\ db' = WithoutStaged(FALSE)
        /\ UNCHANGED disk
     \/ /\ Complete
        /\ disk' = [disk EXCEPT !.meta.stage = "downloaded"]
        /\ db' = WithoutStaged(TRUE)
        /\ job' = [job EXCEPT !.pc = "check", !.target = None, !.plan = disk.meta.plan]
     \/ /\ disk.meta # None /\ ~Complete
        /\ Discards("partial")
        /\ UNCHANGED <<disk, db>>
  /\ UNCHANGED <<app, world, seen>>

(* spool::discard, in two of its steps: the body goes before its record. *)
Drop ==
  /\ At("drop")
  /\ disk' = [disk EXCEPT !.part = FALSE, !.body = None]
  /\ Goes("unlink")
  /\ UNCHANGED <<db, app, world, seen>>

Unlink ==
  /\ At("unlink")
  /\ disk' = [disk EXCEPT !.meta = None]
  /\ db' = [db EXCEPT !.rows = {[r EXCEPT !.receipt = FALSE] :
                                  r \in IF job.then = "plan" THEN Published ELSE @}]
  /\ CASE job.then = "plan" -> Goes("plan")
       [] job.then = "complete" -> Ends
       [] OTHER -> Goes("fail")
  /\ UNCHANGED <<app, world, seen>>

(* download::next.  While the end of the target is not yet collected, what is
   further ahead of the view waits. *)
MakePlan ==
  LET t == job.target
      plan == [target |-> t, units |-> Envelope(Gaps(t)),
               refresh |-> db.targets[t].refresh, settled |-> FALSE]
  IN  /\ At("plan")
      /\ \/ t = None /\ Ends
         \/ /\ t # None
            /\ \/ db.targets[t].stopped \/ db.targets[t].retry > Now
               \/ Gaps(t) = {} \/ Available(t) # RangeOf[t]
            /\ Ends
         \/ /\ t # None /\ ~db.targets[t].stopped /\ db.targets[t].retry <= Now
            /\ Gaps(t) # {}
            /\ job' = [job EXCEPT !.pc = "reserve", !.target = None, !.plan = plan]
      /\ UNCHANGED <<disk, db, app, world, seen>>

(* Slip: the window is counted from one request too early. *)
EarliestStartLate(starts) ==
  LET youngest == {a \in starts : \A b \in starts : a <= b}
      ranked == {a \in starts : Cardinality({b \in starts : b < a}) = PER_WINDOW}
      untils == {db.wait} \cup {SPACING - a : a \in youngest} \cup {WINDOW - a : a \in ranked}
  IN  CHOOSE u \in untils : \A v \in untils : v <= u

(* When the next request may start: the provider waits no longer, the last
   request is SPACING old, and fewer than PER_WINDOW lie in the window. *)
EarliestStart(starts) ==
  LET youngest == {a \in starts : \A b \in starts : a <= b}
      ranked == {a \in starts : Cardinality({b \in starts : b < a}) = PER_WINDOW - 1}
      untils == {db.wait} \cup {SPACING - a : a \in youngest} \cup {WINDOW - a : a \in ranked}
  IN  CHOOSE u \in untils : \A v \in untils : v <= u

(* Slip: a slot has the time of the wall clock. *)
WallSlot == 0

(* A slot has the time of the job's clock. *)
NewSlot == -Now

(* Store::reserve_slot, one transaction: the slot is taken before the
   request is sent. *)
Reserve ==
  LET starts == {a \in db.starts : a + Now < WINDOW}
      granted == EarliestStart(starts) <= Now
  IN  /\ At("reserve")
      /\ IF db.observed > Now
         THEN Ends /\ UNCHANGED db
         ELSE /\ db' = [db EXCEPT !.observed = Now,
                                  !.starts = IF granted THEN starts \cup {NewSlot} ELSE starts]
              /\ IF granted
                 THEN job' = [job EXCEPT !.pc = "create", !.plan.settled = world.aged]
                 ELSE Ends
      /\ UNCHANGED <<disk, app, world, seen>>

(* Receiving::prepare *)
CreatePart ==
  /\ At("create")
  /\ disk' = [disk EXCEPT !.part = TRUE]
  /\ Goes("save")
  /\ UNCHANGED <<db, app, world, seen>>

SaveReceipt ==
  /\ At("save")
  /\ disk' = [disk EXCEPT !.meta = [stage |-> "receiving", plan |-> job.plan]]
  /\ Goes("send")
  /\ UNCHANGED <<db, app, world, seen>>

Send ==
  /\ At("send")
  /\ Goes("receive")
  /\ seen' = [seen EXCEPT !.sent = @ \cup {[age |-> 0, clock |-> app[job.owner].clock]}]
  /\ UNCHANGED <<disk, db, app, world>>

(* The last byte arrived and is on the disk.  What the server sends may be a
   response that does not parse to its end. *)
Received ==
  /\ At("receive")
  /\ \E valid \in BOOLEAN, n \in 0 .. 1 :
       LET count == Restricted([u \in Units |-> n], job.plan.units) IN
       /\ IF valid THEN UNCHANGED world ELSE Event /\ count = Nothing
       /\ disk' = [disk EXCEPT !.part = FALSE, !.body = [valid |-> valid, count |-> count]]
       /\ seen' = [seen EXCEPT !.held = valid, !.asked = [back \in 0 .. ROLLBACK |-> 0]]
  /\ Goes("renamed")
  /\ UNCHANGED <<db, app>>

SaveDownloaded ==
  /\ At("renamed")
  /\ disk' = [disk EXCEPT !.meta.stage = "downloaded"]
  /\ Goes("check")
  /\ UNCHANGED <<db, app, world, seen>>

(* ReceiveError::Remote: a status, a broken connection or a timeout. *)
RemoteFails ==
  /\ At("receive") /\ Event
  /\ Discards("failed")
  /\ UNCHANGED <<disk, db, app, seen>>

(* Store::failed after a partial response, Store::fail_target after an answer
   of the server or a response that does not parse. *)
Fail ==
  /\ At("fail")
  /\ \/ /\ job.then = "partial"
        /\ db' = ProviderFailed(0)
        /\ UNCHANGED seen
     \/ /\ job.then \in {"failed", "rejected"}
        /\ \E permanent \in BOOLEAN, after \in {0, RETRY_AFTER} :
             LET t == job.plan.target
                 old == db.targets[t]
                 stopped == permanent \/ old.failures + 1 >= TARGET_FAILURES
             IN  /\ job.then = "rejected" => permanent /\ after = 0
                 /\ db' = [ProviderFailed(after) EXCEPT !.targets[t] =
                             [old EXCEPT !.failures = IF @ < TARGET_FAILURES THEN @ + 1 ELSE @,
                                         !.retry = Delayed(old.failures, after),
                                         !.stopped = stopped]]
                 /\ seen' = [seen EXCEPT !.asked[world.back] = Larger(@, after)]
  /\ Ends
  /\ UNCHANGED <<disk, app, world>>

(* The response is pinned in the job's own session, whatever is on the
   screen by now, and read to its end. *)
Check ==
  /\ At("check")
  /\ db' = [db EXCEPT !.pins[<<job.owner, "job">>] = job.plan.target,
                      !.rows = IF Imported THEN {r \in @ : r.published} ELSE @]
  /\ IF Imported THEN Discards("complete")
     ELSE IF disk.body = None THEN Ends
     ELSE IF disk.body.valid THEN Goes("begin")
     ELSE Discards("rejected")
  /\ UNCHANGED <<disk, app, world, seen>>

(* Store::begin_import: what an earlier attempt staged goes. *)
BeginImport ==
  /\ At("begin")
  /\ db' = [db EXCEPT !.rows = {r \in @ : ~(r.receipt /\ ~r.published)} \cup
              {[units |-> job.plan.units, count |-> Nothing, target |-> job.plan.target,
                settled |-> FALSE, published |-> FALSE, receipt |-> TRUE]}]
  /\ Goes("import")
  /\ UNCHANGED <<disk, app, world, seen>>

Staged == CHOOSE r \in db.rows : ~r.published
Missing == {u \in Units : Staged.count[u] < disk.body.count[u]}

ImportBatch ==
  /\ At("import") /\ Missing # {}
  /\ \E u \in Missing :
       /\ \A v \in Missing : u <= v
       /\ db' = [db EXCEPT !.rows = (@ \ {Staged}) \cup {[Staged EXCEPT !.count[u] = @ + 1]}]
  /\ UNCHANGED <<disk, app, job, world, seen>>

(* Slip: a snapshot replaces what was there. *)
MergedLast(old, incoming) == incoming

(* Store::publish: the larger multiplicity wins, what lies outside the
   response keeps its row, and all of it is one transaction. *)
Merged(old, incoming) == [u \in Units |-> Larger(old[u], incoming[u])]

Remains(r, units) ==
  LET below == {u \in r.units : \A v \in units : u < v}
      above == {u \in r.units : \A v \in units : u > v}
  IN  {[r EXCEPT !.units = part, !.count = Restricted(@, part), !.receipt = FALSE] :
         part \in {below, above} \ {{}}}

Overlapping(units) == {r \in Published : Overlaps(r, units)}
OldCount(units) ==
  [u \in Units |-> IF \E r \in Overlapping(units) : u \in r.units \cap units
                   THEN (CHOOSE r \in Overlapping(units) : u \in r.units).count[u] ELSE 0]

Publish ==
  LET plan == job.plan
      row == [Staged EXCEPT !.count = Merged(OldCount(plan.units), @),
                            !.settled = plan.settled, !.published = TRUE]
      kept == UNION {Remains(r, plan.units) : r \in Overlapping(plan.units)}
  IN  /\ At("import") /\ Missing = {}
      /\ IF CanPublish(plan.units)
         THEN /\ db' = [db EXCEPT
                   !.rows = (@ \ (Overlapping(plan.units) \cup {Staged})) \cup kept \cup {row},
                   !.targets[plan.target] =
                      [FreshTarget EXCEPT !.refresh =
                         db.targets[plan.target].refresh /\ ~plan.refresh],
                   !.failures = 0, !.wait = Past]
              /\ seen' = [seen EXCEPT !.held = FALSE, !.best =
                   [u \in Units |-> IF u \notin plan.units THEN @[u]
                                    ELSE IF @[u] = None THEN disk.body.count[u]
                                    ELSE Larger(@[u], disk.body.count[u])]]
         ELSE /\ db' = [db EXCEPT !.rows = @ \ {Staged}]
              /\ UNCHANGED seen
      /\ Discards("complete")
      /\ UNCHANGED <<disk, app, world>>

(* The session and the lock go. *)
Release ==
  /\ At("end")
  /\ db' = [db EXCEPT !.pins[<<job.owner, "job">>] = None]
  /\ job' = NoJob
  /\ UNCHANGED <<disk, app, world, seen>>

(* An I/O or database error, and the cancellation of a stopping process, end
   the job where it is. *)
Working == job.pc \notin {"none", "end"}

LocalFails ==
  /\ Working /\ Event
  /\ Ends
  /\ UNCHANGED <<disk, db, app, seen>>

Cancelled ==
  /\ job.pc \in {"send", "receive", "check", "begin", "import"}
  /\ app[job.owner].up = "stopping"
  /\ Ends
  /\ UNCHANGED <<disk, db, app, world, seen>>

-----------------------------------------------------------------------------
(* The world. *)

Crash(p) ==
  /\ app[p].up # "down" /\ Event
  /\ app' = [app EXCEPT ![p] = Down]
  /\ job' = IF job.owner = p THEN NoJob ELSE job
  /\ UNCHANGED <<disk, db, seen>>

(* The archive collected five more minutes, and 24 hours after the end. *)
Collects ==
  /\ job.pc \in {"none", "receive"}
  /\ \/ /\ world.avail < UNITS
        /\ world' = [world EXCEPT !.avail = @ + 1]
     \/ /\ world.avail = UNITS /\ ~world.aged
        /\ world' = [world EXCEPT !.aged = TRUE]
  /\ UNCHANGED <<disk, db, app, job, seen>>

Sooner(stamp) == IF stamp > Past THEN stamp - 1 ELSE stamp

(* One step of time.  The local steps of a job take less. *)
Tick ==
  /\ job.pc \in {"none", "receive"}
  /\ db' = [db EXCEPT !.starts = {a + 1 : a \in @} \ {WINDOW + ROLLBACK},
                      !.observed = Sooner(@), !.wait = Sooner(@),
                      !.targets = [t \in Targets |-> [db.targets[t] EXCEPT !.retry = Sooner(@)]]]
  /\ seen' = [seen EXCEPT
                !.sent = {[r EXCEPT !.age = @ + 1] : r \in {q \in @ : q.age + 1 < WINDOW}},
                !.asked = [back \in 0 .. ROLLBACK |-> IF @[back] = 0 THEN 0 ELSE @[back] - 1]]
  /\ UNCHANGED <<disk, app, job, world>>

(* The wall clock goes back, at any time. *)
Rollback ==
  /\ world.back < ROLLBACK /\ world.events < MaxEvents
  /\ world' = [world EXCEPT !.back = @ + 1, !.events = @ + 1]
  /\ db' = [db EXCEPT !.starts = {a - 1 : a \in @},
                      !.observed = @ + 1, !.wait = @ + 1,
                      !.targets = [t \in Targets |-> [db.targets[t] EXCEPT !.retry = @ + 1]]]
  /\ UNCHANGED <<disk, app, job, seen>>

-----------------------------------------------------------------------------
JobStep ==
  \/ Recover \/ Drop \/ Unlink \/ MakePlan \/ Reserve \/ CreatePart \/ SaveReceipt
  \/ Send \/ SaveDownloaded \/ Fail \/ Check \/ BeginImport \/ ImportBatch
  \/ Publish \/ Release

Answered == Received \/ RemoteFails

Next ==
  \/ \E p \in Processes :
       \/ Start(p) \/ ResetSource(p) \/ PinTarget(p) \/ StartJob(p) \/ Maintain(p)
       \/ Refresh(p) \/ Stop(p) \/ Stopped(p) \/ Crash(p)
       \/ \E d \in Demands[p] : Configure(p, d[1], d[2])
  \/ JobStep \/ Answered \/ LocalFails \/ Cancelled
  \/ Collects \/ Tick \/ Rollback

Spec == Init /\ [][Next]_vars

-----------------------------------------------------------------------------
(* What the archive promises. *)

(* The published rows do not overlap, and each unit of one shows exactly what
   the complete responses that were published for it showed: a response that
   was cut off, staged in part or invalid adds nothing, an overlapping one
   neither loses nor doubles a comment (publish, merge_comments.sql). *)
CoverageIsHonest ==
  /\ \A q, r \in Published : q # r => ~Overlaps(q, r.units)
  /\ \A r \in Published : \A u \in r.units : r.count[u] = seen.best[u]
  /\ \A u \in Units : seen.best[u] # None => u \in Coverage(FALSE)

(* A response that arrived whole is published before the next request is
   sent, across crashes and failures of every step in between (spool.rs). *)
ReceivedOnce == job.pc \in {"send", "receive"} => ~seen.held

(* What a session pins stays covered and loses no comment, whichever process
   publishes, cleans up, starts or crashes (eviction_candidates.sql). *)
PinnedIsKept ==
  [][db'.rows # db.rows =>
       \A s \in Sessions :
         db.pins[s] # None /\ db'.pins[s] = db.pins[s] =>
           \A r \in Published : \A u \in r.units \cap RangeOf[db.pins[s]] :
             \E q \in Published' : u \in q.units /\ q.count[u] >= r.count[u]]_vars

(* A request keeps its distance from those of all processes, and from what
   the server asked for, across crashes, restarts and a wall clock that goes
   back at any time (Store::reserve_slot, download.rs retry_after).  The
   distance is that of real time, less what the clock of the process that
   sends is ahead: of the clock of the other process, or of the wall clock
   the server's wish was read from.  So nothing is lost to a process that
   started after the clock went back, and one that started before may come
   too early by what it went back. *)
Lead(clock) == Larger(0, clock - app[job.owner].clock)

RequestsAreSpaced ==
  job.pc = "send" =>
    /\ \A back \in 0 .. ROLLBACK : seen.asked[back] <= Lead(back)
    /\ \A r \in seen.sent : r.age + Lead(r.clock) >= SPACING
    /\ Cardinality({r \in seen.sent : r.age + Lead(r.clock) < WINDOW}) < PER_WINDOW

(* No request is made twice, nor too early. *)
RequestsAreSparing == ReceivedOnce /\ RequestsAreSpaced

=============================================================================
