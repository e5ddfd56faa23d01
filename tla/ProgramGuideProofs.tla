------------------------- MODULE ProgramGuideProofs -------------------------
(***************************************************************************)
(* Proofs about ProgramGuide for any servers, services and bounds: the     *)
(* types; that nothing of another server or of an earlier visit gets into  *)
(* the guide; that a quiet guide is what its server has; and that an       *)
(* answer never puts back what a notification has replaced.                *)
(***************************************************************************)
EXTENDS ProgramGuide, SequenceTheorems, TLAPS

----------------------------------------------------------------------------
(* Sets of changes. *)

LEMMA ConstantTypes ==
  /\ NoPrograms \in Programs /\ NoPrograms \in Snapshots
  /\ NoChanges \in Changes /\ Full \in Changes
  /\ NoChanges.programs = NoPrograms /\ Full.programs = NoPrograms
  /\ ~NoChanges.full /\ Full.full
  BY DEF NoPrograms, Programs, Snapshots, NoChanges, Full, Changes

LEMMA NothingIsOwn == ASSUME NEW server PROVE Own(NoPrograms, server)
  BY DEF Own, NoPrograms

(* What overrides and what is overridden belong to one server, so does the
   result. *)
LEMMA OverrideOwn ==
  ASSUME NEW server, NEW programs, NEW changed,
         Own(programs, server), Own(changed, server)
  PROVE  Own(Override(programs, changed), server)
  BY DEF Own, Override

LEMMA OverrideTypes ==
  ASSUME NEW changed \in Programs
  PROVE  /\ \A programs \in Programs : Override(programs, changed) \in Programs
         /\ Garbled \notin {changed[s] : s \in Services} =>
              \A programs \in Snapshots : Override(programs, changed) \in Snapshots
  BY DEF Override, Programs, Snapshots

LEMMA MergeFacts ==
  ASSUME NEW changes \in Changes, NEW more \in Changes
  PROVE  /\ Merge(changes, more) \in Changes
         /\ \A server : Own(changes.programs, server) /\ Own(more.programs, server)
                        => Own(Merge(changes, more).programs, server)
<1> DEFINE both == [full |-> FALSE,
                    programs |-> Override(changes.programs, more.programs),
                    services |-> changes.services \cup more.services]
<1>1. both \in Changes
  BY OverrideTypes DEF Changes
<1>2. Merge(changes, more) \in {Full, both}
  BY DEF Merge, Limited
<1>3. Merge(changes, more) \in Changes
  BY <1>1, <1>2, ConstantTypes
<1>4. ASSUME NEW server, Own(changes.programs, server), Own(more.programs, server)
      PROVE  Own(Merge(changes, more).programs, server)
  <2>1. Own(Full.programs, server)
    BY ConstantTypes, NothingIsOwn
  <2>2. Own(both.programs, server)
    BY <1>4, OverrideOwn
  <2>3. QED
    BY <1>2, <2>1, <2>2
<1>5. QED
  BY <1>3, <1>4

(* An event concerns the server that sent it. *)
LEMMA NoticeFacts ==
  ASSUME NEW server \in Servers, NEW s \in Services, NEW version \in Versions \cup {Garbled},
         version = Garbled \/ version.of = server,
         NEW notice \in {ProgramEvent(s, version), Full, ServiceEvent(s)}
  PROVE  notice \in Changes /\ Own(notice.programs, server)
<1>1. CASE notice = ProgramEvent(s, version)
  BY <1>1 DEF ProgramEvent, NoChanges, NoPrograms, Changes, Programs, Own
<1>2. CASE notice = Full
  BY <1>2, ConstantTypes, NothingIsOwn
<1>3. CASE notice = ServiceEvent(s)
  <2>1. notice = [full |-> FALSE, programs |-> NoPrograms, services |-> {s}]
    BY <1>3 DEF ServiceEvent, NoChanges
  <2>2. QED
    BY <2>1, ConstantTypes, NothingIsOwn DEF Changes
<1>4. QED
  BY <1>1, <1>2, <1>3

----------------------------------------------------------------------------
(* The guide. *)

(* The changes of a guide that keep its visit: what it works for, and the
   state of its request. *)
SameVisit(g, h) ==
  /\ h \in Guides
  /\ h.desired = g.desired /\ h.generation = g.generation /\ h.acq = g.acq
OwnGuide(g) == Own(g.snapshot, g.desired) /\ Own(g.deferred, g.desired)

LEMMA ApplyDeferredFacts ==
  ASSUME NEW g \in Guides, OwnGuide(g)
  PROVE  SameVisit(g, ApplyDeferred(g)) /\ OwnGuide(ApplyDeferred(g))
<1>1. CASE Garbled \in {g.deferred[s] : s \in Services}
  <2>1. ApplyDeferred(g) = [g EXCEPT !.deferred = NoPrograms, !.refresh = TRUE]
    BY <1>1 DEF ApplyDeferred
  <2>2. QED
    BY <2>1, ConstantTypes, NothingIsOwn, ZenonT(60) DEF Guides, SameVisit, OwnGuide
<1>2. CASE Garbled \notin {g.deferred[s] : s \in Services}
  <2>1. ApplyDeferred(g) =
          [g EXCEPT !.deferred = NoPrograms, !.snapshot = Override(g.snapshot, g.deferred)]
    BY <1>2 DEF ApplyDeferred
  <2>2. Override(g.snapshot, g.deferred) \in Snapshots
    BY <1>2, OverrideTypes DEF Guides
  <2>3. Own(Override(g.snapshot, g.deferred), g.desired)
    BY OverrideOwn DEF OwnGuide
  <2>4. QED
    BY <2>1, <2>2, <2>3, ConstantTypes, NothingIsOwn DEF Guides, SameVisit, OwnGuide
<1>3. QED
  BY <1>1, <1>2

LEMMA RefreshInsteadFacts ==
  ASSUME NEW g \in Guides, Own(g.snapshot, g.desired)
  PROVE  SameVisit(g, RefreshInstead(g)) /\ OwnGuide(RefreshInstead(g))
  BY ConstantTypes, NothingIsOwn DEF RefreshInstead, Guides, SameVisit, OwnGuide

LEMMA EventsFacts ==
  ASSUME NEW g \in Guides, NEW changes \in Changes, OwnGuide(g),
         g.desired = Nothing \/ Own(changes.programs, g.desired)
  PROVE  SameVisit(g, Events(g, changes)) /\ OwnGuide(Events(g, changes))
<1> DEFINE kept == Deferring(g, changes)
           held == IF Overflows(kept) THEN RefreshInstead(kept) ELSE kept
<1>1. CASE g.desired = Nothing
  BY <1>1 DEF Events, SameVisit
<1>2. CASE g.desired # Nothing /\ changes.full
  <2>1. Events(g, changes) = RefreshInstead(g)
    BY <1>2 DEF Events
  <2>2. QED
    BY <2>1, RefreshInsteadFacts DEF OwnGuide
<1>3. CASE g.desired # Nothing /\ ~changes.full
  <2>1. Events(g, changes) = IF g.acq = "idle" THEN ApplyDeferred(held) ELSE held
    BY <1>3 DEF Events
  <2>2. /\ Override(g.deferred, changes.programs) \in Programs
        /\ Own(Override(g.deferred, changes.programs), g.desired)
    BY <1>3, OverrideTypes, OverrideOwn DEF Guides, Changes, OwnGuide
  <2>3. SameVisit(g, kept) /\ OwnGuide(kept)
    BY <2>2 DEF Deferring, Guides, Changes, SameVisit, OwnGuide
  <2>4. SameVisit(g, held) /\ OwnGuide(held)
    BY <2>3, RefreshInsteadFacts DEF SameVisit, OwnGuide
  <2>5. QED
    BY <2>1, <2>4, ApplyDeferredFacts DEF SameVisit
<1>4. QED
  BY <1>1, <1>2, <1>3

----------------------------------------------------------------------------
(* The subscription's worker.                                               *)

Budgets == [changes: 0 .. MaxChanges, faults: 0 .. MaxFaults, connects: 0 .. MaxConnects]

LEMMA FaultFacts ==
  ASSUME budget \in Budgets, Fault
  PROVE  budget' \in Budgets /\ budget'.changes = budget.changes
<1>1. budget.faults - 1 \in 0 .. MaxFaults
  BY GuideAssumption DEF Budgets, Fault
<1>2. QED
  BY <1>1 DEF Budgets, Fault

LEMMA ConstantRecords ==
  /\ NoStream \in Streams /\ NoSub \in Subs /\ NoJob \in Jobs /\ NoGuide \in Guides
  /\ NoStream.phase = "none" /\ NoStream.wire = <<>> /\ NoStream.changes = NoChanges
  BY ConstantTypes
     DEF NoStream, Streams, Phases, NoSub, Subs, NoJob, Jobs, NoGuide, Guides

(* What the worker does only concerns its own state and the notifications. *)
LEMMA WorkerFrame ==
  ASSUME VisitInv, UNCHANGED <<world, catalog, guide, job>>, UNCHANGED budget \/ Fault,
         stream' \in Streams, sub' \in Subs, sub'.desired = sub.desired, StreamInv', SubInv'
  PROVE  VisitInv'
<1>1. budget' \in Budgets /\ budget'.changes = budget.changes
  BY FaultFacts DEF VisitInv, TypeOK, Budgets
<1>2. TypeOK'
  BY <1>1 DEF VisitInv, TypeOK, Budgets
<1>3. Spent' /\ WorldInv' /\ GuideInv' /\ JobInv'
  BY <1>1 DEF VisitInv, Spent, WorldInv, GuideInv, JobInv
<1>4. QED
  BY <1>2, <1>3 DEF VisitInv

(* A step that only moves the worker on, or discards what it had. *)
LEMMA WorkerMoves ==
  ASSUME VisitInv, UNCHANGED <<world, catalog, sub, guide, job>>, UNCHANGED budget \/ Fault,
         stream' \in Streams, stream'.server = stream.server,
         stream.phase \notin {"none", "leaving", "panicked"},
         stream'.phase \notin {"none", "leaving", "panicked"},
         stream'.changes \in {stream.changes, NoChanges, Full},
         stream'.wire \in {stream.wire, <<>>}
  PROVE  VisitInv'
<1>1. StreamInv'
  BY ConstantTypes, NothingIsOwn DEF VisitInv, StreamInv
<1>2. SubInv'
  BY DEF VisitInv, SubInv
<1>3. sub' \in Subs /\ sub'.desired = sub.desired
  BY DEF VisitInv, TypeOK
<1>4. QED
  BY <1>1, <1>2, <1>3, WorkerFrame

LEMMA WorkerSteps ==
  ASSUME VisitInv, Connected \/ Reprobe \/ Failed \/ Retry
  PROVE  VisitInv'
<1> USE ConstantTypes DEF VisitInv, TypeOK, Streams, Phases
<1>1. CASE Connected
  BY <1>1, WorkerMoves DEF Connected
<1>2. CASE Reprobe
  BY <1>2, WorkerMoves DEF Reprobe
<1>3. CASE Failed
  <2>1. stream' \in Streams
    <3>1. <<>> \in Seq(Changes)
      OBVIOUS
    <3>2. QED
      BY <1>3, <3>1 DEF Failed, Broken
  <2>2. QED
    BY <1>3, <2>1, WorkerMoves DEF Failed, Broken
<1>4. CASE Retry
  BY <1>4, WorkerMoves DEF Retry
<1>5. QED
  BY <1>1, <1>2, <1>3, <1>4

LEMMA NotFoundStep ==
  ASSUME VisitInv, NotFound, UNCHANGED budget \/ Fault
  PROVE  VisitInv'
<1> USE DEF VisitInv, TypeOK, Streams, Phases
<1>1. UNCHANGED <<world, catalog, guide, job>>
  BY DEF NotFound
<1>2. CASE /\ sub' = [sub EXCEPT !.pending = Full]
           /\ stream' = [stream EXCEPT !.established = FALSE, !.endpoint = "array"]
  <2>1. sub' \in Subs /\ sub'.desired = sub.desired
    BY <1>2, ConstantTypes DEF Subs
  <2>2. StreamInv'
    BY <1>2 DEF StreamInv
  <2>3. SubInv'
    BY <1>2, ConstantTypes, NothingIsOwn DEF SubInv, Subs
  <2>4. QED
    BY <1>1, <1>2, <2>1, <2>2, <2>3, WorkerFrame
<1>3. CASE /\ stream' = [stream EXCEPT !.endpoint = "sse"]
           /\ UNCHANGED sub
  BY <1>1, <1>3, WorkerMoves DEF NotFound
<1>4. CASE /\ stream' = [stream EXCEPT !.phase = "unsupported", !.changes = NoChanges,
                                       !.dirty = FALSE]
           /\ UNCHANGED sub
  BY <1>1, <1>4, ConstantTypes, WorkerMoves DEF NotFound
<1>5. QED
  BY <1>2, <1>3, <1>4 DEF NotFound

LEMMA DecodeStep == ASSUME VisitInv, Decode PROVE VisitInv'
<1> DEFINE merged == Merge(stream.changes, Head(stream.wire))
<1>1. /\ stream' = [stream EXCEPT !.wire = Tail(stream.wire), !.changes = merged,
                                  !.dirty = TRUE]
      /\ stream.wire # <<>> /\ stream.phase = "receiving"
      /\ UNCHANGED <<world, catalog, sub, guide, job, budget>>
  BY DEF Decode
<1>2. stream \in Streams /\ stream.wire \in Seq(Changes) /\ stream.changes \in Changes
  BY DEF VisitInv, TypeOK, Streams
<1>3. /\ Head(stream.wire) \in Changes /\ Head(stream.wire) = stream.wire[1]
      /\ Tail(stream.wire) \in Seq(Changes)
      /\ Len(Tail(stream.wire)) = Len(stream.wire) - 1
      /\ \A i \in 1 .. Len(Tail(stream.wire)) : Tail(stream.wire)[i] = stream.wire[i + 1]
      /\ Len(stream.wire) \in Nat \ {0}
  BY <1>1, <1>2, HeadTailProperties
<1>4. merged \in Changes /\ Own(merged.programs, stream.server)
  <2>1. 1 \in 1 .. Len(stream.wire)
    BY <1>3
  <2>2. Own(stream.changes.programs, stream.server) /\ Own(Head(stream.wire).programs, stream.server)
    BY <1>3, <2>1 DEF VisitInv, StreamInv
  <2>3. QED
    BY <1>2, <1>3, <2>2, MergeFacts
<1>5. stream' \in Streams /\ stream'.server = stream.server /\ stream'.phase = "receiving"
  BY <1>1, <1>2, <1>3, <1>4 DEF Streams
<1>6. StreamInv'
  <2>1. stream'.changes = merged /\ stream'.wire = Tail(stream.wire)
    BY <1>1, <1>2 DEF Streams
  <2>2. \A i \in 1 .. Len(Tail(stream.wire)) : i + 1 \in 1 .. Len(stream.wire)
    BY <1>3
  <2>3. QED
    BY <1>3, <1>4, <1>5, <2>1, <2>2 DEF VisitInv, StreamInv
<1>7. SubInv' /\ sub' \in Subs
  BY <1>1, <1>5 DEF VisitInv, SubInv, TypeOK
<1>8. QED
  BY <1>1, <1>5, <1>6, <1>7, WorkerFrame

LEMMA FlushStep == ASSUME VisitInv, Flush PROVE VisitInv'
<1> DEFINE merged == Merge(sub.pending, stream.changes)
<1>1. stream \in Streams /\ sub \in Subs
  BY DEF VisitInv, TypeOK
<1>2. stream.server = sub.desired /\ sub.phase = "running"
  BY DEF VisitInv, SubInv, Flush
<1>3. merged \in Changes /\ Own(merged.programs, sub.desired)
  BY <1>1, <1>2, MergeFacts DEF VisitInv, StreamInv, SubInv, Streams, Subs
<1>4. sub' = [sub EXCEPT !.pending = merged]
  BY DEF Flush
<1>5. sub' \in Subs /\ sub'.desired = sub.desired /\ sub'.phase = sub.phase
  BY <1>1, <1>3, <1>4 DEF Subs
<1>6. stream' \in Streams /\ stream'.server = stream.server /\ stream'.phase = stream.phase
  BY <1>1, ConstantTypes DEF Streams, Flush
<1>7. StreamInv'
  BY <1>1, ConstantTypes, NothingIsOwn DEF VisitInv, StreamInv, Flush, Streams
<1>8. SubInv'
  BY <1>1, <1>3, <1>4, <1>5, <1>6 DEF VisitInv, SubInv, Subs
<1>9. QED
  BY <1>5, <1>6, <1>7, <1>8, WorkerFrame DEF Flush

(* A worker that is gone has nothing left. *)
LEMMA GoneFacts ==
  ASSUME stream' \in {NoStream, [NoStream EXCEPT !.phase = "panicked"],
                      [NoStream EXCEPT !.phase = "leaving"]}
  PROVE  stream' \in Streams /\ StreamInv'
<1>1. /\ stream' \in Streams
      /\ stream'.wire = <<>> /\ stream'.changes = NoChanges
  BY ConstantRecords DEF Streams, Phases
<1>2. QED
  BY <1>1, ConstantTypes, NothingIsOwn DEF StreamInv

LEMMA GoneSteps == ASSUME VisitInv, Panic \/ Left PROVE VisitInv'
<1>1. stream' \in Streams /\ StreamInv'
  BY GoneFacts DEF Panic, Left
<1>2. SubInv'
  BY DEF VisitInv, SubInv, Panic, Left, NoStream
<1>3. sub' \in Subs /\ sub'.desired = sub.desired
  BY DEF VisitInv, TypeOK, Panic, Left
<1>4. QED
  BY <1>1, <1>2, <1>3, WorkerFrame DEF Panic, Left

LEMMA SubscriptionStep == ASSUME VisitInv, Subscription PROVE VisitInv'
  BY WorkerSteps, NotFoundStep, DecodeStep, FlushStep, GoneSteps
     DEF Subscription, Missing, MissingForNow

----------------------------------------------------------------------------
(* Polls of the guide and its request.                                      *)

LEMMA GuideFrame ==
  ASSUME VisitInv, UNCHANGED <<world, catalog, stream, sub, budget>>,
         guide' \in Guides, job' \in Jobs, GuideInv', JobInv'
  PROVE  VisitInv'
  BY DEF VisitInv, TypeOK, Spent, WorldInv, StreamInv, SubInv

LEMMA CompletedFacts ==
  ASSUME VisitInv
  PROVE  /\ Completed(guide) \in Guides /\ OwnGuide(Completed(guide))
         /\ Completed(guide).desired = guide.desired
         /\ Completed(guide).generation = guide.generation
         /\ Completed(guide).acq = IF job.state = "finished" THEN "idle" ELSE guide.acq
<1>1. guide \in Guides /\ job \in Jobs /\ OwnGuide(guide)
  BY DEF VisitInv, TypeOK, GuideInv, OwnGuide
<1>2. CASE job.state # "finished"
  BY <1>1, <1>2 DEF Completed
<1>3. CASE job.state = "finished" /\ guide.acq = "cancelling"
  <2>1. Completed(guide) = [guide EXCEPT !.acq = "idle"]
    BY <1>3 DEF Completed
  <2>2. QED
    BY <1>1, <1>3, <2>1 DEF Guides, OwnGuide
<1>4. CASE job.state = "finished" /\ guide.acq = "fetching" /\ job.ok
  <2> DEFINE read == IF job.scope = "full" THEN job.programs
                     ELSE Override(guide.snapshot, job.programs)
             next == IF job.scope = "full" THEN "armed" ELSE guide.next
  <2>1. Completed(guide) = [guide EXCEPT !.acq = "idle", !.outcome = "ready",
                                         !.next = next, !.snapshot = read]
    BY <1>4 DEF Completed, Succeeded
  <2>2. read \in Snapshots
    BY <1>1 DEF Guides, Jobs, Snapshots, Override
  <2>3. Own(job.programs, guide.desired)
    BY <1>4 DEF VisitInv, JobInv
  <2>4. Own(read, guide.desired)
    BY <1>1, <2>3, OverrideOwn DEF OwnGuide
  <2>5. next \in {"none", "armed"}
    BY <1>1 DEF Guides
  <2>6. QED
    BY <1>1, <1>4, <2>1, <2>2, <2>4, <2>5 DEF Guides, OwnGuide
<1>5. CASE job.state = "finished" /\ guide.acq = "fetching" /\ ~job.ok
  <2>1. PICK refresh \in BOOLEAN, services \in SUBSET Services :
          Completed(guide) = [guide EXCEPT !.acq = "idle", !.outcome = "failed",
                                           !.refresh = refresh, !.services = services]
    <3> DEFINE waiting == guide.services \cup (IF job.scope = "full" THEN {} ELSE {job.scope})
               over == Cardinality(waiting) > MaxServices
               refresh == guide.refresh \/ job.scope = "full" \/ over
               services == IF over THEN {} ELSE waiting
    <3>1. Completed(guide) = [guide EXCEPT !.acq = "idle", !.outcome = "failed",
                                           !.refresh = refresh, !.services = services]
      BY <1>5 DEF Completed, Refused
    <3>2. refresh \in BOOLEAN /\ services \in SUBSET Services
      BY <1>1 DEF Guides, Jobs
    <3> HIDE DEF refresh, services
    <3>3. QED
      BY <3>1, <3>2
  <2>2. QED
    BY <1>1, <1>5, <2>1 DEF Guides, OwnGuide
<1>6. guide.acq = "idle" => job.state = "none"
  BY DEF VisitInv, JobInv
<1>7. guide.acq \in {"idle", "fetching", "cancelling"}
  BY <1>1 DEF Guides
<1>8. QED
  BY <1>2, <1>3, <1>4, <1>5, <1>6, <1>7

LEMMA PollGuideStep == ASSUME VisitInv, NEW due \in BOOLEAN, PollGuide(due) PROVE VisitInv'
<1> DEFINE done == Completed(guide)
           g == IF done.acq = "idle" THEN ApplyDeferred(done) ELSE done
<1>1. SameVisit(done, g) /\ OwnGuide(g)
  BY CompletedFacts, ApplyDeferredFacts DEF SameVisit
<1>2. /\ g \in Guides /\ g.desired = guide.desired /\ g.generation = guide.generation
      /\ g.acq = IF job.state = "finished" THEN "idle" ELSE guide.acq
  BY <1>1, CompletedFacts DEF SameVisit
<1>3. /\ job \in Jobs /\ guide \in Guides
      /\ guide.desired \in (IF catalog = "listed" THEN {Nothing, sub.desired} ELSE {Nothing})
  BY DEF VisitInv, TypeOK, GuideInv
<1> HIDE DEF g, done
<1>4. ASSUME NEW scope \in {"full"} \cup Services, NEW services \in SUBSET Services,
             NEW refresh \in BOOLEAN, g.desired # Nothing,
             guide' = [g EXCEPT !.acq = "fetching", !.outcome = "waiting",
                                !.refresh = refresh, !.services = services],
             job' = Asking(g, scope), UNCHANGED <<catalog, sub>>
      PROVE  guide' \in Guides /\ job' \in Jobs /\ GuideInv' /\ JobInv'
  <2>1. guide' \in Guides /\ guide'.desired = g.desired /\ guide'.generation = g.generation
    BY <1>2, <1>4 DEF Guides
  <2>2. guide'.snapshot = g.snapshot /\ guide'.deferred = g.deferred /\ guide'.acq = "fetching"
    BY <1>2, <1>4 DEF Guides
  <2>3. job' = [state |-> "asked", scope |-> scope, server |-> g.desired,
                generation |-> g.generation, ok |-> FALSE, programs |-> NoPrograms]
    BY <1>4 DEF Asking, NoJob
  <2>4. job' \in Jobs
    BY <1>2, <2>3, ConstantTypes DEF Jobs, Guides
  <2>5. GuideInv'
    BY <1>1, <1>2, <1>3, <1>4, <2>1, <2>2 DEF GuideInv, OwnGuide
  <2>6. JobInv'
    BY <1>4, <2>1, <2>2, <2>3, NothingIsOwn DEF JobInv
  <2>7. QED
    BY <2>1, <2>4, <2>5, <2>6
<1>5. ASSUME guide' = g, job' = IF job.state = "finished" THEN NoJob ELSE job,
             UNCHANGED <<catalog, sub>>
      PROVE  guide' \in Guides /\ job' \in Jobs /\ GuideInv' /\ JobInv'
  <2>1. job' \in Jobs
    BY <1>3, <1>5, ConstantRecords
  <2>2. GuideInv'
    BY <1>1, <1>2, <1>3, <1>5 DEF GuideInv, OwnGuide
  <2>3. JobInv'
    <3>1. CASE job.state = "finished"
      BY <1>2, <1>5, <3>1, NothingIsOwn DEF JobInv, NoJob
    <3>2. CASE job.state # "finished"
      BY <1>2, <1>5, <3>2 DEF VisitInv, JobInv
    <3>3. QED
      BY <3>1, <3>2
  <2>4. QED
    BY <1>2, <1>5, <2>1, <2>2, <2>3
<1>6. /\ UNCHANGED <<world, catalog, stream, sub, budget>>
      /\ \/ /\ g.desired # Nothing
            /\ guide' = [g EXCEPT !.acq = "fetching", !.outcome = "waiting",
                                   !.refresh = FALSE, !.services = {}]
            /\ job' = Asking(g, "full")
         \/ \E s \in g.services :
              /\ g.desired # Nothing
              /\ guide' = [g EXCEPT !.acq = "fetching", !.outcome = "waiting",
                                    !.services = @ \ {s}]
              /\ job' = Asking(g, s)
         \/ /\ guide' = g
            /\ job' = IF job.state = "finished" THEN NoJob ELSE job
  BY DEF PollGuide, g, done
<1>7. guide' \in Guides /\ job' \in Jobs /\ GuideInv' /\ JobInv'
  <2>1. CASE /\ g.desired # Nothing
             /\ guide' = [g EXCEPT !.acq = "fetching", !.outcome = "waiting",
                                   !.refresh = FALSE, !.services = {}]
             /\ job' = Asking(g, "full")
    BY <1>4, <1>6, <2>1
  <2>2. ASSUME NEW s \in g.services, g.desired # Nothing,
               guide' = [g EXCEPT !.acq = "fetching", !.outcome = "waiting",
                                  !.services = @ \ {s}],
               job' = Asking(g, s)
        PROVE  guide' \in Guides /\ job' \in Jobs /\ GuideInv' /\ JobInv'
    <3>1. s \in Services /\ g.services \ {s} \in SUBSET Services /\ g.refresh \in BOOLEAN
      BY <1>2 DEF Guides
    <3>2. guide' = [g EXCEPT !.acq = "fetching", !.outcome = "waiting",
                             !.refresh = g.refresh, !.services = g.services \ {s}]
      BY <1>2, <2>2 DEF Guides
    <3>3. QED
      BY <1>4, <1>6, <2>2, <3>1, <3>2
  <2>3. QED
    BY <1>5, <1>6, <2>1, <2>2
<1>8. QED
  BY <1>6, <1>7, GuideFrame

LEMMA BackoffStep == ASSUME VisitInv, BackoffEnds PROVE VisitInv'
<1>1. /\ UNCHANGED <<world, catalog, stream, sub, job, budget>>
      /\ guide' = [guide EXCEPT !.outcome = "retry"]
  BY DEF BackoffEnds
<1>2. guide' \in Guides
  BY <1>1 DEF VisitInv, TypeOK, Guides
<1>3. job' \in Jobs
  BY <1>1 DEF VisitInv, TypeOK
<1>4. /\ guide'.desired = guide.desired /\ guide'.generation = guide.generation
      /\ guide'.acq = guide.acq /\ guide'.snapshot = guide.snapshot
      /\ guide'.deferred = guide.deferred
  BY <1>1 DEF VisitInv, TypeOK, Guides
<1>5. GuideInv' /\ JobInv'
  BY <1>1, <1>4 DEF VisitInv, GuideInv, JobInv
<1>6. QED
  BY <1>1, <1>2, <1>3, <1>5, GuideFrame

(* A request reads the programmes of the server it was sent to. *)
LEMMA RequestStep == ASSUME VisitInv, Request PROVE VisitInv'
<1>1. job \in Jobs /\ UNCHANGED <<world, catalog, stream, sub, guide>>
  BY DEF VisitInv, TypeOK, Request, Answer, RequestFails, TaskEnds
<1>2. budget' \in Budgets /\ budget'.changes = budget.changes
  BY FaultFacts DEF VisitInv, TypeOK, Budgets, Request, Answer, RequestFails, TaskEnds
<1>3. ASSUME job.state = "asked"
      PROVE  world[job.server] \in Snapshots /\ Own(world[job.server], job.server)
  <2>1. guide.acq = "fetching"
    BY <1>3 DEF VisitInv, JobInv, TypeOK, Guides
  <2>2. job.server \in Servers
    BY <2>1 DEF VisitInv, JobInv, TypeOK, Guides
  <2>3. QED
    BY <2>2 DEF VisitInv, TypeOK, WorldInv, Snapshots
<1>4. /\ job' \in Jobs /\ Own(job'.programs, job.server)
      /\ job'.server = job.server /\ job'.generation = job.generation
      /\ job.state \in {"asked", "leaving"} /\ job'.state = "finished"
  <2>1. CASE Answer
    <3> DEFINE read == [s \in Services |-> IF job.scope \in {"full", s}
                                          THEN world[job.server][s] ELSE Nothing]
    <3>1. read \in Snapshots /\ Own(read, job.server)
      BY <1>3, <2>1 DEF Answer, Snapshots, Own
    <3>2. job' = [job EXCEPT !.state = "finished", !.ok = TRUE, !.programs = read]
      BY <2>1 DEF Answer
    <3> HIDE DEF read
    <3>3. /\ job' \in Jobs /\ job'.programs = read /\ job'.state = "finished"
          /\ job'.server = job.server /\ job'.generation = job.generation
      BY <1>1, <3>1, <3>2 DEF Jobs
    <3>4. QED
      BY <2>1, <3>1, <3>3 DEF Answer
  <2>2. CASE RequestFails
    BY <1>1, <2>2 DEF Jobs, RequestFails, VisitInv, JobInv
  <2>3. CASE TaskEnds
    BY <1>1, <2>3 DEF Jobs, TaskEnds, VisitInv, JobInv
  <2>4. QED
    BY <2>1, <2>2, <2>3 DEF Request
<1>5. JobInv'
  BY <1>1, <1>4 DEF VisitInv, JobInv
<1>6. QED
  BY <1>1, <1>2, <1>4, <1>5
     DEF VisitInv, TypeOK, Budgets, Spent, WorldInv, StreamInv, SubInv, GuideInv

----------------------------------------------------------------------------
(* The GUI thread's calls.                                                  *)

LEMMA HoldEndsStep == ASSUME VisitInv, HoldEnds PROVE VisitInv'
<1>1. sub' \in Subs /\ sub'.desired = sub.desired /\ sub'.phase = sub.phase
      /\ sub'.pending = sub.pending
  BY DEF VisitInv, TypeOK, Subs, HoldEnds
<1>2. SubInv' /\ StreamInv' /\ stream' \in Streams
  BY <1>1 DEF VisitInv, TypeOK, SubInv, StreamInv, HoldEnds
<1>3. QED
  BY <1>1, <1>2, WorkerFrame DEF HoldEnds

(* Polling the events applies what this subscription handed over. *)
LEMMA EventsStep ==
  ASSUME VisitInv, UNCHANGED <<world, catalog, job, budget, stream>>,
         NEW phase \in {"running", "stopping"},
         sub.phase = "running", phase = "stopping" => stream.phase = "panicked",
         sub' = [sub EXCEPT !.pending = NoChanges, !.phase = phase],
         NEW changes \in {sub.pending, Full}, guide' = Events(guide, changes)
  PROVE  VisitInv'
<1>1. /\ sub \in Subs /\ guide \in Guides /\ OwnGuide(guide)
      /\ guide.desired \in {Nothing, sub.desired}
  BY DEF VisitInv, TypeOK, GuideInv, OwnGuide
<1>2. changes \in Changes /\ Own(changes.programs, sub.desired)
  BY <1>1, ConstantTypes, NothingIsOwn DEF VisitInv, SubInv, Subs
<1>3. SameVisit(guide, guide') /\ OwnGuide(guide')
  BY <1>1, <1>2, EventsFacts
<1>4. /\ sub' \in Subs /\ sub'.desired = sub.desired
      /\ sub'.pending = NoChanges /\ sub'.phase = phase
  BY <1>1, ConstantTypes DEF Subs
<1>5. SubInv' /\ StreamInv'
  BY <1>4, ConstantTypes, NothingIsOwn DEF VisitInv, SubInv, StreamInv
<1>6. GuideInv' /\ JobInv'
  BY <1>1, <1>3, <1>4 DEF VisitInv, GuideInv, JobInv, SameVisit, OwnGuide
<1>7. QED
  BY <1>3, <1>4, <1>5, <1>6 DEF VisitInv, TypeOK, Spent, WorldInv, SameVisit

LEMMA PollEventsStep == ASSUME VisitInv, PollEvents PROVE VisitInv'
<1>1. sub \in Subs /\ UNCHANGED <<world, catalog, job, budget>>
  BY DEF VisitInv, TypeOK, PollEvents
<1>2. CASE /\ sub.phase = "stopping" /\ stream.phase = "panicked"
           /\ sub' = [sub EXCEPT !.phase = "idle", !.held = TRUE]
           /\ stream' = NoStream
           /\ UNCHANGED guide
  <2>1. stream' \in Streams /\ StreamInv' /\ stream'.phase = "none"
    BY <1>2, GoneFacts, ConstantRecords
  <2>2. sub' \in Subs /\ sub'.desired = sub.desired /\ sub'.pending = sub.pending
        /\ sub'.phase = "idle"
    BY <1>1, <1>2 DEF Subs
  <2>3. SubInv'
    BY <2>1, <2>2 DEF VisitInv, SubInv
  <2>4. QED
    BY <1>1, <1>2, <2>1, <2>2, <2>3, WorkerFrame
<1>3. CASE /\ sub.phase # "running" /\ stream.phase = "none"
           /\ sub' = [sub EXCEPT !.phase = "running"]
           /\ stream' = [NoStream EXCEPT !.phase = "connecting", !.server = sub.desired]
           /\ UNCHANGED guide
  <2>1. /\ stream' \in Streams /\ stream'.phase = "connecting"
        /\ stream'.server = sub.desired /\ stream'.changes = NoChanges /\ stream'.wire = <<>>
    BY <1>1, <1>3, ConstantRecords DEF Streams, Phases, Subs
  <2>2. StreamInv'
    BY <2>1, ConstantTypes, NothingIsOwn DEF StreamInv
  <2>3. sub' \in Subs /\ sub'.desired = sub.desired /\ sub'.pending = sub.pending
        /\ sub'.phase = "running"
    BY <1>1, <1>3 DEF Subs
  <2>4. SubInv'
    BY <2>1, <2>3 DEF VisitInv, SubInv
  <2>5. QED
    BY <1>1, <1>3, <2>1, <2>2, <2>3, <2>4, WorkerFrame
<1>4. CASE /\ sub.phase # "running" /\ stream.phase = "none"
           /\ sub' = [sub EXCEPT !.phase = "idle"]
           /\ UNCHANGED <<stream, guide>>
  <2>1. sub' \in Subs /\ sub'.desired = sub.desired /\ sub'.pending = sub.pending
        /\ sub'.phase = "idle"
    BY <1>1, <1>4 DEF Subs
  <2>2. SubInv' /\ StreamInv' /\ stream' \in Streams
    BY <1>4, <2>1 DEF VisitInv, TypeOK, SubInv, StreamInv
  <2>3. QED
    BY <1>1, <1>4, <2>1, <2>2, WorkerFrame
<1>5. CASE /\ sub.phase = "running" /\ stream.phase # "panicked"
           /\ sub' = [sub EXCEPT !.pending = NoChanges]
           /\ guide' = Events(guide, sub.pending)
           /\ UNCHANGED stream
  <2>1. sub' = [sub EXCEPT !.pending = NoChanges, !.phase = "running"]
    BY <1>1, <1>5 DEF Subs
  <2>2. QED
    BY <1>1, <1>5, <2>1, EventsStep
<1>6. CASE /\ sub.phase = "running" /\ stream.phase = "panicked"
           /\ sub' = [sub EXCEPT !.pending = NoChanges, !.phase = "stopping"]
           /\ guide' = Events(guide, Full)
           /\ UNCHANGED stream
  BY <1>1, <1>6, EventsStep
<1>7. QED
  BY <1>2, <1>3, <1>4, <1>5, <1>6 DEF PollEvents

(* Subscribing to another server leaves nothing of the old one. *)
LEMMA ResubscribedFacts ==
  ASSUME VisitInv, NEW server \in Servers \cup {Nothing},
         sub' = Resubscribed(server), stream' = Stopped
  PROVE  /\ sub' \in Subs /\ sub'.desired = server /\ SubInv'
         /\ stream' \in Streams /\ StreamInv'
<1>1. /\ sub' \in Subs /\ sub'.desired = server /\ sub'.pending = NoChanges
      /\ sub'.phase # "running"
  BY ConstantRecords, ConstantTypes DEF Resubscribed, NoSub, Subs
<1>2. CASE sub.phase = "running" /\ stream.phase # "panicked"
  <2>1. stream' = [NoStream EXCEPT !.phase = "leaving"]
    BY <1>2 DEF Stopped
  <2>2. stream' \in Streams /\ StreamInv'
    BY <2>1, GoneFacts
  <2>3. stream'.phase = "leaving"
    BY <2>1 DEF NoStream
  <2>4. QED
    BY <1>1, <2>2, <2>3, ConstantTypes, NothingIsOwn DEF SubInv
<1>3. CASE ~(sub.phase = "running" /\ stream.phase # "panicked")
  <2>1. UNCHANGED stream
    BY <1>3 DEF Stopped
  <2>2. QED
    BY <1>1, <1>3, <2>1, ConstantTypes, NothingIsOwn
       DEF VisitInv, TypeOK, SubInv, StreamInv
<1>4. QED
  BY <1>2, <1>3

(* A guide that works for another server has nothing of the old one, and its
   request is cancelled. *)
LEMMA ConfiguredFacts ==
  ASSUME VisitInv, NEW server \in Servers \cup {Nothing},
         guide' = Configured(guide, server), job' = Cancelled(guide, server)
  PROVE  /\ guide' \in Guides /\ guide'.desired = server /\ OwnGuide(guide')
         /\ job' \in Jobs /\ JobInv'
<1>1. guide \in Guides /\ job \in Jobs /\ OwnGuide(guide) /\ JobInv
  BY DEF VisitInv, TypeOK, GuideInv, OwnGuide
<1>2. CASE guide.desired = server
  BY <1>1, <1>2 DEF Configured, Cancelled, JobInv
<1>3. CASE guide.desired # server
  <2> DEFINE acq == IF guide.acq = "idle" THEN "idle" ELSE "cancelling"
  <2>1. guide' = [NoGuide EXCEPT !.desired = server, !.generation = guide.generation + 1,
                                 !.acq = acq]
    BY <1>3 DEF Configured
  <2>2. guide.generation + 1 \in Nat
    BY <1>1 DEF Guides
  <2>3. /\ guide' \in Guides /\ guide'.desired = server /\ guide'.acq = acq
        /\ guide'.snapshot = NoPrograms /\ guide'.deferred = NoPrograms
    BY <2>1, <2>2, ConstantTypes DEF NoGuide, Guides
  <2>4. job' = IF guide.acq = "fetching" THEN [NoJob EXCEPT !.state = "leaving"] ELSE job
    BY <1>3 DEF Cancelled
  <2>5. job' \in Jobs
    BY <1>1, <2>4, ConstantRecords DEF Jobs
  <2>6. JobInv'
    <3>1. CASE guide.acq = "fetching"
      <4>1. job'.state = "leaving" /\ job'.programs = NoPrograms
        BY <2>4, <3>1 DEF NoJob
      <4>2. QED
        BY <2>3, <3>1, <4>1, NothingIsOwn DEF JobInv
    <3>2. CASE guide.acq # "fetching"
      BY <1>1, <2>3, <2>4, <3>2 DEF JobInv, Guides
    <3>3. QED
      BY <3>1, <3>2
  <2>7. QED
    BY <2>3, <2>5, <2>6, NothingIsOwn DEF OwnGuide
<1>4. QED
  BY <1>2, <1>3

LEMMA ConnectStep == ASSUME VisitInv, Connect PROVE VisitInv'
<1>1. budget' \in Budgets /\ budget'.changes = budget.changes /\ UNCHANGED world
  <2>1. budget.connects > 0 /\ budget' = [budget EXCEPT !.connects = @ - 1]
    BY DEF Connect
  <2>2. budget.connects - 1 \in 0 .. MaxConnects
    BY <2>1, GuideAssumption DEF VisitInv, TypeOK
  <2>3. QED
    BY <2>1, <2>2 DEF VisitInv, TypeOK, Budgets, Connect
<1>2. CASE /\ guide' = guide \/ guide' = [guide EXCEPT !.refresh = TRUE]
           /\ UNCHANGED <<catalog, stream, sub, job>>
  <2>1. /\ guide' \in Guides /\ guide'.desired = guide.desired
        /\ guide'.generation = guide.generation /\ guide'.acq = guide.acq
        /\ guide'.snapshot = guide.snapshot /\ guide'.deferred = guide.deferred
    BY <1>2 DEF VisitInv, TypeOK, Guides
  <2>2. QED
    BY <1>1, <1>2, <2>1
       DEF VisitInv, TypeOK, Budgets, Spent, WorldInv, StreamInv, SubInv, GuideInv, JobInv
<1>3. ASSUME NEW server \in Servers, NEW ok \in BOOLEAN,
             catalog' = (IF ok THEN "candidate" ELSE "none"),
             sub' = Resubscribed(IF ok THEN server ELSE Nothing), stream' = Stopped,
             guide' = Configured(guide, Nothing), job' = Cancelled(guide, Nothing)
      PROVE  VisitInv'
  <2>1. sub' \in Subs /\ SubInv' /\ stream' \in Streams /\ StreamInv'
    BY <1>3, ResubscribedFacts
  <2>2. /\ guide' \in Guides /\ guide'.desired = Nothing /\ OwnGuide(guide')
        /\ job' \in Jobs /\ JobInv'
    BY <1>3, ConfiguredFacts
  <2>3. QED
    BY <1>1, <1>3, <2>1, <2>2
       DEF VisitInv, TypeOK, Budgets, Spent, WorldInv, GuideInv, OwnGuide
<1>4. QED
  BY <1>2, <1>3 DEF Connect

LEMMA CatalogSteps == ASSUME VisitInv, CatalogAnswers \/ CatalogFails PROVE VisitInv'
<1>1. budget' \in Budgets /\ budget'.changes = budget.changes /\ UNCHANGED world
  BY FaultFacts DEF VisitInv, TypeOK, Budgets, CatalogAnswers, CatalogFails
<1>2. CASE CatalogAnswers
  <2>1. PICK listed \in BOOLEAN :
          /\ catalog' = IF listed THEN "listed" ELSE "empty"
          /\ guide' = Configured(guide, IF listed THEN sub.desired ELSE Nothing)
          /\ job' = Cancelled(guide, IF listed THEN sub.desired ELSE Nothing)
    BY <1>2 DEF CatalogAnswers
  <2> DEFINE server == IF listed THEN sub.desired ELSE Nothing
  <2>2. server \in Servers \cup {Nothing} /\ UNCHANGED <<stream, sub>>
    BY <1>2 DEF VisitInv, TypeOK, Subs, CatalogAnswers
  <2>3. /\ guide' \in Guides /\ guide'.desired = server /\ OwnGuide(guide')
        /\ job' \in Jobs /\ JobInv'
    BY <2>1, <2>2, ConfiguredFacts
  <2>4. QED
    BY <1>1, <2>1, <2>2, <2>3
       DEF VisitInv, TypeOK, Budgets, Spent, WorldInv, StreamInv, SubInv, GuideInv, OwnGuide
<1>3. CASE CatalogFails
  <2>1. /\ catalog' = "none" /\ catalog = "candidate"
        /\ sub' = Resubscribed(Nothing) /\ stream' = Stopped /\ UNCHANGED <<guide, job>>
    BY <1>3 DEF CatalogFails
  <2>2. /\ sub' \in Subs /\ sub'.desired = Nothing /\ SubInv'
        /\ stream' \in Streams /\ StreamInv'
    BY <2>1, ResubscribedFacts
  <2>3. GuideInv' /\ JobInv'
    BY <2>1, <2>2 DEF VisitInv, GuideInv, JobInv
  <2>4. QED
    BY <1>1, <2>1, <2>2, <2>3 DEF VisitInv, TypeOK, Budgets, Spent, WorldInv
<1>4. QED
  BY <1>2, <1>3

(* A server's change carries its name to the stream that is connected to it,
   and is paid for. *)
LEMMA ServerChangesStep == ASSUME VisitInv, ServerChanges PROVE VisitInv'
<1>1. PICK server \in Servers, s \in Services :
        LET version == Version(server, world[server][s].number + 1)
        IN /\ world' = [world EXCEPT ![server][s] = version]
           /\ \/ /\ stream.phase = "receiving" /\ stream.server = server
                 /\ budget' = [budget EXCEPT !.changes = @ - 1]
                 /\ \E notice \in Notices(server, s, version) :
                      stream' = [stream EXCEPT !.wire = Append(@, notice)]
              \/ /\ stream.phase = "receiving" /\ stream.server = server
                 /\ budget.faults > 0
                 /\ budget' = [budget EXCEPT !.changes = @ - 1, !.faults = @ - 1]
                 /\ \E notice \in {ProgramEvent(s, Garbled)} :
                      stream' = [stream EXCEPT !.wire = Append(@, notice)]
              \/ /\ budget' = [budget EXCEPT !.changes = @ - 1]
                 /\ UNCHANGED stream
  BY Zenon DEF ServerChanges
<1> DEFINE version == Version(server, world[server][s].number + 1)
<1>2. /\ UNCHANGED <<catalog, sub, guide, job>> /\ budget.changes > 0
      /\ world \in [Servers -> [Services -> Versions]]
      /\ budget \in Budgets /\ stream \in Streams
  BY DEF VisitInv, TypeOK, Budgets, ServerChanges
<1>3. version \in Versions /\ version.of = server
      /\ version.number = world[server][s].number + 1
  <2>1. world[server][s].number \in Nat /\ world[server][s].number + budget.changes <= MaxChanges
    BY <1>2 DEF VisitInv, Spent, Versions
  <2>2. world[server][s].number + 1 \in 0 .. MaxChanges
    BY <1>2, <2>1, GuideAssumption DEF Budgets
  <2>3. QED
    BY <2>2 DEF Version, Versions
<1> HIDE DEF version
<1>4. world' = [world EXCEPT ![server][s] = version]
  BY <1>1 DEF version
<1>5. budget' \in Budgets /\ budget'.changes = budget.changes - 1
  <2>1. budget.changes - 1 \in 0 .. MaxChanges
    BY <1>2, GuideAssumption DEF Budgets
  <2>2. budget.faults > 0 => budget.faults - 1 \in 0 .. MaxFaults
    BY <1>2, GuideAssumption DEF Budgets
  <2>3. \/ budget' = [budget EXCEPT !.changes = @ - 1]
        \/ /\ budget.faults > 0
           /\ budget' = [budget EXCEPT !.changes = @ - 1, !.faults = @ - 1]
    BY <1>1
  <2>4. QED
    BY <1>2, <2>1, <2>2, <2>3 DEF Budgets
<1>6. world' \in [Servers -> [Services -> Versions]]
  BY <1>2, <1>3, <1>4
<1>7. Spent'
  <2> SUFFICES ASSUME NEW other \in Servers, NEW t \in Services
               PROVE  world'[other][t].number + budget'.changes <= MaxChanges
    BY DEF Spent
  <2>1. world[other][t].number + budget.changes <= MaxChanges /\ world[other][t].number \in Nat
    BY <1>2 DEF VisitInv, Spent, Versions
  <2>2. world'[other][t] = IF other = server /\ t = s THEN version ELSE world[other][t]
    BY <1>2, <1>4
  <2>3. budget.changes \in Nat
    BY <1>2, GuideAssumption DEF Budgets
  <2>4. QED
    BY <1>3, <1>5, <2>1, <2>2, <2>3, GuideAssumption
<1>8. WorldInv'
  BY <1>2, <1>3, <1>4 DEF VisitInv, WorldInv, Own
<1>9. stream' \in Streams /\ StreamInv' /\ stream'.phase = stream.phase
      /\ stream'.server = stream.server
  <2>1. CASE UNCHANGED stream
    BY <1>2, <2>1 DEF VisitInv, StreamInv
  <2>2. ASSUME NEW notice, notice \in Changes, Own(notice.programs, server),
               stream.server = server, stream' = [stream EXCEPT !.wire = Append(@, notice)]
        PROVE  /\ stream' \in Streams /\ StreamInv' /\ stream'.phase = stream.phase
               /\ stream'.server = stream.server
    <3>1. stream.wire \in Seq(Changes)
      BY <1>2 DEF Streams
    <3> DEFINE wire == Append(stream.wire, notice)
    <3>2. /\ wire \in Seq(Changes)
          /\ Len(wire) = Len(stream.wire) + 1 /\ Len(stream.wire) \in Nat
          /\ \A i \in 1 .. Len(stream.wire) : wire[i] = stream.wire[i]
          /\ wire[Len(stream.wire) + 1] = notice
      BY <2>2, <3>1, AppendProperties, LenProperties
    <3>3. stream' = [stream EXCEPT !.wire = wire]
      BY <2>2
    <3> HIDE DEF wire
    <3>4. /\ stream' \in Streams /\ stream'.wire = wire /\ stream'.phase = stream.phase
          /\ stream'.server = server /\ stream'.changes = stream.changes
      BY <1>2, <2>2, <3>2, <3>3 DEF Streams
    <3>5. \A i \in 1 .. Len(wire) : i = Len(stream.wire) + 1 \/ i \in 1 .. Len(stream.wire)
      BY <3>2
    <3>6. StreamInv'
      BY <2>2, <3>2, <3>4, <3>5 DEF VisitInv, StreamInv
    <3>7. QED
      BY <2>2, <3>4, <3>6
  <2>3. ASSUME NEW notice \in Notices(server, s, version)
        PROVE  notice \in Changes /\ Own(notice.programs, server)
    BY <1>3, <2>3, NoticeFacts DEF Notices
  <2>4. ProgramEvent(s, Garbled) \in Changes /\ Own(ProgramEvent(s, Garbled).programs, server)
    BY NoticeFacts
  <2>5. QED
    BY <1>1, <2>1, <2>2, <2>3, <2>4 DEF version
<1>10. SubInv' /\ GuideInv' /\ JobInv'
  BY <1>2, <1>9 DEF VisitInv, SubInv, GuideInv, JobInv
<1>11. QED
  BY <1>2, <1>5, <1>6, <1>7, <1>8, <1>9, <1>10 DEF VisitInv, TypeOK, Budgets

----------------------------------------------------------------------------
(* The theorems about the visit.                                            *)

LEMMA InitVisit == Init => VisitInv
<1> SUFFICES ASSUME Init PROVE VisitInv
  OBVIOUS
<1>1. 0 \in 0 .. MaxChanges /\ MaxChanges \in Nat
  BY GuideAssumption
<1>2. TypeOK
  BY <1>1, ConstantRecords, GuideAssumption DEF Init, TypeOK, Version, Versions
<1>3. Spent /\ WorldInv
  BY <1>1 DEF Init, Spent, WorldInv, Own, Version
<1>4. StreamInv /\ SubInv
  BY ConstantTypes, NothingIsOwn DEF Init, StreamInv, SubInv, NoStream, NoSub
<1>5. GuideInv /\ JobInv
  BY NothingIsOwn DEF Init, GuideInv, JobInv, NoGuide, NoJob
<1>6. QED
  BY <1>2, <1>3, <1>4, <1>5 DEF VisitInv

LEMMA NextVisit == VisitInv /\ [Next]_vars => VisitInv'
<1> SUFFICES ASSUME VisitInv, [Next]_vars PROVE VisitInv'
  OBVIOUS
<1>1. CASE Next
  BY <1>1, SubscriptionStep, RequestStep, PollEventsStep, HoldEndsStep, PollGuideStep,
     BackoffStep, ConnectStep, CatalogSteps, ServerChangesStep DEF Next
<1>2. CASE UNCHANGED vars
  BY <1>2 DEF vars, VisitInv, TypeOK, Spent, WorldInv, StreamInv, SubInv, GuideInv, JobInv
<1>3. QED
  BY <1>1, <1>2

(* Everything on its way to the guide carries the server its stage works for:
   the inductive invariant of the two theorems below. *)
THEOREM VisitInvariant == Spec => []VisitInv
  BY InitVisit, NextVisit, PTL DEF Spec

(* The worker, the controller, the guide and its request keep their types. *)
THEOREM GuideTypeCorrect == Spec => []TypeOK
<1>1. VisitInv => TypeOK
  BY DEF VisitInv
<1>2. QED
  BY <1>1, VisitInvariant, PTL

(* No response and no notification of another server, or of an earlier visit
   to this one, gets into the guide: for any servers, services and limits,
   and any number of failures and reconnections. *)
THEOREM GuideOnlyThisVisit == Spec => []OnlyThisVisit
<1>1. VisitInv => OnlyThisVisit
  BY DEF VisitInv, GuideInv, JobInv, OnlyThisVisit
<1>2. QED
  BY <1>1, VisitInvariant, PTL

----------------------------------------------------------------------------
(* What is on its way.  A change passes the wire, the gate, the hand-over   *)
(* and the deferred set; of two changes that speak of a service the later   *)
(* one decides.                                                             *)

Speaks(changes, s) ==
  changes.full \/ s \in changes.services \/ changes.programs[s] # Nothing

\* Applied, the change leaves the guide with this version, or with a request for it.
Tells(changes, s, version) ==
  \/ changes.full
  \/ s \in changes.services
  \/ changes.programs[s] \in {Garbled, version}

\* A request that covers the service will be sent whatever arrives.
Awaits(g, s) == g.refresh \/ s \in g.services \/ (g.next = "none" /\ g.acq # "fetching")

\* What the guide g shows once its request j is answered.
Shows(g, j, s, version) ==
  IF g.acq = "fetching" /\ j.scope \in {"full", s}
  THEN j.state = "finished" /\ j.ok => j.programs[s] = version
  ELSE g.snapshot[s] = version

Keeps(g, j, s, version) ==
  \/ Awaits(g, s)
  \/ g.deferred[s] \in {Garbled, version}
  \/ g.deferred[s] = Nothing /\ Shows(g, j, s, version)

InGuide(s, version) == guide.desired = Nothing \/ Keeps(guide, job, s, version)
InHand(s, version) ==
  Tells(sub.pending, s, version) \/ (~Speaks(sub.pending, s) /\ InGuide(s, version))
InGate(s, version) ==
  Tells(stream.changes, s, version) \/ (~Speaks(stream.changes, s) /\ InHand(s, version))
ToldBy(wire, s, version) ==
  \E i \in 1 .. Len(wire) : /\ Tells(wire[i], s, version)
                            /\ \A j \in 1 .. Len(wire) : j > i => ~Speaks(wire[j], s)
SilentOn(wire, s) == \A i \in 1 .. Len(wire) : ~Speaks(wire[i], s)
OnWire(s, version) ==
  ToldBy(stream.wire, s, version) \/ (SilentOn(stream.wire, s) /\ InGate(s, version))

\* While the stream is read, every service's version is on its way or there.
Underway ==
  stream.phase = "receiving" => \A s \in Services : OnWire(s, world[stream.server][s])

\* The order in which the guide refreshes, fetches and arms its timer.
Orderly ==
  /\ IF stream.phase = "receiving" THEN stream.server \in Servers ELSE stream.wire = <<>>
  /\ guide.acq = "idle" => guide.deferred = NoPrograms
  /\ guide.outcome = "ready" => guide.next = "armed"
  /\ guide.acq = "fetching" /\ job.scope # "full" => guide.next = "armed"
  /\ \A s \in Services : job.scope \notin {"full", s} => job.programs[s] = Nothing
  /\ job.state = "asked" => ~job.ok

(* Later changes decide over earlier ones, and too many become a refresh. *)
LEMMA MergeTells ==
  ASSUME NEW changes \in Changes, NEW more \in Changes, NEW s \in Services,
         NEW version \in Versions
  PROVE  /\ Tells(more, s, version) => Tells(Merge(changes, more), s, version)
         /\ ~Speaks(more, s) /\ Tells(changes, s, version)
              => Tells(Merge(changes, more), s, version)
         /\ ~Speaks(more, s) /\ ~Speaks(changes, s)
              => \/ Tells(Merge(changes, more), s, version)
                 \/ ~Speaks(Merge(changes, more), s)
<1> DEFINE both == [full |-> FALSE,
                    programs |-> Override(changes.programs, more.programs),
                    services |-> changes.services \cup more.services]
<1>1. Nothing # version /\ Nothing # Garbled
  BY VersionAssumption, GuideAssumption
<1>2. /\ both.programs[s] = IF more.programs[s] = Nothing THEN changes.programs[s]
                            ELSE more.programs[s]
      /\ both.services = changes.services \cup more.services
  BY DEF Override
<1>3. CASE Merge(changes, more) = Full
  BY <1>3, ConstantTypes DEF Tells
<1>4. CASE Merge(changes, more) = both /\ ~changes.full /\ ~more.full
  BY <1>1, <1>2, <1>4 DEF Tells, Speaks
<1>5. QED
  BY <1>3, <1>4 DEF Merge, Limited

LEMMA Constants ==
  ASSUME NEW s \in Services, NEW version
  PROVE  Tells(Full, s, version) /\ ~Speaks(NoChanges, s)
  BY ConstantTypes DEF Tells, Speaks, NoChanges, NoPrograms

----------------------------------------------------------------------------
(* The guide. *)

(* What an idle guide keeps survives being applied. *)
LEMMA ApplyDeferredKeeps ==
  ASSUME NEW g \in Guides, NEW j, NEW k, NEW s \in Services, NEW version \in Versions,
         g.acq = "idle", Keeps(g, j, s, version)
  PROVE  Keeps(ApplyDeferred(g), k, s, version)
<1>1. CASE Garbled \in {g.deferred[t] : t \in Services}
  <2>1. ApplyDeferred(g).refresh
    BY <1>1 DEF ApplyDeferred, Guides
  <2>2. QED
    BY <2>1 DEF Keeps, Awaits
<1>2. CASE Garbled \notin {g.deferred[t] : t \in Services}
  <2>1. ApplyDeferred(g) =
          [g EXCEPT !.deferred = NoPrograms, !.snapshot = Override(g.snapshot, g.deferred)]
    BY <1>2 DEF ApplyDeferred
  <2>2. /\ ApplyDeferred(g).deferred[s] = Nothing
        /\ ApplyDeferred(g).snapshot[s] = IF g.deferred[s] = Nothing THEN g.snapshot[s]
                                          ELSE g.deferred[s]
        /\ ApplyDeferred(g).refresh = g.refresh /\ ApplyDeferred(g).services = g.services
        /\ ApplyDeferred(g).next = g.next /\ ApplyDeferred(g).acq = "idle"
    BY <2>1 DEF Guides, NoPrograms, Override
  <2>3. g.deferred[s] # Garbled /\ version # Nothing
    BY <1>2, VersionAssumption
  <2>4. QED
    BY <2>2, <2>3 DEF Keeps, Awaits, Shows
<1>3. QED
  BY <1>1, <1>2

(* A notification that tells a version, or is silent, keeps it. *)
LEMMA EventsKeep ==
  ASSUME NEW g \in Guides, NEW changes \in Changes, NEW s \in Services,
         NEW version \in Versions, NEW j, g.desired # Nothing,
         \/ Tells(changes, s, version)
         \/ ~Speaks(changes, s) /\ Keeps(g, j, s, version)
  PROVE  Keeps(Events(g, changes), j, s, version)
<1> DEFINE kept == Deferring(g, changes)
           held == IF Overflows(kept) THEN RefreshInstead(kept) ELSE kept
<1>1. CASE changes.full
  <2>1. Events(g, changes).refresh
    BY <1>1 DEF Events, RefreshInstead, Guides
  <2>2. QED
    BY <2>1 DEF Keeps, Awaits
<1>2. CASE ~changes.full
  <2>1. Events(g, changes) = IF g.acq = "idle" THEN ApplyDeferred(held) ELSE held
    BY <1>2 DEF Events
  <2>2. /\ kept \in Guides /\ kept.acq = g.acq /\ kept.next = g.next
        /\ kept.snapshot = g.snapshot
        /\ kept.services = g.services \cup (changes.services \cap Listed)
        /\ kept.refresh = (g.refresh \/ ~(changes.services \subseteq Listed))
        /\ kept.deferred[s] = IF changes.programs[s] = Nothing THEN g.deferred[s]
                              ELSE changes.programs[s]
    <3>1. Override(g.deferred, changes.programs) \in Programs
      BY OverrideTypes DEF Guides, Changes
    <3>2. QED
      BY <3>1 DEF Deferring, Guides, Changes, Override
  <2>3. Keeps(kept, j, s, version)
    <3>1. version # Nothing /\ Garbled # Nothing
      BY VersionAssumption, GuideAssumption
    <3>2. QED
      BY <1>2, <2>2, <3>1 DEF Keeps, Awaits, Shows, Tells, Speaks
  <2>4. held \in Guides /\ held.acq = g.acq /\ Keeps(held, j, s, version)
    <3>1. CASE Overflows(kept)
      BY <2>2, <3>1, ConstantTypes DEF RefreshInstead, Guides, Keeps, Awaits
    <3>2. CASE ~Overflows(kept)
      BY <2>2, <2>3, <3>2
    <3>3. QED
      BY <3>1, <3>2
  <2>5. QED
    BY <2>1, <2>4, ApplyDeferredKeeps
<1>3. QED
  BY <1>1, <1>2 DEF Changes

(* So does the end of the request. *)
LEMMA CompletedKeeps ==
  ASSUME VisitInv, Orderly, NEW s \in Services, NEW version \in Versions,
         Keeps(guide, job, s, version)
  PROVE  Keeps(Completed(guide), job, s, version)
<1>1. guide \in Guides /\ job \in Jobs /\ (guide.acq = "idle" => job.state = "none")
  BY DEF VisitInv, TypeOK, JobInv
<1>2. CASE job.state # "finished"
  BY <1>2 DEF Completed
<1>3. CASE job.state = "finished" /\ guide.acq = "cancelling"
  <2>1. Completed(guide) = [guide EXCEPT !.acq = "idle"]
    BY <1>3 DEF Completed
  <2>2. QED
    BY <1>1, <1>3, <2>1 DEF Guides, Keeps, Awaits, Shows
<1>4. CASE job.state = "finished" /\ guide.acq = "fetching" /\ job.ok
  <2> DEFINE read == IF job.scope = "full" THEN job.programs
                     ELSE Override(guide.snapshot, job.programs)
             next == IF job.scope = "full" THEN "armed" ELSE guide.next
  <2>1. Completed(guide) = [guide EXCEPT !.acq = "idle", !.outcome = "ready",
                                         !.next = next, !.snapshot = read]
    BY <1>4 DEF Completed, Succeeded
  <2>2. read[s] = IF job.scope = "full" \/ job.programs[s] # Nothing THEN job.programs[s]
                  ELSE guide.snapshot[s]
    BY DEF Override
  <2>3. next = "armed"
    BY <1>4 DEF Orderly
  <2> HIDE DEF read, next
  <2>4. /\ Completed(guide).acq = "idle" /\ Completed(guide).snapshot = read
        /\ Completed(guide).deferred = guide.deferred
        /\ Completed(guide).refresh = guide.refresh
        /\ Completed(guide).services = guide.services
    BY <1>1, <2>1 DEF Guides
  <2>5. job.scope \notin {"full", s} => job.programs[s] = Nothing
    BY DEF Orderly
  <2>6. version # Nothing
    BY VersionAssumption
  <2>7. QED
    BY <1>4, <2>2, <2>4, <2>5, <2>6 DEF Keeps, Awaits, Shows
<1>5. CASE job.state = "finished" /\ guide.acq = "fetching" /\ ~job.ok
  <2> DEFINE waiting == guide.services \cup (IF job.scope = "full" THEN {} ELSE {job.scope})
             over == Cardinality(waiting) > MaxServices
             refresh == guide.refresh \/ job.scope = "full" \/ over
             services == IF over THEN {} ELSE waiting
  <2>1. Completed(guide) = [guide EXCEPT !.acq = "idle", !.outcome = "failed",
                                         !.refresh = refresh, !.services = services]
    BY <1>5 DEF Completed, Refused
  <2>2. refresh \/ s \in services \/ (s \notin guide.services /\ job.scope \notin {"full", s})
    OBVIOUS
  <2>3. (s \in guide.services => refresh \/ s \in services) /\ (guide.refresh => refresh)
    OBVIOUS
  <2> HIDE DEF refresh, services
  <2>4. /\ Completed(guide).acq = "idle" /\ Completed(guide).snapshot = guide.snapshot
        /\ Completed(guide).deferred = guide.deferred /\ Completed(guide).next = guide.next
        /\ Completed(guide).refresh = refresh /\ Completed(guide).services = services
    BY <1>1, <2>1 DEF Guides
  <2>5. QED
    BY <1>5, <2>2, <2>3, <2>4 DEF Keeps, Awaits, Shows
<1>6. guide.acq \in {"idle", "fetching", "cancelling"}
  BY <1>1 DEF Guides
<1>7. QED
  BY <1>1, <1>2, <1>3, <1>4, <1>5, <1>6

----------------------------------------------------------------------------
(* Orderly is preserved. *)

StreamOrder ==
  IF stream.phase = "receiving" THEN stream.server \in Servers ELSE stream.wire = <<>>
GuideOrder(g, j) ==
  /\ g.acq = "idle" => g.deferred = NoPrograms
  /\ g.outcome = "ready" => g.next = "armed"
  /\ g.acq = "fetching" /\ j.scope # "full" => g.next = "armed"
JobOrder(j) ==
  /\ \A s \in Services : j.scope \notin {"full", s} => j.programs[s] = Nothing
  /\ j.state = "asked" => ~j.ok

LEMMA OrderlyParts == Orderly <=> StreamOrder /\ GuideOrder(guide, job) /\ JobOrder(job)
  BY DEF Orderly, StreamOrder, GuideOrder, JobOrder

LEMMA OrderlyPartsNext ==
  Orderly' <=> StreamOrder' /\ GuideOrder(guide', job') /\ JobOrder(job')
  BY DEF Orderly, StreamOrder, GuideOrder, JobOrder

LEMMA IdleJob == JobOrder(NoJob) /\ \A state : JobOrder([NoJob EXCEPT !.state = state])
  BY DEF JobOrder, NoJob, NoPrograms

LEMMA ApplyDeferredOrder ==
  ASSUME NEW g \in Guides, NEW j, GuideOrder([g EXCEPT !.deferred = NoPrograms], j)
  PROVE  GuideOrder(ApplyDeferred(g), j)
  BY DEF ApplyDeferred, GuideOrder, Guides

LEMMA EventsOrder ==
  ASSUME NEW g \in Guides, NEW changes \in Changes, NEW j, GuideOrder(g, j)
  PROVE  GuideOrder(Events(g, changes), j)
<1> DEFINE kept == Deferring(g, changes)
           held == IF Overflows(kept) THEN RefreshInstead(kept) ELSE kept
<1>1. CASE g.desired = Nothing
  BY <1>1 DEF Events
<1>2. CASE g.desired # Nothing /\ changes.full
  BY <1>2 DEF Events, RefreshInstead, GuideOrder, Guides
<1>3. CASE g.desired # Nothing /\ ~changes.full
  <2>1. Events(g, changes) = IF g.acq = "idle" THEN ApplyDeferred(held) ELSE held
    BY <1>3 DEF Events
  <2>2. Override(g.deferred, changes.programs) \in Programs
    BY OverrideTypes DEF Guides, Changes
  <2>3. kept \in Guides /\ kept.acq = g.acq /\ kept.next = g.next /\ kept.outcome = g.outcome
    BY <2>2 DEF Deferring, Guides, Changes
  <2>4. held \in Guides /\ held.acq = g.acq /\ held.next = g.next /\ held.outcome = g.outcome
    BY <2>3, ConstantTypes DEF RefreshInstead, Guides
  <2> HIDE DEF held
  <2>5. CASE g.acq = "idle"
    <3>1. GuideOrder([held EXCEPT !.deferred = NoPrograms], j)
      BY <2>4, <2>5 DEF GuideOrder, Guides
    <3>2. QED
      BY <2>1, <2>4, <2>5, <3>1, ApplyDeferredOrder
  <2>6. CASE g.acq # "idle"
    BY <2>1, <2>4, <2>6 DEF GuideOrder
  <2>7. QED
    BY <2>5, <2>6
<1>4. QED
  BY <1>1, <1>2, <1>3

LEMMA CompletedOrder ==
  ASSUME VisitInv, Orderly
  PROVE  /\ Completed(guide).outcome = "ready" => Completed(guide).next = "armed"
         /\ job.state # "finished" => Completed(guide) = guide
<1>1. guide \in Guides /\ job \in Jobs /\ (guide.acq = "idle" => job.state = "none")
  BY DEF VisitInv, TypeOK, JobInv
<1>2. CASE job.state # "finished"
  BY <1>2 DEF Completed, Orderly
<1>3. CASE job.state = "finished" /\ guide.acq = "cancelling"
  BY <1>1, <1>3 DEF Completed, Orderly, Guides
<1>4. CASE job.state = "finished" /\ guide.acq = "fetching" /\ job.ok
  BY <1>1, <1>4 DEF Completed, Succeeded, Orderly, Guides
<1>5. CASE job.state = "finished" /\ guide.acq = "fetching" /\ ~job.ok
  <2>1. Completed(guide) = Refused(guide)
    BY <1>5 DEF Completed
  <2>2. Refused(guide).outcome = "failed"
    BY <1>1 DEF Refused, Guides
  <2>3. QED
    BY <1>5, <2>1, <2>2
<1>6. QED
  BY <1>1, <1>2, <1>3, <1>4, <1>5 DEF Guides

LEMMA SubscriptionOrderly == ASSUME VisitInv, Orderly, Subscription PROVE Orderly'
<1>1. UNCHANGED <<guide, job>>
  BY DEF Subscription, Connected, Missing, MissingForNow, NotFound, Reprobe, Failed, Retry,
         Decode, Flush, Panic, Left
<1>2. stream \in Streams /\ StreamOrder
  BY OrderlyParts DEF VisitInv, TypeOK
<1>3. CASE Connected
  <2>1. stream.server \in Servers
    BY <1>3 DEF Connected, Serves, Servers
  <2>2. stream'.phase = "receiving" /\ stream'.server = stream.server
    BY <1>2, <1>3 DEF Connected, Streams
  <2>3. QED
    BY <1>1, <2>1, <2>2, OrderlyParts, OrderlyPartsNext DEF StreamOrder
<1>4. CASE NotFound
  <2>1. stream'.phase \in {"connecting", "unsupported"} /\ stream'.wire = stream.wire
    BY <1>2, <1>4 DEF NotFound, Streams
  <2>2. QED
    BY <1>1, <1>2, <1>4, <2>1, OrderlyParts, OrderlyPartsNext DEF NotFound, StreamOrder
<1>5. CASE Reprobe \/ Retry
  <2>1. stream'.phase = "connecting" /\ stream'.wire = stream.wire
    BY <1>2, <1>5 DEF Reprobe, Retry, Streams
  <2>2. QED
    BY <1>1, <1>2, <1>5, <2>1, OrderlyParts, OrderlyPartsNext DEF Reprobe, Retry, StreamOrder
<1>6. CASE Failed
  <2>1. stream'.phase = "retrying" /\ stream'.wire = <<>>
    BY <1>2, <1>6 DEF Failed, Broken, Streams
  <2>2. QED
    BY <1>1, <2>1, OrderlyParts, OrderlyPartsNext DEF StreamOrder
<1>7. CASE Decode
  <2>1. stream'.phase = "receiving" /\ stream'.server = stream.server
    BY <1>2, <1>7 DEF Decode, Streams
  <2>2. QED
    BY <1>1, <1>2, <1>7, <2>1, OrderlyParts, OrderlyPartsNext DEF Decode, StreamOrder
<1>8. CASE Flush
  <2>1. /\ stream'.phase = stream.phase /\ stream'.server = stream.server
        /\ stream'.wire = stream.wire
    BY <1>2, <1>8 DEF Flush, Streams
  <2>2. QED
    BY <1>1, <1>2, <2>1, OrderlyParts, OrderlyPartsNext DEF StreamOrder
<1>9. CASE Panic \/ Left
  <2>1. stream'.phase \in {"panicked", "none"} /\ stream'.wire = <<>>
    BY <1>9 DEF Panic, Left, NoStream
  <2>2. QED
    BY <1>1, <2>1, OrderlyParts, OrderlyPartsNext DEF StreamOrder
<1>10. QED
  BY <1>3, <1>4, <1>5, <1>6, <1>7, <1>8, <1>9 DEF Subscription, Missing, MissingForNow

LEMMA RequestOrderly == ASSUME VisitInv, Orderly, Request PROVE Orderly'
<1>1. job \in Jobs /\ UNCHANGED <<stream, guide>> /\ JobOrder(job)
  BY OrderlyParts DEF VisitInv, TypeOK, Request, Answer, RequestFails, TaskEnds
<1>2. job'.scope = job.scope /\ JobOrder(job')
  <2>1. CASE Answer
    <3> DEFINE read == [s \in Services |-> IF job.scope \in {"full", s}
                                          THEN world[job.server][s] ELSE Nothing]
    <3>1. job' = [job EXCEPT !.state = "finished", !.ok = TRUE, !.programs = read]
      BY <2>1 DEF Answer
    <3> HIDE DEF read
    <3>2. job'.scope = job.scope /\ job'.programs = read /\ job'.state = "finished"
      BY <1>1, <3>1 DEF Jobs
    <3>3. \A s \in Services : job.scope \notin {"full", s} => read[s] = Nothing
      BY DEF read
    <3>4. QED
      BY <3>2, <3>3 DEF JobOrder
  <2>2. CASE RequestFails \/ TaskEnds
    BY <1>1, <2>2 DEF RequestFails, TaskEnds, Jobs, JobOrder
  <2>3. QED
    BY <2>1, <2>2 DEF Request
<1>3. QED
  BY <1>1, <1>2, OrderlyParts, OrderlyPartsNext DEF GuideOrder, StreamOrder

LEMMA PollGuideOrderly ==
  ASSUME VisitInv, Orderly, NEW due \in BOOLEAN, PollGuide(due)
  PROVE  Orderly'
<1> DEFINE done == Completed(guide)
           g == IF done.acq = "idle" THEN ApplyDeferred(done) ELSE done
           all == g.refresh \/ g.next = "none" \/ due
<1>1. /\ done \in Guides
      /\ done.acq = IF job.state = "finished" THEN "idle" ELSE guide.acq
      /\ done.outcome = "ready" => done.next = "armed"
      /\ job.state # "finished" => done = guide
  BY CompletedFacts, CompletedOrder
<1> HIDE DEF done
<1>2. /\ g \in Guides /\ g.acq = done.acq /\ g.next = done.next /\ g.outcome = done.outcome
      /\ g.acq = "idle" => g.deferred = NoPrograms
  <2>1. CASE done.acq = "idle"
    <3>1. OwnGuide(done)
      BY CompletedFacts DEF done
    <3>2. ApplyDeferred(done) \in Guides
      BY <1>1, <3>1, ApplyDeferredFacts DEF SameVisit
    <3>3. /\ ApplyDeferred(done).acq = done.acq /\ ApplyDeferred(done).next = done.next
          /\ ApplyDeferred(done).outcome = done.outcome
          /\ ApplyDeferred(done).deferred = NoPrograms
      BY <1>1 DEF ApplyDeferred, Guides
    <3>4. QED
      BY <2>1, <3>2, <3>3
  <2>2. CASE done.acq # "idle"
    BY <1>1, <2>2
  <2>3. QED
    BY <2>1, <2>2
<1> HIDE DEF g
<1>3. UNCHANGED stream
  BY DEF PollGuide
<1>4. CASE /\ guide' = [g EXCEPT !.acq = "fetching", !.outcome = "waiting",
                                 !.refresh = FALSE, !.services = {}]
           /\ job' = Asking(g, "full")
  <2>1. guide'.acq = "fetching" /\ guide'.outcome = "waiting" /\ job'.scope = "full" /\ ~job'.ok
    BY <1>2, <1>4 DEF Guides, Asking, NoJob
  <2>2. JobOrder(job')
    BY <2>1 DEF JobOrder
  <2>3. QED
    BY <1>3, <2>1, <2>2, OrderlyParts, OrderlyPartsNext DEF GuideOrder, StreamOrder
<1>5. ASSUME ~all, NEW s \in g.services,
             guide' = [g EXCEPT !.acq = "fetching", !.outcome = "waiting",
                                !.services = @ \ {s}],
             job' = Asking(g, s)
      PROVE  Orderly'
  <2>1. guide'.acq = "fetching" /\ guide'.outcome = "waiting" /\ guide'.next = "armed"
    BY <1>2, <1>5 DEF Guides
  <2>2. job'.programs = NoPrograms /\ ~job'.ok
    BY <1>5 DEF Asking, NoJob
  <2>3. JobOrder(job')
    BY <2>2 DEF JobOrder, NoPrograms
  <2>4. QED
    BY <1>3, <2>1, <2>3, OrderlyParts, OrderlyPartsNext DEF GuideOrder, StreamOrder
<1>6. CASE guide' = g /\ job' = IF job.state = "finished" THEN NoJob ELSE job
  <2>1. JobOrder(job')
    BY <1>6, IdleJob, OrderlyParts
  <2>2. GuideOrder(guide', job')
    BY <1>1, <1>2, <1>6, OrderlyParts DEF GuideOrder
  <2>3. QED
    BY <1>3, <2>1, <2>2, OrderlyParts, OrderlyPartsNext DEF StreamOrder
<1>7. QED
  BY <1>4, <1>5, <1>6 DEF PollGuide, g, done

LEMMA BackoffOrderly == ASSUME VisitInv, Orderly, BackoffEnds PROVE Orderly'
<1>1. /\ guide'.acq = guide.acq /\ guide'.deferred = guide.deferred
      /\ guide'.next = guide.next /\ guide'.outcome = "retry" /\ UNCHANGED <<stream, job>>
  BY DEF BackoffEnds, VisitInv, TypeOK, Guides
<1>2. QED
  BY <1>1, OrderlyParts, OrderlyPartsNext DEF GuideOrder, StreamOrder

LEMMA PollEventsOrderly == ASSUME VisitInv, Orderly, PollEvents PROVE Orderly'
<1>1. guide \in Guides /\ sub \in Subs /\ sub.pending \in Changes
  BY DEF VisitInv, TypeOK, Subs
<1>2. UNCHANGED job /\ guide' \in {guide, Events(guide, sub.pending), Events(guide, Full)}
  BY DEF PollEvents
<1>3. GuideOrder(guide', job')
  BY <1>1, <1>2, EventsOrder, ConstantTypes, OrderlyParts
<1>4. UNCHANGED stream \/ (stream'.phase # "receiving" /\ stream'.wire = <<>>)
  <2>1. stream' \in {stream, NoStream,
                     [NoStream EXCEPT !.phase = "connecting", !.server = sub.desired]}
    BY DEF PollEvents
  <2>2. NoStream.phase = "none" /\ NoStream.wire = <<>>
    BY DEF NoStream
  <2>3. [NoStream EXCEPT !.phase = "connecting", !.server = sub.desired].phase = "connecting"
    BY DEF NoStream
  <2>4. [NoStream EXCEPT !.phase = "connecting", !.server = sub.desired].wire = <<>>
    BY DEF NoStream
  <2>5. CASE stream' = [NoStream EXCEPT !.phase = "connecting", !.server = sub.desired]
    <3>1. stream'.phase = "connecting" /\ stream'.wire = <<>>
      BY ONLY <2>3, <2>4, <2>5
    <3>2. QED
      BY <3>1
  <2>6. CASE stream' \in {stream, NoStream}
    BY <2>2, <2>6
  <2>7. QED
    BY <2>1, <2>5, <2>6
<1>5. QED
  BY <1>2, <1>3, <1>4, OrderlyParts, OrderlyPartsNext DEF StreamOrder

LEMMA ConfiguredOrder ==
  ASSUME VisitInv, Orderly, NEW server
  PROVE  /\ GuideOrder(Configured(guide, server), Cancelled(guide, server))
         /\ JobOrder(Cancelled(guide, server))
<1>1. CASE guide.desired = server
  BY <1>1, OrderlyParts DEF Configured, Cancelled
<1>2. CASE guide.desired # server
  <2>1. /\ Configured(guide, server).acq \in {"idle", "cancelling"}
        /\ Configured(guide, server).outcome = "waiting"
        /\ Configured(guide, server).deferred = NoPrograms
    BY <1>2 DEF Configured, NoGuide
  <2>2. QED
    BY <2>1, IdleJob, OrderlyParts DEF GuideOrder, Cancelled
<1>3. QED
  BY <1>1, <1>2

LEMMA StoppedFacts ==
  ASSUME VisitInv, Orderly, stream' = Stopped
  PROVE  stream'.phase # "receiving" /\ stream'.wire = <<>>
<1>1. CASE sub.phase = "running" /\ stream.phase # "panicked"
  BY <1>1 DEF Stopped, NoStream
<1>2. CASE ~(sub.phase = "running" /\ stream.phase # "panicked")
  BY <1>2 DEF Stopped, VisitInv, SubInv, Orderly
<1>3. QED
  BY <1>1, <1>2

LEMMA UserOrderly ==
  ASSUME VisitInv, Orderly, Connect \/ CatalogAnswers \/ CatalogFails
  PROVE  Orderly'
<1>1. GuideOrder(guide', job') /\ JobOrder(job')
  <2>1. CASE guide' = [guide EXCEPT !.refresh = TRUE] /\ UNCHANGED job
    BY <2>1, OrderlyParts DEF VisitInv, TypeOK, Guides, GuideOrder
  <2>2. CASE UNCHANGED <<guide, job>>
    BY <2>2, OrderlyParts
  <2>3. CASE \E server : guide' = Configured(guide, server) /\ job' = Cancelled(guide, server)
    BY <2>3, ConfiguredOrder
  <2>4. QED
    BY <2>1, <2>2, <2>3 DEF Connect, CatalogAnswers, CatalogFails
<1>2. StreamOrder'
  BY StoppedFacts, OrderlyParts DEF Connect, CatalogAnswers, CatalogFails, StreamOrder
<1>3. QED
  BY <1>1, <1>2, OrderlyPartsNext

LEMMA ServerOrderly == ASSUME VisitInv, Orderly, ServerChanges PROVE Orderly'
<1>1. UNCHANGED <<guide, job>> /\ stream \in Streams
  BY DEF ServerChanges, VisitInv, TypeOK
<1>2. \/ UNCHANGED stream
      \/ /\ stream.phase = "receiving"
         /\ \E wire : stream' = [stream EXCEPT !.wire = wire]
  BY DEF ServerChanges
<1>3. StreamOrder'
  BY <1>1, <1>2, OrderlyParts DEF StreamOrder, Streams
<1>4. QED
  BY <1>1, <1>3, OrderlyParts, OrderlyPartsNext

LEMMA NextOrderly == ASSUME VisitInv, Orderly, [Next]_vars PROVE Orderly'
<1>1. CASE HoldEnds \/ UNCHANGED vars
  BY <1>1 DEF HoldEnds, vars, Orderly
<1>2. QED
  BY <1>1, SubscriptionOrderly, RequestOrderly, PollGuideOrderly, BackoffOrderly,
     PollEventsOrderly, UserOrderly, ServerOrderly DEF Next

----------------------------------------------------------------------------
(* Underway is preserved. *)

(* While the stream is read, everyone works for its server. *)
LEMMA Reading ==
  ASSUME VisitInv, Orderly, stream.phase = "receiving"
  PROVE  /\ stream.server \in Servers /\ sub.phase = "running"
         /\ guide.desired \in {Nothing, stream.server}
         /\ \A s \in Services : world[stream.server][s] \in Versions
<1>1. stream.server \in Servers /\ sub.phase = "running" /\ stream.server = sub.desired
  BY DEF VisitInv, SubInv, Orderly
<1>2. guide.desired \in {Nothing, sub.desired}
  BY DEF VisitInv, GuideInv
<1>3. QED
  BY <1>1, <1>2 DEF VisitInv, TypeOK

(* A step after which nothing of what is told is lost, at any stage from the
   hand-over on. *)
LEMMA HandFrame ==
  ASSUME VisitInv, Orderly, Underway, UNCHANGED <<world, stream>>,
         ASSUME NEW s \in Services, NEW version \in Versions, InHand(s, version),
                stream.phase = "receiving", version = world[stream.server][s]
         PROVE  InHand(s, version)'
  PROVE  Underway'
<1> SUFFICES ASSUME stream.phase = "receiving", NEW s \in Services
             PROVE  OnWire(s, world[stream.server][s])'
  BY DEF Underway
<1> DEFINE version == world[stream.server][s]
<1>1. version \in Versions /\ OnWire(s, version)
  BY Reading DEF Underway
<1>2. InHand(s, version) => InHand(s, version')
  BY <1>1
<1>3. QED
  BY <1>1, <1>2 DEF OnWire, InGate

(* The same from the guide on. *)
LEMMA GuideKeeps ==
  ASSUME VisitInv, Orderly, Underway, UNCHANGED <<world, stream>>,
         sub'.pending = sub.pending,
         ASSUME NEW s \in Services, NEW version \in Versions,
                Keeps(guide, job, s, version), guide.desired # Nothing,
                stream.phase = "receiving", version = world[stream.server][s]
         PROVE  Keeps(guide', job', s, version),
         guide'.desired = guide.desired
  PROVE  Underway'
<1>1. ASSUME NEW s \in Services, NEW version \in Versions, InHand(s, version),
             stream.phase = "receiving", version = world[stream.server][s]
      PROVE  InHand(s, version)'
  <2>1. InGuide(s, version) => guide'.desired = Nothing \/ Keeps(guide', job', s, version)
    BY <1>1 DEF InGuide
  <2>2. QED
    BY <1>1, <2>1 DEF InHand, InGuide
<1>2. QED
  BY <1>1, HandFrame

LEMMA DecodeUnderway == ASSUME VisitInv, Orderly, Underway, Decode PROVE Underway'
<1> DEFINE merged == Merge(stream.changes, Head(stream.wire))
           rest == Tail(stream.wire)
<1>1. /\ stream' = [stream EXCEPT !.wire = rest, !.changes = merged, !.dirty = TRUE]
      /\ stream.wire # <<>> /\ stream.phase = "receiving"
      /\ UNCHANGED <<world, catalog, sub, guide, job, budget>>
  BY DEF Decode
<1>2. stream \in Streams /\ stream.wire \in Seq(Changes) /\ stream.changes \in Changes
  BY DEF VisitInv, TypeOK, Streams
<1>3. /\ Head(stream.wire) \in Changes /\ Head(stream.wire) = stream.wire[1]
      /\ Len(rest) = Len(stream.wire) - 1
      /\ \A i \in 1 .. Len(rest) : rest[i] = stream.wire[i + 1]
      /\ Len(stream.wire) \in Nat \ {0}
  BY <1>1, <1>2, HeadTailProperties
<1> HIDE DEF merged, rest
<1>4. /\ stream'.wire = rest /\ stream'.changes = merged /\ stream'.server = stream.server
  BY <1>1, <1>2 DEF Streams
<1> SUFFICES ASSUME NEW s \in Services
             PROVE  OnWire(s, world[stream.server][s])'
  BY DEF Underway
<1> DEFINE version == world[stream.server][s]
<1>5. version \in Versions /\ OnWire(s, version) /\ version' = version
  BY <1>1, <1>4, Reading DEF Underway
<1> HIDE DEF version
<1>6. InHand(s, version) => InHand(s, version)'
  BY <1>1, <1>5 DEF InHand, InGuide
<1>7. CASE \E i \in 2 .. Len(stream.wire) :
             /\ Tells(stream.wire[i], s, version)
             /\ \A j \in 1 .. Len(stream.wire) : j > i => ~Speaks(stream.wire[j], s)
  <2>1. PICK i \in 2 .. Len(stream.wire) :
             /\ Tells(stream.wire[i], s, version)
             /\ \A j \in 1 .. Len(stream.wire) : j > i => ~Speaks(stream.wire[j], s)
    BY <1>7
  <2>2. i - 1 \in 1 .. Len(rest) /\ rest[i - 1] = stream.wire[i]
    BY <1>3
  <2>3. \A j \in 1 .. Len(rest) : j > i - 1 => ~Speaks(rest[j], s)
    <3> SUFFICES ASSUME NEW j \in 1 .. Len(rest), j > i - 1 PROVE ~Speaks(rest[j], s)
      OBVIOUS
    <3>1. j + 1 \in 1 .. Len(stream.wire) /\ j + 1 > i /\ rest[j] = stream.wire[j + 1]
      BY <1>3
    <3>2. QED
      BY <2>1, <3>1
  <2>4. ToldBy(rest, s, version)
    BY <2>1, <2>2, <2>3 DEF ToldBy
  <2>5. QED
    BY <1>4, <1>5, <2>4 DEF OnWire, version
<1>8. CASE /\ \A j \in 2 .. Len(stream.wire) : ~Speaks(stream.wire[j], s)
           /\ \/ Tells(Head(stream.wire), s, version)
              \/ ~Speaks(Head(stream.wire), s) /\ InGate(s, version)
  <2>1. SilentOn(rest, s)
    <3> SUFFICES ASSUME NEW j \in 1 .. Len(rest) PROVE ~Speaks(rest[j], s)
      BY DEF SilentOn
    <3>1. j + 1 \in 2 .. Len(stream.wire) /\ rest[j] = stream.wire[j + 1]
      BY <1>3
    <3>2. QED
      BY <1>8, <3>1
  <2>2. \/ Tells(merged, s, version)
        \/ ~Speaks(merged, s) /\ InHand(s, version)
    BY <1>2, <1>3, <1>5, <1>8, MergeTells DEF merged, InGate
  <2>3. InGate(s, version)'
    BY <1>4, <1>5, <1>6, <2>2 DEF InGate, InHand, InGuide
  <2>4. QED
    BY <1>4, <1>5, <2>1, <2>3 DEF OnWire, version
<1>9. QED
  <2>1. CASE SilentOn(stream.wire, s) /\ InGate(s, version)
    <3>1. 1 \in 1 .. Len(stream.wire) /\ \A j \in 2 .. Len(stream.wire) : j \in 1 .. Len(stream.wire)
      BY <1>3
    <3>2. QED
      BY <1>3, <1>8, <2>1, <3>1 DEF SilentOn
  <2>2. CASE ToldBy(stream.wire, s, version)
    <3>1. PICK i \in 1 .. Len(stream.wire) :
             /\ Tells(stream.wire[i], s, version)
             /\ \A j \in 1 .. Len(stream.wire) : j > i => ~Speaks(stream.wire[j], s)
      BY <2>2 DEF ToldBy
    <3>2. CASE i = 1
      <4>1. \A j \in 2 .. Len(stream.wire) : j \in 1 .. Len(stream.wire) /\ j > i
        BY <1>3, <3>2
      <4>2. QED
        BY <1>3, <1>8, <3>1, <3>2, <4>1
    <3>3. CASE i # 1
      <4>1. i \in 2 .. Len(stream.wire)
        BY <1>3, <3>3
      <4>2. QED
        BY <1>7, <3>1, <4>1
    <3>4. QED
      BY <3>2, <3>3
  <2>3. QED
    BY <1>5, <2>1, <2>2 DEF OnWire

LEMMA FlushUnderway == ASSUME VisitInv, Orderly, Underway, Flush PROVE Underway'
<1> DEFINE merged == Merge(sub.pending, stream.changes)
<1>1. /\ UNCHANGED <<world, guide, job>> /\ sub'.pending = merged
      /\ stream'.changes = NoChanges /\ stream'.wire = stream.wire
      /\ stream'.phase = stream.phase /\ stream'.server = stream.server
      /\ sub.pending \in Changes /\ stream.changes \in Changes
  BY DEF Flush, VisitInv, TypeOK, Streams, Subs
<1> HIDE DEF merged
<1> SUFFICES ASSUME stream.phase = "receiving", NEW s \in Services
             PROVE  OnWire(s, world[stream.server][s])'
  BY <1>1 DEF Underway
<1> DEFINE version == world[stream.server][s]
<1>2. version \in Versions /\ OnWire(s, version) /\ version' = version
  BY <1>1, Reading DEF Underway
<1> HIDE DEF version
<1>3. InGate(s, version) => Tells(merged, s, version) \/ (~Speaks(merged, s) /\ InGuide(s, version))
  BY <1>1, <1>2, MergeTells DEF merged, InGate, InHand
<1>4. InGate(s, version) => InGate(s, version)'
  BY <1>1, <1>2, <1>3, Constants DEF InGate, InHand, InGuide
<1>5. QED
  BY <1>1, <1>2, <1>4 DEF OnWire, version

LEMMA ConnectedUnderway == ASSUME VisitInv, Orderly, Connected PROVE Underway'
<1>1. stream'.wire = <<>> /\ stream'.changes = Full
  BY DEF Connected, VisitInv, TypeOK, Streams, Orderly
<1>2. \A s \in Services : SilentOn(stream'.wire, s)
  BY <1>1 DEF SilentOn
<1>3. \A s \in Services : InGate(s, world[stream.server][s])'
  BY <1>1, Constants DEF InGate
<1>4. QED
  BY <1>2, <1>3 DEF Underway, OnWire

LEMMA SubscriptionUnderway ==
  ASSUME VisitInv, Orderly, Underway, Subscription
  PROVE  Underway'
<1>1. CASE NotFound \/ Reprobe \/ Failed \/ Retry \/ Panic \/ Left
  <2>1. stream'.phase # "receiving"
    <3>1. stream \in Streams
      BY DEF VisitInv, TypeOK
    <3>2. CASE NotFound
      BY <3>1, <3>2 DEF NotFound, Streams
    <3>3. CASE Reprobe \/ Failed \/ Retry
      BY <3>1, <3>3 DEF Reprobe, Failed, Broken, Retry, Streams
    <3>4. CASE Panic \/ Left
      BY <3>4 DEF Panic, Left, NoStream
    <3>5. QED
      BY <1>1, <3>2, <3>3, <3>4
  <2>2. QED
    BY <2>1 DEF Underway
<1>2. QED
  BY <1>1, ConnectedUnderway, DecodeUnderway, FlushUnderway
     DEF Subscription, Missing, MissingForNow

(* A request reads what its server has, or fails and is asked for again. *)
LEMMA RequestUnderway == ASSUME VisitInv, Orderly, Underway, Request PROVE Underway'
<1>1. job \in Jobs /\ UNCHANGED <<world, stream, sub, guide>>
  BY DEF VisitInv, TypeOK, Request, Answer, RequestFails, TaskEnds
<1>2. ASSUME NEW s \in Services, NEW version \in Versions,
             Keeps(guide, job, s, version), guide.desired # Nothing,
             stream.phase = "receiving", version = world[stream.server][s]
      PROVE  Keeps(guide', job', s, version)
  <2> SUFFICES ASSUME guide.acq = "fetching", Shows(guide, job, s, version)
               PROVE  Shows(guide, job', s, version)
    BY <1>1, <1>2 DEF Keeps, Shows
  <2>1. job.server = stream.server
    BY <1>2, Reading DEF VisitInv, JobInv
  <2>2. CASE Answer
    <3> DEFINE read == [t \in Services |-> IF job.scope \in {"full", t}
                                          THEN world[job.server][t] ELSE Nothing]
    <3>1. job' = [job EXCEPT !.state = "finished", !.ok = TRUE, !.programs = read]
      BY <2>2 DEF Answer
    <3>2. job.scope \in {"full", s} => read[s] = version
      BY <1>2, <2>1
    <3> HIDE DEF read
    <3>3. job'.scope = job.scope /\ job'.programs = read
      BY <1>1, <3>1 DEF Jobs
    <3>4. QED
      BY <3>2, <3>3 DEF Shows
  <2>3. CASE RequestFails
    <3>1. job.state = "asked" /\ job'.scope = job.scope /\ job'.ok = job.ok
      BY <1>1, <2>3 DEF RequestFails, Jobs
    <3>2. ~job.ok
      BY <3>1 DEF Orderly
    <3>3. QED
      BY <3>1, <3>2 DEF Shows
  <2>4. CASE TaskEnds
    BY <2>4 DEF TaskEnds, VisitInv, JobInv
  <2>5. QED
    BY <2>2, <2>3, <2>4 DEF Request
<1>3. QED
  BY <1>1, <1>2, GuideKeeps

LEMMA PollGuideUnderway ==
  ASSUME VisitInv, Orderly, Underway, NEW due \in BOOLEAN, PollGuide(due)
  PROVE  Underway'
<1> DEFINE done == Completed(guide)
           g == IF done.acq = "idle" THEN ApplyDeferred(done) ELSE done
           all == g.refresh \/ g.next = "none" \/ due
<1>1. /\ done \in Guides /\ OwnGuide(done) /\ done.desired = guide.desired
      /\ done.acq = IF job.state = "finished" THEN "idle" ELSE guide.acq
      /\ \A s \in Services, version \in Versions :
           Keeps(guide, job, s, version) => Keeps(done, job, s, version)
  BY CompletedFacts, CompletedKeeps
<1> HIDE DEF done
<1>2. /\ g \in Guides /\ g.desired = guide.desired
      /\ g.acq = IF job.state = "finished" THEN "idle" ELSE guide.acq
      /\ g.acq = "idle" => \A s \in Services : g.deferred[s] = Nothing
      /\ \A s \in Services, version \in Versions :
           Keeps(guide, job, s, version) => Keeps(g, job, s, version)
  <2>1. CASE done.acq = "idle"
    <3>1. SameVisit(done, ApplyDeferred(done))
      BY <1>1, ApplyDeferredFacts
    <3>2. ApplyDeferred(done).deferred = NoPrograms
      BY <1>1 DEF ApplyDeferred, Guides
    <3>3. QED
      BY <1>1, <2>1, <3>1, <3>2, ApplyDeferredKeeps DEF SameVisit, NoPrograms
  <2>2. CASE done.acq # "idle"
    BY <1>1, <2>2
  <2>3. QED
    BY <2>1, <2>2
<1> HIDE DEF g
<1>3. UNCHANGED <<world, stream, sub>>
  BY DEF PollGuide
<1>4. CASE /\ g.acq = "idle"
           /\ guide' = [g EXCEPT !.acq = "fetching", !.outcome = "waiting",
                                 !.refresh = FALSE, !.services = {}]
           /\ job' = Asking(g, "full")
  <2>1. /\ guide'.acq = "fetching" /\ guide'.desired = g.desired
        /\ guide'.deferred = g.deferred /\ job'.scope = "full" /\ job'.state = "asked"
    BY <1>2, <1>4 DEF Guides, Asking, NoJob
  <2>2. \A s \in Services, version \in Versions : Keeps(guide', job', s, version)
    BY <1>2, <1>4, <2>1 DEF Keeps, Shows
  <2>3. QED
    BY <1>2, <1>3, <2>1, <2>2, GuideKeeps
<1>5. ASSUME ~all, g.acq = "idle", NEW t \in g.services,
             guide' = [g EXCEPT !.acq = "fetching", !.outcome = "waiting",
                                !.services = @ \ {t}],
             job' = Asking(g, t)
      PROVE  Underway'
  <2>1. /\ guide'.acq = "fetching" /\ guide'.desired = g.desired
        /\ guide'.deferred = g.deferred /\ guide'.snapshot = g.snapshot
        /\ guide'.services = g.services \ {t} /\ guide'.next = g.next
    BY <1>2, <1>5 DEF Guides
  <2>2. job'.scope = t /\ job'.state = "asked"
    BY <1>5 DEF Asking, NoJob
  <2>3. ASSUME NEW s \in Services, NEW version \in Versions, Keeps(g, job, s, version)
        PROVE  Keeps(guide', job', s, version)
    <3>1. g.deferred[s] = Nothing /\ Nothing \notin {Garbled, version}
      BY <1>2, <1>5, VersionAssumption, GuideAssumption
    <3>2. s \in g.services \/ g.snapshot[s] = version
      BY <1>5, <2>3, <3>1 DEF Keeps, Awaits, Shows
    <3>3. CASE s = t
      BY <2>1, <2>2, <3>1, <3>3 DEF Keeps, Shows
    <3>4. CASE s # t
      <4>1. CASE s \in g.services
        BY <2>1, <3>4, <4>1 DEF Keeps, Awaits
      <4>2. CASE g.snapshot[s] = version
        BY <2>1, <2>2, <3>1, <4>2 DEF Keeps, Shows
      <4>3. QED
        BY <3>2, <4>1, <4>2
    <3>5. QED
      BY <3>3, <3>4
  <2>4. QED
    BY <1>2, <1>3, <2>1, <2>3, GuideKeeps
<1>6. CASE guide' = g /\ job' = IF job.state = "finished" THEN NoJob ELSE job
  <2>1. \A s \in Services, version \in Versions :
          Keeps(g, job, s, version) => Keeps(g, job', s, version)
    BY <1>2, <1>6 DEF Keeps, Shows
  <2>2. QED
    BY <1>2, <1>3, <1>6, <2>1, GuideKeeps
<1>7. QED
  BY <1>4, <1>5, <1>6 DEF PollGuide, g, done

LEMMA PollEventsUnderway ==
  ASSUME VisitInv, Orderly, Underway, PollEvents
  PROVE  Underway'
<1>1. guide \in Guides /\ sub \in Subs /\ sub.pending \in Changes
  BY DEF VisitInv, TypeOK, Subs
<1>2. CASE /\ sub.phase = "running" /\ stream.phase # "panicked"
           /\ sub' = [sub EXCEPT !.pending = NoChanges]
           /\ guide' = Events(guide, sub.pending)
           /\ UNCHANGED <<stream, world, job>>
  <2>1. sub'.pending = NoChanges
    BY <1>1, <1>2 DEF Subs
  <2>2. ASSUME NEW s \in Services, NEW version \in Versions, InHand(s, version)
        PROVE  guide'.desired = Nothing \/ Keeps(guide', job', s, version)
    <3>1. CASE guide.desired = Nothing
      BY <1>2, <3>1 DEF Events
    <3>2. CASE guide.desired # Nothing
      <4>1. \/ Tells(sub.pending, s, version)
            \/ ~Speaks(sub.pending, s) /\ Keeps(guide, job, s, version)
        BY <2>2, <3>2 DEF InHand, InGuide
      <4>2. QED
        BY <1>1, <1>2, <3>2, <4>1, EventsKeep
    <3>3. QED
      BY <3>1, <3>2
  <2>3. ASSUME NEW s \in Services, NEW version \in Versions, InHand(s, version),
               stream.phase = "receiving", version = world[stream.server][s]
        PROVE  InHand(s, version)'
    BY <1>2, <2>1, <2>2, <2>3, Constants DEF InHand, InGuide
  <2>4. QED
    BY <1>2, <2>3, HandFrame
<1>3. CASE stream'.phase # "receiving"
  BY <1>3 DEF Underway
<1>4. CASE sub.phase # "running" /\ stream.phase = "none" /\ UNCHANGED stream
  BY <1>4 DEF Underway
<1>5. QED
  <2>1. NoStream.phase # "receiving"
    BY DEF NoStream
  <2>2. [NoStream EXCEPT !.phase = "connecting", !.server = sub.desired].phase = "connecting"
    BY DEF NoStream
  <2>3. ASSUME stream' = [NoStream EXCEPT !.phase = "connecting", !.server = sub.desired]
        PROVE  Underway'
    <3>1. stream'.phase = "connecting"
      BY ONLY <2>2, <2>3
    <3>2. QED
      BY <1>3, <3>1
  <2>4. QED
    BY <1>2, <1>3, <1>4, <2>1, <2>3 DEF PollEvents, Underway

LEMMA UserUnderway ==
  ASSUME VisitInv, Orderly, Underway, Connect \/ CatalogAnswers \/ CatalogFails
  PROVE  Underway'
<1>1. guide \in Guides
  BY DEF VisitInv, TypeOK
<1>2. CASE guide' \in {guide, [guide EXCEPT !.refresh = TRUE]}
           /\ UNCHANGED <<world, stream, sub, job>>
  <2>1. ASSUME guide' = [guide EXCEPT !.refresh = TRUE] PROVE Underway'
    <3>1. guide'.desired = guide.desired /\ guide'.refresh
      BY <1>1, <2>1 DEF Guides
    <3>2. QED
      BY <1>2, <3>1, GuideKeeps DEF Keeps, Awaits
  <2>2. ASSUME guide' = guide PROVE Underway'
    BY <1>2, <2>2, GuideKeeps
  <2>3. QED
    BY <1>2, <2>1, <2>2
<1>3. CASE CatalogAnswers
  <2>1. PICK server : guide' = Configured(guide, server) /\ job' = Cancelled(guide, server)
    BY <1>3 DEF CatalogAnswers
  <2>2. UNCHANGED <<world, stream, sub>>
    BY <1>3 DEF CatalogAnswers
  <2>3. CASE guide.desired = server
    BY <1>2, <2>1, <2>2, <2>3 DEF Configured, Cancelled
  <2>4. CASE guide.desired # server
    <3>1. guide'.next = "none" /\ guide'.acq # "fetching"
      BY <2>1, <2>4 DEF Configured, NoGuide
    <3>2. ASSUME NEW s \in Services, NEW version \in Versions, InHand(s, version),
                 stream.phase = "receiving", version = world[stream.server][s]
          PROVE  InHand(s, version)'
      BY <2>2, <3>1, <3>2 DEF InHand, InGuide, Keeps, Awaits
    <3>3. QED
      BY <2>2, <3>2, HandFrame
  <2>5. QED
    BY <2>3, <2>4
<1>4. CASE stream' = Stopped
  BY <1>4, StoppedFacts DEF Underway
<1>5. QED
  BY <1>2, <1>3, <1>4 DEF Connect, CatalogFails

(* A change is told to the stream that is connected, after all it was told
   before. *)
LEMMA ServerUnderway == ASSUME VisitInv, Orderly, Underway, ServerChanges PROVE Underway'
<1>1. UNCHANGED <<sub, guide, job>> /\ stream \in Streams
  BY DEF ServerChanges, VisitInv, TypeOK
<1> SUFFICES ASSUME stream.phase = "receiving"
             PROVE  Underway'
  BY <1>1 DEF ServerChanges, Underway
<1>2. PICK server \in Servers, t \in Services :
        LET version == Version(server, world[server][t].number + 1)
        IN /\ world' = [world EXCEPT ![server][t] = version]
           /\ \/ /\ stream.server = server
                 /\ \E notice \in Notices(server, t, version) \cup {ProgramEvent(t, Garbled)} :
                      stream' = [stream EXCEPT !.wire = Append(@, notice)]
              \/ stream.server # server /\ UNCHANGED stream
  BY Zenon DEF ServerChanges
<1> DEFINE new == Version(server, world[server][t].number + 1)
<1>3. world' = [world EXCEPT ![server][t] = new]
  BY <1>2
<1> HIDE DEF new
<1>4. world \in [Servers -> [Services -> Versions]] /\ stream.server \in Servers
  BY Reading DEF VisitInv, TypeOK
<1>5. CASE stream.server # server /\ UNCHANGED stream
  <2>1. world'[stream.server] = world[stream.server]
    BY <1>3, <1>4, <1>5
  <2>2. QED
    BY <1>1, <1>5, <2>1 DEF Underway, OnWire, InGate, InHand, InGuide
<1>6. CASE stream.server = server
  <2>1. PICK notice \in {ProgramEvent(t, new), Full, ServiceEvent(t), ProgramEvent(t, Garbled)} :
          stream' = [stream EXCEPT !.wire = Append(@, notice)]
    BY <1>2, <1>6 DEF Notices, new
  <2>2. /\ \A s \in Services \ {t} : \A version : ~Speaks(notice, s) \/ Tells(notice, s, version)
        /\ Tells(notice, t, new)
    BY GuideAssumption
       DEF ProgramEvent, ServiceEvent, Full, NoChanges, NoPrograms, Speaks, Tells
  <2> DEFINE wire == Append(stream.wire, notice)
  <2>3. /\ Len(wire) = Len(stream.wire) + 1 /\ Len(stream.wire) \in Nat
        /\ \A i \in 1 .. Len(stream.wire) : wire[i] = stream.wire[i]
        /\ wire[Len(stream.wire) + 1] = notice
    BY <1>1 DEF Streams
  <2>4. /\ stream'.wire = wire /\ stream'.changes = stream.changes
        /\ stream'.server = server
    BY <1>1, <1>6, <2>1 DEF Streams
  <2> HIDE DEF wire
  <2> SUFFICES ASSUME NEW s \in Services
               PROVE  OnWire(s, world[stream.server][s])'
    BY DEF Underway
  <2> DEFINE version == world[server][s]
  <2>5. OnWire(s, version) /\ (s # t => version' = version) /\ (s = t => version' = new)
    BY <1>3, <1>4, <1>6 DEF Underway
  <2>6. CASE Tells(notice, s, version')
    <3>1. \A j \in 1 .. Len(wire) : ~(j > Len(wire))
      BY <2>3
    <3>2. Len(wire) \in 1 .. Len(wire) /\ wire[Len(wire)] = notice
      BY <2>3
    <3>3. ToldBy(wire, s, version')
      BY <2>6, <3>1, <3>2 DEF ToldBy
    <3>4. QED
      BY <2>4, <3>3 DEF OnWire
  <2>7. CASE ~Speaks(notice, s) /\ version' = version
    <3>1. \A j \in 1 .. Len(wire) : j \in 1 .. Len(stream.wire) \/ wire[j] = notice
      BY <2>3
    <3>2. SilentOn(stream.wire, s) => SilentOn(wire, s)
      BY <2>3, <2>7, <3>1 DEF SilentOn
    <3>3. ToldBy(stream.wire, s, version) => ToldBy(wire, s, version)
      <4> SUFFICES ASSUME NEW i \in 1 .. Len(stream.wire),
                          Tells(stream.wire[i], s, version),
                          \A j \in 1 .. Len(stream.wire) : j > i => ~Speaks(stream.wire[j], s)
                   PROVE  ToldBy(wire, s, version)
        BY DEF ToldBy
      <4>1. i \in 1 .. Len(wire) /\ wire[i] = stream.wire[i]
        BY <2>3
      <4>2. \A j \in 1 .. Len(wire) : j > i => ~Speaks(wire[j], s)
        BY <2>3, <2>7, <3>1
      <4>3. QED
        BY <4>1, <4>2 DEF ToldBy
    <3>4. QED
      BY <1>1, <2>4, <2>5, <2>7, <3>2, <3>3 DEF OnWire, InGate, InHand, InGuide
  <2>8. QED
    BY <2>2, <2>5, <2>6, <2>7
<1>7. QED
  BY <1>2, <1>5, <1>6

LEMMA NextUnderway == ASSUME VisitInv, Orderly, Underway, [Next]_vars PROVE Underway'
<1>1. CASE BackoffEnds
  <2>1. /\ guide'.acq = guide.acq /\ guide'.deferred = guide.deferred
        /\ guide'.next = guide.next /\ guide'.refresh = guide.refresh
        /\ guide'.services = guide.services /\ guide'.snapshot = guide.snapshot
        /\ guide'.desired = guide.desired /\ UNCHANGED <<world, stream, sub, job>>
    BY <1>1 DEF BackoffEnds, VisitInv, TypeOK, Guides
  <2>2. QED
    BY <2>1, GuideKeeps DEF Keeps, Awaits, Shows
<1>2. CASE HoldEnds
  <2>1. sub'.pending = sub.pending /\ UNCHANGED <<world, stream, guide, job>>
    BY <1>2 DEF HoldEnds, VisitInv, TypeOK, Subs
  <2>2. QED
    BY <2>1, GuideKeeps
<1>3. CASE UNCHANGED vars
  BY <1>3 DEF vars, Underway, OnWire, InGate, InHand, InGuide
<1>4. QED
  BY <1>1, <1>2, <1>3, SubscriptionUnderway, RequestUnderway, PollGuideUnderway,
     PollEventsUnderway, UserUnderway, ServerUnderway DEF Next

----------------------------------------------------------------------------
(* Versions only come back as notifications.                                *)

\* No stage holds a version that its server has not had yet.
Past(has, programs) == \A s \in Services :
  programs[s] \notin {Nothing, Garbled} => programs[s].number <= has[programs[s].of][s].number
AllPast ==
  /\ Past(world, guide.snapshot) /\ Past(world, guide.deferred) /\ Past(world, job.programs)
  /\ Past(world, sub.pending.programs) /\ Past(world, stream.changes.programs)
  /\ \A i \in 1 .. Len(stream.wire) : Past(world, stream.wire[i].programs)

\* An answer is no older than what the guide showed when it was asked for.
AnswerIsFresh ==
  guide.acq = "fetching" /\ job.state = "finished" /\ job.ok =>
    \A s \in Services :
      Nothing \notin {guide.snapshot[s], job.programs[s]} =>
        guide.snapshot[s].number <= job.programs[s].number

LEMMA PastConstants == Past(world, NoPrograms) /\ Past(world, NoChanges.programs) /\ Past(world, Full.programs)
  BY ConstantTypes DEF Past, NoPrograms

LEMMA OverridePast ==
  ASSUME NEW programs, NEW changed, Past(world, programs), Past(world, changed)
  PROVE  Past(world, Override(programs, changed))
  BY DEF Past, Override

LEMMA MergePast ==
  ASSUME NEW changes \in Changes, NEW more \in Changes,
         Past(world, changes.programs), Past(world, more.programs)
  PROVE  Past(world, Merge(changes, more).programs)
<1> DEFINE both == [full |-> FALSE,
                    programs |-> Override(changes.programs, more.programs),
                    services |-> changes.services \cup more.services]
<1>1. Merge(changes, more) \in {Full, both}
  BY DEF Merge, Limited
<1>2. Past(world, both.programs)
  BY OverridePast
<1>3. QED
  BY <1>1, <1>2, PastConstants

\* Versions only grow.
LEMMA WorldGrows ==
  ASSUME VisitInv, [Next]_vars
  PROVE  \A server \in Servers, s \in Services :
           world[server][s].number <= world'[server][s].number
<1>1. world \in [Servers -> [Services -> Versions]]
  BY DEF VisitInv, TypeOK
<1>2. \A server \in Servers, s \in Services : world[server][s].number \in Int
  BY <1>1 DEF Versions
<1>3. CASE UNCHANGED world
  BY <1>2, <1>3
<1>4. CASE ServerChanges
  <2>1. PICK server \in Servers, s \in Services :
          world' = [world EXCEPT ![server][s] = Version(server, world[server][s].number + 1)]
    BY <1>4 DEF ServerChanges
  <2>2. Version(server, world[server][s].number + 1).number = world[server][s].number + 1
    BY DEF Version
  <2>3. ASSUME NEW other \in Servers, NEW t \in Services
        PROVE  world[other][t].number <= world'[other][t].number
    <3>1. \/ world'[other][t] = world[other][t]
          \/ other = server /\ t = s /\ world'[other][t].number = world[other][t].number + 1
      BY <1>1, <2>1, <2>2
    <3>2. QED
      BY <1>2, <3>1
  <2>4. QED
    BY <2>3
<1>5. QED
  BY <1>3, <1>4
     DEF Next, vars, Subscription, Connected, Missing, MissingForNow, NotFound, Reprobe, Failed,
         Retry, Decode, Flush, Panic, Left, Request, Answer, RequestFails, TaskEnds, PollEvents,
         HoldEnds, PollGuide, BackoffEnds, Connect, CatalogAnswers, CatalogFails

LEMMA PastStays ==
  ASSUME VisitInv, [Next]_vars, NEW programs \in Programs \cup Snapshots, Past(world, programs)
  PROVE  Past(world', programs)
<1> SUFFICES ASSUME NEW s \in Services, programs[s] \notin {Nothing, Garbled}
             PROVE  programs[s].number <= world'[programs[s].of][s].number
  BY DEF Past
<1>1. programs[s] \in Versions
  BY DEF Programs, Snapshots
<1>2. /\ programs[s].of \in Servers /\ programs[s].number \in Int
      /\ programs[s].number <= world[programs[s].of][s].number
  BY <1>1 DEF Past, Versions
<1>3. /\ world[programs[s].of][s].number \in Int /\ world'[programs[s].of][s].number \in Int
      /\ world[programs[s].of][s].number <= world'[programs[s].of][s].number
  BY <1>2, WorldGrows, NextVisit DEF VisitInv, TypeOK, Versions
<1>4. QED
  BY <1>2, <1>3

LEMMA PastFrame ==
  ASSUME VisitInv, [Next]_vars,
         Past(world, guide'.snapshot), Past(world, guide'.deferred), Past(world, job'.programs),
         Past(world, sub'.pending.programs), Past(world, stream'.changes.programs),
         \A i \in 1 .. Len(stream'.wire) : Past(world, stream'.wire[i].programs)
  PROVE  AllPast'
<1>1. TypeOK'
  BY NextVisit DEF VisitInv
<1>2. /\ guide'.snapshot \in Snapshots /\ guide'.deferred \in Programs
      /\ job'.programs \in Snapshots /\ sub'.pending.programs \in Programs
      /\ stream'.changes.programs \in Programs
      /\ \A i \in 1 .. Len(stream'.wire) : stream'.wire[i].programs \in Programs
  <2>1. /\ guide'.snapshot \in Snapshots /\ guide'.deferred \in Programs
        /\ job'.programs \in Snapshots /\ sub'.pending \in Changes
        /\ stream'.changes \in Changes /\ stream'.wire \in Seq(Changes)
    BY <1>1 DEF TypeOK, Guides, Jobs, Subs, Streams
  <2>2. \A i \in 1 .. Len(stream'.wire) : stream'.wire[i] \in Changes
    BY <2>1
  <2>3. \A changes \in Changes : changes.programs \in Programs
    BY DEF Changes
  <2>4. QED
    BY <2>1, <2>2, <2>3
<1>3. QED
  BY <1>2, PastStays DEF AllPast

GuidePast(g) == Past(world, g.snapshot) /\ Past(world, g.deferred)

LEMMA ApplyDeferredPast ==
  ASSUME NEW g \in Guides, GuidePast(g)
  PROVE  GuidePast(ApplyDeferred(g))
<1>1. /\ ApplyDeferred(g).deferred = NoPrograms
      /\ ApplyDeferred(g).snapshot \in {g.snapshot, Override(g.snapshot, g.deferred)}
  BY DEF ApplyDeferred, Guides
<1>2. QED
  BY <1>1, OverridePast, PastConstants DEF GuidePast

LEMMA EventsPast ==
  ASSUME NEW g \in Guides, NEW changes \in Changes, GuidePast(g),
         Past(world, changes.programs)
  PROVE  GuidePast(Events(g, changes))
<1> DEFINE kept == Deferring(g, changes)
           held == IF Overflows(kept) THEN RefreshInstead(kept) ELSE kept
<1>1. kept \in Guides /\ GuidePast(kept)
  <2>1. Override(g.deferred, changes.programs) \in Programs
    BY OverrideTypes DEF Guides, Changes
  <2>2. kept \in Guides /\ kept.snapshot = g.snapshot
        /\ kept.deferred = Override(g.deferred, changes.programs)
    BY <2>1 DEF Deferring, Guides, Changes
  <2>3. QED
    BY <2>2, OverridePast DEF GuidePast
<1>2. \A h \in Guides : GuidePast(h) =>
        RefreshInstead(h) \in Guides /\ GuidePast(RefreshInstead(h))
  BY ConstantTypes, PastConstants DEF RefreshInstead, Guides, GuidePast
<1>3. held \in Guides /\ GuidePast(held)
  BY <1>1, <1>2
<1>4. Events(g, changes) \in {g, RefreshInstead(g), ApplyDeferred(held), held}
  BY DEF Events
<1>5. QED
  BY <1>2, <1>3, <1>4, ApplyDeferredPast

LEMMA CompletedPast ==
  ASSUME VisitInv, AllPast
  PROVE  GuidePast(Completed(guide))
<1>1. guide \in Guides /\ GuidePast(guide) /\ Past(world, job.programs)
  BY DEF VisitInv, TypeOK, AllPast, GuidePast
<1>2. /\ Completed(guide).deferred = guide.deferred
      /\ Completed(guide).snapshot
           \in {guide.snapshot, job.programs, Override(guide.snapshot, job.programs)}
  BY <1>1 DEF Completed, Succeeded, Refused, Guides
<1>3. QED
  BY <1>1, <1>2, OverridePast DEF GuidePast

LEMMA SubscriptionPast == ASSUME VisitInv, AllPast, Subscription PROVE AllPast'
<1> USE DEF AllPast
<1>1. /\ UNCHANGED <<guide, job>> /\ [Next]_vars
      /\ stream \in Streams /\ sub \in Subs
      /\ stream.wire \in Seq(Changes) /\ stream.changes \in Changes /\ sub.pending \in Changes
  BY DEF Subscription, Connected, Missing, MissingForNow, NotFound, Reprobe, Failed, Retry,
         Decode, Flush, Panic, Left, Next, VisitInv, TypeOK, Streams, Subs
<1>2. Past(world, sub'.pending.programs)
  <2>1. sub'.pending \in {sub.pending, Full, Merge(sub.pending, stream.changes)}
    BY <1>1 DEF Subscription, Connected, Missing, MissingForNow, NotFound, Reprobe, Failed,
                Retry, Decode, Flush, Panic, Left, Subs
  <2>2. QED
    BY <1>1, <2>1, MergePast, PastConstants
<1>3. CASE Decode
  <2> DEFINE merged == Merge(stream.changes, Head(stream.wire))
  <2>1. stream.wire # <<>>
    BY <1>3 DEF Decode
  <2>2. /\ Head(stream.wire) \in Changes /\ Head(stream.wire) = stream.wire[1]
        /\ Len(Tail(stream.wire)) = Len(stream.wire) - 1
        /\ \A i \in 1 .. Len(Tail(stream.wire)) : Tail(stream.wire)[i] = stream.wire[i + 1]
        /\ Len(stream.wire) \in Nat \ {0}
    BY <1>1, <2>1, HeadTailProperties
  <2>3. /\ 1 \in 1 .. Len(stream.wire)
        /\ \A i \in 1 .. Len(Tail(stream.wire)) : i + 1 \in 1 .. Len(stream.wire)
    BY <2>2
  <2>4. Past(world, merged.programs)
    BY <1>1, <2>2, <2>3, MergePast
  <2>5. stream'.wire = Tail(stream.wire) /\ stream'.changes = merged
    BY <1>1, <1>3 DEF Decode, Streams
  <2>6. \A i \in 1 .. Len(stream'.wire) : Past(world, stream'.wire[i].programs)
    BY <2>2, <2>3, <2>5
  <2>7. QED
    BY <1>1, <1>2, <2>4, <2>5, <2>6, PastFrame
<1>4. CASE ~Decode
  <2>1. CASE Panic \/ Left
    <3>1. stream'.wire = <<>> /\ stream'.changes = NoChanges
      BY <2>1 DEF Panic, Left, NoStream
    <3>2. QED
      BY <1>1, <1>2, <3>1, PastConstants, PastFrame
  <2>2. ASSUME ~(Panic \/ Left)
        PROVE  /\ stream'.wire \in {stream.wire, <<>>}
               /\ stream'.changes \in {stream.changes, Full, NoChanges}
    BY <1>1, <1>4, <2>2
       DEF Subscription, Connected, Missing, MissingForNow, NotFound, Reprobe, Failed, Broken,
           Retry, Flush, Streams
  <2>3. CASE ~(Panic \/ Left)
    <3>1. \A i \in 1 .. Len(stream'.wire) : Past(world, stream'.wire[i].programs)
      BY <2>2, <2>3
    <3>2. QED
      BY <1>1, <1>2, <2>2, <2>3, <3>1, PastConstants, PastFrame
  <2>4. QED
    BY <2>1, <2>3
<1>5. QED
  BY <1>3, <1>4

LEMMA RequestPast == ASSUME VisitInv, AllPast, Request PROVE AllPast'
<1>1. /\ job \in Jobs /\ UNCHANGED <<world, stream, sub, guide>> /\ [Next]_vars
  BY DEF VisitInv, TypeOK, Request, Answer, RequestFails, TaskEnds, Next
<1>2. CASE Answer
  <2> DEFINE read == [s \in Services |-> IF job.scope \in {"full", s}
                                        THEN world[job.server][s] ELSE Nothing]
  <2>1. job' = [job EXCEPT !.state = "finished", !.ok = TRUE, !.programs = read]
    BY <1>2 DEF Answer
  <2>2. job.server \in Servers
    BY <1>2 DEF Answer, VisitInv, JobInv, TypeOK, Guides
  <2>3. \A s \in Services : /\ world[job.server][s] \in Versions
                             /\ world[job.server][s] \notin {Nothing, Garbled}
                             /\ world[job.server][s].of = job.server
    BY <2>2, VersionAssumption DEF VisitInv, TypeOK, WorldInv, Own
  <2>4. Past(world, read)
    BY <2>3 DEF Past, Versions
  <2> HIDE DEF read
  <2>5. job'.programs = read
    BY <1>1, <2>1 DEF Jobs
  <2>6. QED
    BY <1>1, <2>4, <2>5, PastFrame DEF AllPast
<1>3. CASE RequestFails \/ TaskEnds
  <2>1. job'.programs = job.programs
    BY <1>1, <1>3 DEF RequestFails, TaskEnds, Jobs
  <2>2. QED
    BY <1>1, <2>1, PastFrame DEF AllPast
<1>4. QED
  BY <1>2, <1>3 DEF Request

(* The steps of the guide and of what feeds it. *)
LEMMA GuideStepPast ==
  ASSUME VisitInv, AllPast, [Next]_vars, UNCHANGED world, GuidePast(guide'),
         job'.programs \in {job.programs, NoPrograms},
         sub'.pending \in {sub.pending, NoChanges},
         stream' = stream \/ (stream'.wire = <<>> /\ stream'.changes = NoChanges)
  PROVE  AllPast'
  BY PastConstants, PastFrame DEF AllPast, GuidePast

LEMMA PollGuidePast ==
  ASSUME VisitInv, AllPast, NEW due \in BOOLEAN, PollGuide(due)
  PROVE  AllPast'
<1> DEFINE done == Completed(guide)
           g == IF done.acq = "idle" THEN ApplyDeferred(done) ELSE done
<1>1. done \in Guides /\ OwnGuide(done) /\ GuidePast(done)
  BY CompletedFacts, CompletedPast
<1> HIDE DEF done
<1>2. g \in Guides /\ GuidePast(g)
  BY <1>1, ApplyDeferredFacts, ApplyDeferredPast DEF SameVisit
<1> HIDE DEF g
<1>3. /\ UNCHANGED <<world, stream, sub>>
      /\ \/ \E scope : /\ guide'.snapshot = g.snapshot /\ guide'.deferred = g.deferred
                         /\ job' = Asking(g, scope)
         \/ guide' = g /\ job' \in {NoJob, job}
  <2>1. CASE \E scope, refresh, services :
              /\ guide' = [g EXCEPT !.acq = "fetching", !.outcome = "waiting",
                                    !.refresh = refresh, !.services = services]
              /\ job' = Asking(g, scope)
    BY <1>2, <2>1 DEF Guides, PollGuide
  <2>2. CASE \E scope, services :
              /\ guide' = [g EXCEPT !.acq = "fetching", !.outcome = "waiting",
                                    !.services = services]
              /\ job' = Asking(g, scope)
    BY <1>2, <2>2 DEF Guides, PollGuide
  <2>3. QED
    BY <2>1, <2>2 DEF PollGuide, g, done
<1>4. GuidePast(guide') /\ job'.programs \in {job.programs, NoPrograms}
  <2>1. NoJob.programs = NoPrograms /\ \A scope : Asking(g, scope).programs = NoPrograms
    BY DEF Asking, NoJob
  <2>2. QED
    BY <1>2, <1>3, <2>1 DEF GuidePast
<1>5. [Next]_vars
  BY DEF Next
<1>6. QED
  BY <1>3, <1>4, <1>5, GuideStepPast

LEMMA PollEventsPast == ASSUME VisitInv, AllPast, PollEvents PROVE AllPast'
<1>1. /\ guide \in Guides /\ sub \in Subs /\ sub.pending \in Changes
      /\ [Next]_vars /\ UNCHANGED <<world, job>>
  BY DEF VisitInv, TypeOK, Subs, Next, PollEvents
<1>2. guide' \in {guide, Events(guide, sub.pending), Events(guide, Full)}
  BY DEF PollEvents
<1>3. GuidePast(guide')
  BY <1>1, <1>2, EventsPast, ConstantTypes, PastConstants DEF AllPast, GuidePast
<1>4. sub'.pending \in {sub.pending, NoChanges}
  BY <1>1 DEF PollEvents, Subs
<1>5. stream' = stream \/ (stream'.wire = <<>> /\ stream'.changes = NoChanges)
  <2>1. NoStream.wire = <<>> /\ NoStream.changes = NoChanges
    BY DEF NoStream
  <2>2. /\ [NoStream EXCEPT !.phase = "connecting", !.server = sub.desired].wire = <<>>
        /\ [NoStream EXCEPT !.phase = "connecting", !.server = sub.desired].changes = NoChanges
    BY DEF NoStream
  <2>3. stream' \in {stream, NoStream,
                     [NoStream EXCEPT !.phase = "connecting", !.server = sub.desired]}
    BY DEF PollEvents
  <2> DEFINE fresh == [NoStream EXCEPT !.phase = "connecting", !.server = sub.desired]
  <2>4. fresh.wire = <<>> /\ fresh.changes = NoChanges
    BY <2>2
  <2>5. stream' \in {stream, NoStream, fresh}
    BY <2>3
  <2> HIDE DEF fresh
  <2>6. QED
    BY <2>1, <2>4, <2>5
<1>6. QED
  BY <1>1, <1>3, <1>4, <1>5, GuideStepPast

LEMMA UserPast ==
  ASSUME VisitInv, AllPast, Connect \/ CatalogAnswers \/ CatalogFails
  PROVE  AllPast'
<1>1. guide \in Guides /\ [Next]_vars /\ UNCHANGED world
  BY DEF VisitInv, TypeOK, Next, Connect, CatalogAnswers, CatalogFails
<1>2. GuidePast(guide') /\ job'.programs \in {job.programs, NoPrograms}
  <2>1. CASE guide' \in {guide, [guide EXCEPT !.refresh = TRUE]} /\ UNCHANGED job
    <3>1. guide'.snapshot = guide.snapshot /\ guide'.deferred = guide.deferred
      BY <1>1, <2>1 DEF Guides
    <3>2. QED
      BY <2>1, <3>1 DEF AllPast, GuidePast
  <2>2. ASSUME NEW server,
               guide' = Configured(guide, server) /\ job' = Cancelled(guide, server)
        PROVE  GuidePast(guide') /\ job'.programs \in {job.programs, NoPrograms}
    <3>1. CASE guide.desired = server
      BY <2>2, <3>1 DEF Configured, Cancelled, AllPast, GuidePast
    <3>2. CASE guide.desired # server
      <4>1. guide'.snapshot = NoPrograms /\ guide'.deferred = NoPrograms
        BY <2>2, <3>2 DEF Configured, NoGuide
      <4>2. job'.programs \in {job.programs, NoPrograms}
        BY <2>2 DEF Cancelled, NoJob
      <4>3. QED
        BY <4>1, <4>2, PastConstants DEF GuidePast
    <3>3. QED
      BY <3>1, <3>2
  <2>3. QED
    BY <2>1, <2>2 DEF Connect, CatalogAnswers, CatalogFails
<1>3. UNCHANGED <<stream, sub>> \/ \E server : stream' = Stopped /\ sub' = Resubscribed(server)
  BY DEF Connect, CatalogAnswers, CatalogFails
<1>4. \A server : Resubscribed(server).pending = NoChanges
  BY DEF Resubscribed, NoSub
<1>5. Stopped = stream \/ (Stopped.wire = <<>> /\ Stopped.changes = NoChanges)
  BY DEF Stopped, NoStream
<1>6. QED
  BY <1>1, <1>2, <1>3, <1>4, <1>5, GuideStepPast

LEMMA ServerPast == ASSUME VisitInv, AllPast, ServerChanges PROVE AllPast'
<1>1. /\ UNCHANGED <<sub, guide, job>> /\ stream \in Streams /\ [Next]_vars
      /\ world \in [Servers -> [Services -> Versions]]
  BY DEF ServerChanges, VisitInv, TypeOK, Next
<1>2. stream.wire \in Seq(Changes)
  BY <1>1 DEF Streams
<1>3. CASE UNCHANGED stream
  BY <1>1, <1>3, PastFrame DEF AllPast
<1>4. CASE ~UNCHANGED stream
  <2>1. PICK server \in Servers, t \in Services :
          LET version == Version(server, world[server][t].number + 1)
          IN /\ world' = [world EXCEPT ![server][t] = version]
             /\ \E notice \in Notices(server, t, version) \cup {ProgramEvent(t, Garbled)} :
                  stream' = [stream EXCEPT !.wire = Append(@, notice)]
    BY <1>4, Zenon DEF ServerChanges
  <2> DEFINE new == Version(server, world[server][t].number + 1)
  <2>2. world' = [world EXCEPT ![server][t] = new] /\ new.of = server
    BY <2>1 DEF Version
  <2> HIDE DEF new
  <2>3. PICK notice \in {ProgramEvent(t, new), Full, ServiceEvent(t), ProgramEvent(t, Garbled)} :
          stream' = [stream EXCEPT !.wire = Append(@, notice)]
    BY <2>1 DEF Notices, new
  <2>4. world'[server][t] = new
    BY <1>1, <2>2
  <2>5. new.number <= new.number
    <3>1. world'[server][t] \in Versions
      BY <1>1, NextVisit DEF VisitInv, TypeOK
    <3>2. QED
      BY <2>4, <3>1 DEF Versions
  <2>6. Past(world', notice.programs)
    BY <2>2, <2>3, <2>4, <2>5
       DEF Past, ProgramEvent, ServiceEvent, Full, NoChanges, NoPrograms
  <2> DEFINE wire == Append(stream.wire, notice)
  <2>7. /\ Len(wire) = Len(stream.wire) + 1 /\ Len(stream.wire) \in Nat
        /\ \A i \in 1 .. Len(stream.wire) : wire[i] = stream.wire[i]
        /\ wire[Len(stream.wire) + 1] = notice
    BY <1>2
  <2>8. stream'.wire = wire /\ stream'.changes = stream.changes
    BY <1>1, <2>3 DEF Streams
  <2> HIDE DEF wire
  <2>9. /\ guide.snapshot \in Snapshots /\ guide.deferred \in Programs
        /\ job.programs \in Snapshots /\ sub.pending.programs \in Programs
        /\ stream.changes.programs \in Programs
        /\ \A i \in 1 .. Len(stream.wire) : stream.wire[i].programs \in Programs
    <3>1. /\ stream.changes \in Changes /\ sub.pending \in Changes
          /\ \A i \in 1 .. Len(stream.wire) : stream.wire[i] \in Changes
      BY <1>1, <1>2 DEF VisitInv, TypeOK, Streams, Subs
    <3>2. \A changes \in Changes : changes.programs \in Programs
      BY DEF Changes
    <3>3. QED
      BY <3>1, <3>2 DEF VisitInv, TypeOK, Guides, Jobs
  <2>10. \A i \in 1 .. Len(stream.wire) : Past(world', stream.wire[i].programs)
    BY <1>1, <2>9, PastStays DEF AllPast
  <2>11. \A i \in 1 .. Len(wire) : i \in 1 .. Len(stream.wire) \/ wire[i] = notice
    BY <2>7
  <2>12. \A i \in 1 .. Len(wire) : Past(world', wire[i].programs)
    BY <2>6, <2>7, <2>10, <2>11
  <2>13. /\ Past(world', guide.snapshot) /\ Past(world', guide.deferred)
         /\ Past(world', job.programs) /\ Past(world', sub.pending.programs)
         /\ Past(world', stream.changes.programs)
    BY <1>1, <2>9, PastStays DEF AllPast
  <2>14. QED
    BY <1>1, <2>8, <2>12, <2>13 DEF AllPast
<1>5. QED
  BY <1>3, <1>4

LEMMA NextPast == ASSUME VisitInv, AllPast, [Next]_vars PROVE AllPast'
<1>1. CASE BackoffEnds
  <2>1. /\ guide'.snapshot = guide.snapshot /\ guide'.deferred = guide.deferred
        /\ UNCHANGED <<world, stream, sub, job>>
    BY <1>1 DEF BackoffEnds, VisitInv, TypeOK, Guides
  <2>2. QED
    BY <2>1 DEF AllPast
<1>2. CASE HoldEnds
  <2>1. sub'.pending = sub.pending /\ UNCHANGED <<world, stream, guide, job>>
    BY <1>2 DEF HoldEnds, VisitInv, TypeOK, Subs
  <2>2. QED
    BY <2>1 DEF AllPast
<1>3. CASE UNCHANGED vars
  BY <1>3 DEF vars, AllPast
<1>4. QED
  BY <1>1, <1>2, <1>3, SubscriptionPast, RequestPast, PollGuidePast, PollEventsPast, UserPast,
     ServerPast DEF Next

(* While a request is under way notifications only wait. *)
LEMMA EventsWait ==
  ASSUME NEW g \in Guides, NEW changes \in Changes, g.acq = "fetching"
  PROVE  Events(g, changes).snapshot = g.snapshot
<1> DEFINE kept == Deferring(g, changes)
           held == IF Overflows(kept) THEN RefreshInstead(kept) ELSE kept
<1>1. Events(g, changes) \in {g, RefreshInstead(g), held}
  BY DEF Events
<1>2. \A h \in Guides : RefreshInstead(h).snapshot = h.snapshot
  BY DEF RefreshInstead, Guides
<1>3. kept \in Guides /\ kept.snapshot = g.snapshot
  <2>1. Override(g.deferred, changes.programs) \in Programs
    BY OverrideTypes DEF Guides, Changes
  <2>2. QED
    BY <2>1 DEF Deferring, Guides, Changes
<1>4. QED
  BY <1>1, <1>2, <1>3

LEMMA AnswerFresh ==
  ASSUME VisitInv, AllPast, Answer
  PROVE  AnswerIsFresh'
<1>1. /\ guide \in Guides /\ job \in Jobs /\ UNCHANGED <<world, guide>>
      /\ guide.acq = "fetching" /\ job.server = guide.desired /\ guide.desired \in Servers
  BY DEF Answer, VisitInv, TypeOK, JobInv, Guides
<1> DEFINE read == [s \in Services |-> IF job.scope \in {"full", s}
                                      THEN world[job.server][s] ELSE Nothing]
<1>2. job' = [job EXCEPT !.state = "finished", !.ok = TRUE, !.programs = read]
  BY DEF Answer
<1> HIDE DEF read
<1>3. job'.programs = read
  BY <1>1, <1>2 DEF Jobs
<1>4. ASSUME NEW s \in Services, guide.snapshot[s] # Nothing, read[s] # Nothing
      PROVE  guide.snapshot[s].number <= read[s].number
  <2>1. read[s] = world[guide.desired][s]
    BY <1>1, <1>4 DEF read
  <2>2. guide.snapshot[s] \in Versions
    BY <1>1, <1>4 DEF Guides, Snapshots
  <2>3. guide.snapshot[s].of = guide.desired
    BY <1>4, <2>2, VersionAssumption DEF VisitInv, GuideInv, Own
  <2>4. QED
    BY <1>4, <2>1, <2>2, <2>3, VersionAssumption DEF AllPast, Past
<1>5. QED
  BY <1>1, <1>3, <1>4 DEF AnswerIsFresh

LEMMA NextFresh ==
  ASSUME VisitInv, Orderly, AllPast, AnswerIsFresh, [Next]_vars
  PROVE  AnswerIsFresh'
<1>1. guide \in Guides /\ job \in Jobs /\ sub.pending \in Changes
  BY DEF VisitInv, TypeOK, Subs
<1>2. CASE \E due \in BOOLEAN : PollGuide(due)
  <2> DEFINE done == Completed(guide)
             g == IF done.acq = "idle" THEN ApplyDeferred(done) ELSE done
  <2>1. /\ done \in Guides /\ OwnGuide(done)
        /\ done.acq = IF job.state = "finished" THEN "idle" ELSE guide.acq
    BY CompletedFacts
  <2> HIDE DEF done
  <2>2. g.acq = done.acq
    BY <2>1, ApplyDeferredFacts DEF SameVisit
  <2> HIDE DEF g
  <2>3. (\E scope : job' = Asking(g, scope))
          \/ (guide' = g /\ job' = IF job.state = "finished" THEN NoJob ELSE job)
    BY <1>2 DEF PollGuide, g, done
  <2>4. \A scope : Asking(g, scope).state = "asked"
    BY DEF Asking, NoJob
  <2>5. NoJob.state = "none"
    BY DEF NoJob
  <2>6. QED
    BY <2>3, <2>4, <2>5 DEF AnswerIsFresh
<1>3. CASE PollEvents
  <2>1. guide' \in {guide, Events(guide, sub.pending), Events(guide, Full)} /\ UNCHANGED job
    BY <1>3 DEF PollEvents
  <2>2. \A changes \in Changes : Events(guide, changes).acq = guide.acq
    <3> SUFFICES ASSUME NEW changes \in Changes PROVE Events(guide, changes).acq = guide.acq
      OBVIOUS
    <3> DEFINE kept == Deferring(guide, changes)
               held == IF Overflows(kept) THEN RefreshInstead(kept) ELSE kept
    <3>1. \A h : RefreshInstead(h).acq = h.acq /\ ApplyDeferred(h).acq = h.acq
      BY DEF RefreshInstead, ApplyDeferred
    <3>2. kept.acq = guide.acq
      BY DEF Deferring
    <3>3. QED
      BY <3>1, <3>2 DEF Events
  <2>3. guide'.acq = guide.acq /\ (guide.acq = "fetching" => guide'.snapshot = guide.snapshot)
    BY <1>1, <2>1, <2>2, EventsWait, ConstantTypes
  <2>4. QED
    BY <2>1, <2>3 DEF AnswerIsFresh
<1>4. CASE Answer
  BY <1>4, AnswerFresh
<1>5. CASE RequestFails
  BY <1>1, <1>5 DEF RequestFails, Jobs, Orderly, AnswerIsFresh
<1>6. CASE TaskEnds
  BY <1>6 DEF TaskEnds, VisitInv, JobInv, AnswerIsFresh
<1>7. CASE BackoffEnds
  BY <1>1, <1>7 DEF BackoffEnds, Guides, AnswerIsFresh
<1>8. CASE Connect \/ CatalogAnswers \/ CatalogFails
  <2>1. CASE UNCHANGED job /\ guide' \in {guide, [guide EXCEPT !.refresh = TRUE]}
    BY <1>1, <2>1 DEF Guides, AnswerIsFresh
  <2>2. ASSUME NEW server,
               guide' = Configured(guide, server) /\ job' = Cancelled(guide, server)
        PROVE  AnswerIsFresh'
    <3>1. CASE guide.desired = server
      BY <2>2, <3>1 DEF Configured, Cancelled, AnswerIsFresh
    <3>2. CASE guide.desired # server
      <4>1. guide'.acq # "fetching"
        BY <2>2, <3>2 DEF Configured, NoGuide
      <4>2. QED
        BY <4>1 DEF AnswerIsFresh
    <3>3. QED
      BY <3>1, <3>2
  <2>3. QED
    BY <1>8, <2>1, <2>2 DEF Connect, CatalogAnswers, CatalogFails
<1>9. CASE UNCHANGED <<guide, job>>
  BY <1>9 DEF AnswerIsFresh
<1>10. QED
  BY <1>2, <1>3, <1>4, <1>5, <1>6, <1>7, <1>8, <1>9
     DEF Next, vars, Subscription, Connected, Missing, MissingForNow, NotFound, Reprobe, Failed,
         Retry, Decode, Flush, Panic, Left, Request, HoldEnds, ServerChanges

(* What an application of the deferred set, or of a notification, can put in. *)
LEMMA ApplyDeferredShows ==
  ASSUME NEW g \in Guides, NEW s \in Services
  PROVE  ApplyDeferred(g).snapshot[s] \in {g.snapshot[s], g.deferred[s]}
<1>1. ApplyDeferred(g).snapshot \in {g.snapshot, Override(g.snapshot, g.deferred)}
  BY DEF ApplyDeferred, Guides
<1>2. QED
  BY <1>1 DEF Override

LEMMA EventsShow ==
  ASSUME NEW g \in Guides, NEW changes \in Changes, NEW s \in Services
  PROVE  Events(g, changes).snapshot[s]
           \in {g.snapshot[s], g.deferred[s], changes.programs[s], Nothing}
<1> DEFINE kept == Deferring(g, changes)
           held == IF Overflows(kept) THEN RefreshInstead(kept) ELSE kept
<1>1. Events(g, changes) \in {g, RefreshInstead(g), ApplyDeferred(held), held}
  BY DEF Events
<1>2. \A h \in Guides : /\ RefreshInstead(h) \in Guides
                         /\ RefreshInstead(h).snapshot = h.snapshot
                         /\ RefreshInstead(h).deferred = NoPrograms
  BY ConstantTypes DEF RefreshInstead, Guides
<1>3. /\ kept \in Guides /\ kept.snapshot = g.snapshot
      /\ kept.deferred = Override(g.deferred, changes.programs)
  <2>1. Override(g.deferred, changes.programs) \in Programs
    BY OverrideTypes DEF Guides, Changes
  <2>2. QED
    BY <2>1 DEF Deferring, Guides, Changes
<1>4. /\ held \in Guides /\ held.snapshot = g.snapshot
      /\ held.deferred[s] \in {g.deferred[s], changes.programs[s], Nothing}
  BY <1>2, <1>3 DEF Override, NoPrograms
<1> HIDE DEF held
<1>5. QED
  BY <1>1, <1>2, <1>4, ApplyDeferredShows

LEMMA NextNeverGoesBack ==
  ASSUME VisitInv, AnswerIsFresh, [Next]_vars
  PROVE  [OlderOnlyFromNotices]_vars
<1>1. guide \in Guides /\ job \in Jobs /\ sub.pending \in Changes
  BY DEF VisitInv, TypeOK, Subs
<1> SUFFICES ASSUME NEW s \in Services, guide'.generation = guide.generation,
                    guide.snapshot[s] # Nothing, guide'.snapshot[s] # Nothing,
                    guide'.snapshot[s].number < guide.snapshot[s].number
             PROVE  guide'.snapshot[s] \in {guide.deferred[s], sub.pending.programs[s]}
  BY DEF OlderOnlyFromNotices
<1>2. guide.snapshot[s].number \in Int
  BY <1>1 DEF Guides, Snapshots, Versions
<1>3. guide'.snapshot[s] # guide.snapshot[s]
  BY <1>2
<1>4. CASE \E due \in BOOLEAN : PollGuide(due)
  <2> DEFINE done == Completed(guide)
             g == IF done.acq = "idle" THEN ApplyDeferred(done) ELSE done
  <2>1. done \in Guides
    BY CompletedFacts
  <2>2. done.deferred = guide.deferred
    BY <1>1 DEF Completed, Succeeded, Refused, Guides
  <2>3. \/ done.snapshot[s] = guide.snapshot[s]
        \/ /\ guide.acq # "cancelling" /\ job.state = "finished" /\ job.ok
           /\ job.programs[s] = Nothing \/ done.snapshot[s] = job.programs[s]
           /\ done.snapshot[s] = Nothing \/ done.snapshot[s] = job.programs[s]
    <3>1. CASE job.state = "finished" /\ guide.acq # "cancelling" /\ job.ok
      <4>1. done.snapshot \in {job.programs, Override(guide.snapshot, job.programs)}
        BY <1>1, <3>1 DEF Completed, Succeeded, Guides
      <4>2. QED
        BY <3>1, <4>1 DEF Override
    <3>2. CASE ~(job.state = "finished" /\ guide.acq # "cancelling" /\ job.ok)
      <4>1. done.snapshot = guide.snapshot
        BY <1>1, <3>2 DEF Completed, Refused, Guides
      <4>2. QED
        BY <4>1
    <3>3. QED
      BY <3>1, <3>2
  <2> HIDE DEF done
  <2>4. g.snapshot[s] \in {done.snapshot[s], guide.deferred[s]}
    BY <2>1, <2>2, ApplyDeferredShows
  <2>5. guide'.snapshot = g.snapshot
    <3>1. g \in Guides
      BY <2>1, CompletedFacts, ApplyDeferredFacts DEF SameVisit, done
    <3> HIDE DEF g
    <3>2. CASE \E refresh, services :
                guide' = [g EXCEPT !.acq = "fetching", !.outcome = "waiting",
                                   !.refresh = refresh, !.services = services]
      BY <3>1, <3>2 DEF Guides
    <3>3. CASE \E services :
                guide' = [g EXCEPT !.acq = "fetching", !.outcome = "waiting",
                                   !.services = services]
      BY <3>1, <3>3 DEF Guides
    <3>4. QED
      BY <1>4, <3>2, <3>3, ZenonT(60) DEF PollGuide, g, done
  <2>6. CASE job.state = "finished" /\ job.ok /\ guide.acq = "fetching"
               /\ guide'.snapshot[s] = job.programs[s]
    <3>1. guide.snapshot[s].number <= guide'.snapshot[s].number
      BY <2>6 DEF AnswerIsFresh
    <3>2. guide'.snapshot[s] \in Versions
      <4>1. guide' \in Guides
        BY NextVisit DEF VisitInv, TypeOK
      <4>2. QED
        BY <4>1 DEF Guides, Snapshots
    <3>3. QED
      BY <1>2, <3>1, <3>2 DEF Versions
  <2>7. guide.acq = "idle" => job.state = "none"
    BY DEF VisitInv, JobInv
  <2>8. guide.acq \in {"idle", "fetching", "cancelling"}
    BY <1>1 DEF Guides
  <2>9. QED
    BY <1>3, <2>3, <2>4, <2>5, <2>6, <2>7, <2>8
<1>5. CASE PollEvents
  <2>1. guide' \in {guide, Events(guide, sub.pending), Events(guide, Full)}
    BY <1>5 DEF PollEvents
  <2>2. Full.programs[s] = Nothing
    BY ConstantTypes DEF NoPrograms
  <2>3. QED
    BY <1>1, <1>3, <2>1, <2>2, EventsShow, ConstantTypes
<1>6. CASE Connect \/ CatalogAnswers \/ CatalogFails \/ BackoffEnds
  <2>1. \/ guide' = guide
        \/ guide' = [guide EXCEPT !.refresh = TRUE]
        \/ guide' = [guide EXCEPT !.outcome = "retry"]
        \/ \E server : guide' = Configured(guide, server)
    BY <1>6 DEF Connect, CatalogAnswers, CatalogFails, BackoffEnds
  <2>2. \A server : \/ Configured(guide, server) = guide
                    \/ Configured(guide, server).generation = guide.generation + 1
    BY DEF Configured, NoGuide
  <2>3. guide.generation \in Nat
    BY <1>1 DEF Guides
  <2>4. CASE guide' = [guide EXCEPT !.refresh = TRUE] \/ guide' = [guide EXCEPT !.outcome = "retry"]
    BY <1>1, <1>3, <2>4 DEF Guides
  <2>5. QED
    BY <1>3, <2>1, <2>2, <2>3, <2>4
<1>7. CASE UNCHANGED guide
  BY <1>3, <1>7
<1>8. QED
  BY <1>4, <1>5, <1>6, <1>7
     DEF Next, vars, Subscription, Connected, Missing, MissingForNow, NotFound, Reprobe, Failed,
         Retry, Decode, Flush, Panic, Left, Request, Answer, RequestFails, TaskEnds, HoldEnds,
         ServerChanges

----------------------------------------------------------------------------
(* The theorems about what the guide shows.                                 *)

CurrencyInv == VisitInv /\ Orderly /\ Underway /\ AllPast /\ AnswerIsFresh

LEMMA InitCurrency == Init => CurrencyInv
<1> SUFFICES ASSUME Init PROVE CurrencyInv
  OBVIOUS
<1>1. VisitInv
  BY InitVisit
<1>2. Orderly /\ Underway
  BY DEF Init, Orderly, Underway, NoStream, NoGuide, NoJob, NoPrograms
<1>3. AllPast
  BY PastConstants DEF Init, AllPast, NoStream, NoGuide, NoJob, NoSub
<1>4. AnswerIsFresh
  BY DEF Init, AnswerIsFresh, NoGuide
<1>5. QED
  BY <1>1, <1>2, <1>3, <1>4 DEF CurrencyInv

(* The inductive invariant: the version of every service is on its way, or the
   guide shows it or will ask for it; and no stage is ahead of the server. *)
THEOREM CurrencyInvariant == Spec => []CurrencyInv
<1>1. CurrencyInv /\ [Next]_vars => CurrencyInv'
  BY NextVisit, NextOrderly, NextUnderway, NextPast, NextFresh DEF CurrencyInv
<1>2. QED
  BY <1>1, InitCurrency, PTL DEF Spec

(* When nothing waits anywhere, the guide is what its server has: for any
   limits, failures and reconnections, no change is ever lost. *)
THEOREM QuietGuideIsCurrent == Spec => []QuietIsCurrent
<1>1. CurrencyInv => QuietIsCurrent
  <2> SUFFICES ASSUME CurrencyInv, Quiet PROVE guide.snapshot = world[guide.desired]
    BY DEF QuietIsCurrent
  <2>1. VisitInv /\ Orderly /\ Underway
    BY DEF CurrencyInv
  <2>2. guide.desired = stream.server /\ stream.server \in Servers
    BY <2>1, Reading DEF Quiet
  <2>3. ASSUME NEW s \in Services
        PROVE  guide.snapshot[s] = world[stream.server][s]
    <3> DEFINE version == world[stream.server][s]
    <3>1. version \in Versions /\ OnWire(s, version)
      BY <2>1, Reading DEF Quiet, Underway
    <3> HIDE DEF version
    <3>2. Len(stream.wire) = 0
      BY DEF Quiet
    <3>3. /\ ~ToldBy(stream.wire, s, version)
          /\ version # Nothing /\ Nothing # Garbled
      BY <3>1, <3>2, VersionAssumption, GuideAssumption DEF ToldBy
    <3>4. ~Tells(NoChanges, s, version)
      BY <3>3 DEF Tells, NoChanges, NoPrograms
    <3>5. Keeps(guide, job, s, version)
      BY <3>1, <3>3, <3>4 DEF OnWire, InGate, InHand, InGuide, Quiet
    <3>6. guide.next = "armed" /\ ~Awaits(guide, s) /\ guide.deferred[s] = Nothing
      BY <2>1 DEF Quiet, Orderly, Awaits, NoPrograms
    <3>7. guide.snapshot[s] = version
      BY <3>3, <3>5, <3>6 DEF Keeps, Shows, Quiet
    <3>8. QED
      BY <3>7 DEF version
  <2>4. /\ guide.snapshot \in [Services -> Versions \cup {Nothing}]
        /\ world[stream.server] \in [Services -> Versions]
    BY <2>1, <2>2 DEF VisitInv, TypeOK, Guides, Snapshots
  <2>5. QED
    BY <2>2, <2>3, <2>4
<1>2. QED
  BY <1>1, CurrencyInvariant, PTL

(* An older version of a programme only comes back as a notification, never
   with the answer to a request. *)
THEOREM AnswersNeverGoBack == Spec => ResponsesNeverGoBack
<1>1. CurrencyInv /\ [Next]_vars => [OlderOnlyFromNotices]_vars
  BY NextNeverGoesBack DEF CurrencyInv
<1>2. QED
  BY <1>1, CurrencyInvariant, PTL DEF Spec, ResponsesNeverGoBack

=============================================================================
