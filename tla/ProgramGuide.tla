---------------------------- MODULE ProgramGuide ----------------------------
(***************************************************************************)
(* How the programme guide follows a server: the event subscription        *)
(* (crates/viewer-epg-events), a Tokio worker behind a controller, and the *)
(* acquisition of snapshots over HTTP (features/program_info.rs on         *)
(* services/job.rs), both polled by the GUI thread, which also connects to *)
(* another server and learns its channels (player/connection.rs, epg.rs).  *)
(*                                                                         *)
(* A programme is a version number per service; servers change versions    *)
(* and tell the stream that is connected.  Deadlines pass at any moment:   *)
(* `now >= next` is the choice to take a step.                             *)
(***************************************************************************)
EXTENDS Integers, Sequences, FiniteSets

CONSTANTS
  ArrayServers,   \* serve /api/events/stream: programme events
  SseServers,     \* serve /events: events that name a service
  Services,       \* services of every server, one programme each
  Listed,         \* the services the channel catalogue knows
  Nothing,        \* no programme, no server
  Garbled,        \* a programme payload that does not parse
  MaxPrograms,    \* MAX_PENDING_PROGRAMS
  MaxServices,    \* MAX_PENDING_SERVICES
  MaxChanges,     \* programme changes on the servers
  MaxFaults,      \* failures of requests, streams, payloads and workers
  MaxConnects     \* connect_server by the user

Servers == ArrayServers \cup SseServers

ASSUME GuideAssumption ==
  /\ ArrayServers \cap SseServers = {}
  /\ Nothing \notin Servers /\ Garbled # Nothing
  /\ Listed \subseteq Services
  /\ {MaxPrograms, MaxServices, MaxChanges, MaxFaults, MaxConnects} \subseteq Nat

VARIABLES
  world,     \* external: the programmes each server has
  catalog,   \* the session: "none", a "candidate" server, "listed" or "empty" channels
  stream,    \* the subscription's worker and its connection
  sub,       \* viewer_epg_events::controller::Controller and `pending`
  guide,     \* ProgramInfo
  job,       \* its HTTP request
  budget     \* changes, faults and connects that remain

vars == <<world, catalog, stream, sub, guide, job, budget>>

Version(server, number) == [of |-> server, number |-> number]
Versions == [of: Servers, number: 0 .. MaxChanges]
ASSUME VersionAssumption == Nothing \notin Versions /\ Garbled \notin Versions

Programs == [Services -> Versions \cup {Nothing, Garbled}]
Snapshots == [Services -> Versions \cup {Nothing}]
NoPrograms == [s \in Services |-> Nothing]
Known(programs) == {s \in Services : programs[s] # Nothing}
Override(programs, changed) ==
  [s \in Services |-> IF changed[s] = Nothing THEN programs[s] ELSE changed[s]]

----------------------------------------------------------------------------
(* Changes: last write wins, and too many of them are one full refresh. *)

Changes == [full: BOOLEAN, programs: Programs, services: SUBSET Services]
NoChanges == [full |-> FALSE, programs |-> NoPrograms, services |-> {}]
Full == [NoChanges EXCEPT !.full = TRUE]

Limited(changes) ==
  IF \/ Cardinality(Known(changes.programs)) > MaxPrograms
     \/ Cardinality(changes.services) > MaxServices
  THEN Full ELSE changes

Merge(changes, more) ==
  IF changes.full \/ more.full THEN Full
  ELSE Limited([full |-> FALSE,
                programs |-> Override(changes.programs, more.programs),
                services |-> changes.services \cup more.services])

\* The events a server sends for a change, and what decoding one adds.
ProgramEvent(s, version) == [NoChanges EXCEPT !.programs[s] = version]
ServiceEvent(s) == [NoChanges EXCEPT !.services = {s}]

----------------------------------------------------------------------------
(* The subscription.  stream.phase is where the worker stands: awaiting    *)
(* response headers, reading the body, between retries, waiting to probe   *)
(* again, panicked, or cancelled and not finished yet.                     *)

NoStream == [phase |-> "none", server |-> Nothing, endpoint |-> "array",
             established |-> FALSE, wire |-> <<>>, changes |-> NoChanges, dirty |-> FALSE]
Phases == {"none", "connecting", "receiving", "retrying", "unsupported", "panicked", "leaving"}
Streams == [phase: Phases, server: Servers \cup {Nothing}, endpoint: {"array", "sse"},
            established: BOOLEAN, wire: Seq(Changes), changes: Changes, dirty: BOOLEAN]

NoSub == [desired |-> Nothing, phase |-> "idle", pending |-> NoChanges, held |-> FALSE]
Subs == [desired: Servers \cup {Nothing}, phase: {"idle", "running", "stopping"},
         pending: Changes, held: BOOLEAN]

Serves(server, endpoint) ==
  server \in (IF endpoint = "array" THEN ArrayServers ELSE SseServers)

Fault == /\ budget.faults > 0
         /\ budget' = [budget EXCEPT !.faults = @ - 1]

\* The response headers arrive: whatever was missed until now needs a refresh.
Connected ==
  /\ stream.phase = "connecting"
  /\ Serves(stream.server, stream.endpoint)
  /\ stream' = [stream EXCEPT !.phase = "receiving", !.established = TRUE,
                              !.changes = Full, !.dirty = TRUE]
  /\ UNCHANGED <<world, catalog, sub, guide, job, budget>>

\* 404 or 405.  An endpoint that once answered is probed from the start; a
\* first probe goes on to SSE; when both are missing, probe again later.
NotFound ==
  /\ stream.phase = "connecting"
  /\ \/ /\ stream.established
        /\ sub' = [sub EXCEPT !.pending = Full]
        /\ stream' = [stream EXCEPT !.established = FALSE, !.endpoint = "array"]
     \/ /\ ~stream.established /\ stream.endpoint = "array"
        /\ stream' = [stream EXCEPT !.endpoint = "sse"]
        /\ UNCHANGED sub
     \/ /\ ~stream.established /\ stream.endpoint = "sse"
        /\ stream' = [stream EXCEPT !.phase = "unsupported", !.changes = NoChanges,
                                    !.dirty = FALSE]
        /\ UNCHANGED sub
  /\ UNCHANGED <<world, catalog, guide, job>>
Missing ==
  ~Serves(stream.server, stream.endpoint) /\ NotFound /\ UNCHANGED budget
MissingForNow ==     \* while the server restarts
  Serves(stream.server, stream.endpoint) /\ NotFound /\ Fault

Reprobe ==
  /\ stream.phase = "unsupported"
  /\ stream' = [stream EXCEPT !.phase = "connecting", !.endpoint = "array"]
  /\ UNCHANGED <<world, catalog, sub, guide, job, budget>>

\* No headers, an error status, the end of the body or an event that cannot
\* be decoded: events on the wire are lost.
Broken(connection) ==
  [connection EXCEPT !.phase = "retrying", !.wire = <<>>, !.changes = Full, !.dirty = TRUE]
Failed ==
  /\ stream.phase \in {"connecting", "receiving"}
  /\ Fault
  /\ stream' = Broken(stream)
  /\ UNCHANGED <<world, catalog, sub, guide, job>>

Retry ==
  /\ stream.phase = "retrying"
  /\ stream' = [stream EXCEPT !.phase = "connecting"]
  /\ UNCHANGED <<world, catalog, sub, guide, job, budget>>

Decode ==
  /\ stream.phase = "receiving" /\ stream.wire # <<>>
  /\ stream' = [stream EXCEPT !.wire = Tail(@), !.changes = Merge(@, Head(stream.wire)),
                              !.dirty = TRUE]
  /\ UNCHANGED <<world, catalog, sub, guide, job, budget>>

\* flush, once the gate's interval is over.
Flush ==
  /\ stream.phase \in {"receiving", "retrying"} /\ stream.dirty
  /\ sub' = [sub EXCEPT !.pending = Merge(@, stream.changes)]
  /\ stream' = [stream EXCEPT !.changes = NoChanges, !.dirty = FALSE]
  /\ UNCHANGED <<world, catalog, guide, job, budget>>

Panic ==
  /\ stream.phase \in Phases \ {"none", "panicked", "leaving"}
  /\ Fault
  /\ stream' = [NoStream EXCEPT !.phase = "panicked"]
  /\ UNCHANGED <<world, catalog, sub, guide, job>>

\* A cancelled worker's task is destroyed.
Left ==
  /\ stream.phase = "leaving"
  /\ stream' = NoStream
  /\ UNCHANGED <<world, catalog, sub, guide, job, budget>>

Subscription == \/ Connected \/ Missing \/ MissingForNow \/ Reprobe \/ Failed \/ Retry
                \/ Decode \/ Flush \/ Panic \/ Left

----------------------------------------------------------------------------
(* ProgramInfo.  guide.outcome and guide.next are those of Idle; "failed"  *)
(* backs off, "retry" no longer; next is the periodic refresh.  job is the *)
(* task that answers it, guide.acq says whether it is still wanted.        *)

NoJob == [state |-> "none", scope |-> "full", server |-> Nothing, generation |-> 0,
          ok |-> FALSE, programs |-> NoPrograms]
NoGuide == [desired |-> Nothing, generation |-> 0, acq |-> "idle", next |-> "none",
            outcome |-> "waiting", refresh |-> FALSE, deferred |-> NoPrograms,
            services |-> {}, snapshot |-> NoPrograms]
Jobs == [state: {"none", "asked", "finished", "leaving"},
         scope: {"full"} \cup Services, server: Servers \cup {Nothing}, generation: Nat,
         ok: BOOLEAN, programs: Snapshots]
Guides == [desired: Servers \cup {Nothing}, generation: Nat,
           acq: {"idle", "fetching", "cancelling"}, next: {"none", "armed"},
           outcome: {"waiting", "ready", "failed", "retry"}, refresh: BOOLEAN,
           deferred: Programs, services: SUBSET Services, snapshot: Snapshots]

(* Slip: what does not parse is taken as it is. *)
ApplyDeferredUnparsed(g) ==
  [g EXCEPT !.deferred = NoPrograms, !.snapshot = Override(@, g.deferred)]

\* One payload that does not parse discards them all: fetch everything instead.
ApplyDeferred(g) ==
  IF Garbled \in {g.deferred[s] : s \in Services}
  THEN [g EXCEPT !.deferred = NoPrograms, !.refresh = TRUE]
  ELSE [g EXCEPT !.deferred = NoPrograms, !.snapshot = Override(@, g.deferred)]

\* A full refresh stands for all that waits.
RefreshInstead(g) == [g EXCEPT !.refresh = TRUE, !.deferred = NoPrograms, !.services = {}]

Deferring(g, changes) ==
  [g EXCEPT !.services = @ \cup (changes.services \cap Listed),
            !.refresh = @ \/ ~(changes.services \subseteq Listed),
            !.deferred = Override(@, changes.programs)]

Overflows(g) == \/ Cardinality(g.services) > MaxServices
                \/ Cardinality(Known(g.deferred)) > MaxPrograms

(* Slip: notifications are applied at once, whatever is in flight. *)
EventsAtOnce(g, changes) ==
  LET kept == Deferring(g, changes)
  IN IF g.desired = Nothing THEN g
     ELSE IF changes.full THEN RefreshInstead(g)
     ELSE ApplyDeferred(IF Overflows(kept) THEN RefreshInstead(kept) ELSE kept)

Events(g, changes) ==
  LET kept == Deferring(g, changes)
      held == IF Overflows(kept) THEN RefreshInstead(kept) ELSE kept
  IN IF g.desired = Nothing THEN g
     ELSE IF changes.full THEN RefreshInstead(g)
     ELSE IF g.acq = "idle" THEN ApplyDeferred(held) ELSE held

(* Slip: what waited for the request is kept. *)
ConfiguredDeferring(g, server) ==
  IF g.desired = server THEN g
  ELSE [NoGuide EXCEPT !.desired = server, !.generation = g.generation + 1,
                       !.acq = IF g.acq = "idle" THEN "idle" ELSE "cancelling",
                       !.deferred = g.deferred]

\* configure: a fetch in flight is cancelled, nothing of it is kept.
Configured(g, server) ==
  IF g.desired = server THEN g
  ELSE [NoGuide EXCEPT !.desired = server, !.generation = g.generation + 1,
                       !.acq = IF g.acq = "idle" THEN "idle" ELSE "cancelling"]
Cancelled(g, server) ==
  IF g.desired # server /\ g.acq = "fetching" THEN [NoJob EXCEPT !.state = "leaving"] ELSE job

(* Slip: the answer settles every request that was made meanwhile. *)
SucceededSettling(g) ==
  [g EXCEPT !.acq = "idle", !.outcome = "ready", !.refresh = FALSE,
            !.next = IF job.scope = "full" THEN "armed" ELSE @,
            !.snapshot = IF job.scope = "full" THEN job.programs ELSE Override(@, job.programs)]

\* The first part of poll_at: a request whose task has finished.
Succeeded(g) ==
  [g EXCEPT !.acq = "idle", !.outcome = "ready",
            !.next = IF job.scope = "full" THEN "armed" ELSE @,
            !.snapshot = IF job.scope = "full" THEN job.programs ELSE Override(@, job.programs)]

(* Slip: the timer starts again after an error too, and stands for the retry. *)
RefusedArmed(g) == [g EXCEPT !.acq = "idle", !.outcome = "failed", !.next = "armed"]

Refused(g) ==
  LET waiting == g.services \cup (IF job.scope = "full" THEN {} ELSE {job.scope})
      over == Cardinality(waiting) > MaxServices
  IN [g EXCEPT !.acq = "idle", !.outcome = "failed",
               !.refresh = @ \/ job.scope = "full" \/ over,
               !.services = IF over THEN {} ELSE waiting]
Completed(g) ==
  IF job.state # "finished" THEN g
  ELSE IF g.acq = "cancelling" THEN [g EXCEPT !.acq = "idle"]
  ELSE IF job.ok THEN Succeeded(g) ELSE Refused(g)

Asking(g, scope) == [NoJob EXCEPT !.state = "asked", !.scope = scope, !.server = g.desired,
                                  !.generation = g.generation]

\* poll_at: take a finished request, apply what waited for it, ask for more;
\* due says that the periodic refresh is.
PollGuide(due) ==
  LET done == Completed(guide)
      g == IF done.acq = "idle" THEN ApplyDeferred(done) ELSE done
      mayAsk == g.desired # Nothing /\ g.acq = "idle" /\ g.outcome # "failed"
      all == g.refresh \/ g.next = "none" \/ due
  IN /\ \/ /\ mayAsk /\ all
           /\ guide' = [g EXCEPT !.acq = "fetching", !.outcome = "waiting",
                                 !.refresh = FALSE, !.services = {}]
           /\ job' = Asking(g, "full")
        \/ /\ mayAsk /\ ~all
           /\ \E s \in g.services :
                /\ guide' = [g EXCEPT !.acq = "fetching", !.outcome = "waiting",
                                      !.services = @ \ {s}]
                /\ job' = Asking(g, s)
        \/ /\ ~mayAsk \/ (~all /\ g.services = {})
           /\ guide' = g
           /\ job' = IF job.state = "finished" THEN NoJob ELSE job
     /\ UNCHANGED <<world, catalog, stream, sub, budget>>

\* The end of a backoff.
BackoffEnds ==
  /\ guide.outcome = "failed"
  /\ guide' = [guide EXCEPT !.outcome = "retry"]
  /\ UNCHANGED <<world, catalog, stream, sub, job, budget>>

\* The request's task: the server reads its programmes, which a later poll
\* takes, or the request fails; a cancelled task ends.
Answer ==
  /\ job.state = "asked"
  /\ job' = [job EXCEPT !.state = "finished", !.ok = TRUE,
                !.programs = [s \in Services |-> IF job.scope \in {"full", s}
                                                THEN world[job.server][s] ELSE Nothing]]
  /\ UNCHANGED <<world, catalog, stream, sub, guide, budget>>
RequestFails ==
  /\ job.state = "asked"
  /\ Fault
  /\ job' = [job EXCEPT !.state = "finished"]
  /\ UNCHANGED <<world, catalog, stream, sub, guide>>
TaskEnds ==
  /\ job.state = "leaving"
  /\ job' = [job EXCEPT !.state = "finished"]
  /\ UNCHANGED <<world, catalog, stream, sub, guide, budget>>

Request == Answer \/ RequestFails \/ TaskEnds

----------------------------------------------------------------------------
(* The controller of the subscription and the GUI thread's calls. *)

\* configure: the old subscription's notifications are out of reach at once.
Resubscribed(server) ==
  [NoSub EXCEPT !.desired = server,
                !.phase = IF sub.phase = "idle" THEN "idle" ELSE "stopping"]
Stopped ==
  IF sub.phase = "running" /\ stream.phase # "panicked"
  THEN [NoStream EXCEPT !.phase = "leaving"] ELSE stream

\* poll_epg_events: a stopped worker is replaced when its task is gone, a
\* running one is emptied into the guide.
PollEvents ==
  /\ \/ /\ sub.phase = "stopping" /\ stream.phase = "panicked"
        /\ sub' = [sub EXCEPT !.phase = "idle", !.held = TRUE]
        /\ stream' = NoStream
        /\ UNCHANGED guide
     \/ /\ sub.phase # "running" /\ stream.phase = "none"
        /\ IF sub.desired # Nothing /\ ~sub.held
           THEN /\ sub' = [sub EXCEPT !.phase = "running"]
                /\ stream' = [NoStream EXCEPT !.phase = "connecting", !.server = sub.desired]
           ELSE /\ sub' = [sub EXCEPT !.phase = "idle"]
                /\ UNCHANGED stream
        /\ UNCHANGED guide
     \/ /\ sub.phase = "running" /\ stream.phase # "panicked"
        /\ sub' = [sub EXCEPT !.pending = NoChanges]
        /\ guide' = Events(guide, sub.pending)
        /\ UNCHANGED stream
     \/ /\ sub.phase = "running" /\ stream.phase = "panicked"
        /\ sub' = [sub EXCEPT !.pending = NoChanges, !.phase = "stopping"]
        /\ guide' = Events(guide, Full)
        /\ UNCHANGED stream
  /\ UNCHANGED <<world, catalog, job, budget>>

HoldEnds ==
  /\ sub.held
  /\ sub' = [sub EXCEPT !.held = FALSE]
  /\ UNCHANGED <<world, catalog, stream, guide, job, budget>>

\* connect_server.  The server in use is only read again, unless its channels
\* are being read (request.is_busy); for another one everything stops first,
\* and if playback cannot end (~ok) it stays so.
Connect ==
  /\ budget.connects > 0
  /\ budget' = [budget EXCEPT !.connects = @ - 1]
  /\ \/ /\ catalog # "none"
        /\ guide' \in {guide, [guide EXCEPT !.refresh = TRUE]}
        /\ UNCHANGED <<catalog, stream, sub, job>>
     \/ \E server \in Servers, ok \in BOOLEAN :
          /\ catalog = "none" \/ server # sub.desired
          /\ catalog' = IF ok THEN "candidate" ELSE "none"
          /\ sub' = Resubscribed(IF ok THEN server ELSE Nothing)
          /\ stream' = Stopped
          /\ guide' = Configured(guide, Nothing)
          /\ job' = Cancelled(guide, Nothing)
  /\ UNCHANGED world

\* poll_channels with an answer: the guide follows a server with channels.
\* An emptied catalogue counts as a fault to bound how often that happens.
CatalogAnswers ==
  /\ catalog # "none"
  /\ \E listed \in BOOLEAN :
       LET server == IF listed THEN sub.desired ELSE Nothing
       IN /\ catalog' = IF listed THEN "listed" ELSE "empty"
          /\ catalog' # catalog
          /\ IF listed THEN UNCHANGED budget ELSE Fault
          /\ guide' = Configured(guide, server)
          /\ job' = Cancelled(guide, server)
  /\ UNCHANGED <<world, stream, sub>>

\* poll_channels with an error: a candidate that is not the saved server is
\* given up; otherwise nothing changes here.
CatalogFails ==
  /\ catalog = "candidate"
  /\ Fault
  /\ catalog' = "none"
  /\ sub' = Resubscribed(Nothing)
  /\ stream' = Stopped
  /\ UNCHANGED <<world, guide, job>>

\* A server changes a programme and tells the stream that is connected.  A
\* Mirakurun event may lack its data (Full) or carry one that does not parse.
Notices(server, s, version) ==
  IF server \in ArrayServers THEN {ProgramEvent(s, version), Full} ELSE {ServiceEvent(s)}
ServerChanges ==
  /\ budget.changes > 0
  /\ \E server \in Servers, s \in Services :
       LET version == Version(server, world[server][s].number + 1)
           heard == stream.phase = "receiving" /\ stream.server = server
           spoilt == {ProgramEvent(s, Garbled)}
       IN /\ world' = [world EXCEPT ![server][s] = version]
          /\ \/ /\ heard
                /\ budget' = [budget EXCEPT !.changes = @ - 1]
                /\ \E notice \in Notices(server, s, version) :
                     stream' = [stream EXCEPT !.wire = Append(@, notice)]
             \/ /\ heard /\ server \in ArrayServers /\ budget.faults > 0
                /\ budget' = [budget EXCEPT !.changes = @ - 1, !.faults = @ - 1]
                /\ \E notice \in spoilt : stream' = [stream EXCEPT !.wire = Append(@, notice)]
             \/ /\ ~heard
                /\ budget' = [budget EXCEPT !.changes = @ - 1]
                /\ UNCHANGED stream
  /\ UNCHANGED <<catalog, sub, guide, job>>

Init ==
  /\ world = [server \in Servers |-> [s \in Services |-> Version(server, 0)]]
  /\ catalog = "none"
  /\ stream = NoStream
  /\ sub = NoSub
  /\ guide = NoGuide
  /\ job = NoJob
  /\ budget = [changes |-> MaxChanges, faults |-> MaxFaults, connects |-> MaxConnects]

Next == \/ Subscription \/ Request
        \/ PollEvents \/ HoldEnds \/ (\E due \in BOOLEAN : PollGuide(due)) \/ BackoffEnds
        \/ Connect \/ CatalogAnswers \/ CatalogFails \/ ServerChanges

Spec == Init /\ [][Next]_vars

\* The GUI timer polls, Tokio runs its tasks, deadlines pass.  Nothing is
\* assumed of the user or of failures, nor of the five minute refresh, so
\* that what is shown to follow does not follow from that alone.
LiveSpec ==
  /\ Spec
  /\ WF_vars(PollEvents) /\ WF_vars(PollGuide(FALSE))
  /\ WF_vars(HoldEnds) /\ WF_vars(BackoffEnds)
  /\ WF_vars(Connected) /\ WF_vars(Missing)
  /\ WF_vars(Reprobe) /\ WF_vars(Retry) /\ WF_vars(Decode) /\ WF_vars(Flush) /\ WF_vars(Left)
  /\ WF_vars(Answer) /\ WF_vars(TaskEnds)

----------------------------------------------------------------------------
(* Properties. *)

\* Types.  Payloads that do not parse get as far as the deferred set, never
\* into the guide's snapshot (apply_deferred).
TypeOK ==
  /\ world \in [Servers -> [Services -> Versions]]
  /\ catalog \in {"none", "candidate", "listed", "empty"}
  /\ stream \in Streams /\ sub \in Subs /\ guide \in Guides /\ job \in Jobs
  /\ budget \in [changes: 0 .. MaxChanges, faults: 0 .. MaxFaults, connects: 0 .. MaxConnects]

\* No change is ever lost between the stream, the gate, the hand-over, the
\* deferred set and the requests: when nothing waits in any of them, the guide
\* is what the server has (epg-event-stream.md, Changes, RefreshGate, events).
Quiet ==
  /\ stream.phase = "receiving" /\ stream.wire = <<>> /\ stream.changes = NoChanges
  /\ sub.phase = "running" /\ sub.pending = NoChanges
  /\ guide.desired # Nothing /\ guide.acq = "idle" /\ guide.outcome = "ready"
  /\ ~guide.refresh /\ guide.deferred = NoPrograms /\ guide.services = {}
QuietIsCurrent == Quiet => guide.snapshot = world[guide.desired]

\* What carries a server's name carries this one's.
Own(programs, server) ==
  \A s \in Services : programs[s] \notin {Nothing, Garbled} => programs[s].of = server

\* Nothing of another server, nor of an earlier visit to the same one, gets
\* into the guide: neither by a response nor by a notification (configure:
\* "Never reuse results, even for A -> B -> A").
OnlyThisVisit ==
  /\ Own(guide.snapshot, guide.desired) /\ Own(guide.deferred, guide.desired)
  /\ guide.acq = "fetching" =>
       job.server = guide.desired /\ job.generation = guide.generation

\* What keeps OnlyThisVisit true: everything on its way to the guide carries
\* the server its stage works for, and the stages agree about that server.
Spent == \A server \in Servers, s \in Services :
           world[server][s].number + budget.changes <= MaxChanges
WorldInv == \A server \in Servers : Own(world[server], server)
StreamInv ==
  /\ Own(stream.changes.programs, stream.server)
  /\ \A i \in 1 .. Len(stream.wire) : Own(stream.wire[i].programs, stream.server)
SubInv ==
  /\ Own(sub.pending.programs, sub.desired)
  /\ IF sub.phase = "running"
     THEN \/ stream.phase = "panicked"
          \/ stream.server = sub.desired /\ stream.phase \notin {"none", "leaving"}
     ELSE stream.phase \in {"none", "leaving", "panicked"}
GuideInv ==
  /\ guide.desired \in (IF catalog = "listed" THEN {Nothing, sub.desired} ELSE {Nothing})
  /\ Own(guide.snapshot, guide.desired) /\ Own(guide.deferred, guide.desired)
JobInv ==
  /\ Own(job.programs, job.server)
  /\ guide.acq = "fetching" => /\ job.state \in {"asked", "finished"}
                               /\ guide.desired # Nothing /\ job.server = guide.desired
                               /\ job.generation = guide.generation
  /\ guide.acq = "cancelling" => job.state \in {"leaving", "finished"}
  /\ guide.acq = "idle" => job.state = "none"
VisitInv == TypeOK /\ Spent /\ WorldInv /\ StreamInv /\ SubInv /\ GuideInv /\ JobInv

\* A response never puts back a programme that a notification has replaced
\* since the request was sent: an older version only ever comes from an older
\* notification (events, apply_deferred).
OlderOnlyFromNotices ==
  \A s \in Services :
    LET before == guide.snapshot[s]
        after == guide'.snapshot[s]
        older == /\ guide'.generation = guide.generation
                 /\ Nothing \notin {before, after}
                 /\ after.number < before.number
    IN older => after \in {guide.deferred[s], sub.pending.programs[s]}
ResponsesNeverGoBack == [][OlderOnlyFromNotices]_vars

\* When servers stop changing and nothing fails any more, the guide of a
\* connected server catches up and stays, without the periodic refresh.
CatchesUp == <>[](guide.desired # Nothing => guide.snapshot = world[guide.desired])

=============================================================================
