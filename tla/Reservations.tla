------------------------------ MODULE Reservations ------------------------------
(***************************************************************************)
(* Reservations of one broadcast programme on an EPGStation server: the    *)
(* recording library that holds the verified session (epgstation.rs), the  *)
(* anonymous probe that can establish one (epgstation/verification.rs), the *)
(* reservation manager (epgstation/reservations.rs) with its one job       *)
(* (reservations/http.rs), and the GUI thread's handlers that drive them    *)
(* (player/recording_library.rs, player/recording_reservations.rs).         *)
(*                                                                         *)
(* Three kinds of actor interleave: the GUI thread, whose handlers run one  *)
(* after another; the manager's job, a task of the network runtime that     *)
(* reads the server, checks, writes once and reads again, and that an       *)
(* abort only asks to end; and the servers, which answer late, apply a      *)
(* write whose sender is gone, and are changed by other people.  The        *)
(* library's, the probe's and the encode job only read: what they return    *)
(* is chosen when they are polled.                                          *)
(*                                                                         *)
(* A list is read page by page and rejected when its total moves            *)
(* (http::pages); here one list is read in one step.                        *)
(***************************************************************************)
EXTENDS Naturals, FiniteSets

CONSTANTS
  Servers,       \* the EPGStation servers the user may name
  None,          \* no server, no row, no catalogue
  Preferences,   \* the settings the application may start with
  Encodes,       \* the servers whose encode list has the mode the user chose
  Starts,        \* the phase and the servers' lists to start with
  MaxId,         \* bound: reservations a server ever has for the programme
  MaxSwitches,   \* bound: handlers the user calls that write nothing
  MaxCommands,   \* bound: writes the user asks for
  MaxEvents      \* bound: changes by others, failed requests and steps of the clock

VARIABLES
  world,    \* server -> its reservations of the programme and whether it records
  phase,    \* the programme is yet to start, runs, or is over
  wire,     \* writes on their way to a server
  library,  \* Library: session, operation, verification, loaded page
  settings, \* recording_reservations_enabled, epgstation_server
  manager,  \* reservations::Manager
  task,     \* the task of Work::Running or Work::Retiring
  budget,   \* what is left of the bounds
  writes    \* history: how often each command was written to a server

vars == <<world, phase, wire, library, settings, manager, task, budget, writes>>

Changes == {"cancel", "exclude", "unexclude"}
Commands == Changes \cup {"add"}
Rows == [id : 1..MaxId, rule : BOOLEAN, mark : {"plain", "skipped", "fixed"}]
NoRow == [id |-> 0, rule |-> FALSE]

ASSUME ServersAssumption ==
  /\ None \notin Servers
  /\ Encodes \subseteq Servers
  /\ Preferences \subseteq [enabled : BOOLEAN, saved : Servers \cup {None}]
ASSUME BoundsAssumption ==
  /\ MaxId \in Nat \ {0} /\ {MaxSwitches, MaxCommands, MaxEvents} \subseteq Nat
  /\ Starts \subseteq [phase : {"before", "running", "over"},
                       rows : [Servers -> SUBSET {row \in Rows : row.id = 1}]]

(* Reserve::permits.  "fixed" stands for a time-specified manual reservation
   and for a rule's event relay or overlap, which no change is meant for. *)
Permits(row, change) ==
  /\ phase = "before"
  /\ CASE change = "cancel" -> ~row.rule /\ row.mark # "fixed"
       [] change = "exclude" -> row.rule /\ row.mark = "plain"
       [] change = "unexclude" -> row.rule /\ row.mark = "skipped"

(* Target::matches, on the answer to reserves/{id} *)
Matches(target, row, change) ==
  row.id = target.id /\ row.rule = target.rule /\ Permits(row, change)

(* Program::ongoing and Snapshot::status: the conditions of a new reservation *)
Ongoing == phase # "over"
Taken(list) == list.rows # {} \/ list.recording

(* Snapshot::target: the only reservation of the programme, and permitted *)
Targets(list, change) ==
  {row \in list.rows : /\ Cardinality(list.rows) = 1
                       /\ change = "unexclude" \/ ~list.recording
                       /\ Permits(row, change)}

-----------------------------------------------------------------------------
(* The library's session and the probe that may establish one. *)

Busy(l) == l.operation # "idle"

(* Verification::cancel; the aborted probe still has to end *)
Cancelled(l) ==
  IF l.probe \in {"fetching", "retiring"}
  THEN [l EXCEPT !.probe = "retiring", !.probed = None] ELSE l

(* Verification::close *)
ProbeClosed(l) == [l EXCEPT !.probe = "closed", !.probed = None]

(* Library::verify_for_reservations and Verification::request *)
Verified(l, s) ==
  CASE ~s.enabled -> Cancelled(l)
    [] s.enabled /\ (\/ s.saved = None \/ l.session # None \/ Busy(l)
                     \/ l.probe \in {"fetching", "closed"}) -> l
    [] OTHER -> [l EXCEPT !.probe = IF @ = "idle" THEN "fetching" ELSE @,
                          !.probed = s.saved]

\* Mutant: a probe that was cancelled begins again whatever is wanted.
ProbePollsAgain(l) ==
  {l} \cup
  CASE l.probe = "fetching" ->
         {[l EXCEPT !.probe = "idle", !.probed = None],
          [l EXCEPT !.probe = "idle", !.probed = None,
                    !.session = l.probed, !.generation = @ + 1]}
    [] l.probe = "retiring" -> {[l EXCEPT !.probe = "fetching"]}
    [] OTHER -> {}

(* Verification::poll with Library::poll_reservation_verification *)
ProbePolls(l) ==
  {l} \cup
  CASE l.probe = "fetching" ->
         {[l EXCEPT !.probe = "idle", !.probed = None],
          [l EXCEPT !.probe = "idle", !.probed = None,
                    !.session = l.probed, !.generation = @ + 1]}
    [] l.probe = "retiring" ->
         {[l EXCEPT !.probe = IF l.probed = None THEN "idle" ELSE "fetching"]}
    [] OTHER -> {}

(* Library::begin: the page goes, a running fetch is replaced once it ended *)
Fetch(l, server) ==
  [l EXCEPT !.page = None,
            !.operation = IF @ = "idle" THEN "fetching" ELSE "stopping",
            !.fetched = server]

\* Mutants: the old session stays until the page of the new one arrives; a probe
\* outlives the page's request.
OpenedKeeping(l, server, current) ==
  LET kept == current /\ l.session = server
      open == IF kept THEN Cancelled(l) ELSE [Cancelled(l) EXCEPT !.generation = @ + 1]
  IN  Fetch(open, server)
OpenedBesideProbe(l, server, current) ==
  LET kept == current /\ l.session = server
      open == IF kept THEN l ELSE [l EXCEPT !.session = None, !.generation = @ + 1]
  IN  Fetch(open, server)

(* Library::open.  Only the current session of the same server is kept. *)
Opened(l, server, current) ==
  LET kept == current /\ l.session = server
      open == IF kept THEN Cancelled(l)
              ELSE [Cancelled(l) EXCEPT !.session = None, !.generation = @ + 1]
  IN  Fetch(open, server)

(* Library::cancel *)
FetchCancelled(l) ==
  IF Busy(l) THEN [Cancelled(l) EXCEPT !.operation = "stopping", !.fetched = None]
  ELSE Cancelled(l)

(* Library::poll: pending, failed, or a page that brings its session with it *)
LibraryPolls(l) ==
  {l} \cup
  CASE l.operation = "fetching" ->
         {[l EXCEPT !.operation = "idle", !.fetched = None],
          [l EXCEPT !.operation = "idle", !.fetched = None,
                    !.session = l.fetched, !.page = l.fetched]}
    [] l.operation = "stopping" ->
         {[l EXCEPT !.operation = IF l.fetched = None THEN "idle" ELSE "fetching"]}
    [] OTHER -> {}

-----------------------------------------------------------------------------
(* The manager.  Each operator takes the manager and returns the next one. *)

Connected(m) == m.mode = "connected"
Session(l, s) == IF s.enabled THEN l.session ELSE None

\* Mutant: a running request for the encode list goes on.
EncodeKept(e) ==
  IF e.at \in {"fetching", "retiring"} THEN e ELSE [at |-> "unknown", server |-> None]

(* encode::Catalogue::reset *)
EncodeReset(e) ==
  [at |-> IF e.at \in {"fetching", "retiring"} THEN "retiring" ELSE "unknown", server |-> None]

\* Mutant: the list of the old session stays until the next one is read.
ConfiguredShowing(m, l, s) ==
  LET server == Session(l, s)
  IN  IF \/ m.mode = "closed"
         \/ m.mode = "off" /\ server = None
         \/ Connected(m) /\ server # None /\ m.generation = l.generation
      THEN m
      ELSE [m EXCEPT !.mode = IF server = None THEN "off" ELSE "connected",
                     !.server = server,
                     !.generation = IF server = None THEN 0 ELSE l.generation,
                     !.work = IF m.work = "running" THEN "retiring" ELSE m.work,
                     !.encode = EncodeReset(m.encode),
                     !.due = TRUE]

(* Manager::configure: a new session, or none, drops everything of the old one
   and asks its job to end *)
Configured(m, l, s) ==
  LET server == Session(l, s)
  IN  IF \/ m.mode = "closed"
         \/ m.mode = "off" /\ server = None
         \/ Connected(m) /\ server # None /\ m.generation = l.generation
      THEN m
      ELSE [mode |-> IF server = None THEN "off" ELSE "connected",
            server |-> server,
            generation |-> IF server = None THEN 0 ELSE l.generation,
            work |-> IF m.work = "running" THEN "retiring" ELSE m.work,
            shown |-> None,
            encode |-> EncodeReset(m.encode),
            due |-> TRUE]

(* encode::Catalogue::poll; Unavailable is a list of no server *)
EncodePolls(m) ==
  LET e == m.encode
      Ended == CASE e.at = "fetching" -> {e, [e EXCEPT !.at = "fetched"],
                                          [at |-> "fetched", server |-> None]}
                 [] e.at = "retiring" -> {e, [at |-> "unknown", server |-> None]}
                 [] OTHER -> {e}
  IN  {[m EXCEPT !.encode = IF f.at = "unknown" /\ Connected(m)
                            THEN [at |-> "fetching", server |-> m.server] ELSE f] : f \in Ended}

(* encode::Catalogue::selection: only a mode of the list that was fetched *)
Selection(m) == m.encode.at = "fetched" /\ m.encode.server \in Encodes

\* Mutants: an aborted job is not waited for, or for ever; a failed one leaves
\* the list as it was.
SettledEarly(m) ==
  IF m.work = "idle" \/ (m.work = "running" /\ task.at # "done") THEN m
  ELSE [m EXCEPT !.work = "idle", !.due = @ /\ m.work = "retiring",
                 !.shown = IF m.work = "running" THEN task.result ELSE @]
SettledNever(m) ==
  IF m.work # "running" \/ task.at # "done" THEN m
  ELSE [m EXCEPT !.work = "idle", !.due = FALSE, !.shown = task.result]
SettledShowing(m) ==
  IF m.work = "idle" \/ task.at # "done" THEN m
  ELSE [m EXCEPT !.work = "idle", !.due = @ /\ m.work = "retiring",
                 !.shown = IF m.work = "running" /\ task.result # None THEN task.result ELSE @]

(* Manager::poll, the arms of Work: a finished task frees the manager, and only
   the one that was not superseded hands over its result. *)
Settled(m) ==
  IF m.work = "idle" \/ task.at # "done" THEN m
  ELSE [m EXCEPT !.work = "idle",
                 !.due = @ /\ m.work = "retiring",
                 !.shown = IF m.work = "running" THEN task.result ELSE @]

NoTask == [at |-> "none", kind |-> "refresh", server |-> None, target |-> NoRow,
           encode |-> FALSE, number |-> 0, read |-> None, result |-> None, clean |-> FALSE]

(* Manager::begin; the number tells two writes of one kind apart *)
Started(m, kind, target, encode) ==
  [NoTask EXCEPT !.at = CASE kind = "refresh" -> "rows" [] kind = "add" -> "schedule"
                          [] OTHER -> "detail",
                 !.kind = kind, !.server = m.server, !.target = target, !.encode = encode,
                 !.number = IF kind = "refresh" THEN 0 ELSE budget.commands]

(* Manager::poll as a whole: the job is polled, then the list is read again
   when it is due. *)
Polled(m) ==
  LET settled == Settled(m)
      due == Connected(settled) /\ settled.work = "idle" /\ settled.due
  IN  [manager |-> IF due THEN [settled EXCEPT !.work = "running"] ELSE settled,
       task |-> IF due THEN Started(settled, "refresh", NoRow, FALSE)
                ELSE IF settled.work = "idle" THEN NoTask ELSE task]

-----------------------------------------------------------------------------
(* The GUI thread's handlers.  One that publishes ends with
   poll_recording_reservations, and a command starts with it: Polls(l, s) is
   what that poll makes of the library l and the settings s.  Handlers run to
   their end; job results are read where they poll. *)

Spend(kind) == budget[kind] > 0 /\ budget' = [budget EXCEPT ![kind] = @ - 1]

(* poll_recording_reservations: the probe, the session, the encode list, the job *)
Polls(l, s) ==
  UNION {{[library |-> p, manager |-> Polled(m).manager, task |-> Polled(m).task] :
            m \in EncodePolls(Configured(manager, p, s))} : p \in ProbePolls(l)}

Becomes(state) ==
  library' = state.library /\ manager' = state.manager /\ task' = state.task

Publish(l, s) ==
  /\ \E state \in Polls(l, s) : Becomes(state)
  /\ settings' = s
  /\ UNCHANGED <<world, phase, wire, writes>>

(* poll_player, the part about EPGStation: a page confirms its server *)
Timer ==
  /\ \E l \in LibraryPolls(library) :
       Publish(l, IF l.page # library.page THEN [settings EXCEPT !.saved = l.session] ELSE settings)
  /\ UNCHANGED budget

(* configure_recording_reservations *)
Configure ==
  /\ Spend("switches")
  /\ LET s == [settings EXCEPT !.enabled = ~@]
     IN  Publish(Verified(library, s), s)

(* browse_epgstation (current) and login_epgstation *)
Open(server, current) ==
  /\ Spend("switches")
  /\ Publish(Opened(library, server, current), settings)

(* epgstation_change_page *)
ChangePage ==
  /\ library.page # None /\ Spend("switches")
  /\ Publish(Fetch(library, library.page), settings)

(* refresh_epgstation: the page on the screen stays until the answer *)
RefreshPage ==
  /\ library.page # None /\ ~Busy(library) /\ Spend("switches")
  /\ Publish([library EXCEPT !.operation = "fetching", !.fetched = library.page], settings)

(* cancel_epgstation *)
CancelPage ==
  /\ Spend("switches")
  /\ library' = FetchCancelled(library)
  /\ UNCHANGED <<world, phase, wire, settings, manager, task, writes>>

(* apply_guide_visibility, when the guide opens *)
OpenGuide ==
  /\ Spend("switches")
  /\ library' = Verified(library, settings)
  /\ UNCHANGED <<world, phase, wire, settings, manager, task, writes>>

(* shutdown_recording_reservations; polls may still follow *)
Shutdown ==
  /\ manager.mode # "closed" /\ Spend("switches")
  /\ library' = ProbeClosed(library)
  /\ manager' = [Configured(manager, library, [settings EXCEPT !.enabled = FALSE])
                 EXCEPT !.mode = "closed"]
  /\ UNCHANGED <<world, phase, wire, settings, task, writes>>

(* Manager::refresh *)
Refreshed(state) ==
  LET m == state.manager
  IN  IF Connected(m) /\ m.work = "idle"
      THEN [state EXCEPT !.manager = [m EXCEPT !.work = "running", !.encode = EncodeReset(@)],
                         !.task = Started(m, "refresh", NoRow, FALSE)]
      ELSE state

(* Manager::can_reserve and Manager::can_change *)
Allowed(m, kind) ==
  /\ Connected(m) /\ m.work = "idle" /\ m.shown # None
  /\ IF kind = "add" THEN Ongoing /\ ~Taken(m.shown) ELSE Targets(m.shown, kind) # {}

(* Manager::reserve and Manager::change *)
Commanded(state, kind) ==
  LET m == state.manager
      row == CHOOSE row \in Targets(m.shown, kind) : TRUE
      target == IF kind = "add" THEN NoRow ELSE [id |-> row.id, rule |-> row.rule]
  IN  IF Allowed(m, kind)
      THEN [state EXCEPT !.manager.work = "running",
                         !.task = Started(m, kind, target, kind = "add" /\ Selection(m))]
      ELSE state

(* refresh_reservations *)
RefreshReservations ==
  /\ Spend("switches")
  /\ \E state \in Polls(library, settings) : Becomes(Refreshed(state))
  /\ UNCHANGED <<world, phase, wire, settings, writes>>

(* change_reservation *)
ChangeReservation(kind) ==
  /\ Spend("commands")
  /\ \E state \in Polls(library, settings) : Becomes(Commanded(state, kind))
  /\ UNCHANGED <<world, phase, wire, settings, writes>>

-----------------------------------------------------------------------------
(* The manager's job (http::execute).  After an abort the step that is running
   may still go on: whatever it sent stays on its way. *)

Step(next) ==
  /\ task' = next
  /\ UNCHANGED <<world, phase, library, settings, manager, budget>>

At(pc) == [NoTask EXCEPT !.at = pc, !.server = task.server]
Fails == At("done")
Passes(holds, next) == Step(IF holds THEN next ELSE Fails) /\ UNCHANGED <<wire, writes>>
There == world[task.server]
List(rows) == [server |-> task.server, rows |-> rows, recording |-> FALSE, own |-> There.own]

(* schedules/detail/{id}: the programme is still the one the guide shows.  Other
   times than the guide's fail the job as RequestFails does. *)
CheckSchedule ==
  /\ task.at = "schedule"
  /\ Passes(Ongoing, [task EXCEPT !.at = "reserves"])

(* The complete list before a non-idempotent write: reservations, ... *)
ReadReserves ==
  /\ task.at = "reserves"
  /\ Passes(TRUE, [task EXCEPT !.at = "recording", !.clean = TRUE,
                               !.read = List(There.rows)])

Write(kind) ==
  [server |-> task.server, kind |-> kind, target |-> task.target,
   encode |-> task.encode, number |-> task.number, clean |-> task.clean, awaited |-> TRUE]

(* The job writes, or ends without having written. *)
Sends(kind) ==
  /\ wire' = wire \cup {Write(kind)}
  /\ writes' = [writes EXCEPT ![task.number] = @ + 1]
  /\ Step(At("sent"))
Declines == Step(Fails) /\ UNCHANGED <<wire, writes>>

\* Mutant: what the list says is not looked at again.
SendAddUnchecked ==
  /\ task.at = "recording" /\ task.kind = "add"
  /\ IF Ongoing THEN Sends("add") ELSE Declines

(* ... then recordings, the clock, and the POST *)
SendAdd ==
  /\ task.at = "recording" /\ task.kind = "add"
  /\ IF ~Taken([task.read EXCEPT !.recording = There.recording]) /\ Ongoing
     THEN Sends("add") ELSE Declines

(* reserves/{id}: the very reservation, and the change is still meant for it *)
CheckDetail ==
  /\ task.at = "detail"
  /\ Passes(\E row \in There.rows : Matches(task.target, row, task.kind),
            [task EXCEPT !.at = "recording", !.clean = TRUE,
                         !.read = List({row \in There.rows : row.id = task.target.id})])

\* Mutants: the recordings are not asked for; the clock is not looked at again.
SendChangeRecording ==
  /\ task.at = "recording" /\ task.kind \in Changes
  /\ IF \E row \in task.read.rows : Matches(task.target, row, task.kind)
     THEN Sends(task.kind) ELSE Declines
SendChangeLate ==
  /\ task.at = "recording" /\ task.kind \in Changes
  /\ IF task.kind = "unexclude" \/ ~There.recording THEN Sends(task.kind) ELSE Declines

(* recordings (but not to undo an exclusion), the clock, and the DELETE *)
SendChange ==
  /\ task.at = "recording" /\ task.kind \in Changes
  /\ IF /\ task.kind = "unexclude" \/ ~There.recording
        /\ \E row \in task.read.rows : Matches(task.target, row, task.kind)
     THEN Sends(task.kind) ELSE Declines

(* The list a job ends with: http::snapshot *)
ReadRows ==
  /\ task.at = "rows"
  /\ Passes(TRUE, [task EXCEPT !.at = "records",
                     !.read = List(There.rows)])
ReadRecords ==
  /\ task.at = "records"
  /\ Passes(TRUE, [At("done") EXCEPT !.result = [task.read EXCEPT !.recording = There.recording]])

(* The writes nobody waits for any more *)
Orphaned == {[w EXCEPT !.awaited = FALSE] : w \in wire}

\* Mutant: a write without an answer is checked and written again.
RequestRetries ==
  /\ task.at \notin {"none", "done"} /\ Spend("events")
  /\ task' \in IF task.at # "sent" THEN {Fails}
               ELSE {[NoTask EXCEPT !.at = IF w.kind = "add" THEN "reserves" ELSE "detail",
                                    !.kind = w.kind, !.server = w.server, !.target = w.target,
                                    !.encode = w.encode, !.number = w.number] :
                     w \in {w \in wire : w.awaited}}
  /\ wire' = Orphaned
  /\ UNCHANGED <<world, phase, library, settings, manager, writes>>

(* A request fails or its deadline passes; a write may have been applied. *)
RequestFails ==
  /\ task.at \notin {"none", "done"} /\ Spend("events")
  /\ task' = Fails /\ wire' = Orphaned
  /\ UNCHANGED <<world, phase, library, settings, manager, writes>>

(* The abort of Job::cancel takes effect. *)
AbortEnds ==
  /\ manager.work = "retiring" /\ task.at \notin {"none", "done"}
  /\ Step(Fails) /\ wire' = Orphaned /\ UNCHANGED writes

-----------------------------------------------------------------------------
(* The servers, the clock and other people *)

(* What was checked before another change of the server proves nothing after. *)
Unchecked(server, ws) ==
  {IF w.server = server THEN [w EXCEPT !.clean = FALSE] ELSE w : w \in ws}
Disturbed(server) ==
  /\ task' = IF task.server = server THEN [task EXCEPT !.clean = FALSE] ELSE task
  /\ wire' = Unchecked(server, wire)

(* What a write makes of a server's list: nothing when it is refused.  A DELETE
   excludes a rule's reservation and removes any other. *)
Effects(list, w) ==
  LET named == {row \in list.rows : row.id = w.target.id}
      With(rows) == [list EXCEPT !.rows = rows, !.own = @ + 1]
  IN  CASE w.kind = "add" ->
             IF list.last = MaxId THEN {}
             ELSE {[With(list.rows \cup {[id |-> list.last + 1, rule |-> FALSE, mark |-> "plain"]})
                    EXCEPT !.last = @ + 1]}
        [] w.kind \in {"cancel", "exclude"} ->
             {With((list.rows \ {row})
                   \cup (IF row.rule /\ row.mark # "fixed" THEN {[row EXCEPT !.mark = "skipped"]}
                         ELSE {})) : row \in named}
        [] w.kind = "unexclude" ->
             {With((list.rows \ {row})
                   \cup {[row EXCEPT !.mark = IF @ = "skipped" THEN "plain" ELSE @]}) : row \in named}

(* A server handles a write; the sender reads the list next if it still waits. *)
Serve(w) ==
  /\ IF Effects(world[w.server], w) = {} THEN UNCHANGED world
     ELSE \E list \in Effects(world[w.server], w) :
            world' = [world EXCEPT ![w.server] =
                        IF w.awaited THEN [list EXCEPT !.answered = list.own] ELSE list]
  /\ wire' = Unchecked(w.server, wire \ {w})
  /\ task' = CASE w.awaited /\ world' = world -> Fails
               [] w.awaited /\ world' # world -> At("rows")
               [] OTHER -> IF task.server = w.server THEN [task EXCEPT !.clean = FALSE] ELSE task
  /\ UNCHANGED <<phase, library, settings, manager, budget, writes>>

(* The connection of an orphaned write broke before the server saw it. *)
Lose(w) ==
  /\ ~w.awaited
  /\ wire' = wire \ {w}
  /\ UNCHANGED <<world, phase, library, settings, manager, task, budget, writes>>

(* Another client, a rule or the recorder changes a server's list. *)
Outside(server) ==
  /\ Spend("events")
  /\ \/ world' = [world EXCEPT ![server].recording = ~@]
     \/ \E row \in world[server].rows :
          \/ world' = [world EXCEPT ![server].rows = @ \ {row}]
          \/ \E mark \in {"plain", "skipped", "fixed"} \ {row.mark} :
               world' = [world EXCEPT ![server].rows = (@ \ {row}) \cup {[row EXCEPT !.mark = mark]}]
     \/ \E row \in Rows :
          /\ row.id = world[server].last + 1 /\ row.mark = "plain"
          /\ world' = [world EXCEPT ![server].rows = @ \cup {row}, ![server].last = row.id]
  /\ Disturbed(server)
  /\ UNCHANGED <<phase, library, settings, manager, writes>>

(* The programme starts, and ends.  A write that is on its way can no longer be
   held back; a job that has yet to write can still look at the clock. *)
TimePasses ==
  /\ phase # "over" /\ Spend("events")
  /\ phase' = IF phase = "before" THEN "running" ELSE "over"
  /\ wire' = {[w EXCEPT !.clean = FALSE] : w \in wire}
  /\ UNCHANGED <<world, library, settings, manager, task, writes>>

(* REFRESH_INTERVAL has passed since the last job ended; it is read only while
   a connected manager has no job. *)
Due ==
  /\ Connected(manager) /\ manager.work = "idle" /\ ~manager.due
  /\ manager' = [manager EXCEPT !.due = TRUE]
  /\ UNCHANGED <<world, phase, wire, library, settings, task, budget, writes>>

-----------------------------------------------------------------------------
Init ==
  /\ \E start \in Starts :
       /\ phase = start.phase
       /\ world = [server \in Servers |->
                    [rows |-> start.rows[server], recording |-> FALSE, own |-> 0, answered |-> 0,
                     last |-> IF start.rows[server] = {} THEN 0 ELSE 1]]
  /\ wire = {}
  /\ settings \in Preferences
  /\ library = Verified([session |-> None, generation |-> 0, operation |-> "idle", fetched |-> None,
                         page |-> None, probe |-> "idle", probed |-> None], settings)
  /\ manager = [mode |-> "off", server |-> None, generation |-> 0, work |-> "idle", shown |-> None,
                encode |-> [at |-> "unknown", server |-> None], due |-> TRUE]
  /\ task = NoTask
  /\ budget = [switches |-> MaxSwitches, commands |-> MaxCommands, events |-> MaxEvents]
  /\ writes = [number \in 1..MaxCommands |-> 0]

User ==
  \/ Configure
  \/ \E server \in Servers, current \in BOOLEAN : Open(server, current)
  \/ ChangePage
  \/ RefreshPage
  \/ CancelPage
  \/ OpenGuide
  \/ Shutdown
  \/ RefreshReservations
  \/ \E kind \in Commands : ChangeReservation(kind)

Job ==
  \/ CheckSchedule
  \/ ReadReserves
  \/ SendAdd
  \/ CheckDetail
  \/ SendChange
  \/ ReadRows
  \/ ReadRecords

Answer == \E w \in wire : w.awaited /\ Serve(w)

Next ==
  \/ User
  \/ Timer
  \/ Job
  \/ RequestFails
  \/ AbortEnds
  \/ \E w \in wire : Serve(w) \/ Lose(w)
  \/ \E server \in Servers : Outside(server)
  \/ TimePasses
  \/ Due

Spec == Init /\ [][Next]_vars

(* The GUI timer fires, the runtime runs the job and its
   abort, a request is answered (or its 10 s deadline makes it fail), and the
   refresh interval passes. *)
Fairness ==
  /\ WF_vars(Timer)
  /\ WF_vars(Job \/ AbortEnds \/ Answer)
  /\ WF_vars(Due)
LiveSpec == Spec /\ Fairness

-----------------------------------------------------------------------------
(* Properties *)

Lists == [server : Servers, rows : SUBSET Rows, recording : BOOLEAN, own : Nat]
Named == Servers \cup {None}
LibraryType ==
  [session : Named, generation : Nat, operation : {"idle", "fetching", "stopping"},
   fetched : Named, page : Named, probe : {"idle", "fetching", "retiring", "closed"},
   probed : Named]
ManagerType ==
  [mode : {"off", "closed", "connected"}, server : Named, generation : Nat,
   work : {"idle", "running", "retiring"}, shown : Lists \cup {None},
   encode : [at : {"unknown", "fetching", "fetched", "retiring"}, server : Named], due : BOOLEAN]

TypeOK ==
  /\ world \in [Servers -> [rows : SUBSET Rows, recording : BOOLEAN, own : Nat, answered : Nat,
                            last : 0..MaxId]]
  /\ phase \in {"before", "running", "over"}
  /\ \A w \in wire : w.server \in Servers /\ w.kind \in Commands
  /\ task.at = "sent" <=> \E w \in wire : w.awaited
  /\ library \in LibraryType
  /\ library.operation = "fetching" => library.fetched \in Servers
  /\ library.probe = "fetching" => library.probed \in Servers
  /\ settings \in [enabled : BOOLEAN, saved : Named]
  /\ manager \in ManagerType
  /\ manager.work = "idle" <=> task.at = "none"
  /\ writes \in [1..MaxCommands -> Nat]

(* A write that the server gets as it was sent does what the user asked for: it
   adds the programme's only reservation before the programme ended, or changes
   the reservation that was shown, before the start, while nothing records; and
   it names an encode mode only to a server that has it.  What is not judged is
   a write that another change of the server, or the clock, overtook between
   its check, or its sending, and the server ("Time can pass while checking
   recordings; never write after the start").  A command is written once,
   however its request ends ("Recheck a complete snapshot before a non-idempotent
   write; never replay it on failure"), and the GUI thread starts no other job
   while one can still write (Stopping). *)
WritesAreChecked ==
  [][/\ \A w \in wire :
          Serve(w) /\ w.clean /\ world' # world =>
            /\ w.kind = "add" => Ongoing /\ ~Taken(world[w.server])
            /\ w.kind \in Changes =>
                 \E row \in world[w.server].rows : Matches(w.target, row, w.kind)
            /\ w.kind \in {"cancel", "exclude"} => ~world[w.server].recording
            /\ w.encode => w.server \in Encodes
     /\ \A number \in 1..MaxCommands : writes'[number] <= 1
     /\ manager' # manager /\ task' # task => task.at \in {"none", "done"}]_vars

(* The list the guide shows is of the session's server and has every write that
   was answered; it is unknown after a failure, a switch and while off. *)
ShownIsOurs ==
  /\ manager.shown # None =>
       /\ Connected(manager) /\ manager.shown.server = manager.server
       /\ manager.work = "idle" => manager.shown.own >= world[manager.server].answered
  /\ manager.encode.at = "fetched" => manager.encode.server \in {None, manager.server}
  /\ task.at # "none" /\ manager.work = "running" => task.server = manager.server

(* Between two handlers the manager is connected exactly to the library's
   session while the setting is on, a generation names one server, and a probe
   runs only for the saved server while there is no session to lose
   (synchronize_reservations, Verification). *)
SessionsAgree ==
  /\ manager.mode # "closed" =>
       IF Session(library, settings) = None THEN manager.mode = "off"
       ELSE Connected(manager) /\ manager.server = library.session
  /\ Connected(manager) /\ manager.generation = library.generation /\ library.session # None =>
       manager.server = library.session
  /\ library.probe = "fetching" =>
       settings.enabled /\ library.session = None /\ ~Busy(library) /\ library.probed = settings.saved

(* A connected manager gets its list again whatever failed or was aborted. *)
ListComesBack == <>[]Connected(manager) => []<>(manager.shown # None)
=============================================================================
