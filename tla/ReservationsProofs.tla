--------------------------- MODULE ReservationsProofs ---------------------------
(***************************************************************************)
(* Proofs about Reservations for every set of servers, every setting to    *)
(* start with and any number of handlers, commands and faults.             *)
(*                                                                         *)
(* IInv joins what the three actors know of each other: LibraryOK (a probe *)
(* is wanted only without a session, a page or a fetch brings the session  *)
(* that is there), ManagerOK (the manager is connected to that session and *)
(* shows its list), TaskOK (what a job has read, and whether it is still   *)
(* so), JoinedOK (the manager and its job) and WireOK (the writes on their *)
(* way).  Numbered, kept besides it, counts how often a command is written. *)
(***************************************************************************)
EXTENDS Reservations, TLAPS

TargetRows == [id : Nat, rule : BOOLEAN]
TaskType ==
  [at : {"none", "schedule", "reserves", "detail", "recording", "sent", "rows", "records", "done"},
   kind : Commands \cup {"refresh"}, server : Named, target : TargetRows, encode : BOOLEAN,
   number : Nat, read : Lists \cup {None}, result : Lists \cup {None}, clean : BOOLEAN]
WriteType ==
  [server : Servers, kind : Commands, target : TargetRows, encode : BOOLEAN,
   number : Nat, clean : BOOLEAN, awaited : BOOLEAN]
WorldType ==
  [Servers -> [rows : SUBSET Rows, recording : BOOLEAN, own : Nat, answered : Nat,
               last : 0..MaxId]]
SettingsType == [enabled : BOOLEAN, saved : Named]

(* Types, and what was answered is part of what the server has from us. *)
WorldOK ==
  /\ world \in WorldType
  /\ \A server \in Servers : world[server].answered <= world[server].own
  /\ phase \in {"before", "running", "over"}
  /\ budget \in [switches : Nat, commands : Nat, events : Nat]

Wanted(l) == l.probe = "fetching" \/ (l.probe = "retiring" /\ l.probed # None)

(* A probe is on its way only to the saved server, while there is neither a
   session nor a fetch; a fetch and a page agree with the session. *)
LibraryOK(l, s) ==
  /\ l \in LibraryType /\ s \in SettingsType
  /\ l.operation = "fetching" => l.fetched # None
  /\ Busy(l) /\ l.fetched # None => l.session \in {None, l.fetched}
  /\ l.page # None => l.session = l.page
  /\ Wanted(l) => /\ s.enabled /\ l.session = None /\ ~Busy(l)
                  /\ l.probed = s.saved /\ l.probed # None

(* The manager is connected to the session that is there. *)
Agree(m, l, s) ==
  m.mode # "closed" =>
    IF Session(l, s) = None THEN m.mode = "off"
    ELSE Connected(m) /\ m.server = l.session

(* What it shows belongs to that session. *)
ManagerOK(m) ==
  /\ m \in ManagerType
  /\ Connected(m) => m.server \in Servers
  /\ m.encode.at = "fetching" => m.encode.server = m.server
  /\ m.encode.at = "fetched" => m.encode.server \in {None, m.server}
  /\ m.shown # None => /\ Connected(m) /\ m.shown.server = m.server
                       /\ m.work # "retiring"
  /\ m.work = "idle" /\ m.shown # None => m.shown.own >= world[m.server].answered

(* What a job has read is still so while nothing disturbed it. *)
TaskOK(t) ==
  /\ t \in TaskType
  /\ t.at # "none" => t.server \in Servers
  /\ t.at \in {"schedule", "reserves"} => t.kind = "add"
  /\ t.at = "detail" => t.kind \in Changes
  /\ t.at = "recording" =>
       /\ t.kind \in Commands /\ t.read \in Lists
       /\ t.clean =>
            /\ t.kind = "add" => t.read.rows = world[t.server].rows
            /\ t.kind # "add" => t.read.rows \subseteq world[t.server].rows
  /\ t.at = "records" =>
       /\ t.read \in Lists /\ t.read.server = t.server
       /\ t.read.own >= world[t.server].answered
  /\ t.result # None =>
       /\ t.at = "done" /\ t.result.server = t.server
       /\ t.result.own >= world[t.server].answered
  /\ t.encode => t.server \in Encodes

JoinedOK(m, t) ==
  /\ m.work = "idle" <=> t.at = "none"
  /\ m.work = "running" => Connected(m) /\ t.server = m.server

(* A write does what was checked; the job waits for its own and for no other. *)
Good(w) ==
  /\ w.kind = "add" => Ongoing /\ ~Taken(world[w.server])
  /\ w.kind \in Changes =>
       \E row \in world[w.server].rows : Matches(w.target, row, w.kind)
  /\ w.kind \in {"cancel", "exclude"} => ~world[w.server].recording
WireOK(t) ==
  /\ \A w \in wire : /\ w \in WriteType
                     /\ w.clean => Good(w)
                     /\ w.encode => w.server \in Encodes
                     /\ w.awaited => t.at = "sent" /\ w.server = t.server
  /\ \A v, w \in wire : v.awaited /\ w.awaited => v = w
  /\ t.at = "sent" => \E w \in wire : w.awaited

IInv ==
  /\ WorldOK
  /\ LibraryOK(library, settings)
  /\ Agree(manager, library, settings)
  /\ ManagerOK(manager)
  /\ TaskOK(task)
  /\ JoinedOK(manager, task)
  /\ WireOK(task)

-----------------------------------------------------------------------------
(* The library and the probe. *)

(* Whoever gives up the probe leaves none that is wanted. *)
LEMMA CancelledIsIdle ==
  ASSUME NEW l \in LibraryType
  PROVE  /\ Cancelled(l) \in LibraryType
         /\ ~Wanted(Cancelled(l))
         /\ Cancelled(l).session = l.session /\ Cancelled(l).operation = l.operation
         /\ Cancelled(l).fetched = l.fetched /\ Cancelled(l).page = l.page
         /\ Cancelled(l).generation = l.generation
  BY DEF Cancelled, LibraryType, Wanted, Named

(* Library::verify_for_reservations keeps what it finds and asks for no session
   where there is one. *)
LEMMA VerifiedOK ==
  ASSUME NEW l \in LibraryType, NEW s \in SettingsType,
         l.operation = "fetching" => l.fetched # None,
         Busy(l) /\ l.fetched # None => l.session \in {None, l.fetched},
         l.page # None => l.session = l.page,
         s.enabled => (Wanted(l) => /\ l.session = None /\ ~Busy(l)
                                    /\ l.probed = s.saved /\ l.probed # None)
  PROVE  LibraryOK(Verified(l, s), s) /\ Verified(l, s).session = l.session
<1>1. CASE ~s.enabled
  <2>1. Verified(l, s) = Cancelled(l)
    BY <1>1 DEF Verified
  <2>2. QED
    BY <2>1, CancelledIsIdle DEF LibraryOK, Busy
<1>2. CASE /\ s.enabled
           /\ \/ s.saved = None \/ l.session # None \/ Busy(l)
              \/ l.probe \in {"fetching", "closed"}
  <2>1. Verified(l, s) = l
    BY <1>2 DEF Verified
  <2>2. QED
    BY <1>2, <2>1 DEF LibraryOK
<1>3. CASE /\ s.enabled /\ s.saved # None /\ l.session = None /\ ~Busy(l)
           /\ l.probe \notin {"fetching", "closed"}
  <2> DEFINE v == [l EXCEPT !.probe = IF @ = "idle" THEN "fetching" ELSE @, !.probed = s.saved]
  <2>1. Verified(l, s) = v
    BY <1>3 DEF Verified, SettingsType
  <2>2. v \in LibraryType /\ v.session = l.session /\ v.operation = l.operation
          /\ v.fetched = l.fetched /\ v.page = l.page /\ v.probed = s.saved
    BY DEF LibraryType, SettingsType
  <2>3. QED
    BY <1>3, <2>1, <2>2 DEF LibraryOK, Busy, SettingsType
<1>4. QED
  BY <1>1, <1>2, <1>3 DEF SettingsType

(* What Library::begin sets and leaves. *)
LEMMA FetchFields ==
  ASSUME NEW l \in LibraryType, NEW server \in Servers
  PROVE  /\ Fetch(l, server) \in LibraryType
         /\ Fetch(l, server).fetched = server /\ Fetch(l, server).page = None
         /\ Fetch(l, server).session = l.session
         /\ Fetch(l, server).probe = l.probe /\ Fetch(l, server).probed = l.probed
  BY DEF Fetch, LibraryType, Named

(* A session that is given up. *)
LEMMA LeftFields ==
  ASSUME NEW l \in LibraryType, NEW n, n = [l EXCEPT !.session = None, !.generation = @ + 1]
  PROVE  n \in LibraryType /\ n.session = None /\ n.probe = l.probe /\ n.probed = l.probed
<1>1. l.generation + 1 \in Nat
  BY DEF LibraryType
<1>2. QED
  BY <1>1 DEF LibraryType, Named

(* A new fetch of a server that no other session stands in for. *)
LEMMA FetchOK ==
  ASSUME NEW l, NEW s, LibraryOK(l, s), ~Wanted(l), NEW server \in Servers,
         l.session \in {None, server}
  PROVE  LibraryOK(Fetch(l, server), s) /\ Fetch(l, server).session = l.session
           /\ ~Wanted(Fetch(l, server))
  BY ServersAssumption DEF LibraryOK, LibraryType, Fetch, Busy, Wanted, Named

(* Library::open keeps the session or gives it up. *)
LEMMA OpenedOK ==
  ASSUME NEW l, NEW s, LibraryOK(l, s), NEW server \in Servers, NEW current \in BOOLEAN
  PROVE  /\ LibraryOK(Opened(l, server, current), s)
         /\ Opened(l, server, current).session \in {None, l.session}
         /\ ~Wanted(Opened(l, server, current))
<1>0. l \in LibraryType
  BY DEF LibraryOK
<1> DEFINE c == Cancelled(l)
           n == [c EXCEPT !.session = None, !.generation = @ + 1]
<1>1. LibraryOK(c, s) /\ ~Wanted(c) /\ c.session = l.session
  BY <1>0, CancelledIsIdle DEF LibraryOK, Busy
<1>2. CASE current /\ l.session = server
  <2>1. Opened(l, server, current) = Fetch(c, server)
    BY <1>2 DEF Opened
  <2>2. QED
    BY <1>1, <1>2, <2>1, FetchOK
<1>3. CASE ~(current /\ l.session = server)
  <2>1. Opened(l, server, current) = Fetch(n, server)
    BY <1>3 DEF Opened
  <2>2. c \in LibraryType
    BY <1>1 DEF LibraryOK
  <2>3. n \in LibraryType /\ n.session = None /\ n.probe = c.probe /\ n.probed = c.probed
    BY <2>2, LeftFields
  <2>5. /\ Fetch(n, server) \in LibraryType
        /\ Fetch(n, server).session = None /\ Fetch(n, server).fetched = server
        /\ Fetch(n, server).page = None /\ Fetch(n, server).probe = c.probe
        /\ Fetch(n, server).probed = c.probed
    BY <2>3, FetchFields
  <2>4. QED
    BY <1>1, <2>1, <2>5, ServersAssumption DEF LibraryOK, Wanted, Busy
<1>4. QED
  BY <1>2, <1>3

(* Library::cancel *)
LEMMA FetchCancelledOK ==
  ASSUME NEW l, NEW s, LibraryOK(l, s)
  PROVE  LibraryOK(FetchCancelled(l), s) /\ FetchCancelled(l).session = l.session
<1>1. l \in LibraryType /\ Cancelled(l) \in LibraryType
  BY CancelledIsIdle DEF LibraryOK
<1>2. QED
  BY <1>1, CancelledIsIdle, ZenonT(60) DEF LibraryOK, FetchCancelled, LibraryType, Busy, Wanted, Named

(* Library::poll changes no session but from none to the fetched one. *)
LEMMA LibraryPollsOK ==
  ASSUME NEW l, NEW s, LibraryOK(l, s), NEW p \in LibraryPolls(l)
  PROVE  /\ LibraryOK(p, IF p.page # l.page THEN [s EXCEPT !.saved = p.session] ELSE s)
         /\ l.session # None => p.session = l.session
         /\ Wanted(p) <=> Wanted(l)
         /\ (IF p.page # l.page THEN [s EXCEPT !.saved = p.session] ELSE s).enabled = s.enabled
<1>1. l \in LibraryType /\ s \in SettingsType
  BY DEF LibraryOK
<1>2. CASE p = l
  BY <1>2
<1>3. CASE l.operation = "fetching" /\ p # l
  <2>1. \/ p = [l EXCEPT !.operation = "idle", !.fetched = None]
        \/ p = [l EXCEPT !.operation = "idle", !.fetched = None,
                         !.session = l.fetched, !.page = l.fetched]
    BY <1>3 DEF LibraryPolls
  <2>2. l.fetched # None /\ l.session \in {None, l.fetched} /\ ~Wanted(l)
    BY <1>3 DEF LibraryOK, Busy
  <2>3. CASE p = [l EXCEPT !.operation = "idle", !.fetched = None]
    <3>1. p \in LibraryType /\ p.page = l.page /\ p.session = l.session /\ p.operation = "idle"
            /\ p.probe = l.probe /\ p.probed = l.probed
      BY <1>1, <2>3 DEF LibraryType, Named
    <3>2. QED
      BY <1>1, <2>2, <3>1 DEF LibraryOK, Busy, Wanted
  <2>4. CASE p = [l EXCEPT !.operation = "idle", !.fetched = None,
                           !.session = l.fetched, !.page = l.fetched]
    <3>1. p \in LibraryType /\ p.page = l.fetched /\ p.session = l.fetched
            /\ p.operation = "idle" /\ p.probe = l.probe /\ p.probed = l.probed
      BY <1>1, <2>4 DEF LibraryType, Named
    <3>2. /\ [s EXCEPT !.saved = p.session] \in SettingsType
          /\ [s EXCEPT !.saved = p.session].enabled = s.enabled
      BY <1>1, <3>1 DEF SettingsType, LibraryType
    <3>3. QED
      BY <1>1, <2>2, <3>1, <3>2 DEF LibraryOK, Busy, Wanted
  <2>5. QED
    BY <2>1, <2>3, <2>4
<1>4. CASE l.operation = "stopping" /\ p # l
  <2>1. p = [l EXCEPT !.operation = IF l.fetched = None THEN "idle" ELSE "fetching"]
    BY <1>4 DEF LibraryPolls
  <2>2. ~Wanted(l)
    BY <1>4 DEF LibraryOK, Busy
  <2>3. QED
    BY <1>1, <1>4, <2>1, <2>2 DEF LibraryOK, LibraryType, SettingsType, Busy, Wanted, Named
<1>5. CASE l.operation = "idle"
  <2>1. p = l
    BY <1>5 DEF LibraryPolls
  <2>2. QED
    BY <1>2, <2>1
<1>6. QED
  BY <1>1, <1>2, <1>3, <1>4, <1>5 DEF LibraryType

(* Verification::poll brings a session only where there is none. *)
LEMMA ProbePollsOK ==
  ASSUME NEW l, NEW s, LibraryOK(l, s), NEW p \in ProbePolls(l)
  PROVE  /\ LibraryOK(p, s)
         /\ ~Wanted(l) => p.session = l.session
         /\ l.session # None => p.session = l.session
<1>1. l \in LibraryType /\ s \in SettingsType
  BY DEF LibraryOK
<1>2. CASE p = l
  BY <1>2
<1>3. CASE l.probe = "fetching" /\ p # l
  <2>1. \/ p = [l EXCEPT !.probe = "idle", !.probed = None]
        \/ p = [l EXCEPT !.probe = "idle", !.probed = None,
                         !.session = l.probed, !.generation = @ + 1]
    BY <1>3 DEF ProbePolls
  <2>2. Wanted(l) /\ l.session = None /\ ~Busy(l) /\ l.page = None
    BY <1>3 DEF LibraryOK, Wanted
  <2>3. /\ p \in LibraryType /\ p.probe = "idle" /\ p.operation = l.operation
        /\ p.fetched = l.fetched /\ p.page = l.page
    <3>1. CASE p = [l EXCEPT !.probe = "idle", !.probed = None]
      BY <1>1, <3>1 DEF LibraryType, Named
    <3>2. CASE p = [l EXCEPT !.probe = "idle", !.probed = None,
                             !.session = l.probed, !.generation = @ + 1]
      <4>1. l.generation + 1 \in Nat
        BY <1>1 DEF LibraryType
      <4>2. QED
        BY <1>1, <3>2, <4>1 DEF LibraryType, Named
    <3>3. QED
      BY <2>1, <3>1, <3>2
  <2>4. QED
    BY <1>1, <2>2, <2>3 DEF LibraryOK, Busy, Wanted
<1>4. CASE l.probe = "retiring" /\ p # l
  <2>1. p = [l EXCEPT !.probe = IF l.probed = None THEN "idle" ELSE "fetching"]
    BY <1>4 DEF ProbePolls
  <2>2. QED
    BY <1>1, <1>4, <2>1 DEF LibraryOK, LibraryType, Busy, Wanted
<1>5. CASE l.probe \notin {"fetching", "retiring"}
  <2>1. p = l
    BY <1>5 DEF ProbePolls
  <2>2. QED
    BY <1>2, <2>1
<1>6. QED
  BY <1>2, <1>3, <1>4, <1>5

-----------------------------------------------------------------------------
(* The manager. *)

(* encode::Catalogue::reset keeps nothing that could be taken for a list. *)
LEMMA EncodeResetOK ==
  ASSUME NEW e \in [at : {"unknown", "fetching", "fetched", "retiring"}, server : Named]
  PROVE  /\ EncodeReset(e) \in [at : {"unknown", "fetching", "fetched", "retiring"}, server : Named]
         /\ EncodeReset(e).at \notin {"fetching", "fetched"}
  BY DEF EncodeReset, Named

(* Manager::configure connects the manager to the session that is there, and
   leaves nothing of another one. *)
LEMMA ConfiguredOK ==
  ASSUME NEW m, ManagerOK(m), NEW p \in LibraryType, NEW s \in SettingsType,
         Connected(m) => Session(p, s) \in {None, m.server},
         m.work = "running" => Connected(m)
  PROVE  LET c == Configured(m, p, s)
         IN  /\ ManagerOK(c) /\ Agree(c, p, s)
             /\ c.work = m.work \/ (c.work = "retiring" /\ m.work = "running")
             /\ c.work = "running" => Connected(c) /\ Connected(m) /\ c.server = m.server
<1> DEFINE server == Session(p, s)
           next == [mode |-> IF server = None THEN "off" ELSE "connected",
                    server |-> server,
                    generation |-> IF server = None THEN 0 ELSE p.generation,
                    work |-> IF m.work = "running" THEN "retiring" ELSE m.work,
                    shown |-> None,
                    encode |-> EncodeReset(m.encode),
                    due |-> TRUE]
           same == \/ m.mode = "closed"
                   \/ m.mode = "off" /\ server = None
                   \/ Connected(m) /\ server # None /\ m.generation = p.generation
<1>1. p \in LibraryType /\ s \in SettingsType /\ m \in ManagerType
  BY DEF ManagerOK
<1>2. server \in Named /\ (server # None => server \in Servers /\ server = p.session)
  BY <1>1 DEF Session, LibraryType, SettingsType, Named
<1>3. CASE same
  <2>1. Configured(m, p, s) = m
    BY <1>3 DEF Configured
  <2>2. Agree(m, p, s)
    BY <1>2, <1>3 DEF Agree, Connected
  <2>3. QED
    BY <2>1, <2>2
<1>4. CASE ~same
  <2>1. Configured(m, p, s) = next
    BY <1>4 DEF Configured
  <2>2. m.encode \in [at : {"unknown", "fetching", "fetched", "retiring"}, server : Named]
          /\ m.work \in {"idle", "running", "retiring"}
    BY <1>1 DEF ManagerType
  <2>3. next \in ManagerType
    BY <1>1, <1>2, <2>2, EncodeResetOK DEF ManagerType, LibraryType
  <2>4. ManagerOK(next)
    BY <1>2, <2>2, <2>3, EncodeResetOK DEF ManagerOK, Connected
  <2>5. Agree(next, p, s)
    BY <1>2 DEF Agree, Connected
  <2>6. next.work # "running" /\ (next.work = m.work \/ (next.work = "retiring" /\ m.work = "running"))
    BY <2>2
  <2>7. QED
    BY <2>1, <2>4, <2>5, <2>6
<1>5. QED
  BY <1>3, <1>4

(* encode::Catalogue::poll keeps to the server of the manager. *)
LEMMA EncodePollsOK ==
  ASSUME NEW m, ManagerOK(m), NEW n \in EncodePolls(m)
  PROVE  /\ ManagerOK(n)
         /\ n.mode = m.mode /\ n.server = m.server /\ n.work = m.work
         /\ n.generation = m.generation /\ n.shown = m.shown /\ n.due = m.due
<1> DEFINE Encodings == [at : {"unknown", "fetching", "fetched", "retiring"}, server : Named]
<1>1. m \in ManagerType /\ m.encode \in Encodings /\ m.server \in Named
  BY DEF ManagerOK, ManagerType
<1>2. PICK f : /\ \/ f = m.encode
                  \/ m.encode.at = "fetching" /\ f = [m.encode EXCEPT !.at = "fetched"]
                  \/ f = [at |-> "fetched", server |-> None]
                  \/ f = [at |-> "unknown", server |-> None]
               /\ n = [m EXCEPT !.encode = IF f.at = "unknown" /\ Connected(m)
                                           THEN [at |-> "fetching", server |-> m.server] ELSE f]
  BY DEF EncodePolls
<1>3. f \in Encodings
  BY <1>1, <1>2 DEF Named
<1>4. f.at = "fetching" => f.server = m.server
  BY <1>1, <1>2 DEF ManagerOK
<1>5. f.at = "fetched" => f.server \in {None, m.server}
  BY <1>1, <1>2 DEF ManagerOK
<1> DEFINE e == IF f.at = "unknown" /\ Connected(m)
                THEN [at |-> "fetching", server |-> m.server] ELSE f
<1>6. /\ e \in Encodings
      /\ e.at = "fetching" => e.server = m.server
      /\ e.at = "fetched" => e.server \in {None, m.server}
  BY <1>1, <1>3, <1>4, <1>5
<1>7. n = [m EXCEPT !.encode = e]
  BY <1>2
<1> HIDE DEF e
<1>8. n \in ManagerType /\ n.encode = e /\ n.mode = m.mode /\ n.server = m.server
        /\ n.work = m.work /\ n.generation = m.generation /\ n.shown = m.shown /\ n.due = m.due
  BY <1>1, <1>6, <1>7 DEF ManagerType
<1>9. QED
  BY <1>6, <1>8 DEF ManagerOK, Connected

-----------------------------------------------------------------------------
(* The job and the manager together. *)

(* What the three parts must satisfy between two handlers. *)
PartsOK(m, t) == ManagerOK(m) /\ TaskOK(t) /\ JoinedOK(m, t) /\ WireOK(t)

(* No job. *)
LEMMA NoTaskOK ==
  /\ NoTask \in TaskType /\ TaskOK(NoTask)
  /\ NoTask.at = "none"
  BY DEF NoTask, TaskOK, TaskType, TargetRows, NoRow, Named, Commands

(* A job that begins has read nothing and answers for the manager's server. *)
LEMMA StartedOK ==
  ASSUME NEW m, m.server \in Servers, WorldOK,
         NEW kind \in Commands \cup {"refresh"}, NEW target \in TargetRows,
         NEW encode \in BOOLEAN, encode => m.server \in Encodes
  PROVE  LET t == Started(m, kind, target, encode)
         IN  /\ TaskOK(t) /\ t.server = m.server
             /\ t.at \in {"rows", "schedule", "detail"}
<1> DEFINE at == CASE kind = "refresh" -> "rows" [] kind = "add" -> "schedule" [] OTHER -> "detail"
           number == IF kind = "refresh" THEN 0 ELSE budget.commands
           t == [NoTask EXCEPT !.at = at, !.kind = kind, !.server = m.server,
                               !.target = target, !.encode = encode, !.number = number]
<1>1. budget.commands \in Nat
  BY DEF WorldOK
<1>2. Started(m, kind, target, encode) = t
  BY DEF Started
<1>3. at \in {"rows", "schedule", "detail"} /\ number \in Nat
  BY <1>1
<1>4. /\ at = "schedule" => kind = "add"
      /\ at = "detail" => kind \in Changes
  BY DEF Commands, Changes
<1> HIDE DEF at, number
<1>5. /\ t.at = at /\ t.kind = kind /\ t.server = m.server /\ t.encode = encode
      /\ t.read = None /\ t.result = None /\ t.clean = FALSE
  BY DEF NoTask
<1>6. t \in TaskType
  BY <1>3, NoTaskOK DEF TaskType, Named
<1> HIDE DEF t
<1>7. TaskOK(t)
  BY <1>3, <1>4, <1>5, <1>6 DEF TaskOK
<1>8. QED
  BY <1>2, <1>3, <1>5, <1>7

(* Manager::poll: a job that ended hands over its list or nothing, and the next
   one begins only after it. *)
LEMMA PolledOK ==
  ASSUME NEW m, WorldOK, PartsOK(m, task)
  PROVE  LET r == Polled(m)
         IN  /\ PartsOK(r.manager, r.task)
             /\ r.manager.mode = m.mode /\ r.manager.server = m.server
             /\ r.task # task => task.at \in {"none", "done"}
<1> DEFINE n == Settled(m)
           due == Connected(n) /\ n.work = "idle" /\ n.due
           rm == IF due THEN [n EXCEPT !.work = "running"] ELSE n
           rt == IF due THEN Started(n, "refresh", NoRow, FALSE)
                 ELSE IF n.work = "idle" THEN NoTask ELSE task
<1>1. Polled(m).manager = rm /\ Polled(m).task = rt
  BY DEF Polled
<1>2. m \in ManagerType /\ task \in TaskType
  BY DEF PartsOK, ManagerOK, TaskOK
<1>3. NoTask.at = "none" /\ TaskOK(NoTask)
  BY NoTaskOK
<1>4. /\ ManagerOK(n) /\ n.mode = m.mode /\ n.server = m.server
      /\ n.work = "running" => n = m
      /\ n.work = "retiring" => n.work = m.work
      /\ n.work = "idle" => task.at \in {"none", "done"}
      /\ n.work # "idle" => n.work = m.work
  <2>1. CASE m.work = "idle" \/ task.at # "done"
    BY <2>1 DEF Settled, PartsOK, JoinedOK
  <2>2. CASE m.work # "idle" /\ task.at = "done"
    <3> DEFINE shown == IF m.work = "running" THEN task.result ELSE m.shown
               later == m.due /\ m.work = "retiring"
    <3>1. n = [m EXCEPT !.work = "idle", !.due = later, !.shown = shown]
      BY <2>2 DEF Settled
    <3>2. shown \in Lists \cup {None} /\ later \in BOOLEAN
      BY <1>2 DEF ManagerType, TaskType
    <3>3. shown # None => /\ Connected(m) /\ shown.server = m.server
                          /\ shown.own >= world[m.server].answered
      BY <1>2, <2>2 DEF PartsOK, ManagerOK, JoinedOK, TaskOK, ManagerType
    <3> HIDE DEF shown, later
    <3>4. /\ n \in ManagerType /\ n.work = "idle" /\ n.shown = shown /\ n.mode = m.mode
          /\ n.server = m.server /\ n.encode = m.encode
      BY <1>2, <3>1, <3>2 DEF ManagerType
    <3>5. ManagerOK(n)
      BY <3>3, <3>4 DEF PartsOK, ManagerOK, Connected
    <3>6. QED
      BY <2>2, <3>4, <3>5
  <2>3. QED
    BY <2>1, <2>2
<1>5. CASE due
  <2>1. n.server \in Servers /\ NoRow \in TargetRows /\ n \in ManagerType
    BY <1>4, <1>5 DEF ManagerOK, NoRow, TargetRows
  <2>2. TaskOK(rt) /\ rt.server = n.server /\ rt.at \in {"rows", "schedule", "detail"}
    BY <1>5, <2>1, StartedOK
  <2>3. /\ rm \in ManagerType /\ rm.work = "running" /\ rm.mode = n.mode
        /\ rm.server = n.server /\ rm.shown = n.shown /\ rm.encode = n.encode
    BY <1>5, <2>1 DEF ManagerType
  <2>4. ManagerOK(rm) /\ JoinedOK(rm, rt)
    BY <1>4, <1>5, <2>2, <2>3 DEF ManagerOK, JoinedOK, Connected
  <2>5. WireOK(rt)
    BY <1>4, <1>5, <2>2 DEF PartsOK, WireOK
  <2>6. QED
    BY <1>1, <1>4, <1>5, <2>2, <2>3, <2>4, <2>5 DEF PartsOK
<1>6. CASE ~due /\ n.work = "idle"
  <2>1. WireOK(NoTask)
    BY <1>3, <1>4, <1>6 DEF PartsOK, WireOK
  <2>2. QED
    BY <1>1, <1>3, <1>4, <1>6, <2>1 DEF PartsOK, JoinedOK
<1>7. CASE ~due /\ n.work # "idle"
  BY <1>1, <1>4, <1>7 DEF PartsOK, JoinedOK
<1>8. QED
  BY <1>5, <1>6, <1>7

(* poll_recording_reservations as a whole: what the poll makes of a library that
   names no other session than the manager's fits together again, and the task
   that is replaced has ended. *)
LEMMA PollsOK ==
  ASSUME NEW l, NEW s, WorldOK, PartsOK(manager, task), LibraryOK(l, s),
         Connected(manager) => Session(l, s) \in {None, manager.server} /\ ~Wanted(l),
         NEW state \in Polls(l, s)
  PROVE  /\ LibraryOK(state.library, s)
         /\ PartsOK(state.manager, state.task)
         /\ Agree(state.manager, state.library, s)
         /\ state.task # task => task.at \in {"none", "done"}
<1>0. PICK p \in ProbePolls(l) : \E n \in EncodePolls(Configured(manager, p, s)) :
        state = [library |-> p, manager |-> Polled(n).manager, task |-> Polled(n).task]
  BY DEF Polls
<1>1. PICK n \in EncodePolls(Configured(manager, p, s)) :
        state = [library |-> p, manager |-> Polled(n).manager, task |-> Polled(n).task]
  BY <1>0
<1>2. LibraryOK(p, s) /\ (~Wanted(l) => p.session = l.session)
  BY ProbePollsOK
<1>3. p \in LibraryType /\ s \in SettingsType
  BY <1>2 DEF LibraryOK
<1>4. Connected(manager) => Session(p, s) \in {None, manager.server}
  BY <1>2 DEF Session
<1>5. ManagerOK(manager) /\ (manager.work = "running" => Connected(manager))
  BY DEF PartsOK, JoinedOK
<1> DEFINE c == Configured(manager, p, s)
<1>6. /\ ManagerOK(c) /\ Agree(c, p, s)
      /\ c.work = manager.work \/ (c.work = "retiring" /\ manager.work = "running")
      /\ c.work = "running" => Connected(c) /\ Connected(manager) /\ c.server = manager.server
  BY <1>3, <1>4, <1>5, ConfiguredOK
<1> HIDE DEF c
<1>7. /\ ManagerOK(n) /\ n.mode = c.mode /\ n.server = c.server /\ n.work = c.work
  BY <1>1, <1>6, EncodePollsOK DEF c
<1>8. PartsOK(n, task)
  BY <1>6, <1>7 DEF PartsOK, JoinedOK, Connected
<1>9. /\ PartsOK(Polled(n).manager, Polled(n).task)
      /\ Polled(n).manager.mode = n.mode /\ Polled(n).manager.server = n.server
      /\ Polled(n).task # task => task.at \in {"none", "done"}
  BY <1>8, PolledOK
<1>10. Agree(Polled(n).manager, p, s)
  BY <1>6, <1>7, <1>9 DEF Agree, Connected
<1>11. QED
  BY <1>1, <1>2, <1>9, <1>10

-----------------------------------------------------------------------------
(* The handlers of the GUI thread. *)

(* A handler that touches neither a server nor a write leaves the invariant to
   what it makes of the library, the settings, the manager and the task. *)
LEMMA HandlerKeeps ==
  ASSUME IInv, UNCHANGED <<world, phase, wire>>, NEW m, NEW t, manager' = m, task' = t,
         NEW l, NEW s, library' = l, settings' = s, PartsOK(m, t), LibraryOK(l, s), Agree(m, l, s),
         budget' \in [switches : Nat, commands : Nat, events : Nat]
  PROVE  IInv'
<1>1. WorldOK'
  BY DEF IInv, WorldOK, WorldType
<1>2. LibraryOK(library, settings)' /\ Agree(manager, library, settings)'
  BY DEF LibraryOK, Agree, Connected, Session, Busy, Wanted
<1>3. ManagerOK(manager)' /\ JoinedOK(manager, task)'
  BY DEF PartsOK, ManagerOK, JoinedOK, Connected
<1>4. TaskOK(task)'
  BY DEF PartsOK, TaskOK
<1>5. WireOK(task)'
  BY DEF PartsOK, WireOK, Good, Ongoing, Taken, Matches, Permits
<1>6. QED
  BY <1>1, <1>2, <1>3, <1>4, <1>5 DEF IInv

(* The bounds only run down. *)
LEMMA SpendOK ==
  ASSUME WorldOK, NEW kind \in {"switches", "commands", "events"}, Spend(kind)
  PROVE  budget' \in [switches : Nat, commands : Nat, events : Nat]
<1>1. budget \in [switches : Nat, commands : Nat, events : Nat] /\ budget[kind] - 1 \in Nat
  BY DEF WorldOK, Spend
<1>2. QED
  BY <1>1 DEF Spend

(* While the manager is connected there is a session, so no probe is wanted. *)
LEMMA ConnectedHasSession ==
  ASSUME IInv, Connected(manager)
  PROVE  /\ settings.enabled /\ library.session = manager.server /\ library.session # None
         /\ ~Wanted(library)
<1>1. manager.server \in Servers /\ manager.mode = "connected"
  BY DEF IInv, ManagerOK, Connected
<1>2. QED
  BY <1>1, ServersAssumption DEF IInv, Agree, Session, LibraryOK

(* A handler that publishes: what it makes of the library and the settings names
   no other session than the manager has. *)
LEMMA PublishKeeps ==
  ASSUME IInv, NEW l, NEW s, Publish(l, s), LibraryOK(l, s),
         Connected(manager) => Session(l, s) \in {None, manager.server} /\ ~Wanted(l),
         budget' \in [switches : Nat, commands : Nat, events : Nat]
  PROVE  IInv' /\ (task' # task => task.at \in {"none", "done"})
<1>1. PICK state \in Polls(l, s) : Becomes(state)
  BY DEF Publish
<1>2. WorldOK /\ PartsOK(manager, task)
  BY DEF IInv, PartsOK
<1>3. /\ LibraryOK(state.library, s) /\ PartsOK(state.manager, state.task)
      /\ Agree(state.manager, state.library, s)
      /\ state.task # task => task.at \in {"none", "done"}
  BY <1>2, PollsOK
<1>4. /\ library' = state.library /\ manager' = state.manager /\ task' = state.task
      /\ settings' = s /\ UNCHANGED <<world, phase, wire>>
  BY <1>1 DEF Publish, Becomes
<1>5. QED
  BY <1>3, <1>4, HandlerKeeps

(* poll_player *)
LEMMA TimerKeeps ==
  ASSUME IInv, Timer
  PROVE  IInv' /\ (task' # task => task.at \in {"none", "done"})
<1> DEFINE after(p) == IF p.page # library.page THEN [settings EXCEPT !.saved = p.session]
                       ELSE settings
<1>1. PICK p \in LibraryPolls(library) : Publish(p, after(p)) /\ UNCHANGED budget
  BY DEF Timer
<1>2. LibraryOK(library, settings)
  BY DEF IInv
<1>3. /\ LibraryOK(p, after(p)) /\ (library.session # None => p.session = library.session)
      /\ (Wanted(p) <=> Wanted(library)) /\ after(p).enabled = settings.enabled
  BY <1>2, LibraryPollsOK
<1> HIDE DEF after
<1>4. Connected(manager) => Session(p, after(p)) \in {None, manager.server} /\ ~Wanted(p)
  BY <1>3, ConnectedHasSession DEF Session
<1>5. budget' \in [switches : Nat, commands : Nat, events : Nat]
  BY <1>1 DEF IInv, WorldOK
<1>6. QED
  BY <1>1, <1>3, <1>4, <1>5, PublishKeeps

(* configure_recording_reservations *)
LEMMA ConfigureKeeps ==
  ASSUME IInv, Configure
  PROVE  IInv' /\ (task' # task => task.at \in {"none", "done"})
<1> DEFINE s == [settings EXCEPT !.enabled = ~@]
           v == Verified(library, s)
<1>1. LibraryOK(library, settings) /\ library \in LibraryType /\ settings \in SettingsType
  BY DEF IInv, LibraryOK
<1>2. s \in SettingsType /\ s.enabled = ~settings.enabled
  BY <1>1 DEF SettingsType
<1>3. s.enabled => ~Wanted(library)
  BY <1>1, <1>2 DEF LibraryOK, SettingsType
<1> HIDE DEF s
<1>4. LibraryOK(v, s) /\ v.session = library.session
  BY <1>1, <1>2, <1>3, VerifiedOK DEF LibraryOK
<1> HIDE DEF v
<1>5. Connected(manager) => ~s.enabled
  BY <1>1, <1>2, ConnectedHasSession DEF SettingsType
<1>6. Connected(manager) => Session(v, s) \in {None, manager.server} /\ ~Wanted(v)
  BY <1>4, <1>5 DEF Session, LibraryOK
<1>7. Publish(v, s) /\ Spend("switches")
  BY DEF Configure, s, v
<1>8. budget' \in [switches : Nat, commands : Nat, events : Nat]
  BY <1>7, SpendOK DEF IInv
<1>9. QED
  BY <1>4, <1>6, <1>7, <1>8, PublishKeeps

(* browse_epgstation and login_epgstation *)
LEMMA OpenKeeps ==
  ASSUME IInv, NEW server \in Servers, NEW current \in BOOLEAN, Open(server, current)
  PROVE  IInv' /\ (task' # task => task.at \in {"none", "done"})
<1> DEFINE l == Opened(library, server, current)
<1>1. LibraryOK(library, settings)
  BY DEF IInv
<1>2. LibraryOK(l, settings) /\ l.session \in {None, library.session} /\ ~Wanted(l)
  BY <1>1, OpenedOK
<1>3. Publish(l, settings) /\ Spend("switches")
  BY DEF Open
<1> HIDE DEF l
<1>4. Connected(manager) => Session(l, settings) \in {None, manager.server} /\ ~Wanted(l)
  BY <1>2, ConnectedHasSession DEF Session
<1>5. budget' \in [switches : Nat, commands : Nat, events : Nat]
  BY <1>3, SpendOK DEF IInv
<1>6. QED
  BY <1>2, <1>3, <1>4, <1>5, PublishKeeps

(* epgstation_change_page and refresh_epgstation *)
LEMMA PageKeeps ==
  ASSUME IInv, ChangePage \/ RefreshPage
  PROVE  IInv' /\ (task' # task => task.at \in {"none", "done"})
<1>1. /\ LibraryOK(library, settings) /\ library.page # None /\ Spend("switches")
      /\ library \in LibraryType
  BY DEF IInv, ChangePage, RefreshPage, LibraryOK
<1>2. library.session = library.page /\ library.page \in Servers /\ ~Wanted(library)
  BY <1>1 DEF LibraryOK, LibraryType, Named
<1> DEFINE f == Fetch(library, library.page)
           r == [library EXCEPT !.operation = "fetching", !.fetched = library.page]
<1>3. LibraryOK(f, settings) /\ f.session = library.session /\ ~Wanted(f)
  BY <1>1, <1>2, FetchOK
<1>4. LibraryOK(r, settings) /\ r.session = library.session /\ ~Wanted(r)
  BY <1>1, <1>2 DEF LibraryOK, LibraryType, Busy, Wanted, Named
<1>5. Publish(f, settings) \/ Publish(r, settings)
  BY DEF ChangePage, RefreshPage
<1> HIDE DEF f, r
<1>6. /\ Connected(manager) => Session(f, settings) \in {None, manager.server}
      /\ Connected(manager) => Session(r, settings) \in {None, manager.server}
  BY <1>3, <1>4, ConnectedHasSession DEF Session
<1>7. budget' \in [switches : Nat, commands : Nat, events : Nat]
  BY <1>1, SpendOK DEF IInv
<1>8. QED
  BY <1>3, <1>4, <1>5, <1>6, <1>7, PublishKeeps

(* The handlers that do not poll. *)
LEMMA QuietKeeps ==
  ASSUME IInv, CancelPage \/ OpenGuide
  PROVE  IInv' /\ UNCHANGED <<manager, task>>
<1>1. LibraryOK(library, settings) /\ PartsOK(manager, task) /\ Spend("switches")
  BY DEF IInv, PartsOK, CancelPage, OpenGuide
<1>2. library \in LibraryType /\ settings \in SettingsType
  BY <1>1 DEF LibraryOK
<1>3. LibraryOK(library', settings) /\ library'.session = library.session
  <2>1. CASE CancelPage
    BY <1>1, <2>1, FetchCancelledOK DEF CancelPage
  <2>2. CASE OpenGuide
    BY <1>1, <1>2, <2>2, VerifiedOK DEF OpenGuide, LibraryOK
  <2>3. QED
    BY <2>1, <2>2
<1>4. Agree(manager, library', settings)
  BY <1>3 DEF IInv, Agree, Session
<1>5. budget' \in [switches : Nat, commands : Nat, events : Nat]
  BY <1>1, SpendOK DEF IInv
<1>6. UNCHANGED <<world, phase, wire, settings, manager, task>>
  BY DEF CancelPage, OpenGuide
<1>7. QED
  BY <1>1, <1>3, <1>4, <1>5, <1>6, HandlerKeeps

(* shutdown_recording_reservations: a closed manager has no running job. *)
LEMMA ShutdownKeeps ==
  ASSUME IInv, Shutdown
  PROVE  IInv' /\ UNCHANGED task
<1> DEFINE off == [settings EXCEPT !.enabled = FALSE]
           c == Configured(manager, library, off)
           m == [c EXCEPT !.mode = "closed"]
<1>1. LibraryOK(library, settings) /\ PartsOK(manager, task) /\ Spend("switches")
        /\ manager.mode # "closed"
  BY DEF IInv, PartsOK, Shutdown
<1>2. library \in LibraryType /\ settings \in SettingsType /\ off \in SettingsType /\ ~off.enabled
  BY <1>1 DEF LibraryOK, SettingsType
<1>3. Session(library, off) = None
  BY <1>2 DEF Session
<1> HIDE DEF off
<1>4. /\ ManagerOK(c) /\ Agree(c, library, off)
      /\ c.work = manager.work \/ (c.work = "retiring" /\ manager.work = "running")
      /\ c.work = "running" => Connected(c)
  BY <1>1, <1>2, <1>3, ConfiguredOK DEF PartsOK, JoinedOK
<1> HIDE DEF c
<1>5. c.mode \in {"off", "closed"} /\ c.work # "running" /\ c.shown = None
  BY <1>3, <1>4 DEF Agree, ManagerOK, Connected
<1>6. /\ m \in ManagerType /\ m.mode = "closed" /\ m.work = c.work /\ m.shown = None
      /\ m.encode = c.encode /\ m.server = c.server
  BY <1>4, <1>5 DEF ManagerOK, ManagerType
<1> HIDE DEF m
<1>7. PartsOK(m, task)
  BY <1>1, <1>4, <1>5, <1>6 DEF PartsOK, ManagerOK, JoinedOK, Connected
<1>8. LibraryOK(library', settings)
  BY <1>1, <1>2 DEF Shutdown, ProbeClosed, LibraryOK, LibraryType, Busy, Wanted, Named
<1>9. Agree(m, library', settings)
  BY <1>6 DEF Agree
<1>10. /\ manager' = m /\ UNCHANGED <<world, phase, wire, settings, task>>
  BY DEF Shutdown, m, c, off
<1>11. budget' \in [switches : Nat, commands : Nat, events : Nat]
  BY <1>1, SpendOK DEF IInv
<1>12. QED
  BY <1>7, <1>8, <1>9, <1>10, <1>11, HandlerKeeps

(* A job the user asks for begins only when there is none. *)
LEMMA BegunOK ==
  ASSUME NEW m, NEW n, NEW t, NEW j, WorldOK, PartsOK(m, t), Connected(m), m.work = "idle",
         n \in ManagerType, n.work = "running", n.mode = m.mode, n.server = m.server,
         n.shown = m.shown, n.encode = m.encode \/ n.encode = EncodeReset(m.encode),
         TaskOK(j), j.server = m.server, j.at \in {"rows", "schedule", "detail"}
  PROVE  PartsOK(n, j) /\ t.at = "none"
<1>1. t.at = "none" /\ m \in ManagerType
  BY DEF PartsOK, JoinedOK, ManagerOK
<1>2. /\ n.encode.at = "fetching" => n.encode.server = m.server
      /\ n.encode.at = "fetched" => n.encode.server \in {None, m.server}
  BY <1>1, EncodeResetOK DEF PartsOK, ManagerOK, ManagerType
<1>3. ManagerOK(n)
  BY <1>2 DEF PartsOK, ManagerOK, Connected
<1>4. JoinedOK(n, j)
  BY DEF JoinedOK, Connected
<1>5. WireOK(j)
  BY <1>1 DEF PartsOK, WireOK
<1>6. QED
  BY <1>1, <1>3, <1>4, <1>5 DEF PartsOK

(* Manager::refresh *)
LEMMA RefreshedOK ==
  ASSUME WorldOK, NEW state, PartsOK(state.manager, state.task),
         NEW l, NEW m, NEW t, state = [library |-> l, manager |-> m, task |-> t]
  PROVE  LET r == Refreshed(state)
         IN  /\ r.library = l /\ PartsOK(r.manager, r.task)
             /\ r.manager.mode = m.mode /\ r.manager.server = m.server
             /\ r.task # t => t.at = "none"
<1> DEFINE n == [m EXCEPT !.work = "running", !.encode = EncodeReset(@)]
           j == Started(m, "refresh", NoRow, FALSE)
<1>1. CASE ~(Connected(m) /\ m.work = "idle")
  BY <1>1 DEF Refreshed
<1>2. CASE Connected(m) /\ m.work = "idle"
  <2>1. m \in ManagerType /\ m.server \in Servers /\ NoRow \in TargetRows
    BY <1>2 DEF PartsOK, ManagerOK, NoRow, TargetRows
  <2>2. /\ Refreshed(state).library = l /\ Refreshed(state).manager = n
        /\ Refreshed(state).task = j
    BY <1>2 DEF Refreshed
  <2>3. /\ n \in ManagerType /\ n.work = "running" /\ n.mode = m.mode /\ n.server = m.server
        /\ n.shown = m.shown /\ n.encode = EncodeReset(m.encode)
    BY <2>1, EncodeResetOK DEF ManagerType
  <2>4. TaskOK(j) /\ j.server = m.server /\ j.at \in {"rows", "schedule", "detail"}
    BY <2>1, StartedOK
  <2>5. PartsOK(m, t)
    OBVIOUS
  <2> HIDE DEF n, j
  <2>6. PartsOK(n, j) /\ t.at = "none"
    BY <1>2, <2>3, <2>4, <2>5, BegunOK
  <2>7. QED
    BY <2>2, <2>3, <2>6
<1>3. QED
  BY <1>1, <1>2

(* Manager::reserve and Manager::change: the target is a row that was shown. *)
LEMMA CommandedOK ==
  ASSUME WorldOK, NEW state, PartsOK(state.manager, state.task), NEW kind \in Commands,
         NEW l, NEW m, NEW t, state = [library |-> l, manager |-> m, task |-> t]
  PROVE  LET r == Commanded(state, kind)
         IN  /\ r.library = l /\ PartsOK(r.manager, r.task)
             /\ r.manager.mode = m.mode /\ r.manager.server = m.server
             /\ r.task # t => t.at = "none"
<1> DEFINE row == CHOOSE row \in Targets(m.shown, kind) : TRUE
           target == IF kind = "add" THEN NoRow ELSE [id |-> row.id, rule |-> row.rule]
           encode == kind = "add" /\ Selection(m)
           n == [m EXCEPT !.work = "running"]
           j == Started(m, kind, target, encode)
<1>1. CASE ~Allowed(m, kind)
  BY <1>1 DEF Commanded
<1>2. CASE Allowed(m, kind)
  <2>1. /\ m \in ManagerType /\ m.server \in Servers /\ Connected(m) /\ m.work = "idle"
        /\ m.shown \in Lists
    BY <1>2 DEF Allowed, PartsOK, ManagerOK, ManagerType
  <2>2. target \in TargetRows
    <3>1. CASE kind = "add"
      BY <3>1 DEF NoRow, TargetRows
    <3>2. CASE kind # "add"
      <4>1. row \in Targets(m.shown, kind)
        BY <1>2, <3>2 DEF Allowed
      <4>2. row \in Rows
        BY <2>1, <4>1 DEF Targets, Lists
      <4>3. QED
        BY <3>2, <4>2, BoundsAssumption DEF Rows, TargetRows
    <3>3. QED
      BY <3>1, <3>2
  <2>3. encode \in BOOLEAN /\ (encode => m.server \in Encodes)
    BY <2>1, ServersAssumption DEF Selection, PartsOK, ManagerOK
  <2>4. /\ Commanded(state, kind).library = l /\ Commanded(state, kind).manager = n
        /\ Commanded(state, kind).task = j
    BY <1>2 DEF Commanded
  <2>5. /\ n \in ManagerType /\ n.work = "running" /\ n.mode = m.mode /\ n.server = m.server
        /\ n.shown = m.shown /\ n.encode = m.encode
    BY <2>1 DEF ManagerType
  <2> HIDE DEF target, encode
  <2>6. TaskOK(j) /\ j.server = m.server /\ j.at \in {"rows", "schedule", "detail"}
    BY <2>1, <2>2, <2>3, StartedOK DEF Commands
  <2>7. PartsOK(m, t)
    OBVIOUS
  <2> HIDE DEF n, j
  <2>8. PartsOK(n, j) /\ t.at = "none"
    BY <2>1, <2>5, <2>6, <2>7, BegunOK
  <2>9. QED
    BY <2>4, <2>5, <2>8
<1>3. QED
  BY <1>1, <1>2

(* refresh_reservations and change_reservation *)
LEMMA CommandKeeps ==
  ASSUME IInv, RefreshReservations \/ \E kind \in Commands : ChangeReservation(kind)
  PROVE  IInv' /\ (task' # task => task.at \in {"none", "done"})
<1>1. /\ WorldOK /\ PartsOK(manager, task) /\ LibraryOK(library, settings)
      /\ UNCHANGED <<world, phase, wire, settings>>
      /\ Spend("switches") \/ Spend("commands")
  BY DEF IInv, PartsOK, RefreshReservations, ChangeReservation
<1>2. PICK state \in Polls(library, settings) :
        Becomes(Refreshed(state)) \/ \E kind \in Commands : Becomes(Commanded(state, kind))
  BY DEF RefreshReservations, ChangeReservation
<1>3. PICK l, m, t : state = [library |-> l, manager |-> m, task |-> t]
  BY DEF Polls
<1>4. Connected(manager) => Session(library, settings) \in {None, manager.server} /\ ~Wanted(library)
  BY ConnectedHasSession DEF Session
<1>5. /\ LibraryOK(l, settings) /\ PartsOK(m, t) /\ Agree(m, l, settings)
      /\ t # task => task.at \in {"none", "done"}
  BY <1>1, <1>3, <1>4, PollsOK
<1>6. \E r : /\ Becomes(r) /\ r.library = l /\ PartsOK(r.manager, r.task)
             /\ r.manager.mode = m.mode /\ r.manager.server = m.server
             /\ r.task # t => t.at = "none"
  BY <1>1, <1>2, <1>3, <1>5, RefreshedOK, CommandedOK
<1>7. PICK r : /\ Becomes(r) /\ r.library = l /\ PartsOK(r.manager, r.task)
               /\ r.manager.mode = m.mode /\ r.manager.server = m.server
               /\ r.task # t => t.at = "none"
  BY <1>6
<1>8. library' = l /\ manager' = r.manager /\ task' = r.task
  BY <1>7 DEF Becomes
<1>9. Agree(r.manager, l, settings)
  BY <1>5, <1>7 DEF Agree, Connected
<1>10. budget' \in [switches : Nat, commands : Nat, events : Nat]
  BY <1>1, SpendOK
<1>11. IInv'
  BY <1>1, <1>5, <1>7, <1>8, <1>9, <1>10, HandlerKeeps
<1>12. task' # task => task.at \in {"none", "done"}
  BY <1>5, <1>7, <1>8
<1>13. QED
  BY <1>11, <1>12

-----------------------------------------------------------------------------
(* The job. *)

(* What is left of a job that goes on to send, to read the list, or to end. *)
LEMMA AtOK ==
  ASSUME TaskOK(task), task.at # "none", NEW pc \in {"sent", "rows", "done"}
  PROVE  TaskOK(At(pc)) /\ At(pc).at = pc /\ At(pc).server = task.server
           /\ At(pc).result = None /\ At(pc) \in TaskType
<1>1. task.server \in Servers
  BY DEF TaskOK
<1>2. /\ At(pc).at = pc /\ At(pc).server = task.server /\ At(pc).result = None
      /\ At(pc).clean = FALSE /\ At(pc).encode = FALSE
  BY DEF At, NoTask
<1>3. At(pc) \in TaskType
  BY <1>1, NoTaskOK DEF At, TaskType, Named
<1>4. QED
  BY <1>1, <1>2, <1>3 DEF TaskOK

(* A step of the job stays with its server; the manager only waits. *)
LEMMA StepKeeps ==
  ASSUME IInv, NEW next, Step(next), TaskOK(next), task.at # "none", next.at # "none",
         next.server = task.server, WireOK(task)'
  PROVE  IInv'
<1>1. UNCHANGED <<world, phase, library, settings, manager, budget>> /\ task' = next
  BY DEF Step
<1>2. WorldOK' /\ LibraryOK(library, settings)' /\ Agree(manager, library, settings)'
  BY <1>1 DEF IInv, WorldOK, LibraryOK, Agree, Session, Connected, Busy, Wanted
<1>3. ManagerOK(manager)' /\ TaskOK(task)' /\ JoinedOK(manager, task)'
  BY <1>1 DEF IInv, ManagerOK, TaskOK, JoinedOK, Connected
<1>4. QED
  BY <1>2, <1>3 DEF IInv

(* A step that sends nothing. *)
LEMMA ReadingKeeps ==
  ASSUME IInv, NEW next, Step(next), UNCHANGED wire, TaskOK(next),
         task.at \notin {"none", "sent"}, next.at \notin {"none", "sent"},
         next.server = task.server
  PROVE  IInv'
<1>1. UNCHANGED <<world, phase, wire>> /\ task' = next
  BY DEF Step
<1>2. WireOK(task)'
  BY <1>1 DEF IInv, WireOK, Good, Ongoing, Taken, Matches, Permits
<1>3. QED
  BY <1>2, StepKeeps

(* A check that fails ends the job. *)
LEMMA FailingKeeps ==
  ASSUME IInv, Step(Fails), UNCHANGED wire, task.at \notin {"none", "sent"}
  PROVE  IInv'
<1>1. TaskOK(task)
  BY DEF IInv
<1>2. TaskOK(Fails) /\ Fails.at = "done" /\ Fails.server = task.server
  BY <1>1, AtOK DEF Fails
<1>3. QED
  BY <1>2, ReadingKeeps

(* What a job sends is what it has checked. *)
LEMMA SendingKeeps ==
  ASSUME IInv, NEW kind \in Commands, task.at = "recording", task.kind = kind,
         wire' = wire \cup {Write(kind)}, Step(At("sent")),
         task.clean => Good(Write(kind))
  PROVE  IInv'
<1>1. TaskOK(task) /\ task \in TaskType /\ task.server \in Servers
  BY DEF IInv, TaskOK
<1>2. TaskOK(At("sent")) /\ At("sent").at = "sent" /\ At("sent").server = task.server
  BY <1>1, AtOK
<1> DEFINE w == Write(kind)
<1>3. /\ w \in WriteType /\ w.awaited /\ w.server = task.server /\ w.clean = task.clean
      /\ w.encode = task.encode
  BY <1>1 DEF Write, WriteType, TaskType
<1>4. (w.clean => Good(w)) /\ (w.encode => w.server \in Encodes)
  BY <1>1, <1>3 DEF TaskOK
<1>5. \A v \in wire : ~v.awaited
  BY DEF IInv, WireOK
<1>6. UNCHANGED <<world, phase>> /\ task' = At("sent") /\ wire' = wire \cup {w}
  BY DEF Step
<1> HIDE DEF w
<1>7. \A v \in wire' : Good(v)' <=> Good(v)
  BY <1>6 DEF Good, Ongoing, Taken, Matches, Permits
<1>8. WireOK(task)'
  <2>1. \A v \in wire' : v \in WriteType /\ (v.clean => Good(v)')
                         /\ (v.encode => v.server \in Encodes)
    BY <1>3, <1>4, <1>6, <1>7 DEF IInv, WireOK
  <2>2. /\ \A v \in wire' : v.awaited <=> v = w
        /\ task'.at = "sent" /\ w.server = task'.server /\ w \in wire'
    BY <1>2, <1>3, <1>5, <1>6
  <2>3. QED
    BY <1>3, <2>1, <2>2 DEF WireOK
<1>9. QED
  BY <1>1, <1>2, <1>8, StepKeeps

(* http::execute, step by step. *)
LEMMA JobKeeps ==
  ASSUME IInv, Job
  PROVE  IInv'
<1>1. TaskOK(task) /\ task \in TaskType /\ WorldOK
  BY DEF IInv, TaskOK
<1>2. CASE CheckSchedule
  <2> DEFINE n == [task EXCEPT !.at = "reserves"]
  <2>1. task.at = "schedule" /\ (Step(n) \/ Step(Fails)) /\ UNCHANGED wire
    BY <1>2 DEF CheckSchedule, Passes
  <2>2. TaskOK(n) /\ n.at = "reserves" /\ n.server = task.server
    BY <1>1, <2>1 DEF TaskOK, TaskType
  <2> HIDE DEF n
  <2>3. QED
    BY <2>1, <2>2, ReadingKeeps, FailingKeeps
<1>3. CASE ReadReserves
  <2> DEFINE n == [task EXCEPT !.at = "recording", !.clean = TRUE, !.read = List(There.rows)]
  <2>1. task.at = "reserves" /\ Step(n) /\ UNCHANGED wire
    BY <1>3 DEF ReadReserves, Passes
  <2>2. task.server \in Servers /\ task.kind = "add"
    BY <1>1, <2>1 DEF TaskOK
  <2>3. List(There.rows) \in Lists /\ List(There.rows).rows = world[task.server].rows
    BY <1>1, <2>2 DEF List, There, Lists, WorldOK, WorldType
  <2>4. /\ n \in TaskType /\ n.at = "recording" /\ n.kind = task.kind /\ n.read = List(There.rows)
        /\ n.server = task.server /\ n.result = task.result /\ n.encode = task.encode
    BY <1>1, <2>3 DEF TaskType
  <2> HIDE DEF n
  <2>5. TaskOK(n)
    BY <1>1, <2>1, <2>2, <2>3, <2>4 DEF TaskOK, Commands
  <2>6. QED
    BY <2>1, <2>4, <2>5, ReadingKeeps
<1>4. CASE SendAdd
  <2>1. task.at = "recording" /\ task.kind = "add" /\ task.read \in Lists
    BY <1>1, <1>4 DEF SendAdd, TaskOK
  <2>2. CASE ~Taken([task.read EXCEPT !.recording = There.recording]) /\ Ongoing
    <3>1. task.read.rows = {} /\ ~There.recording
      BY <2>1, <2>2 DEF Taken, Lists
    <3>2. task.clean => world[task.server].rows = {} /\ ~world[task.server].recording
      BY <1>1, <2>1, <3>1 DEF TaskOK, There
    <3>3. task.clean => Good(Write("add"))
      BY <2>2, <3>2 DEF Good, Write, Taken, Changes
    <3>4. QED
      BY <1>4, <2>1, <2>2, <3>3, SendingKeeps DEF SendAdd, Sends, Commands
  <2>3. QED
    BY <1>4, <2>1, <2>2, FailingKeeps DEF SendAdd, Declines
<1>5. CASE CheckDetail
  <2> DEFINE read == List({row \in There.rows : row.id = task.target.id})
             n == [task EXCEPT !.at = "recording", !.clean = TRUE, !.read = read]
  <2>1. task.at = "detail" /\ (Step(n) \/ Step(Fails)) /\ UNCHANGED wire
    BY <1>5 DEF CheckDetail, Passes
  <2>2. task.server \in Servers /\ task.kind \in Changes
    BY <1>1, <2>1 DEF TaskOK
  <2>3. read \in Lists /\ read.rows \subseteq world[task.server].rows
    BY <1>1, <2>2 DEF List, There, Lists, WorldOK, WorldType
  <2> HIDE DEF read
  <2>4. /\ n \in TaskType /\ n.at = "recording" /\ n.kind = task.kind /\ n.read = read
        /\ n.server = task.server /\ n.result = task.result /\ n.encode = task.encode
    BY <1>1, <2>3 DEF TaskType
  <2> HIDE DEF n
  <2>5. TaskOK(n)
    BY <1>1, <2>1, <2>2, <2>3, <2>4 DEF TaskOK, Commands, Changes
  <2>6. QED
    BY <2>1, <2>4, <2>5, ReadingKeeps, FailingKeeps
<1>6. CASE SendChange
  <2>1. task.at = "recording" /\ task.kind \in Changes /\ task.read \in Lists
    BY <1>1, <1>6 DEF SendChange, TaskOK
  <2>2. CASE /\ task.kind = "unexclude" \/ ~There.recording
             /\ \E row \in task.read.rows : Matches(task.target, row, task.kind)
    <3>1. task.clean => \E row \in world[task.server].rows : Matches(task.target, row, task.kind)
      BY <1>1, <2>1, <2>2 DEF TaskOK, Changes
    <3>2. task.clean => Good(Write(task.kind))
      BY <2>1, <2>2, <3>1 DEF Good, Write, There, Changes
    <3>3. QED
      BY <1>6, <2>1, <2>2, <3>2, SendingKeeps DEF SendChange, Sends, Commands
  <2>3. QED
    BY <1>6, <2>1, <2>2, FailingKeeps DEF SendChange, Declines
<1>7. CASE ReadRows
  <2> DEFINE n == [task EXCEPT !.at = "records", !.read = List(There.rows)]
  <2>1. task.at = "rows" /\ Step(n) /\ UNCHANGED wire
    BY <1>7 DEF ReadRows, Passes
  <2>2. task.server \in Servers
    BY <1>1, <2>1 DEF TaskOK
  <2>3. /\ List(There.rows) \in Lists /\ List(There.rows).server = task.server
        /\ List(There.rows).own = world[task.server].own
        /\ {world[task.server].own, world[task.server].answered} \subseteq Nat
    BY <1>1, <2>2 DEF List, There, Lists, WorldOK, WorldType
  <2>4. /\ n \in TaskType /\ n.at = "records" /\ n.read = List(There.rows)
        /\ n.server = task.server /\ n.result = task.result /\ n.encode = task.encode
    BY <1>1, <2>3 DEF TaskType
  <2> HIDE DEF n
  <2>5. TaskOK(n)
    BY <1>1, <2>1, <2>2, <2>3, <2>4 DEF TaskOK, WorldOK
  <2>6. QED
    BY <2>1, <2>4, <2>5, ReadingKeeps
<1>8. CASE ReadRecords
  <2> DEFINE list == [task.read EXCEPT !.recording = There.recording]
             n == [At("done") EXCEPT !.result = list]
  <2>1. task.at = "records" /\ Step(n) /\ UNCHANGED wire
    BY <1>8 DEF ReadRecords, Passes
  <2>2. /\ task.server \in Servers /\ task.read \in Lists /\ task.read.server = task.server
        /\ task.read.own >= world[task.server].answered
    BY <1>1, <2>1 DEF TaskOK
  <2>3. list \in Lists /\ list.server = task.server /\ list.own = task.read.own
    BY <1>1, <2>2 DEF There, Lists, WorldOK, WorldType
  <2> HIDE DEF list
  <2>4. TaskOK(At("done")) /\ At("done") \in TaskType
    BY <1>1, <2>1, AtOK
  <2>5. /\ n \in TaskType /\ n.at = "done" /\ n.server = task.server /\ n.result = list
        /\ n.encode = FALSE
    BY <2>3, <2>4 DEF TaskType, At, NoTask
  <2> HIDE DEF n
  <2>6. TaskOK(n)
    BY <2>2, <2>3, <2>5 DEF TaskOK
  <2>7. QED
    BY <2>1, <2>5, <2>6, ReadingKeeps
<1>9. QED
  BY <1>2, <1>3, <1>4, <1>5, <1>6, <1>7, <1>8 DEF Job

-----------------------------------------------------------------------------
(* The servers and the clock. *)

(* What stays of the job when its requests are given up. *)
LEMMA GivingUpKeeps ==
  ASSUME IInv, task.at # "none", task' = Fails, wire' = Orphaned,
         UNCHANGED <<world, phase, library, settings, manager>>,
         budget' \in [switches : Nat, commands : Nat, events : Nat]
  PROVE  IInv'
<1>1. WorldOK' /\ LibraryOK(library, settings)' /\ Agree(manager, library, settings)'
  BY DEF IInv, WorldOK, LibraryOK, Agree, Session, Connected, Busy, Wanted
<1>2. TaskOK(Fails) /\ Fails.at = "done" /\ Fails.server = task.server
  BY AtOK DEF IInv, Fails
<1>3. ManagerOK(manager)' /\ TaskOK(task)' /\ JoinedOK(manager, task)'
  BY <1>2 DEF IInv, ManagerOK, TaskOK, JoinedOK, Connected
<1>4. \A w \in wire : LET o == [w EXCEPT !.awaited = FALSE]
                      IN  /\ o \in WriteType /\ ~o.awaited
                          /\ (o.clean => Good(o)') /\ (o.encode => o.server \in Encodes)
  <2> SUFFICES ASSUME NEW w \in wire
               PROVE  LET o == [w EXCEPT !.awaited = FALSE]
                      IN  /\ o \in WriteType /\ ~o.awaited
                          /\ (o.clean => Good(o)') /\ (o.encode => o.server \in Encodes)
    OBVIOUS
  <2> DEFINE o == [w EXCEPT !.awaited = FALSE]
  <2>1. w \in WriteType /\ (w.clean => Good(w)) /\ (w.encode => w.server \in Encodes)
    BY DEF IInv, WireOK
  <2>2. /\ o \in WriteType /\ ~o.awaited /\ o.clean = w.clean /\ o.encode = w.encode
        /\ o.server = w.server /\ o.kind = w.kind /\ o.target = w.target
    BY <2>1 DEF WriteType
  <2> HIDE DEF o
  <2>3. Good(w) => Good(o)'
    BY <2>2 DEF Good, Ongoing, Taken, Matches, Permits
  <2>4. QED
    BY <2>1, <2>2, <2>3 DEF o
<1>5. WireOK(task)'
  BY <1>2, <1>4 DEF Orphaned, WireOK
<1>6. QED
  BY <1>1, <1>3, <1>5 DEF IInv

(* A request that fails, or an abort. *)
LEMMA GivingUpSteps ==
  ASSUME IInv, RequestFails \/ AbortEnds
  PROVE  IInv'
<1>1. /\ task.at # "none" /\ task' = Fails /\ wire' = Orphaned
      /\ UNCHANGED <<world, phase, library, settings, manager>>
  BY DEF RequestFails, AbortEnds, Step
<1>2. budget' \in [switches : Nat, commands : Nat, events : Nat]
  BY SpendOK DEF IInv, WorldOK, RequestFails, AbortEnds, Step
<1>3. QED
  BY <1>1, <1>2, GivingUpKeeps

(* A server whose list changes leaves unchecked what was checked on it. *)
LEMMA UncheckedOK ==
  ASSUME IInv, NEW server \in Servers, NEW left \in SUBSET wire, phase' = phase,
         \A other \in Servers \ {server} : world'[other] = world[other],
         NEW x \in Unchecked(server, left)
  PROVE  \E w \in left : /\ x \in WriteType /\ (x.clean => Good(x)')
                           /\ (x.encode => x.server \in Encodes)
                           /\ x.awaited = w.awaited /\ x.server = w.server
                           /\ x = (IF w.server = server THEN [w EXCEPT !.clean = FALSE] ELSE w)
<1>1. PICK w \in left :
        x = IF w.server = server THEN [w EXCEPT !.clean = FALSE] ELSE w
  BY DEF Unchecked
<1>2. w \in WriteType /\ (w.clean => Good(w)) /\ (w.encode => w.server \in Encodes)
  BY DEF IInv, WireOK
<1>3. CASE w.server = server
  <2>1. /\ x \in WriteType /\ ~x.clean /\ x.encode = w.encode /\ x.server = w.server
        /\ x.awaited = w.awaited
    BY <1>1, <1>2, <1>3 DEF WriteType
  <2>2. QED
    BY <1>1, <1>2, <2>1
<1>4. CASE w.server # server
  <2>1. w.server \in Servers \ {server} /\ x = w
    BY <1>1, <1>2, <1>4 DEF WriteType
  <2>2. Good(w) => Good(w)'
    BY <2>1 DEF Good, Ongoing, Taken, Matches, Permits
  <2>3. QED
    BY <1>1, <1>2, <2>1, <2>2
<1>5. QED
  BY <1>3, <1>4

(* So the writes that stay are in order, if the job still waits for its own. *)
LEMMA UncheckedWireOK ==
  ASSUME IInv, NEW server \in Servers, NEW left \in SUBSET wire, phase' = phase,
         \A other \in Servers \ {server} : world'[other] = world[other],
         wire' = Unchecked(server, left), NEW t,
         \A w \in left : w.awaited => t.at = "sent" /\ t.server = w.server,
         t.at = "sent" => \E w \in left : w.awaited,
         task' = t
  PROVE  WireOK(task)'
<1>1. \A x \in wire' : \E w \in left :
        /\ x \in WriteType /\ (x.clean => Good(x)') /\ (x.encode => x.server \in Encodes)
        /\ x.awaited = w.awaited /\ x.server = w.server
        /\ x = (IF w.server = server THEN [w EXCEPT !.clean = FALSE] ELSE w)
  BY UncheckedOK
<1>2. \A x \in wire' : /\ x \in WriteType /\ (x.clean => Good(x)')
                       /\ (x.encode => x.server \in Encodes)
                       /\ (x.awaited => t.at = "sent" /\ x.server = t.server)
  BY <1>1
<1>3. \A v, w \in left : v.awaited /\ w.awaited => v = w
  BY DEF IInv, WireOK
<1>4. ASSUME NEW x \in wire', NEW y \in wire', x.awaited, y.awaited
      PROVE  x = y
  <2>1. PICK v \in left : /\ x.awaited = v.awaited
             /\ x = (IF v.server = server THEN [v EXCEPT !.clean = FALSE] ELSE v)
    BY <1>1
  <2>2. PICK w \in left : /\ y.awaited = w.awaited
             /\ y = (IF w.server = server THEN [w EXCEPT !.clean = FALSE] ELSE w)
    BY <1>1
  <2>3. v = w
    BY <1>3, <1>4, <2>1, <2>2
  <2>4. QED
    BY <2>1, <2>2, <2>3
<1>5. t.at = "sent" => \E x \in wire' : x.awaited
  <2> SUFFICES ASSUME t.at = "sent" PROVE \E x \in wire' : x.awaited
    OBVIOUS
  <2>1. PICK w \in left : w.awaited
    OBVIOUS
  <2> DEFINE x == IF w.server = server THEN [w EXCEPT !.clean = FALSE] ELSE w
  <2>2. w \in WriteType
    BY DEF IInv, WireOK
  <2>3. x.awaited
    BY <2>1, <2>2 DEF WriteType
  <2>4. x \in wire'
    BY DEF Unchecked
  <2>5. QED
    BY <2>3, <2>4
<1>6. QED
  BY <1>2, <1>4, <1>5 DEF WireOK

(* What a job knows of other servers stays; of this one it forgets that it was
   checked. *)
LEMMA DisturbedTaskOK ==
  ASSUME IInv, NEW server \in Servers, world' \in WorldType,
         \A other \in Servers \ {server} : world'[other] = world[other],
         world'[server].answered = world[server].answered, NEW t,
         t = IF task.server = server THEN [task EXCEPT !.clean = FALSE] ELSE task,
         task' = t
  PROVE  /\ TaskOK(task)' /\ t.at = task.at /\ t.server = task.server
<1>1. TaskOK(task) /\ task \in TaskType
  BY DEF IInv, TaskOK
<1>2. CASE task.server = server
  <2>1. /\ t \in TaskType /\ ~t.clean /\ t.at = task.at /\ t.kind = task.kind
        /\ t.server = task.server /\ t.read = task.read /\ t.result = task.result
        /\ t.encode = task.encode
    BY <1>1, <1>2 DEF TaskType
  <2>2. QED
    BY <1>1, <1>2, <2>1 DEF TaskOK
<1>3. CASE task.server # server
  <2>1. t = task /\ (task.at # "none" => world'[task.server] = world[task.server])
    BY <1>1, <1>3 DEF TaskOK
  <2>2. task.at = "none" => task.result = None
    BY <1>1 DEF TaskOK
  <2>3. QED
    BY <1>1, <2>1, <2>2 DEF TaskOK
<1>4. QED
  BY <1>2, <1>3

(* A server's list changes, and the manager and the library know nothing of it. *)
LEMMA WorldKeeps ==
  ASSUME IInv, world' \in WorldType,
         \A server \in Servers : world'[server].answered <= world'[server].own,
         UNCHANGED <<phase, library, settings, manager>>,
         budget' \in [switches : Nat, commands : Nat, events : Nat],
         manager.work = "idle" =>
           \A server \in Servers : world'[server].answered = world[server].answered,
         TaskOK(task)', WireOK(task)', task'.at # "none" <=> task.at # "none",
         task'.server = task.server
  PROVE  IInv'
<1>1. WorldOK' /\ LibraryOK(library, settings)' /\ Agree(manager, library, settings)'
  BY DEF IInv, WorldOK, LibraryOK, Agree, Session, Connected, Busy, Wanted
<1>2. ManagerOK(manager)'
  BY DEF IInv, ManagerOK, Connected
<1>3. JoinedOK(manager, task)'
  BY DEF IInv, JoinedOK, Connected
<1>4. QED
  BY <1>1, <1>2, <1>3 DEF IInv

(* A write changes a server's list as one change of ours, whatever it finds. *)
LEMMA EffectsOK ==
  ASSUME NEW w \in WriteType,
         NEW old \in [rows : SUBSET Rows, recording : BOOLEAN, own : Nat, answered : Nat,
                      last : 0..MaxId],
         NEW list \in Effects(old, w)
  PROVE  /\ list \in [rows : SUBSET Rows, recording : BOOLEAN, own : Nat, answered : Nat,
                      last : 0..MaxId]
         /\ list.own = old.own + 1 /\ list.answered = old.answered
<1> DEFINE With(rows) == [old EXCEPT !.rows = rows, !.own = @ + 1]
           Out == [rows : SUBSET Rows, recording : BOOLEAN, own : Nat, answered : Nat, last : 0..MaxId]
           named == {row \in old.rows : row.id = w.target.id}
<1>1. MaxId \in Nat /\ old.own + 1 \in Nat
  BY BoundsAssumption
<1>2. ASSUME NEW rows \in SUBSET Rows
      PROVE  With(rows) \in Out /\ With(rows).own = old.own + 1
               /\ With(rows).answered = old.answered /\ With(rows).last = old.last
  BY <1>1
<1>3. ASSUME NEW row \in Rows, NEW mark \in {"plain", "skipped", "fixed"}
      PROVE  [row EXCEPT !.mark = mark] \in Rows
  BY DEF Rows
<1>4. named \subseteq Rows
  OBVIOUS
<1> HIDE DEF With, named
<1>5. CASE w.kind = "add"
  <2> DEFINE rows == old.rows \cup {[id |-> old.last + 1, rule |-> FALSE, mark |-> "plain"]}
  <2>1. old.last # MaxId /\ list = [With(rows) EXCEPT !.last = @ + 1]
    BY <1>5 DEF Effects, With
  <2>2. old.last + 1 \in 1..MaxId
    BY <1>1, <2>1
  <2>3. rows \in SUBSET Rows
    <3>1. [id |-> old.last + 1, rule |-> FALSE, mark |-> "plain"] \in Rows
      BY <2>2 DEF Rows
    <3>2. QED
      BY <3>1
  <2> HIDE DEF rows
  <2>4. With(rows) \in Out /\ With(rows).own = old.own + 1
          /\ With(rows).answered = old.answered /\ With(rows).last = old.last
    BY <1>2, <2>3
  <2>5. QED
    BY <1>1, <2>1, <2>2, <2>4
<1>6. CASE w.kind \in {"cancel", "exclude"}
  <2>1. PICK row \in named :
          list = With((old.rows \ {row})
                      \cup (IF row.rule /\ row.mark # "fixed" THEN {[row EXCEPT !.mark = "skipped"]}
                            ELSE {}))
    BY <1>6 DEF Effects, With, named
  <2>2. (old.rows \ {row})
          \cup (IF row.rule /\ row.mark # "fixed" THEN {[row EXCEPT !.mark = "skipped"]} ELSE {})
          \in SUBSET Rows
    BY <1>3, <1>4
  <2>3. QED
    BY <1>2, <2>1, <2>2
<1>7. CASE w.kind = "unexclude"
  <2>1. PICK row \in named :
          list = With((old.rows \ {row})
                      \cup {[row EXCEPT !.mark = IF @ = "skipped" THEN "plain" ELSE @]})
    BY <1>7 DEF Effects, With, named
  <2>2. (IF row.mark = "skipped" THEN "plain" ELSE row.mark) \in {"plain", "skipped", "fixed"}
    BY <1>4 DEF Rows
  <2>3. [row EXCEPT !.mark = IF @ = "skipped" THEN "plain" ELSE @] \in Rows
    BY <1>3, <1>4, <2>2 DEF Rows
  <2>4. QED
    BY <1>2, <2>1, <2>3
<1>8. QED
  BY <1>5, <1>6, <1>7 DEF WriteType, Commands, Changes

(* The step of a served write on its server's list. *)
LEMMA ServedWorld ==
  ASSUME IInv, NEW w \in wire, Serve(w)
  PROVE  /\ world' \in WorldType
         /\ \A server \in Servers : world'[server].answered <= world'[server].own
         /\ \A other \in Servers \ {w.server} : world'[other] = world[other]
         /\ ~w.awaited => world'[w.server].answered = world[w.server].answered
<1>1. w \in WriteType /\ w.server \in Servers
  BY DEF IInv, WireOK, WriteType
<1>2. world \in WorldType /\ \A server \in Servers : world[server].answered <= world[server].own
  BY DEF IInv, WorldOK
<1>3. CASE UNCHANGED world
  BY <1>1, <1>2, <1>3
<1>4. CASE \E list \in Effects(world[w.server], w) :
             world' = [world EXCEPT ![w.server] =
                         IF w.awaited THEN [list EXCEPT !.answered = list.own] ELSE list]
  <2>1. PICK list \in Effects(world[w.server], w) :
             world' = [world EXCEPT ![w.server] =
                         IF w.awaited THEN [list EXCEPT !.answered = list.own] ELSE list]
    BY <1>4
  <2> DEFINE new == IF w.awaited THEN [list EXCEPT !.answered = list.own] ELSE list
             Out == [rows : SUBSET Rows, recording : BOOLEAN, own : Nat, answered : Nat,
                     last : 0..MaxId]
  <2>2. world[w.server] \in Out
    BY <1>1, <1>2 DEF WorldType
  <2>3. list \in Out /\ list.own = world[w.server].own + 1
          /\ list.answered = world[w.server].answered
    BY <1>1, <2>1, <2>2, EffectsOK
  <2>4. world[w.server].own \in Nat /\ world[w.server].answered \in Nat
    BY <2>2
  <2>5. /\ new \in Out /\ new.answered <= new.own
        /\ ~w.awaited => new.answered = world[w.server].answered
    BY <1>1, <1>2, <2>3, <2>4
  <2> HIDE DEF new, Out
  <2>6. world' = [world EXCEPT ![w.server] = new]
    BY <2>1 DEF new
  <2>7. QED
    BY <1>1, <1>2, <2>5, <2>6 DEF WorldType, Out
<1>5. QED
  BY <1>3, <1>4 DEF Serve

(* A server handles a write. *)
LEMMA ServeKeeps ==
  ASSUME IInv, NEW w \in wire, Serve(w)
  PROVE  IInv'
<1>1. w \in WriteType /\ w.server \in Servers
  BY DEF IInv, WireOK, WriteType
<1>2. /\ wire' = Unchecked(w.server, wire \ {w})
      /\ UNCHANGED <<phase, library, settings, manager, budget>>
  BY DEF Serve
<1>3. /\ world' \in WorldType
      /\ \A server \in Servers : world'[server].answered <= world'[server].own
      /\ \A other \in Servers \ {w.server} : world'[other] = world[other]
      /\ ~w.awaited => world'[w.server].answered = world[w.server].answered
  BY ServedWorld
<1>4. budget' \in [switches : Nat, commands : Nat, events : Nat]
  BY <1>2 DEF IInv, WorldOK
<1>5. CASE w.awaited
  <2>1. task.at = "sent" /\ w.server = task.server /\ \A v \in wire \ {w} : ~v.awaited
    BY <1>5 DEF IInv, WireOK
  <2>2. manager.work # "idle"
    BY <2>1 DEF IInv, JoinedOK
  <2>3. PICK pc \in {"rows", "done"} : task' = At(pc)
    BY <1>5 DEF Serve, Fails
  <2>4. TaskOK(At(pc)) /\ At(pc).at = pc /\ At(pc).server = task.server
          /\ At(pc).result = None /\ At(pc) \in TaskType
    BY <2>1, AtOK DEF IInv
  <2>5. TaskOK(task)'
    BY <2>3, <2>4 DEF TaskOK, At, NoTask
  <2>6. WireOK(task)'
    BY <1>1, <1>2, <1>3, <2>1, <2>3, <2>4, UncheckedWireOK
  <2>7. QED
    BY <1>2, <1>3, <1>4, <2>1, <2>2, <2>3, <2>4, <2>5, <2>6, WorldKeeps
<1>6. CASE ~w.awaited
  <2> DEFINE t == IF task.server = w.server THEN [task EXCEPT !.clean = FALSE] ELSE task
  <2>1. task' = t
    BY <1>6 DEF Serve
  <2>2. TaskOK(task)' /\ t.at = task.at /\ t.server = task.server
    BY <1>1, <1>3, <1>6, <2>1, DisturbedTaskOK
  <2> HIDE DEF t
  <2>3. /\ \A v \in wire \ {w} : v.awaited => t.at = "sent" /\ t.server = v.server
        /\ t.at = "sent" => \E v \in wire \ {w} : v.awaited
    BY <1>6, <2>2 DEF IInv, WireOK
  <2>4. WireOK(task)'
    BY <1>1, <1>2, <1>3, <2>1, <2>3, UncheckedWireOK
  <2>5. \A server \in Servers : world'[server].answered = world[server].answered
    BY <1>1, <1>3, <1>6
  <2>6. QED
    BY <1>2, <1>3, <1>4, <2>1, <2>2, <2>4, <2>5, WorldKeeps
<1>7. QED
  BY <1>5, <1>6

(* A write is lost. *)
LEMMA LoseKeeps ==
  ASSUME IInv, NEW w \in wire, Lose(w)
  PROVE  IInv'
<1>1. /\ ~w.awaited /\ wire' = wire \ {w}
      /\ UNCHANGED <<world, phase, library, settings, manager, task, budget>>
  BY DEF Lose
<1>2. WireOK(task)'
  BY <1>1 DEF IInv, WireOK, Good, Ongoing, Taken, Matches, Permits
<1>3. TaskOK(task)'
  BY <1>1 DEF IInv, TaskOK
<1>4. QED
  BY <1>1, <1>2, <1>3, WorldKeeps DEF IInv, WorldOK

(* Others change a server. *)
LEMMA OutsideKeeps ==
  ASSUME IInv, NEW server \in Servers, Outside(server)
  PROVE  IInv'
<1> DEFINE Out == [rows : SUBSET Rows, recording : BOOLEAN, own : Nat, answered : Nat,
                   last : 0..MaxId]
<1>1. world \in WorldType /\ world[server] \in Out /\ world \in [Servers -> Out]
        /\ \A other \in Servers : world[other].answered <= world[other].own
  BY DEF IInv, WorldOK, WorldType
<1>2. PICK list \in Out : /\ world' = [world EXCEPT ![server] = list]
                          /\ list.own = world[server].own
                          /\ list.answered = world[server].answered
  <2>1. CASE world' = [world EXCEPT ![server].recording = ~@]
    <3> DEFINE list == [world[server] EXCEPT !.recording = ~@]
    <3>1. list \in Out /\ list.own = world[server].own /\ list.answered = world[server].answered
      BY <1>1
    <3>2. world' = [world EXCEPT ![server] = list]
      BY <2>1
    <3>3. QED
      BY <3>1, <3>2
  <2>2. CASE \E row \in world[server].rows :
               world' = [world EXCEPT ![server].rows = @ \ {row}]
    <3>1. PICK row \in world[server].rows : world' = [world EXCEPT ![server].rows = @ \ {row}]
      BY <2>2
    <3> DEFINE list == [world[server] EXCEPT !.rows = @ \ {row}]
    <3>2. list \in Out /\ list.own = world[server].own /\ list.answered = world[server].answered
      BY <1>1
    <3>3. world' = [world EXCEPT ![server] = list]
      BY <3>1
    <3>4. QED
      BY <3>2, <3>3
  <2>3. CASE \E row \in world[server].rows :
               \E mark \in {"plain", "skipped", "fixed"} \ {row.mark} :
                 world' = [world EXCEPT ![server].rows =
                             (@ \ {row}) \cup {[row EXCEPT !.mark = mark]}]
    <3>1. PICK row \in world[server].rows, mark \in {"plain", "skipped", "fixed"} :
               world' = [world EXCEPT ![server].rows =
                           (@ \ {row}) \cup {[row EXCEPT !.mark = mark]}]
      BY <2>3
    <3>2. [row EXCEPT !.mark = mark] \in Rows
      BY <1>1 DEF Rows
    <3> DEFINE list == [world[server] EXCEPT !.rows = (@ \ {row}) \cup {[row EXCEPT !.mark = mark]}]
    <3>3. list \in Out /\ list.own = world[server].own /\ list.answered = world[server].answered
      BY <1>1, <3>2
    <3>4. world' = [world EXCEPT ![server] = list]
      BY <3>1
    <3>5. QED
      BY <3>3, <3>4
  <2>4. CASE \E row \in Rows :
               /\ row.id = world[server].last + 1 /\ row.mark = "plain"
               /\ world' = [world EXCEPT ![server].rows = @ \cup {row}, ![server].last = row.id]
    <3>1. PICK row \in Rows :
               world' = [world EXCEPT ![server].rows = @ \cup {row}, ![server].last = row.id]
      BY <2>4
    <3>2. row.id \in 0..MaxId
      BY BoundsAssumption DEF Rows
    <3> DEFINE list == [world[server] EXCEPT !.rows = @ \cup {row}, !.last = row.id]
    <3>3. list \in Out /\ list.own = world[server].own /\ list.answered = world[server].answered
      BY <1>1, <3>2
    <3>4. world' = [world EXCEPT ![server] = list]
      BY <1>1, <3>1
    <3>5. QED
      BY <3>3, <3>4
  <2>5. QED
    BY <2>1, <2>2, <2>3, <2>4 DEF Outside
<1>3. /\ world' \in WorldType
      /\ \A other \in Servers \ {server} : world'[other] = world[other]
      /\ \A other \in Servers : /\ world'[other].answered = world[other].answered
                                /\ world'[other].answered <= world'[other].own
  BY <1>1, <1>2 DEF WorldType
<1>4. UNCHANGED <<phase, library, settings, manager>> /\ Spend("events") /\ Disturbed(server)
  BY DEF Outside
<1> DEFINE t == IF task.server = server THEN [task EXCEPT !.clean = FALSE] ELSE task
<1>5. task' = t /\ wire' = Unchecked(server, wire)
  BY <1>4 DEF Disturbed
<1>6. TaskOK(task)' /\ t.at = task.at /\ t.server = task.server
  BY <1>3, <1>5, DisturbedTaskOK
<1> HIDE DEF t
<1>7. /\ \A w \in wire : w.awaited => t.at = "sent" /\ t.server = w.server
      /\ t.at = "sent" => \E w \in wire : w.awaited
  BY <1>6 DEF IInv, WireOK
<1>8. WireOK(task)'
  BY <1>3, <1>4, <1>5, <1>7, UncheckedWireOK
<1>9. budget' \in [switches : Nat, commands : Nat, events : Nat]
  BY <1>4, SpendOK DEF IInv
<1>10. QED
  BY <1>3, <1>4, <1>5, <1>6, <1>8, <1>9, WorldKeeps

(* A write on its way proves nothing any more; a job that has yet to write
   looks at the clock again. *)
LEMMA TimePassesKeeps ==
  ASSUME IInv, TimePasses
  PROVE  IInv'
<1>1. /\ phase' \in {"before", "running", "over"} /\ Spend("events")
      /\ wire' = {[w EXCEPT !.clean = FALSE] : w \in wire}
      /\ UNCHANGED <<world, library, settings, manager, task>>
  BY DEF TimePasses
<1>2. budget' \in [switches : Nat, commands : Nat, events : Nat]
  BY <1>1, SpendOK DEF IInv
<1>3. WorldOK' /\ LibraryOK(library, settings)' /\ Agree(manager, library, settings)'
        /\ ManagerOK(manager)'
  BY <1>1, <1>2 DEF IInv, WorldOK, LibraryOK, Agree, ManagerOK, Session, Connected, Busy, Wanted
<1>6. TaskOK(task)' /\ JoinedOK(manager, task)'
  BY <1>1 DEF IInv, TaskOK, JoinedOK, Connected
<1>7. \A w \in wire : LET o == [w EXCEPT !.clean = FALSE]
                      IN  /\ o \in WriteType /\ ~o.clean /\ o.awaited = w.awaited
                          /\ o.server = w.server /\ (o.encode => o.server \in Encodes)
  BY DEF IInv, WireOK, WriteType
<1>8. WireOK(task)'
  <2>1. \A x \in wire' : \E w \in wire : /\ x = [w EXCEPT !.clean = FALSE]
                                        /\ x.awaited = w.awaited /\ x.server = w.server
    BY <1>1, <1>7
  <2>2. \A x \in wire' : /\ x \in WriteType /\ (x.clean => Good(x)')
                         /\ (x.encode => x.server \in Encodes)
    BY <1>1, <1>7
  <2>3. \A x \in wire' : x.awaited => task'.at = "sent" /\ x.server = task'.server
    BY <1>1, <2>1 DEF IInv, WireOK
  <2>4. ASSUME NEW x \in wire', NEW y \in wire', x.awaited, y.awaited
        PROVE  x = y
    <3>1. PICK v \in wire : x = [v EXCEPT !.clean = FALSE] /\ x.awaited = v.awaited
      BY <2>1
    <3>2. PICK w \in wire : y = [w EXCEPT !.clean = FALSE] /\ y.awaited = w.awaited
      BY <2>1
    <3>3. v = w
      BY <2>4, <3>1, <3>2 DEF IInv, WireOK
    <3>4. QED
      BY <3>1, <3>2, <3>3
  <2>5. task'.at = "sent" => \E x \in wire' : x.awaited
    <3> SUFFICES ASSUME task.at = "sent" PROVE \E x \in wire' : x.awaited
      BY <1>1
    <3>1. PICK w \in wire : w.awaited
      BY DEF IInv, WireOK
    <3>2. [w EXCEPT !.clean = FALSE] \in wire' /\ [w EXCEPT !.clean = FALSE].awaited
      BY <1>1, <1>7, <3>1
    <3>3. QED
      BY <3>2
  <2>6. QED
    BY <2>2, <2>3, <2>4, <2>5 DEF WireOK
<1>9. QED
  BY <1>3, <1>6, <1>8 DEF IInv

(* The refresh interval passes. *)
LEMMA DueKeeps ==
  ASSUME IInv, Due
  PROVE  IInv'
<1> DEFINE m == [manager EXCEPT !.due = TRUE]
<1>1. manager' = m /\ UNCHANGED <<world, phase, wire, library, settings, task, budget>>
  BY DEF Due
<1>2. /\ m \in ManagerType /\ m.mode = manager.mode /\ m.server = manager.server
      /\ m.work = manager.work /\ m.shown = manager.shown /\ m.encode = manager.encode
  BY DEF IInv, ManagerOK, ManagerType
<1> HIDE DEF m
<1>3. PartsOK(m, task) /\ LibraryOK(library, settings) /\ Agree(m, library, settings)
  BY <1>2 DEF IInv, PartsOK, ManagerOK, JoinedOK, Agree, Connected
<1>4. budget' \in [switches : Nat, commands : Nat, events : Nat]
  BY <1>1 DEF IInv, WorldOK
<1>5. QED
  BY <1>1, <1>3, <1>4, HandlerKeeps

-----------------------------------------------------------------------------
(* A command is written once. *)

(* Commands are numbered by what is left of the bound on them: the numbers to
   come were never written, and the job of a command has yet to write it. *)
Numbered ==
  /\ writes \in [1..MaxCommands -> 0..1]
  /\ budget.commands <= MaxCommands
  /\ \A number \in 1..budget.commands : writes[number] = 0
  /\ task.kind \in Commands =>
       /\ task.number \in 1..MaxCommands /\ task.number > budget.commands
       /\ writes[task.number] = 0

(* A step that neither writes nor takes up a command. *)
LEMMA QuietNumbers ==
  ASSUME Numbered, writes' = writes, budget'.commands = budget.commands,
         task'.kind \in Commands => task.kind \in Commands /\ task'.number = task.number
  PROVE  Numbered'
  BY DEF Numbered

(* Only a command takes from the commands that are left. *)
LEMMA SpendCommands ==
  ASSUME WorldOK, NEW kind \in {"switches", "events"}, Spend(kind)
  PROVE  budget'.commands = budget.commands
  BY DEF WorldOK, Spend

(* What a poll starts by itself only reads. *)
LEMMA PolledNumbers ==
  ASSUME NEW l, NEW s, NEW state \in Polls(l, s)
  PROVE  state.task.kind \in Commands => state.task = task
<1>1. PICK m : state.task = Polled(m).task
  BY DEF Polls
<1>2. /\ NoTask.kind = "refresh"
      /\ \A n : Started(n, "refresh", NoRow, FALSE).kind = "refresh"
  BY DEF NoTask, Started
<1>3. Polled(m).task \in {NoTask, task, Started(Settled(m), "refresh", NoRow, FALSE)}
  BY DEF Polled
<1>4. QED
  BY <1>1, <1>2, <1>3 DEF Commands, Changes

(* A handler that publishes commands nothing. *)
LEMMA PublishNumbers ==
  ASSUME Numbered, NEW l, NEW s, Publish(l, s), budget'.commands = budget.commands
  PROVE  Numbered'
<1>1. PICK state \in Polls(l, s) : Becomes(state)
  BY DEF Publish
<1>2. task' = state.task /\ writes' = writes
  BY <1>1 DEF Becomes, Publish
<1>3. QED
  BY <1>1, <1>2, PolledNumbers, QuietNumbers

(* The list is asked for, or a command takes a number nobody wrote. *)
LEMMA CommandNumbers ==
  ASSUME WorldOK, Numbered,
         RefreshReservations \/ \E kind \in Commands : ChangeReservation(kind)
  PROVE  Numbered'
<1>1. CASE RefreshReservations
  <2>1. PICK state \in Polls(library, settings) : Becomes(Refreshed(state))
    BY <1>1 DEF RefreshReservations
  <2>2. writes' = writes /\ budget'.commands = budget.commands
    BY <1>1, SpendCommands DEF RefreshReservations
  <2>3. PICK l, m, t : state = [library |-> l, manager |-> m, task |-> t]
    BY DEF Polls
  <2>4. task' = t \/ task'.kind = "refresh"
    BY <2>1, <2>3 DEF Becomes, Refreshed, Started, NoTask
  <2>5. t.kind \in Commands => t = task
    BY <2>3, PolledNumbers
  <2>6. QED
    BY <2>2, <2>4, <2>5, QuietNumbers DEF Commands, Changes
<1>2. ASSUME NEW kind \in Commands, ChangeReservation(kind)
      PROVE  Numbered'
  <2>1. PICK state \in Polls(library, settings) : Becomes(Commanded(state, kind))
    BY <1>2 DEF ChangeReservation
  <2>2. /\ writes' = writes /\ budget.commands \in Nat \ {0}
        /\ budget'.commands = budget.commands - 1
    BY <1>2 DEF ChangeReservation, Spend, WorldOK
  <2>3. PICK l, m, t : state = [library |-> l, manager |-> m, task |-> t]
    BY DEF Polls
  <2>4. task' = t \/ task'.number = budget.commands
    <3>1. \A target, encode : Started(m, kind, target, encode).number = budget.commands
      BY DEF Started, NoTask, Commands, Changes
    <3>2. task' = t \/ \E target, encode : task' = Started(m, kind, target, encode)
      BY <2>1, <2>3 DEF Becomes, Commanded
    <3>3. QED
      BY <3>1, <3>2
  <2>5. t.kind \in Commands => t = task
    BY <2>3, PolledNumbers
  <2>6. CASE task'.kind \in Commands /\ task' = task
    BY <2>2, <2>6, BoundsAssumption DEF Numbered
  <2>7. CASE task'.number = budget.commands
    BY <2>2, <2>7, BoundsAssumption DEF Numbered
  <2>8. CASE task'.kind \notin Commands
    BY <2>2, <2>8, BoundsAssumption DEF Numbered
  <2>9. QED
    BY <2>4, <2>5, <2>6, <2>7, <2>8
<1>3. QED
  BY <1>1, <1>2

(* The job writes its command, and is no command's any more. *)
LEMMA SendsNumbers ==
  ASSUME WorldOK, Numbered, NEW kind, task.kind \in Commands, Sends(kind)
  PROVE  Numbered'
<1>1. /\ writes' = [writes EXCEPT ![task.number] = @ + 1] /\ budget' = budget
      /\ task' = At("sent")
  BY DEF Sends, Step
<1>2. task'.kind \notin Commands
  BY <1>1 DEF At, NoTask, Commands, Changes
<1>3. writes' \in [1..MaxCommands -> 0..1]
  BY <1>1 DEF Numbered
<1>4. \A number \in 1..budget.commands : writes'[number] = 0
  BY <1>1, BoundsAssumption DEF Numbered, WorldOK
<1>5. QED
  BY <1>1, <1>2, <1>3, <1>4 DEF Numbered

(* A job keeps its command until it writes or ends. *)
LEMMA JobNumbers ==
  ASSUME IInv, Numbered, Job
  PROVE  Numbered'
<1>1. task \in TaskType /\ WorldOK
  BY DEF IInv, TaskOK
<1>2. \A pc : At(pc).kind = "refresh"
  BY DEF At, NoTask
<1>3. ASSUME NEW next, Step(next), writes' = writes,
             next.kind \in Commands => next.kind = task.kind /\ next.number = task.number
      PROVE  Numbered'
  BY <1>3, QuietNumbers DEF Step
<1>4. Declines => Numbered'
  BY <1>2, <1>3 DEF Declines, Fails, Commands, Changes
<1>5. ASSUME NEW next, NEW holds \in BOOLEAN, Passes(holds, next),
             next.kind \in Commands => next.kind = task.kind /\ next.number = task.number
      PROVE  Numbered'
  BY <1>2, <1>3, <1>5 DEF Passes, Fails, Commands, Changes
<1>6. \A at, clean, read :
        LET n == [task EXCEPT !.at = at, !.clean = clean, !.read = read]
        IN  n.kind = task.kind /\ n.number = task.number
  BY <1>1 DEF TaskType
<1>7. CASE CheckSchedule
  <2>1. Passes(Ongoing, [task EXCEPT !.at = "reserves"])
    BY <1>7 DEF CheckSchedule
  <2>2. [task EXCEPT !.at = "reserves"].number = task.number
          /\ [task EXCEPT !.at = "reserves"].kind = task.kind
    BY <1>1 DEF TaskType
  <2>3. QED
    BY <2>1, <2>2, <1>5 DEF Ongoing
<1>8. CASE ReadReserves
  <2> DEFINE n == [task EXCEPT !.at = "recording", !.clean = TRUE, !.read = List(There.rows)]
  <2>1. n.kind = task.kind /\ n.number = task.number
    BY <1>6
  <2>2. Passes(TRUE, n)
    BY <1>8 DEF ReadReserves
  <2> HIDE DEF n
  <2>3. QED
    BY <1>5, <2>1, <2>2
<1>9. CASE SendAdd
  BY <1>1, <1>4, <1>9, SendsNumbers DEF SendAdd, Commands
<1>10. CASE CheckDetail
  <2> DEFINE holds == \E row \in There.rows : Matches(task.target, row, task.kind)
             n == [task EXCEPT !.at = "recording", !.clean = TRUE,
                     !.read = List({row \in There.rows : row.id = task.target.id})]
  <2>1. n.kind = task.kind /\ n.number = task.number
    BY <1>6
  <2>2. Passes(holds, n) /\ holds \in BOOLEAN
    BY <1>10 DEF CheckDetail
  <2> HIDE DEF n, holds
  <2>3. QED
    BY <1>5, <2>1, <2>2
<1>11. CASE SendChange
  BY <1>1, <1>4, <1>11, SendsNumbers DEF SendChange, Commands
<1>12. CASE ReadRows
  <2> DEFINE n == [task EXCEPT !.at = "records", !.read = List(There.rows)]
  <2>1. n.kind = task.kind /\ n.number = task.number
    BY <1>1 DEF TaskType
  <2>2. Passes(TRUE, n)
    BY <1>12 DEF ReadRows
  <2> HIDE DEF n
  <2>3. QED
    BY <1>5, <2>1, <2>2
<1>13. CASE ReadRecords
  <2> DEFINE n == [At("done") EXCEPT !.result = [task.read EXCEPT !.recording = There.recording]]
  <2>1. n.kind = "refresh"
    BY DEF At, NoTask
  <2>2. Passes(TRUE, n)
    BY <1>13 DEF ReadRecords
  <2> HIDE DEF n
  <2>3. QED
    BY <1>5, <2>1, <2>2 DEF Commands, Changes
<1>14. QED
  BY <1>7, <1>8, <1>9, <1>10, <1>11, <1>12, <1>13 DEF Job

(* However a request, an abort or a server ends the job, it is not the command's
   any more, and nothing was written. *)
LEMMA EndingNumbers ==
  ASSUME IInv, Numbered,
         \/ RequestFails \/ AbortEnds \/ TimePasses \/ Due
         \/ \E w \in wire : Serve(w) \/ Lose(w)
         \/ \E server \in Servers : Outside(server)
  PROVE  Numbered'
<1>1. task \in TaskType /\ WorldOK
  BY DEF IInv, TaskOK
<1>2. \A pc : At(pc).kind = "refresh"
  BY DEF At, NoTask
<1>3. /\ [task EXCEPT !.clean = FALSE].kind = task.kind
      /\ [task EXCEPT !.clean = FALSE].number = task.number
  BY <1>1 DEF TaskType
<1>4. writes' = writes
  BY DEF RequestFails, AbortEnds, TimePasses, Due, Serve, Lose, Outside
<1>5. budget'.commands = budget.commands
  BY <1>1, SpendCommands DEF RequestFails, AbortEnds, Step, TimePasses, Due, Serve, Lose, Outside
<1>6. task' \in {task, [task EXCEPT !.clean = FALSE], Fails, At("rows")}
  BY DEF RequestFails, AbortEnds, Step, TimePasses, Due, Serve, Lose, Outside, Disturbed
<1>7. QED
  BY <1>2, <1>3, <1>4, <1>5, <1>6, QuietNumbers DEF Fails, Commands, Changes

(* No step writes a command twice. *)
LEMMA NumbersStep ==
  ASSUME IInv, Numbered, [Next]_vars
  PROVE  Numbered'
<1>1. WorldOK
  BY DEF IInv
<1>2. CASE \/ Configure \/ ChangePage \/ RefreshPage \/ Timer
           \/ \E server \in Servers, current \in BOOLEAN : Open(server, current)
  <2>1. budget'.commands = budget.commands
    BY <1>1, <1>2, SpendCommands DEF Configure, ChangePage, RefreshPage, Timer, Open
  <2>2. \E l, s : Publish(l, s)
    BY <1>2, Zenon DEF Configure, ChangePage, RefreshPage, Timer, Open
  <2>3. QED
    BY <2>1, <2>2, PublishNumbers
<1>3. CASE CancelPage \/ OpenGuide \/ Shutdown
  <2>1. writes' = writes /\ task' = task /\ budget'.commands = budget.commands
    BY <1>1, <1>3, SpendCommands DEF CancelPage, OpenGuide, Shutdown
  <2>2. QED
    BY <2>1, QuietNumbers
<1>4. CASE RefreshReservations \/ \E kind \in Commands : ChangeReservation(kind)
  BY <1>1, <1>4, CommandNumbers
<1>5. CASE Job
  BY <1>5, JobNumbers
<1>6. CASE \/ RequestFails \/ AbortEnds \/ TimePasses \/ Due
           \/ \E w \in wire : Serve(w) \/ Lose(w)
           \/ \E server \in Servers : Outside(server)
  BY <1>6, EndingNumbers
<1>7. CASE UNCHANGED vars
  BY <1>7, QuietNumbers DEF vars
<1>8. QED
  BY <1>2, <1>3, <1>4, <1>5, <1>6, <1>7 DEF Next, User

-----------------------------------------------------------------------------
(* The invariant, and what follows from it. *)

(* The program starts with a manager that is off. *)
LEMMA InitOK == Init => IInv
<1> SUFFICES ASSUME Init PROVE IInv
  OBVIOUS
<1> DEFINE l == [session |-> None, generation |-> 0, operation |-> "idle", fetched |-> None,
                 page |-> None, probe |-> "idle", probed |-> None]
<1>1. PICK start \in Starts :
        /\ phase = start.phase
        /\ world = [server \in Servers |->
                     [rows |-> start.rows[server], recording |-> FALSE, own |-> 0, answered |-> 0,
                      last |-> IF start.rows[server] = {} THEN 0 ELSE 1]]
  BY DEF Init
<1>2. /\ start.phase \in {"before", "running", "over"}
      /\ start.rows \in [Servers -> SUBSET {row \in Rows : row.id = 1}]
      /\ MaxId \in Nat \ {0}
      /\ MaxSwitches \in Nat /\ MaxCommands \in Nat /\ MaxEvents \in Nat
  BY BoundsAssumption
<1>3. WorldOK
  <2>1. world \in WorldType
    BY <1>1, <1>2 DEF WorldType
  <2>2. \A server \in Servers : world[server].answered <= world[server].own
    BY <1>1
  <2>3. budget \in [switches : Nat, commands : Nat, events : Nat]
    BY <1>2 DEF Init
  <2>4. QED
    BY <1>1, <1>2, <2>1, <2>2, <2>3 DEF WorldOK
<1>4. settings \in SettingsType /\ l \in LibraryType
  BY ServersAssumption DEF Init, SettingsType, LibraryType, Named
<1>5. library = Verified(l, settings)
  BY DEF Init
<1>6. ~Wanted(l) /\ ~Busy(l) /\ l.session = None /\ l.page = None
  BY DEF Wanted, Busy
<1>7. l.operation = "idle"
  OBVIOUS
<1> HIDE DEF l
<1>8. LibraryOK(library, settings) /\ library.session = None
  BY <1>4, <1>5, <1>6, <1>7, VerifiedOK
<1>9. /\ manager.mode = "off" /\ manager.work = "idle" /\ manager.shown = None
      /\ manager.encode.at = "unknown" /\ manager \in ManagerType /\ task = NoTask /\ wire = {}
  BY DEF Init, ManagerType, Named
<1>10. Agree(manager, library, settings) /\ ManagerOK(manager)
  BY <1>8, <1>9 DEF Agree, Session, ManagerOK, Connected
<1>11. TaskOK(task) /\ JoinedOK(manager, task) /\ WireOK(task)
  BY <1>9, NoTaskOK DEF JoinedOK, WireOK
<1>12. QED
  BY <1>3, <1>8, <1>10, <1>11 DEF IInv

(* A step keeps the invariant, and a handler replaces only a task that is over. *)
LEMMA StepOK ==
  ASSUME IInv, [Next]_vars
  PROVE  /\ IInv'
         /\ manager' # manager /\ task' # task => task.at \in {"none", "done"}
<1>1. CASE User
  <2>1. CASE Configure \/ ChangePage \/ RefreshPage
              \/ \E server \in Servers, current \in BOOLEAN : Open(server, current)
    BY <2>1, ConfigureKeeps, PageKeeps, OpenKeeps
  <2>2. CASE CancelPage \/ OpenGuide \/ Shutdown
    BY <2>2, QuietKeeps, ShutdownKeeps
  <2>3. CASE RefreshReservations \/ \E kind \in Commands : ChangeReservation(kind)
    BY <2>3, CommandKeeps
  <2>4. QED
    BY <1>1, <2>1, <2>2, <2>3 DEF User
<1>2. CASE Timer
  BY <1>2, TimerKeeps
<1>3. CASE Job
  <2>1. UNCHANGED manager
    BY <1>3 DEF Job, CheckSchedule, ReadReserves, SendAdd, CheckDetail, SendChange, ReadRows,
                ReadRecords, Passes, Sends, Declines, Step
  <2>2. QED
    BY <1>3, <2>1, JobKeeps
<1>4. CASE RequestFails \/ AbortEnds
  BY <1>4, GivingUpSteps DEF RequestFails, AbortEnds, Step
<1>5. CASE \E w \in wire : Serve(w) \/ Lose(w)
  BY <1>5, ServeKeeps, LoseKeeps DEF Serve, Lose
<1>6. CASE \E server \in Servers : Outside(server)
  BY <1>6, OutsideKeeps DEF Outside
<1>7. CASE TimePasses \/ Due
  BY <1>7, TimePassesKeeps, DueKeeps DEF TimePasses, Due
<1>8. CASE UNCHANGED vars
  <2>1. UNCHANGED <<world, phase, wire, library, settings, manager, task, budget>>
    BY <1>8 DEF vars
  <2>2. PartsOK(manager, task) /\ LibraryOK(library, settings)
          /\ Agree(manager, library, settings)
    BY DEF IInv, PartsOK
  <2>3. budget' \in [switches : Nat, commands : Nat, events : Nat]
    BY <2>1 DEF IInv, WorldOK
  <2>4. QED
    BY <2>1, <2>2, <2>3, HandlerKeeps
<1>9. QED
  BY <1>1, <1>2, <1>3, <1>4, <1>5, <1>6, <1>7, <1>8 DEF Next

(* The inductive invariant: what the library, the manager, its job and the
   servers know of each other between two steps, for any servers and bounds. *)
THEOREM ReservationsInvariant == Spec => []IInv
<1>1. Init => IInv
  BY InitOK
<1>2. IInv /\ [Next]_vars => IInv'
  BY StepOK
<1>3. QED
  BY <1>1, <1>2, PTL DEF Spec

(* No command was written more than once, nor any before it was given. *)
LEMMA NumbersInvariant == Spec => []Numbered
<1>1. Init => Numbered
  BY BoundsAssumption DEF Init, Numbered, NoTask, Commands, Changes
<1>2. IInv /\ Numbered /\ [Next]_vars => Numbered'
  BY NumbersStep
<1>3. QED
  BY <1>1, <1>2, ReservationsInvariant, PTL DEF Spec

(* The library, the manager, the job and the writes keep their types. *)
THEOREM ReservationsTypes == Spec => []TypeOK
<1>1. IInv => /\ world \in [Servers -> [rows : SUBSET Rows, recording : BOOLEAN, own : Nat,
                                        answered : Nat, last : 0..MaxId]]
              /\ phase \in {"before", "running", "over"}
              /\ \A w \in wire : w.server \in Servers /\ w.kind \in Commands
              /\ task.at = "sent" <=> \E w \in wire : w.awaited
              /\ library \in LibraryType
              /\ library.operation = "fetching" => library.fetched \in Servers
              /\ library.probe = "fetching" => library.probed \in Servers
              /\ settings \in [enabled : BOOLEAN, saved : Named]
              /\ manager \in ManagerType
              /\ manager.work = "idle" <=> task.at = "none"
  BY ServersAssumption
     DEF IInv, WorldOK, WorldType, LibraryOK, LibraryType, ManagerOK, JoinedOK, WireOK,
         WriteType, TaskOK, SettingsType, Wanted, Named
<1>2. Numbered => writes \in [1..MaxCommands -> Nat]
  BY DEF Numbered
<1>3. IInv /\ Numbered => TypeOK
  BY <1>1, <1>2 DEF TypeOK
<1>4. QED
  BY <1>3, ReservationsInvariant, NumbersInvariant, PTL

(* The guide shows the list of the session's server with every answered write
   in it, or none: after any failure, switch, abort or shutdown. *)
THEOREM ShownAlwaysOurs == Spec => []ShownIsOurs
<1>1. IInv => ShownIsOurs
  BY DEF IInv, ShownIsOurs, ManagerOK, JoinedOK
<1>2. QED
  BY <1>1, ReservationsInvariant, PTL

(* The list of the guide and the verified session never part, and no probe
   races a session or a fetch. *)
THEOREM SessionsAlwaysAgree == Spec => []SessionsAgree
<1>1. IInv => SessionsAgree
  BY DEF IInv, SessionsAgree, Agree, LibraryOK, Wanted, Connected, Session
<1>2. QED
  BY <1>1, ReservationsInvariant, PTL

(* A write that the server gets as it was sent does what the user asked for,
   before the start; no command is written twice, and no job replaces one that
   can still write. *)
THEOREM WritesAlwaysChecked == Spec => WritesAreChecked
<1>1. IInv => \A w \in wire : w.clean => Good(w) /\ (w.encode => w.server \in Encodes)
  BY DEF IInv, WireOK
<1>2. IInv /\ Numbered /\ [Next]_vars =>
        [/\ \A w \in wire :
              Serve(w) /\ w.clean /\ world' # world =>
                /\ w.kind = "add" => Ongoing /\ ~Taken(world[w.server])
                /\ w.kind \in Changes =>
                     \E row \in world[w.server].rows : Matches(w.target, row, w.kind)
                /\ w.kind \in {"cancel", "exclude"} => ~world[w.server].recording
                /\ w.encode => w.server \in Encodes
         /\ \A number \in 1..MaxCommands : writes'[number] <= 1
         /\ manager' # manager /\ task' # task => task.at \in {"none", "done"}]_vars
  <2> SUFFICES ASSUME IInv, Numbered, [Next]_vars
               PROVE  /\ \A w \in wire :
                           Serve(w) /\ w.clean /\ world' # world =>
                             /\ w.kind = "add" => Ongoing /\ ~Taken(world[w.server])
                             /\ w.kind \in Changes =>
                                  \E row \in world[w.server].rows : Matches(w.target, row, w.kind)
                             /\ w.kind \in {"cancel", "exclude"} => ~world[w.server].recording
                             /\ w.encode => w.server \in Encodes
                      /\ \A number \in 1..MaxCommands : writes'[number] <= 1
                      /\ manager' # manager /\ task' # task => task.at \in {"none", "done"}
    OBVIOUS
  <2>1. \A number \in 1..MaxCommands : writes'[number] <= 1
    BY NumbersStep, BoundsAssumption DEF Numbered
  <2>2. QED
    BY <1>1, <2>1, StepOK DEF Good
<1>3. QED
  BY <1>2, ReservationsInvariant, NumbersInvariant, PTL DEF Spec, WritesAreChecked
=============================================================================
