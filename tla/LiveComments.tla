---------------------------- MODULE LiveComments ----------------------------
(***************************************************************************)
(* Live comments of NX-Jikkyo (viewer-comments and features/comments): the *)
(* reception, the activity of the channels and posting share one client    *)
(* with one retry policy.  The GUI polls (comments::session::update) on    *)
(* its thread; the network tasks run on the single thread of the runtime,  *)
(* so that a task is not interrupted by another between two awaits, while  *)
(* the GUI is at any of its own steps.                                     *)
(*                                                                         *)
(* Time is relative: a deadline is what is left of it.  A failed request   *)
(* is one of a few kinds; texts, identities and positions are left out,    *)
(* and so are the replay the comments go to and the marks of own comments. *)
(***************************************************************************)
EXTENDS Integers, FiniteSets

CONSTANTS
  None,
  Services,         \* what may be selected
  ChannelOf,        \* [Services -> channels]: several services may share one
  Uses,             \* sets of "activity", "posting": what a behaviour uses besides
  QUEUE,            \* QUEUE_CAPACITY
  MAX_POLL,         \* MAX_POLL_COMMENTS
  LIVE_DELAY, ACTIVITY_INTERVAL, RATE_LIMIT_DELAY, MAX_DELAY, STABLE, POST_INTERVAL,
  Jitter,           \* what may be added to a wait
  RETRY_AFTER,      \* what the server may ask for
  MaxEvents         \* changes of a selection, submissions, failures of the network

Channels == {ChannelOf[s] : s \in Services}
Operations == {"live", "activity", "posting"}
HttpFailures == {"temporary", "limited", "asked", "permanent"}
Closes == {"temporary", "unavailable", "limited", "permanent"}
Shared == {"unavailable", "limited", "asked"}    \* failures of the whole provider

ASSUME ServicesAssumption ==
  /\ ChannelOf \in [Services -> {ChannelOf[s] : s \in Services}]
  /\ None \notin Services \cup Channels \cup Nat
  /\ Uses \subseteq SUBSET {"activity", "posting"}
ASSUME NumbersAssumption ==
  /\ {QUEUE, MAX_POLL, LIVE_DELAY, ACTIVITY_INTERVAL, RATE_LIMIT_DELAY, STABLE} \subseteq Nat \ {0}
  /\ {MAX_DELAY, POST_INTERVAL, RETRY_AFTER, MaxEvents} \subseteq Nat
  /\ Jitter \subseteq Nat /\ \E most \in Jitter : \A jitter \in Jitter : jitter <= most
  /\ LIVE_DELAY <= MAX_DELAY /\ ACTIVITY_INTERVAL <= MAX_DELAY /\ RATE_LIMIT_DELAY <= MAX_DELAY

VARIABLES
  policy,    \* retry::Policy, shared by the operations
  task,      \* of each operation: its network task
  conn,      \* what the reception's task and its Connection share
  gui,       \* where the update of the GUI stands, and what its poll read
  live,      \* controller::Controller, the reception
  activity,  \* features::comments::activity::Activity
  posting,   \* posting::Controller and the draft
  world,     \* what is selected, and what may still happen
  seen       \* not in the code: what the server said, what was lost or stored

vars == <<policy, task, conn, gui, live, activity, posting, world, seen>>

Larger(a, b) == IF a > b THEN a ELSE b
Lesser(a, b) == IF a < b THEN a ELSE b
Longest == Larger(MAX_DELAY, RETRY_AFTER) + (CHOOSE j \in Jitter : \A k \in Jitter : k <= j)
Wait == 0 .. Longest

NoTask == [pc |-> "none", at |-> None, failure |-> "none", aborted |-> FALSE]
Fresh == [state |-> "connecting", queue |-> 0, dropped |-> FALSE, age |-> 0]
Terminal == {"over", "lost"}
MAX_FAILURES == 7    \* MAX_BACKOFF_EXPONENT + 1

TypeOK ==
  /\ policy \in [failures : [Operations -> 0 .. MAX_FAILURES], until : [Operations -> Wait],
                 provider : Wait, stopped : SUBSET (Operations \X (Channels \cup {None}))]
  /\ task \in [Operations ->
        [pc : {"none", "start", "request", "socket", "receiving", "seat", "written", "acked",
               "failed", "publish", "flush", "done", "panicked"},
         at : Channels \cup {None},
         failure : HttpFailures \cup Closes \cup {"none"}, aborted : BOOLEAN]]
  /\ conn \in [state : {"connecting", "receiving", "over"}, queue : 0 .. QUEUE,
               dropped : BOOLEAN, age : 0 .. STABLE]
  /\ gui \in [pc : {"idle", "poll", "borrow", "finished", "dropped", "drain",
                    "settle", "epoch", "gaps", "posting"},
              state : {"none", "connecting", "receiving", "over", "lost"},
              taken : 0 .. MAX_POLL]
  /\ live \in [desired : Channels \cup {None},
               phase : {"idle", "running", "stopping", "waiting", "blocked"},
               retry : Wait \cup {None}, bumped : BOOLEAN]
  /\ activity \in [enabled : BOOLEAN, phase : {"idle", "fetching", "cancelling"}]
  /\ posting \in [target : Services \cup {None}, phase : {"idle", "running", "stopping"},
                  status : {"idle", "sending", "sent", "failed", "unknown"},
                  next : 0 .. POST_INTERVAL, sent : BOOLEAN, outcome : {"none", "sent", "failed"},
                  draft : {"empty", "posted", "edited"}]
  /\ world \in [uses : Uses, events : 0 .. MaxEvents]
  /\ seen \in [asked : [Operations -> Wait],
               banned : SUBSET (Operations \X (Channels \cup {None})),
               lost : BOOLEAN, stored : BOOLEAN]

Init ==
  /\ policy = [failures |-> [o \in Operations |-> 0], until |-> [o \in Operations |-> 0],
               provider |-> 0, stopped |-> {}]
  /\ task = [o \in Operations |-> NoTask]
  /\ conn = Fresh
  /\ gui = [pc |-> "idle", state |-> "none", taken |-> 0]
  /\ live = [desired |-> None, phase |-> "idle", retry |-> None, bumped |-> FALSE]
  /\ activity = [enabled |-> FALSE, phase |-> "idle"]
  /\ posting = [target |-> None, phase |-> "idle", status |-> "idle", next |-> 0,
                sent |-> FALSE, outcome |-> "none", draft |-> "empty"]
  /\ \E uses \in Uses : world = [uses |-> uses, events |-> 0]
  /\ seen = [asked |-> [o \in Operations |-> 0], banned |-> {}, lost |-> FALSE, stored |-> FALSE]

-----------------------------------------------------------------------------
(* retry::Policy. *)

Until(p, o) == Larger(p.until[o], p.provider)
Stopped(p, o, at) == <<o, at>> \in p.stopped
Allowed(o, at) == ~Stopped(policy, o, at) /\ Until(policy, o) = 0

BaseDelay(o, failure) ==
  IF failure = "limited" THEN RATE_LIMIT_DELAY
  ELSE IF o = "activity" THEN ACTIVITY_INTERVAL ELSE LIVE_DELAY
ServerDelay(failure) == IF failure = "asked" THEN RETRY_AFTER ELSE 0

(* 1 << (failures - 1).min(MAX_BACKOFF_EXPONENT): more failures do not delay
   more, and are not told apart. *)
Shifted == <<1, 2, 4, 8, 16, 32, 64>>

(* Slip: the backoff has no upper bound. *)
DelayUnbounded(o, failure, failures, jitter) ==
  Larger(BaseDelay(o, failure) * Shifted[failures], ServerDelay(failure)) + jitter

Delay(o, failure, failures, jitter) ==
  Larger(Lesser(MAX_DELAY, BaseDelay(o, failure) * Shifted[failures]), ServerDelay(failure))
    + jitter

(* Policy::failed_with_jitter *)
Failed(o, at, failure, jitter) ==
  LET failures == Lesser(policy.failures[o] + 1, MAX_FAILURES)
      delay == Delay(o, failure, failures, jitter)
  IN  IF failure = "permanent"
      THEN [policy EXCEPT !.stopped = @ \cup {<<o, at>>}]
      ELSE [policy EXCEPT !.failures[o] = failures, !.until[o] = Larger(@, delay),
                          !.provider = IF failure \in Shared THEN Larger(@, delay) ELSE @]

(* A reception that lasted gives its failures back when it ends, however it
   ends (Reception::drop). *)
Ending(o) == IF o = "live" /\ task[o].pc = "receiving" /\ conn.age = STABLE
             THEN [policy EXCEPT !.failures["live"] = 0] ELSE policy

-----------------------------------------------------------------------------
(* The tasks.  Between "failed" and the next await no other task runs. *)

Event == /\ world.events < MaxEvents
         /\ world' = [world EXCEPT !.events = @ + 1]

Runs(o, pc) == /\ task[o].pc = pc
               /\ \A p \in Operations \ {o} : task[p].pc \notin {"failed", "publish"}
To(o, pc) == task' = [task EXCEPT ![o].pc = pc]

Awaits == {"start", "request", "socket", "receiving", "seat", "written", "acked", "flush"}
Finished(o) == task[o].pc \in {"done", "panicked"}

(* What the server makes of a failure: nobody, or not this operation, comes
   back before a while. *)
Told(o, failure) ==
  IF failure = "permanent"
  THEN [seen EXCEPT !.banned = @ \cup {<<o, task[o].at>>}]
  ELSE [seen EXCEPT !.asked =
          [p \in Operations |-> IF p = o \/ failure \in Shared
                                THEN Larger(@[p], Larger(BaseDelay(o, failure), ServerDelay(failure)))
                                ELSE @[p]]]

Fails(o, pc, failures) ==
  /\ Runs(o, pc) /\ Event
  /\ \E failure \in failures :
       /\ task' = [task EXCEPT ![o].pc = "failed", ![o].failure = failure]
       /\ seen' = Told(o, failure)
  /\ policy' = Ending(o)
  /\ UNCHANGED <<conn, gui, live, activity, posting>>

(* Slip: a task that was cancelled meanwhile does not record its failure. *)
RecordUnlessAborted(o) ==
  /\ task[o].pc = "failed"
  /\ IF task[o].aborted THEN UNCHANGED policy
     ELSE \E jitter \in Jitter : policy' = Failed(o, task[o].at, task[o].failure, jitter)
  /\ task' = [task EXCEPT ![o].pc = IF o = "live" THEN "publish" ELSE "done",
                          ![o].failure = "none"]
  /\ posting' = IF o = "posting" /\ ~posting.sent
                THEN [posting EXCEPT !.outcome = "failed"] ELSE posting
  /\ UNCHANGED <<conn, gui, live, activity, world, seen>>

(* Attempt::failed, before anything is published. *)
Record(o) ==
  /\ task[o].pc = "failed"
  /\ \E jitter \in Jitter : policy' = Failed(o, task[o].at, task[o].failure, jitter)
  /\ task' = [task EXCEPT ![o].pc = IF o = "live" THEN "publish" ELSE "done",
                          ![o].failure = "none"]
  /\ posting' = IF o = "posting" /\ ~posting.sent
                THEN [posting EXCEPT !.outcome = "failed"] ELSE posting
  /\ UNCHANGED <<conn, gui, live, activity, world, seen>>

(* The first check of the task: other answers may have come since it was
   authorised. *)
Start(o) ==
  /\ Runs(o, "start")
  /\ IF Allowed(o, task[o].at)
     THEN To(o, "request") /\ UNCHANGED posting
     ELSE /\ To(o, IF o = "live" THEN "publish" ELSE "done")
          /\ posting' = IF o = "posting" THEN [posting EXCEPT !.outcome = "failed"] ELSE posting
  /\ UNCHANGED <<policy, conn, gui, live, activity, world, seen>>

(* The list of threads is there, and the socket is about to connect. *)
Listed ==
  /\ Runs("live", "request")
  /\ To("live", IF Allowed("live", task["live"].at) THEN "socket" ELSE "publish")
  /\ UNCHANGED <<policy, conn, gui, live, activity, posting, world, seen>>

Subscribed ==
  /\ Runs("live", "socket")
  /\ To("live", "receiving")
  /\ conn' = [conn EXCEPT !.state = "receiving"]
  /\ UNCHANGED <<policy, gui, live, activity, posting, world, seen>>

(* A comment.  When the queue is full it is lost and counted. *)
Receives ==
  /\ Runs("live", "receiving") /\ live.phase = "running"
  /\ IF conn.queue < QUEUE
     THEN conn' = [conn EXCEPT !.queue = @ + 1] /\ UNCHANGED seen
     ELSE conn' = [conn EXCEPT !.dropped = TRUE] /\ seen' = [seen EXCEPT !.lost = TRUE]
  /\ UNCHANGED <<policy, task, gui, live, activity, posting, world>>

(* The Connection is gone: try_send ends the task as a disconnect does. *)
Disconnected ==
  /\ Runs("live", "receiving") /\ live.phase # "running"
  /\ task' = [task EXCEPT !["live"].pc = "failed", !["live"].failure = "temporary"]
  /\ policy' = Ending("live")
  /\ UNCHANGED <<conn, gui, live, activity, posting, world, seen>>

(* The end is published, then the reply to a close frame is sent. *)
Publish ==
  /\ task["live"].pc = "publish"
  /\ conn' = [conn EXCEPT !.state = "over"]
  /\ \E pc \in {"flush", "done"} : To("live", pc)
  /\ UNCHANGED <<policy, gui, live, activity, posting, world, seen>>

Flushed ==
  /\ Runs("live", "flush")
  /\ To("live", "done")
  /\ UNCHANGED <<policy, conn, gui, live, activity, posting, world, seen>>

(* Policy::activity_succeeded *)
Fetched ==
  /\ Runs("activity", "request")
  /\ policy' = [policy EXCEPT !.failures["activity"] = 0,
                              !.until["activity"] = Larger(@, ACTIVITY_INTERVAL)]
  /\ To("activity", "done")
  /\ UNCHANGED <<conn, gui, live, activity, posting, world, seen>>

(* posting::transport::post: the seat of a watcher, then the body. *)
Seated ==
  /\ Runs("posting", "request")
  /\ To("posting", "seat")
  /\ UNCHANGED <<policy, conn, gui, live, activity, posting, world, seen>>

(* Slip: the body counts as sent when its write has returned. *)
WriteUnmarked ==
  /\ Runs("posting", "seat")
  /\ To("posting", "written")
  /\ \E stored \in BOOLEAN : seen' = [seen EXCEPT !.stored = stored]
  /\ UNCHANGED <<policy, conn, gui, live, activity, posting, world>>

(* From here on the service may have stored the comment. *)
Write ==
  /\ Runs("posting", "seat")
  /\ To("posting", "written")
  /\ posting' = [posting EXCEPT !.sent = TRUE]
  /\ \E stored \in BOOLEAN : seen' = [seen EXCEPT !.stored = stored]
  /\ UNCHANGED <<policy, conn, gui, live, activity, world>>

Acknowledged ==
  /\ Runs("posting", "written") /\ seen.stored
  /\ To("posting", "acked")
  /\ UNCHANGED <<policy, conn, gui, live, activity, posting, world, seen>>

(* The socket is closed, or the deadline of the attempt has come. *)
Posted ==
  /\ Runs("posting", "acked")
  /\ To("posting", "done")
  /\ posting' = [posting EXCEPT !.outcome = "sent"]
  /\ policy' = [policy EXCEPT !.failures["posting"] = 0]
  /\ UNCHANGED <<conn, gui, live, activity, world, seen>>

(* RESTRICTED or NOT_ON_AIR: nothing was stored. *)
Refused ==
  /\ Runs("posting", "written") /\ ~seen.stored
  /\ To("posting", "done")
  /\ posting' = [posting EXCEPT !.outcome = "failed"]
  /\ UNCHANGED <<policy, conn, gui, live, activity, world, seen>>

(* Any other error and the deadline: the wait is not touched. *)
Breaks ==
  /\ \E pc \in {"request", "seat", "written"} : Runs("posting", pc)
  /\ Event
  /\ To("posting", "done")
  /\ posting' = IF posting.sent THEN posting ELSE [posting EXCEPT !.outcome = "failed"]
  /\ UNCHANGED <<policy, conn, gui, live, activity, seen>>

(* An aborted task ends at one of its awaits. *)
Aborts(o) ==
  /\ \E pc \in Awaits : Runs(o, pc)
  /\ task[o].aborted
  /\ To(o, "done")
  /\ policy' = Ending(o)
  /\ UNCHANGED <<conn, gui, live, activity, posting, world, seen>>

Panics(o) ==
  /\ \E pc \in Awaits : Runs(o, pc)
  /\ Event
  /\ To(o, "panicked")
  /\ policy' = Ending(o)
  /\ UNCHANGED <<conn, gui, live, activity, posting, seen>>

-----------------------------------------------------------------------------
(* The update of the GUI (comments::session::Session::update), at each tick
   of its timer: first the activity. *)

Gui(pc) == gui.pc = pc
Then(pc) == gui' = [gui EXCEPT !.pc = pc]
Task(at) == [NoTask EXCEPT !.pc = "start", !.at = at]

(* Activity::configure and poll: the next phase. *)
Acquisition(enabled) ==
  LET idle == activity.phase = "idle" \/ Finished("activity")
  IN  IF idle /\ enabled /\ "activity" \in world.uses /\ Allowed("activity", None)
      THEN "new"
      ELSE IF idle THEN "idle"
      ELSE IF enabled # activity.enabled THEN "cancelling" ELSE activity.phase

(* Slip: a reception that was stopped for good stays so on another channel. *)
RetargetedBlocked(channel) ==
  [live EXCEPT !.desired = channel, !.retry = None,
               !.phase = IF @ \in {"running", "stopping"} THEN "stopping"
                         ELSE IF @ = "blocked" THEN @ ELSE "idle"]

(* controller::Controller::configure *)
Retargeted(channel) ==
  [live EXCEPT !.desired = channel, !.retry = None,
               !.phase = IF @ \in {"running", "stopping"} THEN "stopping" ELSE "idle"]

(* Comments::configure: the selected service, or none when comments are off
   or a recording plays.  Another service drops the draft even if it shares
   the channel. *)
Update(enabled, service) ==
  LET acquisition == Acquisition(enabled)
      channel == IF service = None THEN None ELSE ChannelOf[service]
      other == service # posting.target
      moved == channel # live.desired
  IN  /\ Gui("idle") /\ Then("poll")
      /\ service # None => enabled
      /\ IF activity.enabled /\ (~enabled \/ (other /\ posting.target # None))
         THEN Event ELSE UNCHANGED world
      /\ activity' = [enabled |-> enabled,
                      phase |-> IF acquisition = "new" THEN "fetching" ELSE acquisition]
      /\ posting' = IF ~other THEN posting
                    ELSE [posting EXCEPT !.target = service, !.status = "idle", !.draft = "empty",
                                         !.phase = IF @ = "idle" THEN @ ELSE "stopping"]
      /\ live' = IF moved THEN Retargeted(channel) ELSE live
      /\ task' = [o \in Operations |->
           CASE o = "activity" ->
                  IF acquisition = "new" THEN Task(None)
                  ELSE IF acquisition = "idle" THEN NoTask
                  ELSE [task[o] EXCEPT !.aborted = @ \/ acquisition = "cancelling"]
             [] o = "live" -> [task[o] EXCEPT !.aborted = @ \/ (moved /\ live.phase = "running")]
             [] OTHER -> [task[o] EXCEPT !.aborted = @ \/ (other /\ posting.phase = "running")]]
      /\ UNCHANGED <<policy, conn, seen>>

-----------------------------------------------------------------------------
(* controller::Controller::poll *)

(* The end of the old task, the deadline, and then a new connection. *)
Poll ==
  LET joined == live.phase = "stopping" /\ Finished("live")
      broken == joined /\ task["live"].pc = "panicked"
      waits == IF joined THEN live.retry # None ELSE live.phase = "waiting"
      idle == (joined \/ live.phase \in {"idle", "waiting"}) /\ (waits => live.retry <= 0)
      connects == idle /\ ~broken /\ live.desired # None
      allowed == Allowed("live", live.desired)
      left == IF joined THEN [task EXCEPT !["live"] = NoTask] ELSE task
  IN  /\ Gui("poll")
      /\ live' =
           IF broken
           THEN [live EXCEPT !.phase = IF live.desired = None THEN "idle" ELSE "waiting",
                             !.retry = IF live.desired = None THEN None ELSE LIVE_DELAY]
           ELSE IF connects
           THEN [live EXCEPT !.phase = IF allowed THEN "running"
                                       ELSE IF Stopped(policy, "live", live.desired) THEN "blocked"
                                       ELSE "waiting",
                             !.retry = IF allowed \/ Stopped(policy, "live", live.desired) THEN None
                                       ELSE Until(policy, "live"),
                             !.bumped = @ \/ allowed]
           ELSE IF idle THEN [live EXCEPT !.phase = "idle", !.retry = None]
           ELSE IF joined THEN [live EXCEPT !.phase = "waiting"]
           ELSE live
      /\ task' = IF connects /\ allowed THEN [left EXCEPT !["live"] = Task(live.desired)] ELSE left
      /\ conn' = IF connects /\ allowed THEN Fresh ELSE conn
      /\ Then(IF live'.phase = "running" THEN "borrow" ELSE "posting")
      /\ seen' = [seen EXCEPT !.lost = @ \/ (connects /\ allowed)]
      /\ UNCHANGED <<policy, activity, posting, world>>

(* Connection::state reads the published state, then whether the task is
   over.  In between the task may publish and finish. *)
Borrow ==
  /\ Gui("borrow")
  /\ gui' = [gui EXCEPT !.state = conn.state,
                        !.pc = IF conn.state = "over" THEN "dropped" ELSE "finished"]
  /\ UNCHANGED <<policy, task, conn, live, activity, posting, world, seen>>

IsFinished ==
  /\ Gui("finished")
  /\ gui' = [gui EXCEPT !.pc = "dropped", !.state = IF Finished("live") THEN "lost" ELSE @]
  /\ UNCHANGED <<policy, task, conn, live, activity, posting, world, seen>>

(* Lost comments end the epoch. *)
NoteDropped ==
  /\ Gui("dropped") /\ Then("drain")
  /\ live' = [live EXCEPT !.bumped = @ \/ conn.dropped]
  /\ conn' = [conn EXCEPT !.dropped = FALSE]
  /\ UNCHANGED <<policy, task, activity, posting, world, seen>>

Take ==
  /\ Gui("drain") /\ conn.queue > 0 /\ gui.taken < MAX_POLL
  /\ gui' = [gui EXCEPT !.taken = @ + 1]
  /\ conn' = [conn EXCEPT !.queue = @ - 1]
  /\ UNCHANGED <<policy, task, live, activity, posting, world, seen>>

Drained ==
  /\ Gui("drain") /\ (conn.queue = 0 \/ gui.taken = MAX_POLL)
  /\ Then("settle")
  /\ UNCHANGED <<policy, task, conn, live, activity, posting, world, seen>>

(* Slip: the end of the reception is looked at after the queue was emptied. *)
EndsLate == gui.taken < MAX_POLL /\ (conn.state = "over" \/ Finished("live"))

(* A reception that was over before the queue was emptied, by this poll. *)
Ends == gui.taken < MAX_POLL /\ gui.state \in Terminal

(* It is stopped, and another one waits as the policy says; a task that ended
   without a word counts as a failure. *)
Settle ==
  /\ Gui("settle")
  /\ IF Ends
     THEN /\ IF gui.state = "lost"
             THEN \E jitter \in Jitter :
                    policy' = Failed("live", live.desired, "temporary", jitter)
             ELSE UNCHANGED policy
          /\ live' = [live EXCEPT !.phase = "stopping", !.retry =
                        IF Stopped(policy', "live", live.desired) \/ Until(policy', "live") = 0
                        THEN None ELSE Until(policy', "live")]
          /\ task' = [task EXCEPT !["live"].aborted = TRUE]
          /\ Then("posting")
     ELSE Then("epoch") /\ UNCHANGED <<policy, live, task>>
  /\ UNCHANGED <<conn, activity, posting, world, seen>>

(* Controller::reception_epoch, read after a poll that left the queue empty:
   the state, then the counter of lost comments. *)
ReadEpoch ==
  /\ Gui("epoch")
  /\ Then(IF /\ gui.taken < MAX_POLL /\ gui.state = "receiving"
             /\ conn.state = "receiving" /\ ~Finished("live")
          THEN "gaps" ELSE "posting")
  /\ UNCHANGED <<policy, task, conn, live, activity, posting, world, seen>>

Reports == Gui("gaps") /\ ~conn.dropped

ReportEpoch ==
  /\ Gui("gaps") /\ Then("posting")
  /\ IF Reports
     THEN /\ live' = [live EXCEPT !.bumped = FALSE]
          /\ seen' = [seen EXCEPT !.lost = FALSE]
     ELSE UNCHANGED <<live, seen>>
  /\ UNCHANGED <<policy, task, conn, activity, posting, world>>

-----------------------------------------------------------------------------
(* posting::Controller *)

(* poll: the result of an attempt, unless its target is gone.  The notice of
   a success goes after a while. *)
Polled ==
  LET joined == posting.phase # "idle" /\ Finished("posting")
      result == IF task["posting"].pc = "panicked" \/ posting.outcome = "none"
                THEN "unknown" ELSE posting.outcome
      told == joined /\ posting.phase = "running"
  IN  {[posting EXCEPT !.phase = IF joined THEN "idle" ELSE @,
                       !.next = IF joined THEN POST_INTERVAL ELSE @,
                       !.sent = @ /\ ~joined,
                       !.outcome = IF joined THEN "none" ELSE @,
                       !.status = IF told THEN result ELSE status,
                       !.draft = IF told /\ result = "sent" THEN "empty" ELSE @] :
        status \in IF posting.status = "sent" THEN {"sent", "idle"} ELSE {posting.status}}

Ended == gui' = [pc |-> "idle", state |-> "none", taken |-> 0]

PollPosting ==
  /\ Gui("posting") /\ Ended
  /\ posting' \in Polled
  /\ task' = [task EXCEPT !["posting"] = IF posting'.phase = "idle" THEN NoTask ELSE @]
  /\ UNCHANGED <<policy, conn, live, activity, world, seen>>

Available(p) == p.target # None /\ p.phase = "idle" /\ p.next = 0

(* submit, in the same update: it fails at once, or starts an attempt. *)
Submit ==
  /\ Gui("posting") /\ Ended
  /\ "posting" \in world.uses /\ Event
  /\ \E polled \in Polled :
       /\ Available(polled)
       /\ IF polled.draft # "empty" /\ Allowed("posting", ChannelOf[polled.target])
          THEN /\ task' = [task EXCEPT !["posting"] = Task(ChannelOf[polled.target])]
               /\ posting' = [polled EXCEPT !.phase = "running", !.status = "sending",
                                            !.draft = "posted"]
          ELSE posting' = [polled EXCEPT !.status = "failed"] /\ UNCHANGED task
  /\ seen' = [seen EXCEPT !.stored = FALSE]
  /\ UNCHANGED <<policy, conn, live, activity>>

(* edit_draft *)
MayEdit == "posting" \in world.uses /\ posting.phase = "idle"

Edit ==
  /\ Gui("idle") /\ MayEdit
  /\ posting.draft # "edited"
  /\ posting' = [posting EXCEPT !.draft = "edited"]
  /\ UNCHANGED <<policy, task, conn, gui, live, activity, world, seen>>

-----------------------------------------------------------------------------
(* The parts of an update and of a task take less than a unit of time. *)
Tick ==
  LET less(n) == IF n = 0 THEN 0 ELSE n - 1
  IN  /\ Gui("idle") /\ \A o \in Operations : task[o].pc \notin {"failed", "publish"}
      /\ policy' = [policy EXCEPT !.until = [o \in Operations |-> less(@[o])],
                                  !.provider = less(@)]
      /\ live' = [live EXCEPT !.retry = IF @ = None THEN None ELSE less(@)]
      /\ posting' = [posting EXCEPT !.next = less(@)]
      /\ conn' = [conn EXCEPT !.age = IF task["live"].pc = "receiving" THEN Lesser(@ + 1, STABLE)
                                      ELSE @]
      /\ seen' = [seen EXCEPT !.asked = [o \in Operations |-> less(@[o])]]
      /\ UNCHANGED <<task, gui, activity, world>>

Polls ==
  \/ Poll \/ Borrow \/ IsFinished \/ NoteDropped \/ Take \/ Drained \/ Settle
  \/ ReadEpoch \/ ReportEpoch \/ PollPosting \/ Submit
  \/ \E enabled \in BOOLEAN, service \in Services \cup {None} : Update(enabled, service)

(* What an await waits for: an answer, or the end of its time. *)
Answers(o) ==
  \/ Start(o) \/ Record(o)
  \/ o = "live" /\ (Listed \/ Subscribed \/ Publish \/ Flushed)
  \/ o = "activity" /\ Fetched
  \/ o = "posting" /\ (Seated \/ Write \/ Acknowledged \/ Posted \/ Refused)

Breakdowns ==
  \/ \E o \in Operations : Fails(o, "request", HttpFailures) \/ Panics(o)
  \/ Fails("live", "socket", HttpFailures) \/ Fails("live", "receiving", Closes)
  \/ \E pc \in {"seat", "written"} : Fails("posting", pc, Closes)
  \/ Breaks

Next ==
  \/ Polls \/ Edit \/ Tick \/ Breakdowns \/ Receives \/ Disconnected
  \/ \E o \in Operations : Answers(o) \/ Aborts(o)

Spec == Init /\ [][Next]_vars

-----------------------------------------------------------------------------
(* Whoever is told to wait or to stay away does, whatever is selected,
   cancelled or answered meanwhile: no request begins before the least of the
   delays that belong to a failure, for every operation when the failure is
   the provider's (retry.rs, Attempt::failed before anything is published). *)
LimitsHold ==
  [][\A o \in Operations :
       task'[o].pc # task[o].pc /\ task'[o].pc \in {"request", "socket"} =>
         seen.asked[o] = 0 /\ <<o, task[o].at>> \notin seen.banned]_vars

(* An epoch that is reported again has no gap, a connection that ends by
   itself hands over all it received, and what is shown belongs to what is
   selected (controller.rs: poll, reception_epoch). *)
ReceptionIsWhole ==
  /\ Reports /\ ~live.bumped => ~seen.lost
  /\ Gui("settle") /\ Ends => conn.queue = 0
  /\ live.phase = "running" => task["live"].at = live.desired

(* The reception stays away only from what refused it for good, and waits no
   longer than the policy wants (controller.rs: configure, poll). *)
WaitsForAReason ==
  /\ live.phase = "blocked" => Stopped(policy, "live", live.desired)
  /\ live.phase = "waiting" => live.retry <= Larger(Until(policy, "live"), LIVE_DELAY)
  /\ live.phase = "idle" /\ live.desired # None => Gui("poll")

(* What the user sees of the reception is true: nothing is missing from it, and
   when there is none something still forbids it. *)
ReceptionIsHonest == ReceptionIsWhole /\ WaitsForAReason

(* What the user reads about a comment that was posted is true whatever is
   answered, cut off or too late, and a draft is dropped only when it was
   posted or another service is on the screen (transport::post, edit_draft). *)
PostingIsHonest ==
  [][/\ posting'.status = "failed" => ~seen'.stored
     /\ posting'.status = "sent" => seen'.stored
     /\ posting.draft = "edited" /\ posting'.draft = "empty" =>
          posting'.target # posting.target]_vars

=============================================================================
