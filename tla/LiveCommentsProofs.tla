------------------------- MODULE LiveCommentsProofs -------------------------
(***************************************************************************)
(* Proofs about LiveComments, for any services, limits, delays and number  *)
(* of failures: types, ReceptionIsHonest, LimitsHold and PostingIsHonest.  *)
(***************************************************************************)
EXTENDS LiveComments, TLAPS
-----------------------------------------------------------------------------
(* The inductive invariant.                                                *)

Gone == {"flush", "done", "panicked", "none"}
Draining == {"finished", "dropped", "drain", "settle"}
Resting == {"idle", "waiting", "blocked"}

(* A task is there as long as its owner waits for it. *)
Owned ==
  /\ activity.phase = "idle" => task["activity"].pc = "none"
  /\ live.phase \in Resting => task["live"].pc = "none"
  /\ posting.phase = "idle" => task["posting"].pc \in {"none", "done", "panicked"}

(* What the server asked for is in the policy, or is about to be put there by
   the task that was told. *)
Tells(o, p) ==
  /\ task[o].pc = "failed" /\ task[o].failure # "permanent"
  /\ p = o \/ task[o].failure \in Shared
Owed ==
  /\ \A p \in Operations :
       \/ seen.asked[p] <= Until(policy, p)
       \/ \E o \in Operations :
            /\ Tells(o, p)
            /\ seen.asked[p] <= Larger(BaseDelay(o, task[o].failure), ServerDelay(task[o].failure))
  /\ \A x \in seen.banned :
       \/ x \in policy.stopped
       \/ \E o \in Operations :
            task[o].pc = "failed" /\ task[o].failure = "permanent" /\ x = <<o, task[o].at>>

(* What a poll saw of an end is the end, and it left nothing in the queue. *)
Received ==
  /\ seen.lost => live.bumped \/ conn.dropped
  /\ conn.state = "over" => task["live"].pc \in Gone
  /\ gui.pc \in Draining /\ gui.state \in Terminal => task["live"].pc \in Gone
  /\ gui.pc = "settle" /\ Ends => conn.queue = 0
  /\ live.phase = "running" => task["live"].at = live.desired

Waiting ==
  /\ live.phase = "blocked" => Stopped(policy, "live", live.desired)
  /\ live.phase = "waiting" => live.retry # None
  /\ live.retry # None => live.retry <= Larger(Until(policy, "live"), LIVE_DELAY)
  /\ live.phase = "idle" /\ live.desired # None => Gui("poll")

(* What an attempt may claim is what became of the comment. *)
Shown ==
  /\ posting.phase = "running" => posting.status = "sending" /\ posting.draft = "posted"
  /\ posting.phase = "stopping" => posting.status = "idle"
  /\ posting.phase = "idle" => ~posting.sent /\ posting.outcome = "none"
  /\ posting.status = "failed" => ~seen.stored
  /\ posting.status = "sent" => seen.stored
Attempted ==
  posting.phase # "idle" =>
    /\ ~posting.sent => ~seen.stored
    /\ posting.outcome = "failed" => ~seen.stored
    /\ posting.outcome = "sent" => seen.stored
    /\ task["posting"].pc \notin {"done", "panicked"} => posting.outcome = "none"
    /\ task["posting"].pc = "acked" => seen.stored
    /\ task["posting"].pc \in {"start", "request", "seat"} => ~posting.sent

IInv ==
  /\ TypeOK
  /\ Owned
  /\ Owed
  /\ Received
  /\ Waiting
  /\ Shown
  /\ Attempted

-----------------------------------------------------------------------------
(* The parts of the types, one set for each variable.                      *)
Places == Channels \cup {None}
Pcs == {"none", "start", "request", "socket", "receiving", "seat", "written", "acked",
        "failed", "publish", "flush", "done", "panicked"}
Reasons == HttpFailures \cup Closes \cup {"none"}
Policies == [failures : [Operations -> 0 .. MAX_FAILURES], until : [Operations -> Wait],
             provider : Wait, stopped : SUBSET (Operations \X Places)]
TaskType == [pc : Pcs, at : Places, failure : Reasons, aborted : BOOLEAN]
Tasks == [Operations -> TaskType]
Conns == [state : {"connecting", "receiving", "over"}, queue : 0 .. QUEUE,
          dropped : BOOLEAN, age : 0 .. STABLE]
Guis == [pc : {"idle", "poll", "borrow", "finished", "dropped", "drain",
               "settle", "epoch", "gaps", "posting"},
         state : {"none", "connecting", "receiving", "over", "lost"}, taken : 0 .. MAX_POLL]
Lives == [desired : Places, phase : {"idle", "running", "stopping", "waiting", "blocked"},
          retry : Wait \cup {None}, bumped : BOOLEAN]
Activities == [enabled : BOOLEAN, phase : {"idle", "fetching", "cancelling"}]
Postings == [target : Services \cup {None}, phase : {"idle", "running", "stopping"},
             status : {"idle", "sending", "sent", "failed", "unknown"},
             next : 0 .. POST_INTERVAL, sent : BOOLEAN, outcome : {"none", "sent", "failed"},
             draft : {"empty", "posted", "edited"}]
Worlds == [uses : Uses, events : 0 .. MaxEvents]
Seens == [asked : [Operations -> Wait], banned : SUBSET (Operations \X Places),
          lost : BOOLEAN, stored : BOOLEAN]

LEMMA TypeParts ==
  TypeOK <=> /\ policy \in Policies /\ task \in Tasks /\ conn \in Conns /\ gui \in Guis
             /\ live \in Lives /\ activity \in Activities /\ posting \in Postings
             /\ world \in Worlds /\ seen \in Seens
BY DEF TypeOK, Policies, Tasks, TaskType, Conns, Guis, Lives, Activities, Postings, Worlds,
       Seens, Places, Pcs, Reasons

LEMMA TypePartsNext ==
  TypeOK' <=> /\ policy' \in Policies /\ task' \in Tasks /\ conn' \in Conns /\ gui' \in Guis
              /\ live' \in Lives /\ activity' \in Activities /\ posting' \in Postings
              /\ world' \in Worlds /\ seen' \in Seens
BY DEF TypeOK, Policies, Tasks, TaskType, Conns, Guis, Lives, Activities, Postings, Worlds,
       Seens, Places, Pcs, Reasons

-----------------------------------------------------------------------------
(* Numbers.                                                                *)
LEMMA LargerIs ==
  ASSUME NEW a \in Int, NEW b \in Int
  PROVE  /\ Larger(a, b) \in Int /\ Larger(a, b) >= a /\ Larger(a, b) >= b
         /\ (Larger(a, b) = a \/ Larger(a, b) = b)
         /\ Lesser(a, b) \in Int /\ Lesser(a, b) <= a /\ Lesser(a, b) <= b
         /\ (Lesser(a, b) = a \/ Lesser(a, b) = b)
BY DEF Larger, Lesser

\* No wait is longer than the longest.
LEMMA WaitIs ==
  /\ Wait \subseteq Nat /\ 0 \in Wait /\ None \notin Wait
  /\ \A d \in Nat, j \in Jitter : d <= Larger(MAX_DELAY, RETRY_AFTER) => d + j \in Wait
  /\ \A d \in Nat : d <= Larger(MAX_DELAY, RETRY_AFTER) => d \in Wait
  /\ \A d \in Wait, e \in Nat : e <= d => e \in Wait
<1> DEFINE most == CHOOSE j \in Jitter : \A k \in Jitter : k <= j
           limit == Larger(MAX_DELAY, RETRY_AFTER)
<1>1. most \in Jitter /\ \A k \in Jitter : k <= most
  BY NumbersAssumption
<1>2. most \in Nat /\ limit \in Nat
  BY <1>1, NumbersAssumption DEF Larger
<1>3. Wait = 0 .. limit + most
  BY DEF Wait, Longest
<1> HIDE DEF most, limit
<1>4. \A j \in Jitter : j \in Nat /\ j <= most
  BY <1>1, NumbersAssumption
<1>5. None \notin Nat
  BY ServicesAssumption
<1>6. \A d \in Nat, j \in Jitter : d <= limit => d + j \in Wait
  BY <1>2, <1>3, <1>4
<1>7. \A d \in Nat : d <= limit => d \in Wait
  BY <1>2, <1>3
<1>8. Wait \subseteq Nat /\ 0 \in Wait
  BY <1>2, <1>3
<1>9. \A d \in Wait, e \in Nat : e <= d => e \in Wait
  BY <1>2, <1>3
<1> QED BY <1>5, <1>6, <1>7, <1>8, <1>9 DEF limit

LEMMA Shifts == \A n \in 1 .. MAX_FAILURES : Shifted[n] \in Nat /\ Shifted[n] >= 1
<1>1. \A n \in {1, 2, 3, 4, 5, 6, 7} : Shifted[n] \in Nat /\ Shifted[n] >= 1
  BY DEF Shifted
<1>2. 1 .. MAX_FAILURES = {1, 2, 3, 4, 5, 6, 7}
  BY DEF MAX_FAILURES
<1> QED BY <1>1, <1>2

\* What a failure asks for, without the backoff.
Least(o, failure) == Larger(BaseDelay(o, failure), ServerDelay(failure))

LEMMA BaseIs ==
  ASSUME NEW o, NEW failure
  PROVE  /\ BaseDelay(o, failure) \in Nat /\ BaseDelay(o, failure) <= MAX_DELAY
         /\ ServerDelay(failure) \in Nat /\ ServerDelay(failure) <= RETRY_AFTER
         /\ Least(o, failure) \in Wait
<1>1. /\ MAX_DELAY \in Nat /\ RETRY_AFTER \in Nat /\ LIVE_DELAY \in Nat /\ ACTIVITY_INTERVAL \in Nat
      /\ RATE_LIMIT_DELAY \in Nat
  BY NumbersAssumption
<1>2. BaseDelay(o, failure) \in Nat /\ BaseDelay(o, failure) <= MAX_DELAY
  BY <1>1, NumbersAssumption DEF BaseDelay
<1>3. ServerDelay(failure) \in Nat /\ ServerDelay(failure) <= RETRY_AFTER
  BY <1>1 DEF ServerDelay
<1>4. Least(o, failure) \in Nat /\ Least(o, failure) <= Larger(MAX_DELAY, RETRY_AFTER)
  BY <1>1, <1>2, <1>3 DEF Least, Larger
<1> QED BY <1>2, <1>3, <1>4, WaitIs

\* The backoff is not below what the failure asks for, and within the longest wait.
LEMMA DelayIs ==
  ASSUME NEW o, NEW failure, NEW n \in 1 .. MAX_FAILURES, NEW jitter \in Jitter
  PROVE  Delay(o, failure, n, jitter) \in Wait /\ Delay(o, failure, n, jitter) >= Least(o, failure)
<1> DEFINE base == BaseDelay(o, failure)
           server == ServerDelay(failure)
           times == base * Shifted[n]
           least == Lesser(MAX_DELAY, times)
           wait == Larger(least, server)
<1>1. /\ base \in Nat /\ base <= MAX_DELAY /\ server \in Nat /\ server <= RETRY_AFTER
      /\ MAX_DELAY \in Nat /\ RETRY_AFTER \in Nat /\ jitter \in Nat
  BY BaseIs, NumbersAssumption
<1>2. Shifted[n] \in Nat /\ Shifted[n] >= 1
  BY Shifts
<1> HIDE DEF base, server
<1>3. times \in Nat /\ times >= base
  <2> DEFINE k == Shifted[n]
  <2>1. k \in Nat /\ k >= 1 /\ base \in Nat
    BY <1>1, <1>2
  <2> HIDE DEF k
  <2>2. base * k = base + base * (k - 1) /\ base * (k - 1) \in Nat
    BY <2>1
  <2>3. base * k \in Nat /\ base * k >= base
    BY <2>1, <2>2
  <2> QED BY <2>3 DEF k
<1> HIDE DEF times
<1>4. least \in Nat /\ least >= base /\ least <= MAX_DELAY
  BY <1>1, <1>3 DEF Lesser
<1> HIDE DEF least
<1>5. wait \in Nat /\ wait >= Larger(base, server) /\ wait <= Larger(MAX_DELAY, RETRY_AFTER)
  BY <1>1, <1>4 DEF Larger
<1>6. Delay(o, failure, n, jitter) = wait + jitter
  BY DEF Delay, wait, least, times, base, server
<1>7. Larger(base, server) = Least(o, failure)
  BY DEF Least, base, server
<1> HIDE DEF wait
<1>8. wait + jitter \in Wait
  BY <1>5, WaitIs
<1>9. Least(o, failure) \in Nat
  BY BaseIs, WaitIs
<1> QED BY <1>1, <1>5, <1>6, <1>7, <1>8, <1>9

-----------------------------------------------------------------------------
(* The policy: no operation takes a wait or a ban back.                    *)
Firmer(p, q) ==
  /\ \A o \in Operations : Until(q, o) >= Until(p, o)
  /\ p.stopped \subseteq q.stopped

LEMMA UntilIs ==
  ASSUME NEW p \in Policies, NEW o \in Operations
  PROVE  /\ p.until[o] \in Wait /\ p.provider \in Wait /\ Until(p, o) \in Wait
         /\ Until(p, o) >= p.until[o] /\ Until(p, o) >= p.provider
<1>1. p.until[o] \in Wait /\ p.provider \in Wait
  BY DEF Policies
<1>2. p.until[o] \in Nat /\ p.provider \in Nat
  BY <1>1, WaitIs
<1> QED BY <1>1, <1>2 DEF Until, Larger

Above(p, q) ==
  /\ \A o \in Operations : q.until[o] >= p.until[o]
  /\ q.provider >= p.provider
  /\ p.stopped \subseteq q.stopped

LEMMA FirmerIs ==
  ASSUME NEW p \in Policies, NEW q \in Policies, Above(p, q)
  PROVE  Firmer(p, q)
<1>1. SUFFICES ASSUME NEW o \in Operations PROVE Until(q, o) >= Until(p, o)
  BY DEF Firmer, Above
<1>2. /\ p.until[o] \in Nat /\ p.provider \in Nat /\ q.until[o] \in Nat /\ q.provider \in Nat
  BY UntilIs, WaitIs
<1>3. q.until[o] >= p.until[o] /\ q.provider >= p.provider
  BY DEF Above
<1> QED BY <1>2, <1>3 DEF Until, Larger

LEMMA FirmerSame == ASSUME NEW p \in Policies PROVE Firmer(p, p)
<1>1. \A o \in Operations : p.until[o] \in Nat /\ p.provider \in Nat
  BY UntilIs, WaitIs
<1>2. Above(p, p)
  BY <1>1, UntilIs, WaitIs DEF Above, Operations
<1> QED BY <1>2, FirmerIs

\* A change of the failures alone.
LEMMA ForgivenIs ==
  ASSUME NEW p \in Policies, NEW o \in Operations
  PROVE  /\ [p EXCEPT !.failures[o] = 0] \in Policies /\ Firmer(p, [p EXCEPT !.failures[o] = 0])
<1> DEFINE q == [p EXCEPT !.failures[o] = 0]
<1>1. 0 \in 0 .. MAX_FAILURES
  BY DEF MAX_FAILURES
<1>2. q \in Policies /\ q.until = p.until /\ q.provider = p.provider /\ q.stopped = p.stopped
  BY <1>1 DEF Policies
<1>3. \A x \in Operations : p.until[x] \in Nat /\ p.provider \in Nat
  BY UntilIs, WaitIs
<1> HIDE DEF q
<1>4. Above(p, q)
  BY <1>2, <1>3, UntilIs, WaitIs DEF Above
<1>5. Firmer(p, q)
  BY <1>2, <1>4, FirmerIs
<1> QED BY <1>2, <1>5 DEF q

LEMMA EndingIs ==
  ASSUME policy \in Policies, NEW o \in Operations
  PROVE  Ending(o) \in Policies /\ Firmer(policy, Ending(o))
BY ForgivenIs, FirmerSame DEF Ending, Operations

LEMMA FetchedIs ==
  ASSUME NEW p \in Policies
  PROVE  LET q == [p EXCEPT !.failures["activity"] = 0,
                            !.until["activity"] = Larger(@, ACTIVITY_INTERVAL)]
         IN  q \in Policies /\ Firmer(p, q)
<1> DEFINE u == Larger(p.until["activity"], ACTIVITY_INTERVAL)
           q == [p EXCEPT !.failures["activity"] = 0, !.until["activity"] = u]
<1>1. "activity" \in Operations /\ 0 \in 0 .. MAX_FAILURES
  BY DEF Operations, MAX_FAILURES
<1>2. p.until["activity"] \in Wait /\ p.until["activity"] \in Nat /\ ACTIVITY_INTERVAL \in Nat
  BY <1>1, UntilIs, WaitIs, NumbersAssumption
<1>3. ACTIVITY_INTERVAL \in Wait
  BY <1>2, WaitIs, NumbersAssumption DEF Larger
<1>4. u \in Wait /\ u >= p.until["activity"]
  BY <1>2, <1>3, WaitIs DEF Larger
<1> HIDE DEF u
<1>5. q \in Policies /\ q.until = [p.until EXCEPT !["activity"] = u] /\ q.provider = p.provider
      /\ q.stopped = p.stopped
  BY <1>1, <1>4 DEF Policies
<1> HIDE DEF q
<1>6. \A x \in Operations : p.until[x] \in Nat /\ p.provider \in Nat
  BY UntilIs, WaitIs
<1>7. p.until \in [Operations -> Wait]
  BY DEF Policies
<1>8. \A x \in Operations : q.until[x] >= p.until[x]
  BY <1>4, <1>5, <1>6, <1>7
<1>9. Above(p, q)
  BY <1>1, <1>5, <1>6, <1>8 DEF Above
<1>10. Firmer(p, q)
  BY <1>5, <1>9, FirmerIs
<1> QED BY <1>5, <1>10 DEF q, u

\* A failure that is recorded is waited for by whom it is about, or banned.
LEMMA FailedIs ==
  ASSUME policy \in Policies, NEW o \in Operations, NEW at \in Places, NEW failure,
         NEW jitter \in Jitter
  PROVE  LET q == Failed(o, at, failure, jitter) IN
         /\ q \in Policies /\ Firmer(policy, q)
         /\ failure = "permanent" => <<o, at>> \in q.stopped
         /\ failure # "permanent" =>
              \A p \in Operations :
                p = o \/ failure \in Shared => Until(q, p) >= Least(o, failure)
<1>1. CASE failure = "permanent"
  <2> DEFINE q == [policy EXCEPT !.stopped = @ \cup {<<o, at>>}]
  <2>1. q \in Policies /\ q.until = policy.until /\ q.provider = policy.provider
        /\ q.stopped = policy.stopped \cup {<<o, at>>}
    BY DEF Policies
  <2>2. \A x \in Operations : policy.until[x] \in Nat /\ policy.provider \in Nat
    BY UntilIs, WaitIs
  <2> HIDE DEF q
  <2>3. Above(policy, q)
    BY <2>1, <2>2, UntilIs, WaitIs DEF Above
  <2>5. Firmer(policy, q)
    BY <2>1, <2>3, FirmerIs
  <2>4. Failed(o, at, failure, jitter) = q
    BY <1>1 DEF Failed, q
  <2> QED BY <1>1, <2>1, <2>5, <2>4
<1>2. CASE failure # "permanent"
  <2> DEFINE n == Lesser(policy.failures[o] + 1, MAX_FAILURES)
             d == Delay(o, failure, n, jitter)
             u == Larger(policy.until[o], d)
             v == IF failure \in Shared THEN Larger(policy.provider, d) ELSE policy.provider
             q == [policy EXCEPT !.failures[o] = n, !.until[o] = u, !.provider = v]
  <2>1. Failed(o, at, failure, jitter) = q
    BY <1>2 DEF Failed
  <2>2. n \in 1 .. MAX_FAILURES /\ n \in 0 .. MAX_FAILURES
    <3>1. policy.failures[o] \in 0 .. MAX_FAILURES
      BY DEF Policies
    <3> QED BY <3>1 DEF Lesser, MAX_FAILURES
  <2> HIDE DEF n
  <2>3. d \in Wait /\ d >= Least(o, failure)
    BY <2>2, DelayIs
  <2> HIDE DEF d
  <2>4. /\ policy.until[o] \in Wait /\ policy.provider \in Wait
        /\ policy.until[o] \in Nat /\ policy.provider \in Nat /\ d \in Nat
    BY <2>3, UntilIs, WaitIs
  <2>5. u \in Wait /\ u >= policy.until[o] /\ u >= d
    BY <2>3, <2>4 DEF Larger
  <2>6. v \in Wait /\ v >= policy.provider /\ (failure \in Shared => v >= d)
    BY <2>3, <2>4 DEF Larger
  <2> HIDE DEF u, v
  <2>7. /\ q \in Policies /\ q.until = [policy.until EXCEPT ![o] = u] /\ q.provider = v
        /\ q.stopped = policy.stopped
    BY <2>2, <2>5, <2>6 DEF Policies
  <2> HIDE DEF q
  <2>8. policy.until \in [Operations -> Wait]
    BY DEF Policies
  <2>9. \A x \in Operations : policy.until[x] \in Nat /\ u \in Nat /\ v \in Nat
    BY <2>5, <2>6, UntilIs, WaitIs
  <2>10. \A x \in Operations : q.until[x] >= policy.until[x]
    BY <2>5, <2>7, <2>8, <2>9
  <2>11. Above(policy, q)
    BY <2>6, <2>7, <2>10 DEF Above
  <2>13. Firmer(policy, q)
    BY <2>7, <2>11, FirmerIs
  <2>12. ASSUME NEW p \in Operations, p = o \/ failure \in Shared
         PROVE  Until(q, p) >= Least(o, failure)
    <3>1. /\ Until(q, p) \in Nat /\ q.until[p] \in Nat /\ q.provider \in Nat
          /\ Until(q, p) >= q.until[p] /\ Until(q, p) >= q.provider
      BY <2>7, UntilIs, WaitIs
    <3>2. Least(o, failure) \in Nat
      BY BaseIs, WaitIs
    <3>3. p = o => q.until[p] = u
      BY <2>7, <2>8
    <3>4. (p = o => q.until[p] >= d) /\ (failure \in Shared => q.provider >= d)
      BY <2>5, <2>6, <2>7, <3>3
    <3> QED BY <2>3, <2>4, <2>12, <3>1, <3>2, <3>4
  <2> QED BY <1>2, <2>1, <2>7, <2>13, <2>12
<1> QED BY <1>1, <1>2

-----------------------------------------------------------------------------
(* What a step leaves alone.                                               *)
Still(o) ==
  task'[o].pc = task[o].pc /\ task'[o].at = task[o].at /\ task'[o].failure = task[o].failure

\* A step of one task, from where it was active.
Goes(o) ==
  /\ \A p \in Operations \ {o} : Still(p)
  /\ task'[o].at = task[o].at
  /\ task[o].pc \notin {"none", "done", "panicked"}
  /\ task[o].pc = "flush" => task'[o].pc \in Gone

\* What only the GUI changes.
GuiWaits == gui' = gui /\ live' = live /\ activity' = activity /\ posting'.phase = posting.phase

LEMMA GoesOwned ==
  ASSUME IInv, NEW o \in Operations, Goes(o), GuiWaits
  PROVE  Owned'
<1>1. \A p \in Operations : p = o \/ task'[p].pc = task[p].pc
  BY DEF Goes, Still
<1> QED BY <1>1 DEF IInv, Owned, Goes, GuiWaits, Operations, Resting

LEMMA WaitingKept ==
  ASSUME IInv, policy' \in Policies, Firmer(policy, policy'), live' = live,
         Gui("poll") => Gui("poll")'
  PROVE  Waiting'
<1>1. policy \in Policies /\ live \in Lives
  BY TypeParts DEF IInv
<1>2. "live" \in Operations
  BY DEF Operations
<1> DEFINE u == Until(policy, "live")
           v == Until(policy', "live")
<1>3. u \in Nat /\ v \in Nat /\ v >= u /\ LIVE_DELAY \in Nat
  BY <1>1, <1>2, UntilIs, WaitIs, NumbersAssumption DEF Firmer
<1>4. ASSUME live.retry # None PROVE live.retry <= Larger(v, LIVE_DELAY)
  <2>1. live.retry \in Nat
    BY <1>1, <1>4, WaitIs DEF Lives
  <2>2. live.retry <= Larger(u, LIVE_DELAY)
    BY <1>4 DEF IInv, Waiting
  <2> HIDE DEF u, v
  <2> QED BY <1>3, <2>1, <2>2 DEF Larger
<1>5. Stopped(policy, "live", live.desired) => Stopped(policy', "live", live.desired)
  BY DEF Stopped, Firmer
<1>6. live.phase = "blocked" => Stopped(policy', "live", live.desired)
  BY <1>5 DEF IInv, Waiting
<1>7. live.phase = "waiting" => live.retry # None
  BY DEF IInv, Waiting
<1>8. live.phase = "idle" /\ live.desired # None => Gui("poll")'
  BY DEF IInv, Waiting
<1> QED BY <1>4, <1>6, <1>7, <1>8 DEF Waiting

\* No failure that was not recorded yet is lost.
SameOwed ==
  /\ seen'.asked = seen.asked /\ seen'.banned = seen.banned
  /\ \A o \in Operations : task[o].pc = "failed" => Still(o)

LEMMA OwedKept ==
  ASSUME IInv, policy' \in Policies, Firmer(policy, policy'), SameOwed
  PROVE  Owed'
<1>1. policy \in Policies /\ seen \in Seens
  BY TypeParts DEF IInv
<1>2. ASSUME NEW p \in Operations
      PROVE  \/ seen'.asked[p] <= Until(policy', p)
             \/ \E o \in Operations :
                  /\ Tells(o, p)'
                  /\ seen'.asked[p] <= Larger(BaseDelay(o, task'[o].failure),
                                              ServerDelay(task'[o].failure))
  <2>1. CASE seen.asked[p] <= Until(policy, p)
    <3>1. seen.asked[p] \in Nat /\ Until(policy, p) \in Nat /\ Until(policy', p) \in Nat
      BY <1>1, UntilIs, WaitIs DEF Seens
    <3>2. Until(policy', p) >= Until(policy, p)
      BY DEF Firmer
    <3> QED BY <2>1, <3>1, <3>2 DEF SameOwed
  <2>2. CASE \E o \in Operations :
               /\ Tells(o, p)
               /\ seen.asked[p] <= Larger(BaseDelay(o, task[o].failure),
                                          ServerDelay(task[o].failure))
    <3>1. PICK o \in Operations :
            /\ Tells(o, p)
            /\ seen.asked[p] <= Larger(BaseDelay(o, task[o].failure), ServerDelay(task[o].failure))
      BY <2>2
    <3>2. Still(o)
      BY <3>1 DEF SameOwed, Tells
    <3>3. Tells(o, p)'
      BY <3>1, <3>2 DEF Still, Tells
    <3> QED BY <3>1, <3>2, <3>3 DEF Still, SameOwed
  <2> QED BY <2>1, <2>2 DEF IInv, Owed
<1>3. ASSUME NEW x \in seen'.banned
      PROVE  \/ x \in policy'.stopped
             \/ \E o \in Operations :
                  task'[o].pc = "failed" /\ task'[o].failure = "permanent" /\ x = <<o, task'[o].at>>
  <2>1. x \in seen.banned
    BY <1>3 DEF SameOwed
  <2>2. CASE x \in policy.stopped
    BY <2>2 DEF Firmer
  <2>3. CASE \E o \in Operations :
               task[o].pc = "failed" /\ task[o].failure = "permanent" /\ x = <<o, task[o].at>>
    <3>1. PICK o \in Operations :
            task[o].pc = "failed" /\ task[o].failure = "permanent" /\ x = <<o, task[o].at>>
      BY <2>3
    <3>2. Still(o)
      BY <3>1 DEF SameOwed
    <3> QED BY <3>1, <3>2 DEF Still
  <2> QED BY <2>1, <2>2, <2>3 DEF IInv, Owed
<1> QED BY <1>2, <1>3 DEF Owed

\* The queue and its losses are where they were.
SameQueue ==
  /\ conn'.queue = conn.queue /\ conn'.dropped = conn.dropped /\ seen'.lost = seen.lost
  /\ conn'.state = "over" => conn.state = "over" \/ task'["live"].pc \in Gone
  /\ task["live"].pc \in Gone => task'["live"].pc \in Gone
  /\ task'["live"].at = task["live"].at

LEMMA ReceivedKept ==
  ASSUME IInv, gui' = gui, live' = live, SameQueue
  PROVE  Received'
<1>1. Ends' <=> Ends
  BY DEF Ends
<1> QED BY <1>1 DEF IInv, Received, SameQueue

LEMMA GoesQueue ==
  ASSUME NEW o \in Operations, Goes(o), conn' = conn, seen'.lost = seen.lost
  PROVE  SameQueue
<1>1. task["live"].pc \in Gone => task'["live"].pc \in Gone
  BY DEF Goes, Still, Operations, Gone
<1>2. task'["live"].at = task["live"].at
  BY DEF Goes, Still, Operations
<1> QED BY <1>1, <1>2 DEF SameQueue

\* Nothing happened to a comment of the user.
SamePost == posting' = posting /\ seen'.stored = seen.stored /\ Still("posting")

LEMMA PostKept == ASSUME IInv, SamePost PROVE Shown' /\ Attempted'
BY DEF IInv, Shown, Attempted, SamePost, Still

LEMMA EventIs == ASSUME world \in Worlds, Event PROVE world' \in Worlds
<1>1. MaxEvents \in Nat
  BY NumbersAssumption
<1> QED BY <1>1 DEF Event, Worlds

\* The step of a task to another place.
Moved(o, pc) ==
  /\ task' \in Tasks
  /\ task'[o].pc = pc /\ task'[o].at = task[o].at /\ task'[o].failure = task[o].failure
  /\ \A p \in Operations \ {o} : Still(p)

LEMMA ToIs ==
  ASSUME task \in Tasks, NEW o \in Operations, NEW pc \in Pcs, To(o, pc)
  PROVE  Moved(o, pc)
<1> DEFINE next == [task[o] EXCEPT !.pc = pc]
<1>1. task[o] \in TaskType
  BY DEF Tasks
<1>2. /\ next \in TaskType /\ next.pc = pc /\ next.at = task[o].at
      /\ next.failure = task[o].failure
  BY <1>1 DEF TaskType
<1>3. task' = [task EXCEPT ![o] = next]
  BY DEF To
<1> HIDE DEF next
<1>4. task' \in Tasks /\ task'[o] = next
  BY <1>2, <1>3 DEF Tasks
<1>5. \A p \in Operations \ {o} : Still(p)
  BY <1>3 DEF Still, Tasks
<1> QED BY <1>2, <1>4, <1>5 DEF Moved

LEMMA MovedGoes ==
  ASSUME NEW o \in Operations, NEW pc, Moved(o, pc), task[o].pc \notin {"none", "done", "panicked"},
         task[o].pc = "flush" => pc \in Gone
  PROVE  Goes(o)
BY DEF Moved, Goes

\* A step to another place, which leaves the failures and the comment of the user alone.
LEMMA MovedKeeps ==
  ASSUME IInv, NEW o \in Operations, Goes(o), task[o].pc # "failed", GuiWaits,
         task' \in Tasks, policy' \in Policies, Firmer(policy, policy'),
         conn' = conn, seen' = seen
  PROVE  Owned' /\ Owed' /\ Received' /\ Waiting'
<1>1. \A p \in Operations : task[p].pc = "failed" => Still(p)
  BY DEF Goes
<1>2. SameOwed
  BY <1>1 DEF SameOwed
<1>3. SameQueue
  BY GoesQueue
<1>4. gui' = gui /\ live' = live /\ (Gui("poll") => Gui("poll")')
  BY DEF GuiWaits, Gui
<1> QED BY <1>2, <1>3, <1>4, GoesOwned, OwedKept, ReceivedKept, WaitingKept

-----------------------------------------------------------------------------
(* The steps of the tasks.                                                 *)
LEMMA FellIs ==
  ASSUME task \in Tasks, NEW o \in Operations, NEW pc \in Pcs, NEW failure \in Reasons,
         task' = [task EXCEPT ![o].pc = pc, ![o].failure = failure]
  PROVE  /\ task' \in Tasks /\ task'[o].pc = pc /\ task'[o].failure = failure
         /\ task'[o].at = task[o].at
         /\ \A p \in Operations \ {o} : Still(p)
<1> DEFINE next == [task[o] EXCEPT !.pc = pc, !.failure = failure]
<1>1. task[o] \in TaskType
  BY DEF Tasks
<1>2. next \in TaskType /\ next.pc = pc /\ next.at = task[o].at /\ next.failure = failure
  BY <1>1 DEF TaskType
<1>3. task' = [task EXCEPT ![o] = next]
  BY <1>1 DEF TaskType, Tasks
<1> HIDE DEF next
<1>4. task' \in Tasks /\ task'[o] = next
  BY <1>2, <1>3 DEF Tasks
<1>5. \A p \in Operations \ {o} : Still(p)
  BY <1>3 DEF Still, Tasks
<1> QED BY <1>2, <1>4, <1>5

LEMMA OperationsAre == "live" \in Operations /\ "activity" \in Operations /\ "posting" \in Operations
BY DEF Operations

LEMMA StartKeeps == ASSUME IInv, NEW o \in Operations, Start(o) PROVE IInv'
<1>1. /\ policy \in Policies /\ task \in Tasks /\ conn \in Conns /\ gui \in Guis /\ live \in Lives
      /\ activity \in Activities /\ posting \in Postings /\ world \in Worlds /\ seen \in Seens
  BY TypeParts DEF IInv
<1>2. /\ task[o].pc = "start"
      /\ UNCHANGED <<policy, conn, gui, live, activity, world, seen>>
  BY DEF Start, Runs
<1>3. PICK pc \in {"request", "publish", "done"} :
        /\ To(o, pc)
        /\ o = "posting" => pc # "publish"
        /\ pc = "request" => posting' = posting
  BY DEF Start
<1>4. Moved(o, pc)
  BY <1>1, <1>3, ToIs DEF Pcs
<1>5. Goes(o)
  BY <1>2, <1>4, MovedGoes
<1>6. posting' \in Postings /\ posting'.phase = posting.phase
  BY <1>1 DEF Start, Postings
<1>7. GuiWaits
  BY <1>2, <1>6 DEF GuiWaits
<1>8. TypeOK'
  BY <1>1, <1>2, <1>4, <1>6, TypePartsNext DEF Moved
<1>9. Owned' /\ Owed' /\ Received' /\ Waiting'
  BY <1>1, <1>2, <1>4, <1>5, <1>7, FirmerSame, MovedKeeps DEF Moved
<1>10. CASE o = "posting"
  <2>1. task'["posting"].pc = pc /\ pc \in {"request", "done"}
    BY <1>3, <1>4, <1>10 DEF Moved
  <2>2. posting.phase # "idle"
    BY <1>2, <1>10 DEF IInv, Owned
  <2>3. ~posting.sent /\ ~seen.stored /\ posting.outcome = "none"
    BY <1>2, <1>10, <2>2 DEF IInv, Attempted
  <2>4. posting' = posting \/ posting' = [posting EXCEPT !.outcome = "failed"]
    BY <1>10 DEF Start
  <2>5. /\ posting'.phase = posting.phase /\ posting'.status = posting.status
        /\ posting'.sent = posting.sent /\ posting'.draft = posting.draft
    BY <1>1, <2>4 DEF Postings
  <2>6. posting'.outcome = "none" \/ (posting'.outcome = "failed" /\ pc = "done")
    <3>1. posting'.outcome = posting.outcome \/ posting'.outcome = "failed"
      BY <1>1, <2>4 DEF Postings
    <3>2. pc = "request" => posting'.outcome = posting.outcome
      BY <1>3
    <3>3. posting.outcome = "none"
      BY <2>3
    <3> QED BY <2>1, <3>1, <3>2, <3>3
  <2>7. Shown'
    BY <1>2, <2>2, <2>5 DEF IInv, Shown
  <2>8. Attempted'
    BY <1>2, <1>3, <1>10, <2>1, <2>2, <2>3, <2>5, <2>6 DEF Attempted
  <2> QED BY <1>8, <1>9, <2>7, <2>8 DEF IInv
<1>11. CASE o # "posting"
  <2>1. SamePost
    BY <1>2, <1>5, <1>11, OperationsAre DEF Start, SamePost, Goes
  <2> QED BY <1>8, <1>9, <2>1, PostKept DEF IInv
<1> QED BY <1>10, <1>11

LEMMA FailsKeeps ==
  ASSUME IInv, NEW o \in Operations, NEW pc \in {"request", "socket", "receiving", "seat", "written"},
         NEW failures \in SUBSET (HttpFailures \cup Closes), Fails(o, pc, failures)
  PROVE  IInv'
<1>1. /\ policy \in Policies /\ task \in Tasks /\ conn \in Conns /\ gui \in Guis /\ live \in Lives
      /\ activity \in Activities /\ posting \in Postings /\ world \in Worlds /\ seen \in Seens
  BY TypeParts DEF IInv
<1>2. /\ task[o].pc = pc /\ (\A p \in Operations : task[p].pc # "failed")
      /\ UNCHANGED <<conn, gui, live, activity, posting>> /\ policy' = Ending(o) /\ Event
  BY DEF Fails, Runs
<1>3. PICK failure \in failures :
        /\ task' = [task EXCEPT ![o].pc = "failed", ![o].failure = failure]
        /\ seen' = Told(o, failure)
  BY DEF Fails
<1>4. failure \in Reasons /\ "failed" \in Pcs
  BY DEF Reasons, Pcs
<1>5. /\ task' \in Tasks /\ task'[o].pc = "failed" /\ task'[o].failure = failure
      /\ task'[o].at = task[o].at /\ \A p \in Operations \ {o} : Still(p)
  BY <1>1, <1>3, <1>4, FellIs
<1>6. Goes(o)
  BY <1>2, <1>5 DEF Goes
<1>7. policy' \in Policies /\ Firmer(policy, policy')
  BY <1>1, <1>2, EndingIs
<1>8. task[o].at \in Places
  BY <1>1 DEF Tasks, TaskType
<1> DEFINE least == Least(o, failure)
           asks(p) == IF p = o \/ failure \in Shared THEN Larger(seen.asked[p], least)
                      ELSE seen.asked[p]
<1>9. least \in Wait /\ least \in Nat
  BY BaseIs, WaitIs
<1>10. \A p \in Operations : seen.asked[p] \in Wait /\ seen.asked[p] \in Nat
  BY <1>1, WaitIs DEF Seens
<1>11. seen' = IF failure = "permanent" THEN [seen EXCEPT !.banned = @ \cup {<<o, task[o].at>>}]
               ELSE [seen EXCEPT !.asked = [p \in Operations |-> asks(p)]]
  BY <1>3 DEF Told, Least
<1> HIDE DEF least
<1>12. \A p \in Operations : /\ asks(p) \in Wait
                             /\ asks(p) = seen.asked[p] \/ (asks(p) = least /\ (p = o \/ failure \in Shared))
  BY <1>9, <1>10 DEF Larger
<1> HIDE DEF asks
<1>13. [p \in Operations |-> asks(p)] \in [Operations -> Wait]
  BY <1>12
<1>14. /\ seen' \in Seens /\ seen'.lost = seen.lost /\ seen'.stored = seen.stored
       /\ seen'.banned = IF failure = "permanent" THEN seen.banned \cup {<<o, task[o].at>>}
                         ELSE seen.banned
       /\ \A p \in Operations :
            seen'.asked[p] = IF failure = "permanent" THEN seen.asked[p] ELSE asks(p)
  BY <1>1, <1>8, <1>11, <1>13 DEF Seens
<1>15. TypeOK'
  BY <1>1, <1>2, <1>5, <1>7, <1>14, EventIs, TypePartsNext
<1>16. GuiWaits
  BY <1>2 DEF GuiWaits
<1>17. Owned'
  BY <1>6, <1>16, GoesOwned
<1>18. Waiting'
  BY <1>2, <1>7, WaitingKept DEF Gui
<1>19. Received'
  BY <1>2, <1>6, <1>14, GoesQueue, ReceivedKept
<1>20. ASSUME NEW p \in Operations
       PROVE  \/ seen'.asked[p] <= Until(policy', p)
              \/ \E x \in Operations :
                   /\ Tells(x, p)'
                   /\ seen'.asked[p] <= Larger(BaseDelay(x, task'[x].failure),
                                               ServerDelay(task'[x].failure))
  <2>1. seen.asked[p] <= Until(policy, p)
    BY <1>2 DEF IInv, Owed, Tells
  <2>2. Until(policy, p) \in Nat /\ Until(policy', p) \in Nat /\ Until(policy', p) >= Until(policy, p)
    BY <1>1, <1>7, UntilIs, WaitIs DEF Firmer
  <2>3. CASE seen'.asked[p] = seen.asked[p]
    BY <1>10, <2>1, <2>2, <2>3
  <2>4. CASE seen'.asked[p] # seen.asked[p]
    <3>1. failure # "permanent" /\ seen'.asked[p] = least /\ (p = o \/ failure \in Shared)
      BY <1>12, <1>14, <2>4
    <3>2. Tells(o, p)'
      BY <1>5, <3>1 DEF Tells
    <3>3. seen'.asked[p] <= Larger(BaseDelay(o, task'[o].failure), ServerDelay(task'[o].failure))
      BY <1>5, <1>9, <3>1 DEF least, Least
    <3> QED BY <3>2, <3>3
  <2> QED BY <2>3, <2>4
<1>21. ASSUME NEW x \in seen'.banned
       PROVE  \/ x \in policy'.stopped
              \/ \E y \in Operations :
                   task'[y].pc = "failed" /\ task'[y].failure = "permanent" /\ x = <<y, task'[y].at>>
  <2>1. CASE x \in seen.banned
    BY <1>2, <1>7, <2>1 DEF IInv, Owed, Firmer
  <2>2. CASE x \notin seen.banned
    BY <1>5, <1>14, <1>21, <2>2
  <2> QED BY <2>1, <2>2
<1>22. Owed'
  BY <1>20, <1>21 DEF Owed
<1>23. Shown'
  BY <1>2, <1>14 DEF IInv, Shown
<1>24. Attempted'
  <2>1. CASE o = "posting"
    BY <1>2, <1>5, <1>14, <2>1 DEF IInv, Attempted
  <2>2. CASE o # "posting"
    <3>1. SamePost
      BY <1>2, <1>5, <1>14, <2>2, OperationsAre DEF SamePost
    <3> QED BY <3>1, PostKept
  <2> QED BY <2>1, <2>2
<1> QED BY <1>15, <1>17, <1>18, <1>19, <1>22, <1>23, <1>24 DEF IInv

LEMMA RecordKeeps == ASSUME IInv, NEW o \in Operations, Record(o) PROVE IInv'
<1>1. /\ policy \in Policies /\ task \in Tasks /\ conn \in Conns /\ gui \in Guis /\ live \in Lives
      /\ activity \in Activities /\ posting \in Postings /\ world \in Worlds /\ seen \in Seens
  BY TypeParts DEF IInv
<1>2. /\ task[o].pc = "failed" /\ UNCHANGED <<conn, gui, live, activity, world, seen>>
  BY DEF Record
<1> DEFINE pc == IF o = "live" THEN "publish" ELSE "done"
           failure == task[o].failure
<1>3. PICK jitter \in Jitter : policy' = Failed(o, task[o].at, failure, jitter)
  BY DEF Record
<1>4. /\ task' \in Tasks /\ task'[o].pc = pc /\ task'[o].failure = "none"
      /\ task'[o].at = task[o].at /\ \A p \in Operations \ {o} : Still(p)
  <2>1. task' = [task EXCEPT ![o].pc = pc, ![o].failure = "none"]
    BY DEF Record
  <2>2. pc \in Pcs /\ "none" \in Reasons
    BY DEF Pcs, Reasons
  <2> HIDE DEF pc
  <2> QED BY <1>1, <2>1, <2>2, FellIs
<1>5. Goes(o)
  BY <1>2, <1>4 DEF Goes
<1>6. task[o].at \in Places
  BY <1>1 DEF Tasks, TaskType
<1>7. /\ policy' \in Policies /\ Firmer(policy, policy')
      /\ failure = "permanent" => <<o, task[o].at>> \in policy'.stopped
      /\ failure # "permanent" =>
           \A p \in Operations : p = o \/ failure \in Shared => Until(policy', p) >= Least(o, failure)
  <2> HIDE DEF failure
  <2> QED BY <1>1, <1>3, <1>6, FailedIs
<1>8. posting' \in Postings /\ posting'.phase = posting.phase
  BY <1>1 DEF Record, Postings
<1>9. TypeOK'
  BY <1>1, <1>2, <1>4, <1>7, <1>8, TypePartsNext
<1>10. Owned'
  BY <1>2, <1>5, <1>8, GoesOwned DEF GuiWaits
<1>11. Waiting'
  BY <1>2, <1>7, WaitingKept DEF Gui
<1>12. Received'
  BY <1>2, <1>5, GoesQueue, ReceivedKept
<1>13. ASSUME NEW p \in Operations
       PROVE  \/ seen'.asked[p] <= Until(policy', p)
              \/ \E x \in Operations :
                   /\ Tells(x, p)'
                   /\ seen'.asked[p] <= Larger(BaseDelay(x, task'[x].failure),
                                               ServerDelay(task'[x].failure))
  <2>1. /\ seen.asked[p] \in Nat /\ Until(policy, p) \in Nat /\ Until(policy', p) \in Nat
        /\ Until(policy', p) >= Until(policy, p)
    BY <1>1, <1>7, UntilIs, WaitIs DEF Firmer, Seens
  <2>2. CASE seen.asked[p] <= Until(policy, p)
    BY <1>2, <2>1, <2>2
  <2>3. CASE \E x \in Operations :
               /\ Tells(x, p)
               /\ seen.asked[p] <= Larger(BaseDelay(x, task[x].failure),
                                          ServerDelay(task[x].failure))
    <3>1. PICK x \in Operations :
            /\ Tells(x, p)
            /\ seen.asked[p] <= Larger(BaseDelay(x, task[x].failure), ServerDelay(task[x].failure))
      BY <2>3
    <3>2. CASE x = o
      <4>1. Until(policy', p) >= Least(o, failure)
        BY <1>7, <3>1, <3>2 DEF Tells
      <4>2. Least(o, failure) \in Nat /\ seen.asked[p] <= Least(o, failure)
        BY <3>1, <3>2, BaseIs, WaitIs DEF Least
      <4> QED BY <1>2, <2>1, <4>1, <4>2
    <3>3. CASE x # o
      BY <1>2, <1>4, <3>1, <3>3 DEF Still, Tells
    <3> QED BY <3>2, <3>3
  <2> QED BY <2>2, <2>3 DEF IInv, Owed
<1>14. ASSUME NEW x \in seen'.banned
       PROVE  \/ x \in policy'.stopped
              \/ \E y \in Operations :
                   task'[y].pc = "failed" /\ task'[y].failure = "permanent" /\ x = <<y, task'[y].at>>
  <2>1. CASE x \in policy.stopped
    BY <1>7, <2>1 DEF Firmer
  <2>2. CASE \E y \in Operations :
               task[y].pc = "failed" /\ task[y].failure = "permanent" /\ x = <<y, task[y].at>>
    <3>1. PICK y \in Operations :
            task[y].pc = "failed" /\ task[y].failure = "permanent" /\ x = <<y, task[y].at>>
      BY <2>2
    <3> QED BY <1>4, <1>7, <3>1 DEF Still
  <2> QED BY <1>2, <1>14, <2>1, <2>2 DEF IInv, Owed
<1>15. Owed'
  BY <1>13, <1>14 DEF Owed
<1>16. CASE o = "posting"
  <2>1. posting.phase # "idle"
    BY <1>2, <1>16 DEF IInv, Owned
  <2>2. posting.outcome = "none" /\ (~posting.sent => ~seen.stored)
    BY <1>2, <1>16, <2>1 DEF IInv, Attempted
  <2>3. /\ posting'.phase = posting.phase /\ posting'.status = posting.status
        /\ posting'.sent = posting.sent /\ posting'.draft = posting.draft
        /\ posting'.outcome = IF ~posting.sent THEN "failed" ELSE posting.outcome
    BY <1>1, <1>16 DEF Postings, Record
  <2>4. Shown'
    BY <1>2, <2>1, <2>3 DEF IInv, Shown
  <2>5. Attempted'
    BY <1>2, <1>4, <1>16, <2>1, <2>2, <2>3 DEF Attempted
  <2> QED BY <1>9, <1>10, <1>11, <1>12, <1>15, <2>4, <2>5 DEF IInv
<1>17. CASE o # "posting"
  <2>1. SamePost
    BY <1>2, <1>4, <1>17, OperationsAre DEF SamePost, Record
  <2> QED BY <1>9, <1>10, <1>11, <1>12, <1>15, <2>1, PostKept DEF IInv
<1> QED BY <1>16, <1>17


LEMMA ListedKeeps == ASSUME IInv, Listed PROVE IInv'
<1>1. /\ policy \in Policies /\ task \in Tasks /\ conn \in Conns /\ gui \in Guis /\ live \in Lives
      /\ activity \in Activities /\ posting \in Postings /\ world \in Worlds /\ seen \in Seens
  BY TypeParts DEF IInv
<1>2. /\ task["live"].pc = "request"
      /\ UNCHANGED <<policy, conn, gui, live, activity, posting, world, seen>>
  BY DEF Listed, Runs
<1>3. PICK pc \in {"socket", "publish"} : To("live", pc)
  BY DEF Listed
<1>4. Moved("live", pc)
  BY <1>1, <1>3, OperationsAre, ToIs DEF Pcs
<1>5. Goes("live")
  BY <1>2, <1>4, OperationsAre, MovedGoes
<1>6. TypeOK'
  BY <1>1, <1>2, <1>4, TypePartsNext DEF Moved
<1>7. Owned' /\ Owed' /\ Received' /\ Waiting'
  BY <1>1, <1>2, <1>4, <1>5, OperationsAre, FirmerSame, MovedKeeps DEF Moved, GuiWaits
<1>8. SamePost
  BY <1>2, <1>5, OperationsAre DEF SamePost, Goes
<1> QED BY <1>6, <1>7, <1>8, PostKept DEF IInv

LEMMA FlushedKeeps == ASSUME IInv, Flushed PROVE IInv'
<1>1. /\ policy \in Policies /\ task \in Tasks /\ conn \in Conns /\ gui \in Guis /\ live \in Lives
      /\ activity \in Activities /\ posting \in Postings /\ world \in Worlds /\ seen \in Seens
  BY TypeParts DEF IInv
<1>2. /\ task["live"].pc = "flush"
      /\ UNCHANGED <<policy, conn, gui, live, activity, posting, world, seen>>
  BY DEF Flushed, Runs
<1>3. Moved("live", "done")
  BY <1>1, OperationsAre, ToIs DEF Pcs, Flushed
<1>4. Goes("live")
  BY <1>2, <1>3, OperationsAre, MovedGoes DEF Gone
<1>5. TypeOK'
  BY <1>1, <1>2, <1>3, TypePartsNext DEF Moved
<1>6. Owned' /\ Owed' /\ Received' /\ Waiting'
  BY <1>1, <1>2, <1>3, <1>4, OperationsAre, FirmerSame, MovedKeeps DEF Moved, GuiWaits
<1>7. SamePost
  BY <1>2, <1>4, OperationsAre DEF SamePost, Goes
<1> QED BY <1>5, <1>6, <1>7, PostKept DEF IInv

\* What the reception's own steps do not touch, whatever they do to the connection.
LEMMA LiveKeeps ==
  ASSUME IInv, NEW pc \in Pcs, Moved("live", pc), task["live"].pc \notin {"none", "done", "panicked", "failed"},
         task["live"].pc = "flush" => pc \in Gone,
         UNCHANGED <<policy, gui, live, activity, posting, world, seen>>,
         conn' \in Conns, conn'.queue = conn.queue, conn'.dropped = conn.dropped,
         conn'.state = "over" => conn.state = "over" \/ pc \in Gone
  PROVE  IInv'
<1>1. /\ policy \in Policies /\ task \in Tasks /\ conn \in Conns /\ gui \in Guis /\ live \in Lives
      /\ activity \in Activities /\ posting \in Postings /\ world \in Worlds /\ seen \in Seens
  BY TypeParts DEF IInv
<1>2. Goes("live")
  BY OperationsAre, MovedGoes
<1>3. TypeOK'
  BY <1>1, TypePartsNext DEF Moved
<1>4. Owned'
  BY <1>2, OperationsAre, GoesOwned DEF GuiWaits
<1>5. SameOwed
  BY <1>2 DEF SameOwed, Goes
<1>6. Owed'
  BY <1>1, <1>5, FirmerSame, OwedKept
<1>7. task["live"].pc \in Gone => task'["live"].pc \in Gone
  BY DEF Gone, Moved
<1>8. SameQueue
  BY <1>7 DEF SameQueue, Moved
<1>9. Received' /\ Waiting'
  BY <1>1, <1>8, FirmerSame, ReceivedKept, WaitingKept DEF Gui
<1>10. SamePost
  BY OperationsAre DEF SamePost, Moved
<1> QED BY <1>3, <1>4, <1>6, <1>9, <1>10, PostKept DEF IInv

LEMMA SubscribedKeeps == ASSUME IInv, Subscribed PROVE IInv'
<1>1. /\ task \in Tasks /\ conn \in Conns
  BY TypeParts DEF IInv
<1>2. task["live"].pc = "socket" /\ conn' = [conn EXCEPT !.state = "receiving"]
  BY DEF Subscribed, Runs
<1>3. Moved("live", "receiving")
  BY <1>1, OperationsAre, ToIs DEF Pcs, Subscribed
<1>4. /\ conn' \in Conns /\ conn'.queue = conn.queue /\ conn'.dropped = conn.dropped
      /\ conn'.state = "receiving"
  BY <1>1, <1>2 DEF Conns
<1> QED BY <1>2, <1>3, <1>4, LiveKeeps DEF Pcs, Subscribed

LEMMA PublishKeeps == ASSUME IInv, Publish PROVE IInv'
<1>1. /\ task \in Tasks /\ conn \in Conns
  BY TypeParts DEF IInv
<1>2. task["live"].pc = "publish" /\ conn' = [conn EXCEPT !.state = "over"]
  BY DEF Publish
<1>3. PICK pc \in {"flush", "done"} : To("live", pc)
  BY DEF Publish
<1>4. Moved("live", pc)
  BY <1>1, <1>3, OperationsAre, ToIs DEF Pcs
<1>5. conn' \in Conns /\ conn'.queue = conn.queue /\ conn'.dropped = conn.dropped
  BY <1>1, <1>2 DEF Conns
<1>6. pc \in Gone /\ pc \in Pcs
  BY DEF Gone, Pcs
<1> QED BY <1>2, <1>4, <1>5, <1>6, LiveKeeps DEF Publish

LEMMA ReceivesKeeps == ASSUME IInv, Receives PROVE IInv'
<1>1. /\ policy \in Policies /\ task \in Tasks /\ conn \in Conns /\ gui \in Guis /\ live \in Lives
      /\ activity \in Activities /\ posting \in Postings /\ world \in Worlds /\ seen \in Seens
  BY TypeParts DEF IInv
<1>2. /\ task["live"].pc = "receiving"
      /\ UNCHANGED <<policy, task, gui, live, activity, posting, world>>
  BY DEF Receives, Runs
<1>3. /\ conn' \in Conns /\ conn'.state = conn.state /\ seen' \in Seens
      /\ (conn.dropped => conn'.dropped)
      /\ seen'.asked = seen.asked /\ seen'.banned = seen.banned /\ seen'.stored = seen.stored
      /\ seen'.lost => seen.lost \/ conn'.dropped
  <2>1. QUEUE \in Nat /\ conn.queue \in 0 .. QUEUE
    BY <1>1, NumbersAssumption DEF Conns
  <2>2. CASE conn.queue < QUEUE
    <3>1. conn.queue + 1 \in 0 .. QUEUE
      BY <2>1, <2>2
    <3> QED BY <1>1, <2>2, <3>1 DEF Receives, Conns, Seens
  <2>3. CASE ~(conn.queue < QUEUE)
    BY <1>1, <2>3 DEF Receives, Conns, Seens
  <2> QED BY <2>2, <2>3
<1>4. TypeOK'
  BY <1>1, <1>2, <1>3, TypePartsNext
<1>5. Owned'
  BY <1>2 DEF IInv, Owned
<1>6. SameOwed
  BY <1>2, <1>3 DEF SameOwed, Still
<1>7. Owed' /\ Waiting'
  BY <1>1, <1>2, <1>6, FirmerSame, OwedKept, WaitingKept DEF Gui
<1>8. SamePost
  BY <1>2, <1>3 DEF SamePost, Still
<1>9. task["live"].pc \notin Gone
  BY <1>2 DEF Gone
<1>10. ~(gui.pc = "settle" /\ Ends)
  BY <1>9 DEF IInv, Received, Draining, Ends
<1>11. Received'
  BY <1>2, <1>3, <1>9, <1>10 DEF IInv, Received, Ends
<1> QED BY <1>4, <1>5, <1>7, <1>8, <1>11, PostKept DEF IInv

LEMMA DisconnectedKeeps == ASSUME IInv, Disconnected PROVE IInv'
<1>1. /\ policy \in Policies /\ task \in Tasks /\ conn \in Conns /\ gui \in Guis /\ live \in Lives
      /\ activity \in Activities /\ posting \in Postings /\ world \in Worlds /\ seen \in Seens
  BY TypeParts DEF IInv
<1>2. /\ task["live"].pc = "receiving" /\ policy' = Ending("live")
      /\ task' = [task EXCEPT !["live"].pc = "failed", !["live"].failure = "temporary"]
      /\ UNCHANGED <<conn, gui, live, activity, posting, world, seen>>
  BY DEF Disconnected, Runs
<1>3. /\ task' \in Tasks /\ task'["live"].pc = "failed" /\ task'["live"].at = task["live"].at
      /\ \A p \in Operations \ {"live"} : Still(p)
  <2>1. "failed" \in Pcs /\ "temporary" \in Reasons
    BY DEF Pcs, Reasons, HttpFailures
  <2> QED BY <1>1, <1>2, <2>1, OperationsAre, FellIs
<1>4. Goes("live")
  BY <1>2, <1>3 DEF Goes
<1>5. policy' \in Policies /\ Firmer(policy, policy')
  BY <1>1, <1>2, OperationsAre, EndingIs
<1>6. TypeOK'
  BY <1>1, <1>2, <1>3, <1>5, TypePartsNext
<1>7. Owned' /\ Owed' /\ Received' /\ Waiting'
  BY <1>2, <1>3, <1>4, <1>5, OperationsAre, MovedKeeps DEF GuiWaits
<1>8. SamePost
  BY <1>2, <1>3, OperationsAre DEF SamePost
<1> QED BY <1>6, <1>7, <1>8, PostKept DEF IInv

LEMMA FetchedKeeps == ASSUME IInv, Fetched PROVE IInv'
<1>1. /\ policy \in Policies /\ task \in Tasks /\ conn \in Conns /\ gui \in Guis /\ live \in Lives
      /\ activity \in Activities /\ posting \in Postings /\ world \in Worlds /\ seen \in Seens
  BY TypeParts DEF IInv
<1>2. task["activity"].pc = "request" /\ UNCHANGED <<conn, gui, live, activity, posting, world, seen>>
  BY DEF Fetched, Runs
<1>3. Moved("activity", "done")
  BY <1>1, OperationsAre, ToIs DEF Pcs, Fetched
<1>4. Goes("activity")
  BY <1>2, <1>3, OperationsAre, MovedGoes
<1>5. policy' \in Policies /\ Firmer(policy, policy')
  BY <1>1, FetchedIs DEF Fetched
<1>6. TypeOK'
  BY <1>1, <1>2, <1>3, <1>5, TypePartsNext DEF Moved
<1>7. Owned' /\ Owed' /\ Received' /\ Waiting'
  BY <1>2, <1>3, <1>4, <1>5, OperationsAre, MovedKeeps DEF GuiWaits, Moved
<1>8. SamePost
  BY <1>2, <1>3, OperationsAre DEF SamePost, Moved
<1> QED BY <1>6, <1>7, <1>8, PostKept DEF IInv


\* An attempt that ends claims no more than it did.
LEMMA PostEnds ==
  ASSUME IInv, posting' = posting, seen' = seen, task'["posting"].pc \in {"done", "panicked"}
  PROVE  Shown' /\ Attempted'
BY DEF IInv, Shown, Attempted

LEMMA SeatedKeeps == ASSUME IInv, Seated PROVE IInv'
<1>1. /\ policy \in Policies /\ task \in Tasks /\ conn \in Conns /\ gui \in Guis /\ live \in Lives
      /\ activity \in Activities /\ posting \in Postings /\ world \in Worlds /\ seen \in Seens
  BY TypeParts DEF IInv
<1>2. /\ task["posting"].pc = "request"
      /\ UNCHANGED <<policy, conn, gui, live, activity, posting, world, seen>>
  BY DEF Seated, Runs
<1>3. Moved("posting", "seat")
  BY <1>1, OperationsAre, ToIs DEF Pcs, Seated
<1>4. Goes("posting")
  BY <1>2, <1>3, OperationsAre, MovedGoes
<1>5. TypeOK'
  BY <1>1, <1>2, <1>3, TypePartsNext DEF Moved
<1>6. Owned' /\ Owed' /\ Received' /\ Waiting'
  BY <1>1, <1>2, <1>3, <1>4, OperationsAre, FirmerSame, MovedKeeps DEF GuiWaits, Moved
<1>7. Shown' /\ Attempted'
  BY <1>2, <1>3 DEF IInv, Shown, Attempted, Moved
<1> QED BY <1>5, <1>6, <1>7 DEF IInv

LEMMA WriteKeeps == ASSUME IInv, Write PROVE IInv'
<1>1. /\ policy \in Policies /\ task \in Tasks /\ conn \in Conns /\ gui \in Guis /\ live \in Lives
      /\ activity \in Activities /\ posting \in Postings /\ world \in Worlds /\ seen \in Seens
  BY TypeParts DEF IInv
<1>2. /\ task["posting"].pc = "seat" /\ posting' = [posting EXCEPT !.sent = TRUE]
      /\ UNCHANGED <<policy, conn, gui, live, activity, world>>
  BY DEF Write, Runs
<1>3. PICK stored \in BOOLEAN : seen' = [seen EXCEPT !.stored = stored]
  BY DEF Write
<1>4. Moved("posting", "written")
  BY <1>1, OperationsAre, ToIs DEF Pcs, Write
<1>5. Goes("posting")
  BY <1>2, <1>4, OperationsAre, MovedGoes
<1>6. /\ posting' \in Postings /\ posting'.phase = posting.phase /\ posting'.status = posting.status
      /\ posting'.sent /\ posting'.draft = posting.draft /\ posting'.outcome = posting.outcome
  BY <1>1, <1>2 DEF Postings
<1>7. /\ seen' \in Seens /\ seen'.asked = seen.asked /\ seen'.banned = seen.banned
      /\ seen'.lost = seen.lost
  BY <1>1, <1>3 DEF Seens
<1>8. TypeOK'
  BY <1>1, <1>2, <1>4, <1>6, <1>7, TypePartsNext DEF Moved
<1>9. Owned'
  BY <1>2, <1>5, <1>6, OperationsAre, GoesOwned DEF GuiWaits
<1>10. SameOwed
  BY <1>2, <1>4, <1>7 DEF SameOwed, Moved
<1>11. Owed' /\ Waiting'
  BY <1>1, <1>2, <1>10, FirmerSame, OwedKept, WaitingKept DEF Gui
<1>12. SameQueue
  BY <1>2, <1>5, <1>7, OperationsAre, GoesQueue
<1>13. Received'
  BY <1>2, <1>12, ReceivedKept
<1>14. posting.phase # "idle"
  BY <1>2 DEF IInv, Owned
<1>15. posting.outcome = "none"
  BY <1>2, <1>14 DEF IInv, Attempted
<1>16. Shown'
  <2>1. posting.phase \in {"running", "stopping"}
    BY <1>1, <1>14 DEF Postings
  <2>2. posting.status \in {"sending", "idle"}
    BY <2>1 DEF IInv, Shown
  <2> QED BY <1>6, <1>14, <2>2 DEF IInv, Shown
<1>17. Attempted'
  BY <1>4, <1>6, <1>15 DEF Attempted, Moved
<1> QED BY <1>8, <1>9, <1>11, <1>13, <1>16, <1>17 DEF IInv

LEMMA AcknowledgedKeeps == ASSUME IInv, Acknowledged PROVE IInv'
<1>1. /\ policy \in Policies /\ task \in Tasks /\ conn \in Conns /\ gui \in Guis /\ live \in Lives
      /\ activity \in Activities /\ posting \in Postings /\ world \in Worlds /\ seen \in Seens
  BY TypeParts DEF IInv
<1>2. /\ task["posting"].pc = "written" /\ seen.stored
      /\ UNCHANGED <<policy, conn, gui, live, activity, posting, world, seen>>
  BY DEF Acknowledged, Runs
<1>3. Moved("posting", "acked")
  BY <1>1, OperationsAre, ToIs DEF Pcs, Acknowledged
<1>4. Goes("posting")
  BY <1>2, <1>3, OperationsAre, MovedGoes
<1>5. TypeOK'
  BY <1>1, <1>2, <1>3, TypePartsNext DEF Moved
<1>6. Owned' /\ Owed' /\ Received' /\ Waiting'
  BY <1>1, <1>2, <1>3, <1>4, OperationsAre, FirmerSame, MovedKeeps DEF GuiWaits, Moved
<1>7. Shown' /\ Attempted'
  BY <1>2, <1>3 DEF IInv, Shown, Attempted, Moved
<1> QED BY <1>5, <1>6, <1>7 DEF IInv

LEMMA PostedKeeps == ASSUME IInv, Posted PROVE IInv'
<1>1. /\ policy \in Policies /\ task \in Tasks /\ conn \in Conns /\ gui \in Guis /\ live \in Lives
      /\ activity \in Activities /\ posting \in Postings /\ world \in Worlds /\ seen \in Seens
  BY TypeParts DEF IInv
<1>2. /\ task["posting"].pc = "acked" /\ posting' = [posting EXCEPT !.outcome = "sent"]
      /\ policy' = [policy EXCEPT !.failures["posting"] = 0]
      /\ UNCHANGED <<conn, gui, live, activity, world, seen>>
  BY DEF Posted, Runs
<1>3. Moved("posting", "done")
  BY <1>1, OperationsAre, ToIs DEF Pcs, Posted
<1>4. Goes("posting")
  BY <1>2, <1>3, OperationsAre, MovedGoes
<1>5. policy' \in Policies /\ Firmer(policy, policy')
  BY <1>1, <1>2, OperationsAre, ForgivenIs
<1>6. /\ posting' \in Postings /\ posting'.phase = posting.phase /\ posting'.status = posting.status
      /\ posting'.sent = posting.sent /\ posting'.draft = posting.draft /\ posting'.outcome = "sent"
  BY <1>1, <1>2 DEF Postings
<1>7. TypeOK'
  BY <1>1, <1>2, <1>3, <1>5, <1>6, TypePartsNext DEF Moved
<1>8. Owned' /\ Owed' /\ Received' /\ Waiting'
  BY <1>2, <1>3, <1>4, <1>5, <1>6, OperationsAre, MovedKeeps DEF GuiWaits, Moved
<1>9. posting.phase # "idle"
  BY <1>2 DEF IInv, Owned
<1>10. seen.stored /\ posting.sent /\ seen' = seen
  BY <1>2, <1>9 DEF IInv, Attempted
<1>11. Shown'
  BY <1>6, <1>9, <1>10 DEF IInv, Shown
<1>12. Attempted'
  BY <1>3, <1>6, <1>10 DEF Attempted, Moved
<1> QED BY <1>7, <1>8, <1>11, <1>12 DEF IInv

\* An attempt that is known to have failed.
LEMMA LostKeeps ==
  ASSUME IInv, NEW pc \in Pcs, Moved("posting", "done"), task["posting"].pc = pc,
         pc \in {"request", "seat", "written"},
         UNCHANGED <<policy, conn, gui, live, activity, seen>>, world' \in Worlds,
         posting' = [posting EXCEPT !.outcome = "failed"], ~seen.stored
  PROVE  IInv'
<1>1. /\ policy \in Policies /\ task \in Tasks /\ conn \in Conns /\ gui \in Guis /\ live \in Lives
      /\ activity \in Activities /\ posting \in Postings /\ seen \in Seens
  BY TypeParts DEF IInv
<1>2. Goes("posting")
  BY OperationsAre, MovedGoes
<1>3. /\ posting' \in Postings /\ posting'.phase = posting.phase /\ posting'.status = posting.status
      /\ posting'.sent = posting.sent /\ posting'.draft = posting.draft /\ posting'.outcome = "failed"
  BY <1>1 DEF Postings
<1>4. TypeOK'
  BY <1>1, <1>3, TypePartsNext DEF Moved
<1>5. Owned' /\ Owed' /\ Received' /\ Waiting'
  BY <1>1, <1>2, <1>3, OperationsAre, FirmerSame, MovedKeeps DEF GuiWaits, Moved
<1>6. posting.phase # "idle"
  BY DEF IInv, Owned
<1>7. Shown'
  BY <1>3, <1>6 DEF IInv, Shown
<1>8. Attempted'
  BY <1>3 DEF Attempted, Moved
<1> QED BY <1>4, <1>5, <1>7, <1>8 DEF IInv

LEMMA RefusedKeeps == ASSUME IInv, Refused PROVE IInv'
<1>1. task \in Tasks /\ world \in Worlds
  BY TypeParts DEF IInv
<1>2. Moved("posting", "done")
  BY <1>1, OperationsAre, ToIs DEF Pcs, Refused
<1>3. /\ task["posting"].pc = "written" /\ ~seen.stored
      /\ posting' = [posting EXCEPT !.outcome = "failed"]
      /\ UNCHANGED <<policy, conn, gui, live, activity, world, seen>>
  BY DEF Refused, Runs
<1> QED BY <1>1, <1>2, <1>3, LostKeeps DEF Pcs

\* A task that ends without a word of its own.
LEMMA EndsKeeps ==
  ASSUME IInv, NEW o \in Operations, NEW pc \in {"done", "panicked"}, Moved(o, pc),
         task[o].pc \in Awaits, policy' \in Policies, Firmer(policy, policy'),
         UNCHANGED <<conn, gui, live, activity, posting, seen>>, world' \in Worlds
  PROVE  IInv'
<1>1. /\ task \in Tasks /\ conn \in Conns /\ gui \in Guis /\ live \in Lives
      /\ activity \in Activities /\ posting \in Postings /\ seen \in Seens
  BY TypeParts DEF IInv
<1>2. task[o].pc \notin {"none", "done", "panicked", "failed"} /\ pc \in Gone
  BY DEF Awaits, Gone
<1>3. Goes(o)
  BY <1>2, MovedGoes
<1>4. TypeOK'
  BY <1>1, TypePartsNext DEF Moved
<1>5. Owned' /\ Owed' /\ Received' /\ Waiting'
  BY <1>2, <1>3, MovedKeeps DEF GuiWaits, Moved
<1>6. Shown' /\ Attempted'
  <2>1. CASE o = "posting"
    BY <2>1, PostEnds DEF Moved
  <2>2. CASE o # "posting"
    BY <2>2, OperationsAre, PostKept DEF SamePost, Moved
  <2> QED BY <2>1, <2>2
<1> QED BY <1>4, <1>5, <1>6 DEF IInv

LEMMA AbortsKeeps == ASSUME IInv, NEW o \in Operations, Aborts(o) PROVE IInv'
<1>1. policy \in Policies /\ task \in Tasks /\ world \in Worlds
  BY TypeParts DEF IInv
<1>2. Moved(o, "done")
  BY <1>1, ToIs DEF Pcs, Aborts
<1>3. policy' \in Policies /\ Firmer(policy, policy')
  BY <1>1, EndingIs DEF Aborts
<1>4. task[o].pc \in Awaits /\ UNCHANGED <<conn, gui, live, activity, posting, world, seen>>
  BY DEF Aborts, Runs
<1> QED BY <1>1, <1>2, <1>3, <1>4, EndsKeeps

LEMMA PanicsKeeps == ASSUME IInv, NEW o \in Operations, Panics(o) PROVE IInv'
<1>1. policy \in Policies /\ task \in Tasks /\ world \in Worlds
  BY TypeParts DEF IInv
<1>2. Moved(o, "panicked")
  BY <1>1, ToIs DEF Pcs, Panics
<1>3. policy' \in Policies /\ Firmer(policy, policy')
  BY <1>1, EndingIs DEF Panics
<1>4. world' \in Worlds
  BY <1>1, EventIs DEF Panics
<1>5. task[o].pc \in Awaits /\ UNCHANGED <<conn, gui, live, activity, posting, seen>>
  BY DEF Panics, Runs
<1> QED BY <1>2, <1>3, <1>4, <1>5, EndsKeeps

LEMMA BreaksKeeps == ASSUME IInv, Breaks PROVE IInv'
<1>1. policy \in Policies /\ task \in Tasks /\ world \in Worlds
  BY TypeParts DEF IInv
<1>2. Moved("posting", "done")
  BY <1>1, OperationsAre, ToIs DEF Pcs, Breaks
<1>3. world' \in Worlds /\ UNCHANGED <<policy, conn, gui, live, activity, seen>>
  BY <1>1, EventIs DEF Breaks
<1>4. PICK pc \in {"request", "seat", "written"} : task["posting"].pc = pc
  BY DEF Breaks, Runs
<1>5. CASE posting.sent
  <2>1. posting' = posting /\ task["posting"].pc \in Awaits
    BY <1>4, <1>5 DEF Breaks, Awaits
  <2> QED BY <1>1, <1>2, <1>3, <2>1, OperationsAre, FirmerSame, EndsKeeps
<1>6. CASE ~posting.sent
  <2>1. posting.phase # "idle"
    BY <1>4 DEF IInv, Owned
  <2>2. posting' = [posting EXCEPT !.outcome = "failed"] /\ ~seen.stored
    BY <1>6, <2>1 DEF IInv, Attempted, Breaks
  <2>3. pc \in Pcs
    BY DEF Pcs
  <2> QED BY <1>2, <1>3, <1>4, <2>2, <2>3, LostKeeps
<1> QED BY <1>5, <1>6

-----------------------------------------------------------------------------
(* The steps of the update of the GUI.                                     *)

\* What the poll saw of an end is the end.
Looked ==
  /\ gui'.pc \in Draining /\ gui'.state \in Terminal => task["live"].pc \in Gone
  /\ gui'.pc = "settle" /\ Ends' => conn'.queue = 0

\* A step of the poll that reads.
LEMMA ReadKeeps ==
  ASSUME IInv, ~Gui("poll"), gui' \in Guis, Looked,
         UNCHANGED <<policy, task, conn, live, activity, posting, world, seen>>
  PROVE  IInv'
<1>1. /\ policy \in Policies /\ task \in Tasks /\ conn \in Conns /\ gui \in Guis /\ live \in Lives
      /\ activity \in Activities /\ posting \in Postings /\ world \in Worlds /\ seen \in Seens
  BY TypeParts DEF IInv
<1>2. TypeOK'
  BY <1>1, TypePartsNext
<1>3. Owned'
  BY DEF IInv, Owned
<1>4. SameOwed
  BY DEF SameOwed, Still
<1>5. Owed' /\ Waiting'
  BY <1>1, <1>4, FirmerSame, OwedKept, WaitingKept
<1>6. Received'
  BY DEF IInv, Received, Looked
<1>7. SamePost
  BY DEF SamePost, Still
<1> QED BY <1>2, <1>3, <1>5, <1>6, <1>7, PostKept DEF IInv

LEMMA BorrowKeeps == ASSUME IInv, Borrow PROVE IInv'
<1>1. conn \in Conns /\ gui \in Guis
  BY TypeParts DEF IInv
<1>2. /\ gui' \in Guis /\ gui'.state = conn.state /\ gui'.pc \in {"dropped", "finished"}
  BY <1>1 DEF Borrow, Guis, Conns
<1>3. conn.state \in Terminal => conn.state = "over"
  BY <1>1 DEF Conns, Terminal
<1>4. Looked
  BY <1>2, <1>3 DEF Looked, IInv, Received
<1> QED BY <1>2, <1>4, ReadKeeps DEF Borrow, Gui

LEMMA IsFinishedKeeps == ASSUME IInv, IsFinished PROVE IInv'
<1>1. gui \in Guis
  BY TypeParts DEF IInv
<1>2. /\ gui.pc = "finished" /\ gui' \in Guis /\ gui'.pc = "dropped"
      /\ gui'.state = IF Finished("live") THEN "lost" ELSE gui.state
  BY <1>1 DEF IsFinished, Guis, Gui
<1>3. Finished("live") => task["live"].pc \in Gone
  BY DEF Finished, Gone
<1>4. Looked
  BY <1>2, <1>3 DEF Looked, IInv, Received, Draining
<1> QED BY <1>2, <1>4, ReadKeeps DEF IsFinished, Gui

LEMMA DrainedKeeps == ASSUME IInv, Drained PROVE IInv'
<1>1. conn \in Conns /\ gui \in Guis /\ MAX_POLL \in Nat
  BY TypeParts, NumbersAssumption DEF IInv
<1>2. /\ gui.pc = "drain" /\ gui' \in Guis /\ gui'.pc = "settle"
      /\ gui'.state = gui.state /\ gui'.taken = gui.taken
  BY <1>1 DEF Drained, Guis, Gui, Then
<1>3. Ends' => conn.queue = 0
  BY <1>1, <1>2 DEF Drained, Ends, Guis
<1>4. Looked
  BY <1>2, <1>3 DEF Looked, IInv, Received, Draining, Drained
<1> QED BY <1>2, <1>4, ReadKeeps DEF Drained, Gui

LEMMA ReadEpochKeeps == ASSUME IInv, ReadEpoch PROVE IInv'
<1>1. gui \in Guis
  BY TypeParts DEF IInv
<1>2. gui.pc = "epoch" /\ gui' \in Guis /\ gui'.pc \in {"gaps", "posting"}
  BY <1>1 DEF ReadEpoch, Guis, Gui, Then
<1>3. Looked
  BY <1>2 DEF Looked, Draining
<1> QED BY <1>2, <1>3, ReadKeeps DEF ReadEpoch, Gui

\* What the policy and the posting say of a step that leaves them and the tasks alone.
LEMMA CalmKeeps ==
  ASSUME IInv, UNCHANGED <<policy, task, activity, posting, world>>,
         seen'.asked = seen.asked, seen'.banned = seen.banned, seen'.stored = seen.stored,
         live'.phase = live.phase
  PROVE  Owned' /\ Owed' /\ Shown' /\ Attempted'
<1>1. policy \in Policies
  BY TypeParts DEF IInv
<1>2. Owned'
  BY DEF IInv, Owned
<1>3. SameOwed
  BY DEF SameOwed, Still
<1>4. SamePost
  BY DEF SamePost, Still
<1> QED BY <1>1, <1>2, <1>3, <1>4, FirmerSame, OwedKept, PostKept

LEMMA NoteDroppedKeeps == ASSUME IInv, NoteDropped PROVE IInv'
<1>1. /\ policy \in Policies /\ task \in Tasks /\ conn \in Conns /\ gui \in Guis /\ live \in Lives
      /\ activity \in Activities /\ posting \in Postings /\ world \in Worlds /\ seen \in Seens
  BY TypeParts DEF IInv
<1>2. /\ gui.pc = "dropped" /\ gui' \in Guis /\ gui'.pc = "drain" /\ gui'.state = gui.state
  BY <1>1 DEF NoteDropped, Guis, Gui, Then
<1>3. /\ live' \in Lives /\ live'.desired = live.desired /\ live'.phase = live.phase
      /\ live'.retry = live.retry /\ (live'.bumped <=> live.bumped \/ conn.dropped)
  BY <1>1 DEF NoteDropped, Lives, Conns
<1>4. /\ conn' \in Conns /\ conn'.state = conn.state /\ conn'.queue = conn.queue
  BY <1>1 DEF NoteDropped, Conns
<1>5. UNCHANGED <<policy, task, activity, posting, world, seen>>
  BY DEF NoteDropped
<1>6. TypeOK'
  BY <1>1, <1>2, <1>3, <1>4, <1>5, TypePartsNext
<1>7. Owned' /\ Owed' /\ Shown' /\ Attempted'
  BY <1>3, <1>5, CalmKeeps
<1>8. Received'
  BY <1>2, <1>3, <1>4, <1>5 DEF IInv, Received, Draining
<1>9. Waiting'
  BY <1>2, <1>3, <1>5 DEF IInv, Waiting, Gui
<1> QED BY <1>6, <1>7, <1>8, <1>9 DEF IInv

LEMMA TakeKeeps == ASSUME IInv, Take PROVE IInv'
<1>1. /\ policy \in Policies /\ task \in Tasks /\ conn \in Conns /\ gui \in Guis /\ live \in Lives
      /\ activity \in Activities /\ posting \in Postings /\ world \in Worlds /\ seen \in Seens
  BY TypeParts DEF IInv
<1>2. /\ gui.pc = "drain" /\ gui' \in Guis /\ gui'.pc = "drain" /\ gui'.state = gui.state
  <2>1. MAX_POLL \in Nat /\ gui.taken \in 0 .. MAX_POLL /\ gui.taken < MAX_POLL
    BY <1>1, NumbersAssumption DEF Take, Guis
  <2>2. gui.taken + 1 \in 0 .. MAX_POLL
    BY <2>1
  <2> QED BY <1>1, <2>2 DEF Take, Guis, Gui
<1>3. /\ conn' \in Conns /\ conn'.state = conn.state /\ conn'.dropped = conn.dropped
  <2>1. QUEUE \in Nat /\ conn.queue \in 0 .. QUEUE /\ conn.queue > 0
    BY <1>1, NumbersAssumption DEF Take, Conns
  <2>2. conn.queue - 1 \in 0 .. QUEUE
    BY <2>1
  <2> QED BY <1>1, <2>2 DEF Take, Conns
<1>4. UNCHANGED <<policy, task, live, activity, posting, world, seen>>
  BY DEF Take
<1>5. TypeOK'
  BY <1>1, <1>2, <1>3, <1>4, TypePartsNext
<1>6. Owned' /\ Owed' /\ Shown' /\ Attempted'
  BY <1>4, CalmKeeps
<1>7. Received'
  BY <1>2, <1>3, <1>4 DEF IInv, Received, Draining
<1>8. Waiting'
  BY <1>2, <1>4 DEF IInv, Waiting, Gui
<1> QED BY <1>5, <1>6, <1>7, <1>8 DEF IInv

LEMMA ReportEpochKeeps == ASSUME IInv, ReportEpoch PROVE IInv'
<1>1. /\ policy \in Policies /\ task \in Tasks /\ conn \in Conns /\ gui \in Guis /\ live \in Lives
      /\ activity \in Activities /\ posting \in Postings /\ world \in Worlds /\ seen \in Seens
  BY TypeParts DEF IInv
<1>2. /\ gui.pc = "gaps" /\ gui' \in Guis /\ gui'.pc = "posting"
  BY <1>1 DEF ReportEpoch, Guis, Gui, Then
<1>3. UNCHANGED <<policy, task, conn, activity, posting, world>>
  BY DEF ReportEpoch
<1>4. /\ live' \in Lives /\ live'.desired = live.desired /\ live'.phase = live.phase
      /\ live'.retry = live.retry
  BY <1>1 DEF ReportEpoch, Lives
<1>5. /\ seen' \in Seens /\ seen'.asked = seen.asked /\ seen'.banned = seen.banned
      /\ seen'.stored = seen.stored
  BY <1>1 DEF ReportEpoch, Seens
<1>6. seen'.lost => live'.bumped \/ conn'.dropped
  <2>1. CASE Reports
    <3>1. seen'.lost = FALSE
      BY <1>1, <2>1 DEF ReportEpoch, Seens
    <3> QED BY <3>1
  <2>2. CASE ~Reports
    BY <1>3, <2>2 DEF ReportEpoch, IInv, Received
  <2> QED BY <2>1, <2>2
<1>7. TypeOK'
  BY <1>1, <1>2, <1>3, <1>4, <1>5, TypePartsNext
<1>8. Owned' /\ Owed' /\ Shown' /\ Attempted'
  BY <1>3, <1>4, <1>5, CalmKeeps
<1>9. Received'
  BY <1>2, <1>3, <1>4, <1>6 DEF IInv, Received, Draining
<1>10. Waiting'
  BY <1>2, <1>3, <1>4 DEF IInv, Waiting, Gui
<1> QED BY <1>7, <1>8, <1>9, <1>10 DEF IInv

LEMMA EditKeeps == ASSUME IInv, Edit PROVE IInv'
<1>1. /\ policy \in Policies /\ task \in Tasks /\ conn \in Conns /\ gui \in Guis /\ live \in Lives
      /\ activity \in Activities /\ posting \in Postings /\ world \in Worlds /\ seen \in Seens
  BY TypeParts DEF IInv
<1>2. posting.phase = "idle" /\ UNCHANGED <<policy, task, conn, gui, live, activity, world, seen>>
  BY DEF Edit, MayEdit
<1>3. /\ posting' \in Postings /\ posting'.phase = posting.phase /\ posting'.status = posting.status
      /\ posting'.sent = posting.sent /\ posting'.outcome = posting.outcome
  BY <1>1 DEF Edit, Postings
<1>4. TypeOK'
  BY <1>1, <1>2, <1>3, TypePartsNext
<1>5. Owned'
  BY <1>2, <1>3 DEF IInv, Owned
<1>6. SameOwed
  BY <1>2 DEF SameOwed, Still
<1>7. SameQueue
  BY <1>2 DEF SameQueue
<1>8. Owed' /\ Waiting' /\ Received'
  BY <1>1, <1>2, <1>6, <1>7, FirmerSame, OwedKept, WaitingKept, ReceivedKept DEF Gui
<1>9. Shown' /\ Attempted'
  BY <1>2, <1>3 DEF IInv, Shown, Attempted
<1> QED BY <1>4, <1>5, <1>8, <1>9 DEF IInv


LEMMA SettleKeeps == ASSUME IInv, Settle PROVE IInv'
<1>1. /\ policy \in Policies /\ task \in Tasks /\ conn \in Conns /\ gui \in Guis /\ live \in Lives
      /\ activity \in Activities /\ posting \in Postings /\ world \in Worlds /\ seen \in Seens
  BY TypeParts DEF IInv
<1>2. gui.pc = "settle" /\ UNCHANGED <<conn, activity, posting, world, seen>>
  BY DEF Settle, Gui
<1>3. CASE Ends
  <2>1. gui' \in Guis /\ gui'.pc = "posting"
    BY <1>1, <1>3 DEF Settle, Guis, Then
  <2>2. live.desired \in Places
    BY <1>1 DEF Lives
  <2>3. policy' \in Policies /\ Firmer(policy, policy')
    <3>1. policy' = policy \/ \E jitter \in Jitter :
                                policy' = Failed("live", live.desired, "temporary", jitter)
      BY <1>3 DEF Settle
    <3> QED BY <1>1, <2>2, <3>1, OperationsAre, FirmerSame, FailedIs
  <2> DEFINE until == Until(policy', "live")
             retry == IF Stopped(policy', "live", live.desired) \/ until = 0 THEN None ELSE until
  <2>4. until \in Wait /\ until \in Nat /\ until <= Larger(until, LIVE_DELAY) /\ LIVE_DELAY \in Nat
    <3>1. until \in Wait /\ until \in Nat
      BY <2>3, OperationsAre, UntilIs, WaitIs
    <3>2. LIVE_DELAY \in Nat
      BY NumbersAssumption
    <3> HIDE DEF until
    <3> QED BY <3>1, <3>2 DEF Larger
  <2>5. live' = [live EXCEPT !.phase = "stopping", !.retry = retry]
    BY <1>3 DEF Settle
  <2>6. retry \in Wait \cup {None} /\ (retry # None => retry <= Larger(until, LIVE_DELAY))
    BY <2>4
  <2> HIDE DEF retry
  <2>7. /\ live' \in Lives /\ live'.phase = "stopping" /\ live'.retry = retry
        /\ live'.bumped = live.bumped
    BY <1>1, <2>5, <2>6 DEF Lives
  <2>8. /\ task' \in Tasks /\ \A o \in Operations : Still(o)
    <3>1. task' = [task EXCEPT !["live"].aborted = TRUE]
      BY <1>3 DEF Settle
    <3>2. task["live"] \in TaskType
      BY <1>1, OperationsAre DEF Tasks
    <3> DEFINE next == [task["live"] EXCEPT !.aborted = TRUE]
    <3>3. /\ next \in TaskType /\ next.pc = task["live"].pc /\ next.at = task["live"].at
          /\ next.failure = task["live"].failure
      BY <3>2 DEF TaskType
    <3>4. task' = [task EXCEPT !["live"] = next]
      BY <3>1
    <3> HIDE DEF next
    <3> QED BY <1>1, <3>3, <3>4, OperationsAre DEF Tasks, Still
  <2>9. TypeOK'
    BY <1>1, <1>2, <2>1, <2>3, <2>7, <2>8, TypePartsNext
  <2>10. Owned'
    BY <1>2, <2>7, <2>8, OperationsAre DEF IInv, Owned, Still, Resting
  <2>11. SameOwed /\ SamePost
    BY <1>2, <2>8, OperationsAre DEF SameOwed, SamePost
  <2>12. Owed' /\ Shown' /\ Attempted'
    BY <2>3, <2>11, OwedKept, PostKept
  <2>13. task'["live"].pc = task["live"].pc
    BY <2>8, OperationsAre DEF Still
  <2>14. Received'
    BY <1>2, <2>1, <2>7, <2>13 DEF IInv, Received, Draining
  <2>15. Waiting'
    BY <2>6, <2>7 DEF Waiting
  <2> QED BY <2>9, <2>10, <2>12, <2>14, <2>15 DEF IInv
<1>4. CASE ~Ends
  <2>1. gui' \in Guis /\ gui'.pc = "epoch"
    BY <1>1, <1>4 DEF Settle, Guis, Then
  <2>2. Looked
    BY <2>1 DEF Looked, Draining
  <2>3. UNCHANGED <<policy, task, live>>
    BY <1>4 DEF Settle
  <2> QED BY <1>2, <2>1, <2>2, <2>3, ReadKeeps DEF Gui
<1> QED BY <1>3, <1>4

LEMMA NewIs ==
  ASSUME NEW at \in Places
  PROVE  /\ NoTask \in TaskType /\ NoTask.pc = "none"
         /\ Task(at) \in TaskType /\ Task(at).pc = "start" /\ Task(at).at = at
<1>1. NoTask \in TaskType
  BY DEF NoTask, TaskType, Pcs, Places, Reasons
<1> QED BY <1>1 DEF Task, TaskType, NoTask, Pcs

LEMMA PollKeeps == ASSUME IInv, Poll PROVE IInv'
<1>1. /\ policy \in Policies /\ task \in Tasks /\ conn \in Conns /\ gui \in Guis /\ live \in Lives
      /\ activity \in Activities /\ posting \in Postings /\ world \in Worlds /\ seen \in Seens
  BY TypeParts DEF IInv
<1> DEFINE joined == live.phase = "stopping" /\ Finished("live")
           broken == joined /\ task["live"].pc = "panicked"
           waits == IF joined THEN live.retry # None ELSE live.phase = "waiting"
           idle == (joined \/ live.phase \in {"idle", "waiting"}) /\ (waits => live.retry <= 0)
           connects == idle /\ ~broken /\ live.desired # None
           allowed == Allowed("live", live.desired)
           stopped == Stopped(policy, "live", live.desired)
           until == Until(policy, "live")
           left == IF joined THEN [task EXCEPT !["live"] = NoTask] ELSE task
<1>2. /\ gui.pc = "poll" /\ gui' = [gui EXCEPT !.pc = IF live'.phase = "running" THEN "borrow" ELSE "posting"]
      /\ live' =
           IF broken
           THEN [live EXCEPT !.phase = IF live.desired = None THEN "idle" ELSE "waiting",
                             !.retry = IF live.desired = None THEN None ELSE LIVE_DELAY]
           ELSE IF connects
           THEN [live EXCEPT !.phase = IF allowed THEN "running"
                                       ELSE IF stopped THEN "blocked"
                                       ELSE "waiting",
                             !.retry = IF allowed \/ stopped THEN None
                                       ELSE until,
                             !.bumped = @ \/ allowed]
           ELSE IF idle THEN [live EXCEPT !.phase = "idle", !.retry = None]
           ELSE IF joined THEN [live EXCEPT !.phase = "waiting"]
           ELSE live
      /\ task' = IF connects /\ allowed THEN [left EXCEPT !["live"] = Task(live.desired)] ELSE left
      /\ conn' = IF connects /\ allowed THEN Fresh ELSE conn
      /\ seen' = [seen EXCEPT !.lost = @ \/ (connects /\ allowed)]
      /\ UNCHANGED <<policy, activity, posting, world>>
  BY DEF Poll, Gui, Then
<1>3. live.desired \in Places /\ live.retry \in Wait \cup {None}
  BY <1>1 DEF Lives
<1>4. /\ until \in Wait /\ until \in Nat /\ LIVE_DELAY \in Nat /\ LIVE_DELAY \in Wait
      /\ until <= Larger(until, LIVE_DELAY) /\ LIVE_DELAY <= Larger(until, LIVE_DELAY)
  <2>1. until \in Wait /\ until \in Nat
    BY <1>1, OperationsAre, UntilIs, WaitIs
  <2>2. LIVE_DELAY \in Nat /\ LIVE_DELAY <= Larger(MAX_DELAY, RETRY_AFTER)
    BY NumbersAssumption DEF Larger
  <2>3. LIVE_DELAY \in Wait
    BY <2>2, WaitIs
  <2> HIDE DEF until
  <2> QED BY <2>1, <2>2, <2>3 DEF Larger
<1>5. None \notin Nat
  BY ServicesAssumption
<1>6. ~joined => left = task
  OBVIOUS
<1>7. joined => left \in Tasks /\ left["live"] = NoTask
  BY <1>1, <1>3, NewIs, OperationsAre DEF Tasks
<1>8. left \in Tasks /\ \A o \in Operations \ {"live"} : left[o] = task[o]
  BY <1>1, <1>3, NewIs, OperationsAre DEF Tasks
<1>9. /\ task' \in Tasks /\ \A o \in Operations \ {"live"} : task'[o] = task[o]
      /\ connects /\ allowed => task'["live"] = Task(live.desired)
      /\ ~(connects /\ allowed) => task' = left
  <2> HIDE DEF left, connects, allowed
  <2> QED BY <1>2, <1>3, <1>8, NewIs, OperationsAre DEF Tasks
<1>10. task["live"].pc = "failed" => Still("live")
  <2>1. task["live"].pc = "failed" => ~joined /\ live.phase \notin Resting
    BY DEF Finished, IInv, Owned
  <2>2. task["live"].pc = "failed" => ~connects /\ left = task
    BY <2>1 DEF Resting
  <2> QED BY <1>2, <2>2 DEF Still
<1>11. live.retry # None => live.retry \in Nat /\ live.retry <= Larger(until, LIVE_DELAY)
  BY <1>3, WaitIs DEF IInv, Waiting
<1>12. gui' \in Guis /\ gui'.pc \in {"borrow", "posting"}
  BY <1>1, <1>2 DEF Guis
<1>13. conn' \in Conns
  <2>1. Fresh \in Conns
    BY NumbersAssumption DEF Fresh, Conns
  <2> QED BY <1>1, <1>2, <2>1
<1>14. /\ seen' \in Seens /\ seen'.asked = seen.asked /\ seen'.banned = seen.banned
       /\ seen'.stored = seen.stored /\ (seen'.lost => seen.lost \/ (connects /\ allowed))
  <2> HIDE DEF connects, allowed
  <2> QED BY <1>1, <1>2 DEF Seens
<1>15. /\ live' \in Lives /\ live'.desired = live.desired
       /\ live'.bumped = IF ~broken /\ connects /\ allowed THEN TRUE ELSE live.bumped
  <2> DEFINE phase == IF allowed THEN "running" ELSE IF stopped THEN "blocked" ELSE "waiting"
             retry == IF allowed \/ stopped THEN None ELSE until
             bumped == live.bumped \/ allowed
  <2>1. allowed \in BOOLEAN
    BY DEF Allowed
  <2>2. phase \in {"idle", "running", "stopping", "waiting", "blocked"} /\ retry \in Wait \cup {None}
    BY <1>4
  <2>3. bumped \in BOOLEAN /\ (allowed => bumped = TRUE) /\ (~allowed => bumped = live.bumped)
    BY <1>1, <2>1 DEF Lives
  <2>4. [live EXCEPT !.phase = phase, !.retry = retry, !.bumped = bumped] \in Lives
        /\ [live EXCEPT !.phase = phase, !.retry = retry, !.bumped = bumped].desired = live.desired
        /\ [live EXCEPT !.phase = phase, !.retry = retry, !.bumped = bumped].bumped = bumped
    <3> HIDE DEF phase, retry, bumped
    <3> QED BY <1>1, <2>2, <2>3 DEF Lives
  <2>5. CASE broken
    BY <1>1, <1>2, <1>4, <2>5 DEF Lives
  <2>6. CASE ~broken /\ connects
    <3>1. live' = [live EXCEPT !.phase = phase, !.retry = retry, !.bumped = bumped]
      BY <1>2, <2>6
    <3> QED BY <2>3, <2>4, <2>6, <3>1
  <2>7. CASE ~broken /\ ~connects
    BY <1>1, <1>2, <2>7 DEF Lives
  <2> QED BY <2>5, <2>6, <2>7
<1>16. TypeOK'
  BY <1>1, <1>2, <1>9, <1>12, <1>13, <1>14, <1>15, TypePartsNext
<1>17. SameOwed
  <2>1. ASSUME NEW o \in Operations, task[o].pc = "failed" PROVE Still(o)
    BY <1>9, <1>10, <2>1 DEF Still
  <2> QED BY <1>14, <2>1 DEF SameOwed
<1>18. SamePost
  <2>1. Still("posting")
    BY <1>9, OperationsAre DEF Still
  <2> QED BY <1>2, <1>14, <2>1 DEF SamePost
<1>19. Owed' /\ Shown' /\ Attempted'
  BY <1>1, <1>2, <1>17, <1>18, FirmerSame, OwedKept, PostKept
<1>20. task'["activity"].pc = task["activity"].pc /\ task'["posting"].pc = task["posting"].pc
  BY <1>9, OperationsAre
<1>21. NoTask.pc = "none" /\ Task(live.desired).at = live.desired
  BY <1>3, NewIs
\* What the reception is then, and its task.
<1>22. CASE broken
  <2>1. live'.phase = (IF live.desired = None THEN "idle" ELSE "waiting")
        /\ live'.retry = (IF live.desired = None THEN None ELSE LIVE_DELAY)
    BY <1>1, <1>2, <1>22 DEF Lives
  <2>2. task'["live"].pc = "none" /\ conn' = conn
    BY <1>2, <1>7, <1>9, <1>21, <1>22
  <2>3. Owned'
    BY <1>2, <1>20, <2>2 DEF IInv, Owned
  <2>4. Received'
    <3>1. seen'.lost => live'.bumped \/ conn'.dropped
      BY <1>14, <1>15, <1>22, <2>2 DEF IInv, Received
    <3> QED BY <1>12, <2>1, <2>2, <3>1 DEF Received, Draining, Gone
  <2>5. Waiting'
    BY <1>2, <1>4, <1>5, <1>15, <2>1 DEF Waiting
  <2> QED BY <1>16, <1>19, <2>3, <2>4, <2>5 DEF IInv
<1>23. CASE ~broken /\ connects /\ allowed
  <2>1. live'.phase = "running" /\ live'.retry = None
    BY <1>1, <1>2, <1>23 DEF Lives
  <2>2. task'["live"] = Task(live.desired) /\ conn' = Fresh /\ live'.bumped = TRUE
    BY <1>2, <1>9, <1>15, <1>23
  <2>3. Owned'
    BY <1>2, <1>20, <2>1 DEF IInv, Owned, Resting
  <2>4. Received'
    BY <1>12, <1>15, <1>21, <2>1, <2>2 DEF Received, Draining, Fresh
  <2>5. Waiting'
    BY <2>1 DEF Waiting
  <2> QED BY <1>16, <1>19, <2>3, <2>4, <2>5 DEF IInv
<1>24. CASE ~broken /\ ~(connects /\ allowed) /\ (idle \/ joined)
  <2>1. task'["live"].pc = "none" /\ conn' = conn
    <3>1. task' = left /\ conn' = conn
      BY <1>2, <1>9, <1>24
    <3>2. joined => left["live"].pc = "none"
      BY <1>7, <1>21
    <3>3. ~joined => left["live"].pc = "none"
      BY <1>24 DEF IInv, Owned, Resting
    <3> QED BY <3>1, <3>2, <3>3
  <2>2. live'.phase \in {"idle", "waiting", "blocked"}
        /\ (live'.phase = "blocked" => stopped)
        /\ (live'.phase = "idle" => live.desired = None)
    BY <1>1, <1>2, <1>24 DEF Lives
  <2>3. /\ live'.phase = "waiting" => live'.retry # None
        /\ live'.retry # None => live'.retry <= Larger(until, LIVE_DELAY)
    <3>1. CASE connects
      <4>1. live'.phase = (IF stopped THEN "blocked" ELSE "waiting")
            /\ live'.retry = (IF stopped THEN None ELSE until)
        BY <1>1, <1>2, <1>24, <3>1 DEF Lives
      <4> HIDE DEF until
      <4> QED BY <1>4, <1>5, <4>1
    <3>2. CASE ~connects /\ idle
      <4>1. live'.phase = "idle" /\ live'.retry = None
        BY <1>1, <1>2, <1>24, <3>2 DEF Lives
      <4> QED BY <4>1
    <3>3. CASE ~connects /\ ~idle
      <4>1. live'.retry = live.retry
        BY <1>1, <1>2, <1>24, <3>3 DEF Lives
      <4>2. live.retry # None
        BY <1>24, <3>3
      <4> QED BY <1>11, <4>1, <4>2
    <3> QED BY <3>1, <3>2, <3>3
  <2>4. Owned'
    BY <1>2, <1>20, <2>1 DEF IInv, Owned
  <2>5. Received'
    <3>1. seen'.lost => live'.bumped \/ conn'.dropped
      BY <1>14, <1>15, <1>24, <2>1 DEF IInv, Received
    <3> QED BY <1>12, <2>1, <2>2, <3>1 DEF Received, Draining, Gone
  <2>6. Waiting'
    BY <1>2, <1>15, <2>2, <2>3 DEF Waiting
  <2> QED BY <1>16, <1>19, <2>4, <2>5, <2>6 DEF IInv
<1>25. CASE ~idle /\ ~joined
  <2>1. live' = live /\ task' = task /\ conn' = conn
    BY <1>2, <1>25
  <2>2. live.phase # "idle"
    BY <1>25
  <2>3. Owned'
    BY <1>2, <2>1 DEF IInv, Owned
  <2>4. Received'
    <3>1. seen'.lost => live'.bumped \/ conn'.dropped
      BY <1>14, <1>25, <2>1 DEF IInv, Received
    <3> QED BY <1>12, <2>1, <3>1 DEF IInv, Received, Draining
  <2>5. Waiting'
    BY <1>2, <2>1, <2>2 DEF IInv, Waiting
  <2> QED BY <1>16, <1>19, <2>3, <2>4, <2>5 DEF IInv
<1> QED BY <1>22, <1>23, <1>24, <1>25


LEMMA UpdateKeeps ==
  ASSUME IInv, NEW enabled \in BOOLEAN, NEW service \in Services \cup {None},
         Update(enabled, service)
  PROVE  IInv'
<1>1. /\ policy \in Policies /\ task \in Tasks /\ conn \in Conns /\ gui \in Guis /\ live \in Lives
      /\ activity \in Activities /\ posting \in Postings /\ world \in Worlds /\ seen \in Seens
  BY TypeParts DEF IInv
<1> DEFINE acquisition == Acquisition(enabled)
           channel == IF service = None THEN None ELSE ChannelOf[service]
           other == service # posting.target
           moved == channel # live.desired
<1>2. /\ gui' = [gui EXCEPT !.pc = "poll"]
      /\ activity' = [enabled |-> enabled,
                      phase |-> IF acquisition = "new" THEN "fetching" ELSE acquisition]
      /\ posting' = IF ~other THEN posting
                    ELSE [posting EXCEPT !.target = service, !.status = "idle", !.draft = "empty",
                                         !.phase = IF @ = "idle" THEN @ ELSE "stopping"]
      /\ live' = IF moved THEN Retargeted(channel) ELSE live
      /\ UNCHANGED <<policy, conn, seen>>
  BY DEF Update, Then
<1>3. channel \in Places
  <2>1. service # None => service \in Services
    OBVIOUS
  <2> QED BY <2>1 DEF Channels, Places
<1>4. world' \in Worlds
  BY <1>1, EventIs DEF Update
<1>5. gui' \in Guis /\ gui'.pc = "poll"
  BY <1>1, <1>2 DEF Guis
<1>6. acquisition \in {"new", "idle", "cancelling"} \/ acquisition = activity.phase
  <2> DEFINE free == activity.phase = "idle" \/ Finished("activity")
             new == free /\ enabled /\ "activity" \in world.uses /\ Allowed("activity", None)
             differs == enabled # activity.enabled
  <2>1. acquisition = IF new THEN "new" ELSE IF free THEN "idle"
                      ELSE IF differs THEN "cancelling" ELSE activity.phase
    BY DEF Acquisition
  <2> HIDE DEF new, free, differs, acquisition
  <2> QED BY <2>1
<1>7. acquisition \in {"new", "idle"} => activity.phase = "idle" \/ Finished("activity")
  <2>1. activity.phase \in {"idle", "fetching", "cancelling"}
    BY <1>1 DEF Activities
  <2> QED BY <2>1 DEF Acquisition
<1>8. acquisition \notin {"new", "idle"} => acquisition # "idle" /\ activity.phase # "idle"
  BY DEF Acquisition
<1>9. activity' \in Activities /\ (activity'.phase = "idle" <=> acquisition = "idle")
  <2> HIDE DEF acquisition
  <2>1. activity.phase \in {"idle", "fetching", "cancelling"}
    BY <1>1 DEF Activities
  <2> QED BY <1>2, <1>6, <2>1 DEF Activities
<1>10. posting' \in Postings
  BY <1>1, <1>2 DEF Postings
<1>11. /\ other => /\ posting'.status = "idle"
                   /\ posting'.phase = IF posting.phase = "idle" THEN "idle" ELSE "stopping"
       /\ ~other => posting'.status = posting.status /\ posting'.phase = posting.phase
                    /\ posting'.draft = posting.draft
       /\ posting'.sent = posting.sent /\ posting'.outcome = posting.outcome
  BY <1>1, <1>2 DEF Postings
<1>12. /\ live' \in Lives /\ live'.desired = channel /\ live'.bumped = live.bumped
       /\ moved => /\ live'.retry = None
                   /\ live'.phase = IF live.phase \in {"running", "stopping"} THEN "stopping" ELSE "idle"
       /\ ~moved => live' = live
  <2> HIDE DEF channel
  <2> QED BY <1>1, <1>2, <1>3 DEF Lives, Retargeted
<1>13. NoTask \in TaskType /\ NoTask.pc = "none" /\ Task(None) \in TaskType /\ Task(None).pc = "start"
  BY NewIs DEF Places
<1> DEFINE marked(o, yes) == [task[o] EXCEPT !.aborted = @ \/ yes]
<1>14. \A o \in Operations, yes \in BOOLEAN :
         /\ marked(o, yes) \in TaskType /\ marked(o, yes).pc = task[o].pc
         /\ marked(o, yes).at = task[o].at /\ marked(o, yes).failure = task[o].failure
  BY <1>1 DEF Tasks, TaskType
<1> DEFINE next(o) ==
             CASE o = "activity" ->
                    IF acquisition = "new" THEN Task(None)
                    ELSE IF acquisition = "idle" THEN NoTask
                    ELSE marked(o, acquisition = "cancelling")
               [] o = "live" -> marked(o, moved /\ live.phase = "running")
               [] OTHER -> marked(o, other /\ posting.phase = "running")
<1>15. task' = [o \in Operations |-> next(o)]
  BY DEF Update
<1> HIDE DEF marked
<1>16. next("live") \in TaskType /\ next("live").pc = task["live"].pc
       /\ next("live").at = task["live"].at /\ next("live").failure = task["live"].failure
  BY <1>14, OperationsAre
<1>17. next("posting") \in TaskType /\ next("posting").pc = task["posting"].pc
       /\ next("posting").at = task["posting"].at /\ next("posting").failure = task["posting"].failure
  BY <1>14, OperationsAre
<1>18. next("activity") \in TaskType
       /\ (acquisition = "idle" => next("activity").pc = "none")
       /\ (acquisition \notin {"new", "idle"} =>
             /\ next("activity").pc = task["activity"].pc
             /\ next("activity").at = task["activity"].at
             /\ next("activity").failure = task["activity"].failure)
  BY <1>13, <1>14, OperationsAre
<1> HIDE DEF next
<1>19. \A o \in Operations : next(o) \in TaskType
  BY <1>16, <1>17, <1>18 DEF Operations
<1>20. task' \in Tasks /\ \A o \in Operations : task'[o] = next(o)
  BY <1>15, <1>19 DEF Tasks
<1>21. Still("live") /\ Still("posting")
  BY <1>16, <1>17, <1>20, OperationsAre DEF Still
<1>22. task["activity"].pc = "failed" => Still("activity")
  <2>1. task["activity"].pc = "failed" => acquisition \notin {"new", "idle"}
    BY <1>7 DEF Finished, IInv, Owned
  <2> QED BY <1>18, <1>20, <2>1, OperationsAre DEF Still
<1>23. TypeOK'
  BY <1>1, <1>2, <1>4, <1>5, <1>9, <1>10, <1>12, <1>20, TypePartsNext
<1>24. Owned'
  <2>1. activity'.phase = "idle" => task'["activity"].pc = "none"
    BY <1>9, <1>18, <1>20, OperationsAre
  <2>2. live'.phase \in Resting => live.phase \in Resting
    <3>1. live.phase \in {"idle", "running", "stopping", "waiting", "blocked"}
      BY <1>1 DEF Lives
    <3> QED BY <1>12, <3>1 DEF Resting
  <2>3. posting'.phase = "idle" => posting.phase = "idle"
    BY <1>11
  <2> QED BY <1>21, <2>1, <2>2, <2>3 DEF IInv, Owned, Still
<1>25. SameOwed
  BY <1>2, <1>21, <1>22 DEF SameOwed, Operations
<1>26. Owed'
  BY <1>1, <1>2, <1>25, FirmerSame, OwedKept
<1>27. Received'
  <2>1. seen'.lost => live'.bumped \/ conn'.dropped
    BY <1>2, <1>12 DEF IInv, Received
  <2>2. live'.phase = "running" => live' = live
    BY <1>12
  <2> QED BY <1>2, <1>5, <1>21, <2>1, <2>2 DEF IInv, Received, Still, Draining
<1>28. Waiting'
  <2>1. CASE moved
    BY <1>5, <1>12, <2>1 DEF Waiting, Gui
  <2>2. CASE ~moved
    BY <1>1, <1>2, <1>5, <1>12, <2>2, FirmerSame, WaitingKept DEF Gui
  <2> QED BY <2>1, <2>2
<1>29. Shown'
  <2>1. posting'.phase = "running" => ~other
    BY <1>11
  <2> QED BY <1>2, <1>11, <2>1 DEF IInv, Shown
<1>30. Attempted'
  <2>1. posting'.phase # "idle" => posting.phase # "idle"
    BY <1>11
  <2> QED BY <1>2, <1>11, <1>21, <2>1 DEF IInv, Attempted, Still
<1> QED BY <1>23, <1>24, <1>26, <1>27, <1>28, <1>29, <1>30 DEF IInv


\* A poll of the posting: what its attempt says is what became of the comment.
PolledWell(p) ==
  /\ p \in Postings
  /\ p.phase = "idle" => /\ ~p.sent /\ p.outcome = "none"
                         /\ task["posting"].pc \in {"none", "done", "panicked"}
  /\ p.phase # "idle" => /\ posting.phase # "idle" /\ p.phase = posting.phase
                         /\ p.sent = posting.sent /\ p.outcome = posting.outcome
  /\ p.phase = "running" => p.status = "sending" /\ p.draft = "posted"
  /\ p.phase = "stopping" => p.status = "idle"
  /\ p.status = "failed" => ~seen.stored
  /\ p.status = "sent" => seen.stored
  /\ posting.draft = "edited" => p.draft = "edited"

LEMMA PolledIs == ASSUME IInv, NEW p \in Polled PROVE PolledWell(p)
<1>1. posting \in Postings /\ POST_INTERVAL \in Nat
  BY TypeParts, NumbersAssumption DEF IInv
<1> DEFINE joined == posting.phase # "idle" /\ Finished("posting")
           result == IF task["posting"].pc = "panicked" \/ posting.outcome = "none"
                     THEN "unknown" ELSE posting.outcome
           told == joined /\ posting.phase = "running"
           phase == IF joined THEN "idle" ELSE posting.phase
           next == IF joined THEN POST_INTERVAL ELSE posting.next
           sent == posting.sent /\ ~joined
           outcome == IF joined THEN "none" ELSE posting.outcome
           draft == IF told /\ result = "sent" THEN "empty" ELSE posting.draft
<1>2. PICK kept \in IF posting.status = "sent" THEN {"sent", "idle"} ELSE {posting.status} :
        p = [posting EXCEPT !.phase = phase, !.next = next, !.sent = sent, !.outcome = outcome,
                            !.status = IF told THEN result ELSE kept, !.draft = draft]
  BY DEF Polled
<1> DEFINE status == IF told THEN result ELSE kept
<1>3. /\ posting.phase \in {"idle", "running", "stopping"} /\ posting.next \in 0 .. POST_INTERVAL
      /\ posting.sent \in BOOLEAN /\ posting.outcome \in {"none", "sent", "failed"}
      /\ posting.draft \in {"empty", "posted", "edited"}
      /\ posting.status \in {"idle", "sending", "sent", "failed", "unknown"}
      /\ POST_INTERVAL \in 0 .. POST_INTERVAL
  BY <1>1 DEF Postings
<1>4. Finished("posting") => task["posting"].pc \in {"done", "panicked"}
  BY DEF Finished
<1>5. joined \in BOOLEAN
  BY DEF Finished
<1>6. told => posting.draft = "posted" /\ posting.status = "sending"
  BY DEF IInv, Shown
<1>7. /\ told /\ result = "failed" => ~seen.stored
      /\ told /\ result = "sent" => seen.stored
  BY DEF IInv, Attempted
<1>8. /\ kept = "failed" => ~seen.stored
      /\ kept = "sent" => seen.stored
      /\ posting.phase = "running" => kept = "sending" /\ posting.draft = "posted"
      /\ posting.phase = "stopping" => kept = "idle"
      /\ kept \in {"idle", "sending", "sent", "failed", "unknown"}
  BY <1>3 DEF IInv, Shown
<1>9. result \in {"unknown", "sent", "failed"}
  BY <1>3
<1>10. phase \in {"idle", "running", "stopping"} /\ next \in 0 .. POST_INTERVAL /\ sent \in BOOLEAN
  BY <1>3, <1>5
<1>11. /\ outcome \in {"none", "sent", "failed"}
       /\ status \in {"idle", "sending", "sent", "failed", "unknown"}
       /\ draft \in {"empty", "posted", "edited"}
  BY <1>3, <1>8, <1>9
<1>12. /\ status = "failed" => ~seen.stored
       /\ status = "sent" => seen.stored
  BY <1>7, <1>8
<1>13. posting.draft = "edited" => draft = "edited"
  BY <1>6
<1>14. phase = "idle" => /\ sent = FALSE /\ outcome = "none"
                         /\ task["posting"].pc \in {"none", "done", "panicked"}
  <2>1. CASE joined
    BY <1>4, <2>1
  <2>2. CASE ~joined
    BY <1>3, <2>2 DEF IInv, Shown, Owned
  <2> QED BY <2>1, <2>2
<1>15. phase # "idle" => /\ ~joined /\ posting.phase # "idle" /\ phase = posting.phase
                         /\ sent = posting.sent /\ outcome = posting.outcome
                         /\ status = kept /\ draft = posting.draft
  BY <1>3
<1>16. /\ phase = "running" => status = "sending" /\ draft = "posted"
       /\ phase = "stopping" => status = "idle"
  BY <1>8, <1>15
<1> HIDE DEF phase, next, sent, outcome, status, draft
<1>17. p = [posting EXCEPT !.phase = phase, !.next = next, !.sent = sent, !.outcome = outcome,
                           !.status = status, !.draft = draft]
  BY <1>2 DEF status
<1>18. /\ p \in Postings /\ p.phase = phase /\ p.sent = sent /\ p.outcome = outcome
       /\ p.status = status /\ p.draft = draft
  <2> DEFINE half == [posting EXCEPT !.phase = phase, !.next = next, !.sent = sent]
  <2>1. half \in Postings /\ half.phase = phase /\ half.sent = sent
    BY <1>1, <1>10 DEF Postings
  <2>2. p = [half EXCEPT !.outcome = outcome, !.status = status, !.draft = draft]
    BY <1>1, <1>17 DEF Postings
  <2> HIDE DEF half
  <2> QED BY <1>11, <2>1, <2>2 DEF Postings
<1> QED BY <1>12, <1>13, <1>14, <1>15, <1>16, <1>18 DEF PolledWell

\* The end of an update: only the posting and its task.
LEMMA PostingFrame ==
  ASSUME IInv, ~Gui("poll"), gui' = [pc |-> "idle", state |-> "none", taken |-> 0],
         UNCHANGED <<policy, conn, live, activity>>,
         task' \in Tasks, Still("live"), Still("activity"),
         task["posting"].pc = "failed" => Still("posting"),
         seen'.asked = seen.asked, seen'.banned = seen.banned, seen'.lost = seen.lost,
         posting'.phase = "idle" => task'["posting"].pc \in {"none", "done", "panicked"}
  PROVE  gui' \in Guis /\ Owned' /\ Owed' /\ Received' /\ Waiting'
<1>1. policy \in Policies /\ live \in Lives
  BY TypeParts DEF IInv
<1>2. gui' \in Guis
  BY NumbersAssumption DEF Guis
<1>3. Owned'
  BY DEF IInv, Owned, Still
<1>4. SameOwed
  BY DEF SameOwed, Operations
<1>5. Owed'
  BY <1>1, <1>4, FirmerSame, OwedKept
<1>6. Received'
  BY DEF IInv, Received, Still, Draining
<1>7. Waiting'
  BY <1>1, FirmerSame, WaitingKept
<1> QED BY <1>2, <1>3, <1>5, <1>6, <1>7

LEMMA PollPostingKeeps == ASSUME IInv, PollPosting PROVE IInv'
<1>1. /\ policy \in Policies /\ task \in Tasks /\ conn \in Conns /\ gui \in Guis /\ live \in Lives
      /\ activity \in Activities /\ posting \in Postings /\ world \in Worlds /\ seen \in Seens
  BY TypeParts DEF IInv
<1>2. /\ gui.pc = "posting" /\ gui' = [pc |-> "idle", state |-> "none", taken |-> 0]
      /\ UNCHANGED <<policy, conn, live, activity, world, seen>>
      /\ task' = [task EXCEPT !["posting"] = IF posting'.phase = "idle" THEN NoTask ELSE @]
  BY DEF PollPosting, Gui, Ended
<1>3. PolledWell(posting')
  BY PolledIs DEF PollPosting
<1>4. NoTask \in TaskType /\ NoTask.pc = "none"
  BY NewIs DEF Places
<1>5. /\ task' \in Tasks /\ Still("live") /\ Still("activity")
      /\ posting'.phase = "idle" => task'["posting"].pc = "none"
      /\ posting'.phase # "idle" => task'["posting"] = task["posting"]
  BY <1>1, <1>2, <1>4, OperationsAre DEF Tasks, Still
<1>6. task["posting"].pc = "failed" => Still("posting")
  BY <1>3, <1>5 DEF PolledWell, Still
<1>7. gui' \in Guis /\ Owned' /\ Owed' /\ Received' /\ Waiting'
  BY <1>2, <1>5, <1>6, PostingFrame DEF Gui
<1>8. TypeOK'
  BY <1>1, <1>2, <1>3, <1>5, <1>7, TypePartsNext DEF PolledWell
<1>9. Shown'
  BY <1>2, <1>3 DEF Shown, PolledWell
<1>10. Attempted'
  BY <1>2, <1>3, <1>5 DEF IInv, Attempted, PolledWell
<1> QED BY <1>7, <1>8, <1>9, <1>10 DEF IInv

LEMMA SubmitKeeps == ASSUME IInv, Submit PROVE IInv'
<1>1. /\ policy \in Policies /\ task \in Tasks /\ conn \in Conns /\ gui \in Guis /\ live \in Lives
      /\ activity \in Activities /\ posting \in Postings /\ world \in Worlds /\ seen \in Seens
  BY TypeParts DEF IInv
<1>2. /\ gui.pc = "posting" /\ gui' = [pc |-> "idle", state |-> "none", taken |-> 0]
      /\ UNCHANGED <<policy, conn, live, activity>> /\ world' \in Worlds
  BY <1>1, EventIs DEF Submit, Gui, Ended
<1>3. /\ seen' \in Seens /\ seen'.asked = seen.asked /\ seen'.banned = seen.banned
      /\ seen'.lost = seen.lost /\ seen'.stored = FALSE
  BY <1>1 DEF Submit, Seens
<1>4. PICK polled \in Polled :
        /\ Available(polled)
        /\ IF polled.draft # "empty" /\ Allowed("posting", ChannelOf[polled.target])
           THEN /\ task' = [task EXCEPT !["posting"] = Task(ChannelOf[polled.target])]
                /\ posting' = [polled EXCEPT !.phase = "running", !.status = "sending",
                                             !.draft = "posted"]
           ELSE posting' = [polled EXCEPT !.status = "failed"] /\ UNCHANGED task
  BY DEF Submit
<1>5. PolledWell(polled)
  BY PolledIs
<1>6. /\ polled \in Postings /\ polled.phase = "idle" /\ polled.sent = FALSE
      /\ polled.outcome = "none" /\ task["posting"].pc \in {"none", "done", "panicked"}
  BY <1>4, <1>5 DEF PolledWell, Available, Postings
<1>7. polled.target \in Services
  BY <1>4, <1>6 DEF Available, Postings
<1> DEFINE at == ChannelOf[polled.target]
<1>8. at \in Places
  BY <1>7 DEF Places, Channels
<1>9. Task(at) \in TaskType /\ Task(at).pc = "start"
  BY <1>8, NewIs
<1>10. CASE polled.draft # "empty" /\ Allowed("posting", at)
  <2>1. task' = [task EXCEPT !["posting"] = Task(at)]
    BY <1>4, <1>10
  <2>2. posting' = [polled EXCEPT !.phase = "running", !.status = "sending", !.draft = "posted"]
    BY <1>4, <1>10
  <2> HIDE DEF at
  <2>3. /\ task' \in Tasks /\ task'["posting"].pc = "start" /\ Still("live") /\ Still("activity")
    BY <1>1, <1>9, <2>1, OperationsAre DEF Tasks, Still
  <2>4. /\ posting' \in Postings /\ posting'.phase = "running" /\ posting'.status = "sending"
        /\ posting'.draft = "posted" /\ posting'.sent = FALSE /\ posting'.outcome = "none"
    BY <1>6, <2>2 DEF Postings
  <2>5. gui' \in Guis /\ Owned' /\ Owed' /\ Received' /\ Waiting'
    BY <1>2, <1>3, <1>6, <2>3, <2>4, PostingFrame DEF Gui
  <2>6. TypeOK'
    BY <1>1, <1>2, <1>3, <2>3, <2>4, <2>5, TypePartsNext
  <2>7. Shown' /\ Attempted'
    BY <1>3, <2>3, <2>4 DEF Shown, Attempted
  <2> QED BY <2>5, <2>6, <2>7 DEF IInv
<1>11. CASE ~(polled.draft # "empty" /\ Allowed("posting", at))
  <2>1. task' = task /\ posting' = [polled EXCEPT !.status = "failed"]
    BY <1>4, <1>11
  <2>2. /\ posting' \in Postings /\ posting'.phase = "idle" /\ posting'.status = "failed"
        /\ posting'.sent = FALSE /\ posting'.outcome = "none"
    BY <1>6, <2>1 DEF Postings
  <2>3. Still("live") /\ Still("activity") /\ Still("posting")
    BY <2>1 DEF Still
  <2>4. gui' \in Guis /\ Owned' /\ Owed' /\ Received' /\ Waiting'
    BY <1>1, <1>2, <1>3, <1>6, <2>1, <2>2, <2>3, PostingFrame DEF Gui
  <2>5. TypeOK'
    BY <1>1, <1>2, <1>3, <2>1, <2>2, <2>4, TypePartsNext
  <2>6. Shown' /\ Attempted'
    BY <1>3, <2>2 DEF Shown, Attempted
  <2> QED BY <2>4, <2>5, <2>6 DEF IInv
<1> QED BY <1>10, <1>11


LEMMA TickKeeps == ASSUME IInv, Tick PROVE IInv'
<1>1. /\ policy \in Policies /\ task \in Tasks /\ conn \in Conns /\ gui \in Guis /\ live \in Lives
      /\ activity \in Activities /\ posting \in Postings /\ world \in Worlds /\ seen \in Seens
  BY TypeParts DEF IInv
<1> DEFINE less(n) == IF n = 0 THEN 0 ELSE n - 1
<1>2. /\ gui.pc = "idle" /\ (\A o \in Operations : task[o].pc # "failed")
      /\ policy' = [policy EXCEPT !.until = [o \in Operations |-> less(policy.until[o])],
                                  !.provider = less(policy.provider)]
      /\ live' = [live EXCEPT !.retry = IF live.retry = None THEN None ELSE less(live.retry)]
      /\ posting' = [posting EXCEPT !.next = less(posting.next)]
      /\ conn' = [conn EXCEPT !.age = IF task["live"].pc = "receiving" THEN Lesser(conn.age + 1, STABLE)
                                      ELSE conn.age]
      /\ seen' = [seen EXCEPT !.asked = [o \in Operations |-> less(seen.asked[o])]]
      /\ UNCHANGED <<task, gui, activity, world>>
  BY DEF Tick, Gui
<1>3. \A n \in Nat : less(n) \in Nat /\ less(n) <= n
  OBVIOUS
<1>4. \A m \in Nat, n \in Nat : m <= n => less(m) <= less(n)
  OBVIOUS
<1> HIDE DEF less
<1>5. \A n \in Wait : n \in Nat /\ less(n) \in Wait
  BY <1>3, WaitIs
<1>6. [o \in Operations |-> less(policy.until[o])] \in [Operations -> Wait]
      /\ less(policy.provider) \in Wait
  <2>1. \A o \in Operations : policy.until[o] \in Wait
    BY <1>1, UntilIs
  <2>2. policy.provider \in Wait
    BY <1>1 DEF Policies
  <2>3. \A o \in Operations : less(policy.until[o]) \in Wait
    BY <1>5, <2>1
  <2> QED BY <1>5, <2>2, <2>3
<1>7. /\ policy' \in Policies /\ policy'.stopped = policy.stopped
      /\ policy'.until = [o \in Operations |-> less(policy.until[o])]
      /\ policy'.provider = less(policy.provider)
  <2> DEFINE until == [o \in Operations |-> less(policy.until[o])]
             provider == less(policy.provider)
  <2> HIDE DEF until, provider
  <2>1. until \in [Operations -> Wait] /\ provider \in Wait
    BY <1>6 DEF until, provider
  <2>2. policy' = [policy EXCEPT !.until = until, !.provider = provider]
    BY <1>2 DEF until, provider
  <2>3. /\ policy' \in Policies /\ policy'.stopped = policy.stopped
        /\ policy'.until = until /\ policy'.provider = provider
    BY <1>1, <2>1, <2>2 DEF Policies
  <2> QED BY <2>3 DEF until, provider
<1>8. \A o \in Operations : Until(policy', o) = less(Until(policy, o)) /\ Until(policy, o) \in Nat
  <2> TAKE o \in Operations
  <2>1. policy.until[o] \in Nat /\ policy.provider \in Nat /\ Until(policy, o) \in Nat
    BY <1>1, UntilIs, WaitIs
  <2>2. policy'.until[o] = less(policy.until[o]) /\ policy'.provider = less(policy.provider)
    BY <1>7
  <2> QED BY <2>1, <2>2 DEF Until, Larger, less
<1>9. [o \in Operations |-> less(seen.asked[o])] \in [Operations -> Wait]
      /\ \A o \in Operations : seen.asked[o] \in Nat
  BY <1>1, <1>5 DEF Seens
<1>10. /\ seen' \in Seens /\ seen'.banned = seen.banned /\ seen'.lost = seen.lost
       /\ seen'.stored = seen.stored /\ seen'.asked = [o \in Operations |-> less(seen.asked[o])]
  <2> DEFINE asked == [o \in Operations |-> less(seen.asked[o])]
  <2>1. asked \in [Operations -> Wait] /\ seen' = [seen EXCEPT !.asked = asked]
    BY <1>2, <1>9
  <2> HIDE DEF asked
  <2>2. /\ seen' \in Seens /\ seen'.banned = seen.banned /\ seen'.lost = seen.lost
        /\ seen'.stored = seen.stored /\ seen'.asked = asked
    BY <1>1, <2>1 DEF Seens
  <2> QED BY <2>2 DEF asked
<1>11. live.retry # None => live.retry \in Nat /\ less(live.retry) \in Wait /\ less(live.retry) \in Nat
  BY <1>1, <1>5, WaitIs DEF Lives
<1>12. /\ live' \in Lives /\ live'.desired = live.desired /\ live'.phase = live.phase
       /\ live'.bumped = live.bumped
       /\ live'.retry = IF live.retry = None THEN None ELSE less(live.retry)
  <2> DEFINE retry == IF live.retry = None THEN None ELSE less(live.retry)
  <2>1. retry \in Wait \cup {None} /\ live' = [live EXCEPT !.retry = retry]
    BY <1>2, <1>11
  <2> HIDE DEF retry
  <2>2. /\ live' \in Lives /\ live'.desired = live.desired /\ live'.phase = live.phase
        /\ live'.bumped = live.bumped /\ live'.retry = retry
    BY <1>1, <2>1 DEF Lives
  <2> QED BY <2>2 DEF retry
<1>13. /\ posting' \in Postings /\ posting'.phase = posting.phase /\ posting'.status = posting.status
       /\ posting'.sent = posting.sent /\ posting'.draft = posting.draft
       /\ posting'.outcome = posting.outcome
  <2> DEFINE next == less(posting.next)
  <2>1. next \in 0 .. POST_INTERVAL
    <3>1. POST_INTERVAL \in Nat /\ posting.next \in 0 .. POST_INTERVAL
      BY <1>1, NumbersAssumption DEF Postings
    <3> QED BY <3>1 DEF less
  <2>2. posting' = [posting EXCEPT !.next = next]
    BY <1>2
  <2> HIDE DEF next
  <2> QED BY <1>1, <2>1, <2>2 DEF Postings
<1>14. /\ conn' \in Conns /\ conn'.state = conn.state /\ conn'.queue = conn.queue
       /\ conn'.dropped = conn.dropped
  <2> DEFINE age == IF task["live"].pc = "receiving" THEN Lesser(conn.age + 1, STABLE) ELSE conn.age
  <2>1. age \in 0 .. STABLE
    <3>1. STABLE \in Nat /\ conn.age \in 0 .. STABLE
      BY <1>1, NumbersAssumption DEF Conns
    <3> QED BY <3>1 DEF Lesser
  <2>2. conn' = [conn EXCEPT !.age = age]
    BY <1>2
  <2> HIDE DEF age
  <2> QED BY <1>1, <2>1, <2>2 DEF Conns
<1>15. TypeOK'
  BY <1>1, <1>2, <1>7, <1>10, <1>12, <1>13, <1>14, TypePartsNext
<1>16. Owned'
  BY <1>2, <1>12, <1>13 DEF IInv, Owned
<1>17. Owed'
  <2>1. ASSUME NEW p \in Operations PROVE seen'.asked[p] <= Until(policy', p)
    <3>1. seen.asked[p] <= Until(policy, p)
      BY <1>2 DEF IInv, Owed, Tells
    <3> QED BY <1>4, <1>8, <1>9, <1>10, <3>1
  <2>2. seen'.banned \subseteq policy'.stopped
    BY <1>2, <1>7, <1>10 DEF IInv, Owed
  <2> QED BY <2>1, <2>2 DEF Owed
<1>18. Received'
  BY <1>2, <1>10, <1>12, <1>14 DEF IInv, Received, Draining
<1>19. Waiting'
  <2> DEFINE u == Until(policy, "live")
  <2>1. u \in Nat /\ Until(policy', "live") = less(u) /\ less(u) \in Nat
    BY <1>3, <1>8, OperationsAre
  <2>2. ASSUME live.retry # None
        PROVE  less(live.retry) <= Larger(less(u), LIVE_DELAY)
    <3>1. live.retry \in Nat /\ live.retry <= Larger(u, LIVE_DELAY) /\ LIVE_DELAY \in Nat
      BY <1>11, <2>2, NumbersAssumption DEF IInv, Waiting
    <3> HIDE DEF u
    <3> QED BY <2>1, <3>1 DEF Larger, less
  <2>3. live'.retry # None => live'.retry <= Larger(Until(policy', "live"), LIVE_DELAY)
    BY <1>12, <2>1, <2>2
  <2>4. live'.phase = "waiting" => live'.retry # None
    BY <1>11, <1>12, ServicesAssumption DEF IInv, Waiting
  <2>5. live'.phase = "blocked" => Stopped(policy', "live", live'.desired)
    BY <1>7, <1>12 DEF IInv, Waiting, Stopped
  <2>6. live'.phase = "idle" /\ live'.desired # None => Gui("poll")'
    BY <1>2, <1>12 DEF IInv, Waiting, Gui
  <2> QED BY <2>3, <2>4, <2>5, <2>6 DEF Waiting
<1>20. Shown' /\ Attempted'
  BY <1>2, <1>10, <1>13 DEF IInv, Shown, Attempted
<1> QED BY <1>15, <1>16, <1>17, <1>18, <1>19, <1>20 DEF IInv

-----------------------------------------------------------------------------
(* The theorems.                                                           *)
LEMMA InitHolds == ASSUME Init PROVE IInv
<1>1. /\ 0 \in Wait /\ 0 \in Nat /\ None \in Places
      /\ \A n \in {QUEUE, MAX_POLL, STABLE, POST_INTERVAL, MaxEvents, MAX_FAILURES} : 0 \in 0 .. n
  BY WaitIs, NumbersAssumption DEF Places, MAX_FAILURES
<1>2. policy \in Policies
  BY <1>1 DEF Init, Policies
<1>3. task \in Tasks /\ \A o \in Operations : task[o].pc = "none"
  BY <1>1, NewIs DEF Init, Tasks
<1>4. conn \in Conns /\ conn.state = "connecting"
  BY <1>1 DEF Init, Conns, Fresh
<1>5. gui \in Guis /\ live \in Lives /\ activity \in Activities
  BY <1>1 DEF Init, Guis, Lives, Activities
<1>6. posting \in Postings
  BY <1>1 DEF Init, Postings
<1>7. world \in Worlds /\ seen \in Seens
  BY <1>1 DEF Init, Worlds, Seens
<1>8. TypeOK
  BY <1>2, <1>3, <1>4, <1>5, <1>6, <1>7, TypeParts
<1>9. Owned
  BY <1>3, OperationsAre DEF Owned
<1>10. Owed
  <2>1. \A p \in Operations : seen.asked[p] = 0 /\ Until(policy, p) = 0
    BY DEF Init, Until, Larger
  <2>2. seen.banned = {}
    BY DEF Init
  <2> QED BY <2>1, <2>2 DEF Owed
<1>11. Received
  BY <1>4 DEF Init, Received, Draining
<1>12. Waiting
  BY DEF Init, Waiting
<1>13. Shown /\ Attempted
  BY DEF Init, Shown, Attempted
<1> QED BY <1>8, <1>9, <1>10, <1>11, <1>12, <1>13 DEF IInv

LEMMA AnswersKeeps == ASSUME IInv, NEW o \in Operations, Answers(o) PROVE IInv'
BY StartKeeps, RecordKeeps, ListedKeeps, SubscribedKeeps, PublishKeeps, FlushedKeeps, FetchedKeeps,
   SeatedKeeps, WriteKeeps, AcknowledgedKeeps, PostedKeeps, RefusedKeeps DEF Answers

LEMMA PollsKeeps == ASSUME IInv, Polls PROVE IInv'
BY PollKeeps, BorrowKeeps, IsFinishedKeeps, NoteDroppedKeeps, TakeKeeps, DrainedKeeps, SettleKeeps,
   ReadEpochKeeps, ReportEpochKeeps, PollPostingKeeps, SubmitKeeps, UpdateKeeps DEF Polls

LEMMA BreakdownsKeeps == ASSUME IInv, Breakdowns PROVE IInv'
<1>1. HttpFailures \in SUBSET (HttpFailures \cup Closes) /\ Closes \in SUBSET (HttpFailures \cup Closes)
  OBVIOUS
<1>2. ASSUME NEW o \in Operations, Fails(o, "request", HttpFailures) PROVE IInv'
  BY <1>1, <1>2, FailsKeeps
<1>3. ASSUME NEW o \in Operations, Panics(o) PROVE IInv'
  BY <1>3, PanicsKeeps
<1>4. CASE Fails("live", "socket", HttpFailures)
  BY <1>1, <1>4, OperationsAre, FailsKeeps
<1>5. CASE Fails("live", "receiving", Closes)
  BY <1>1, <1>5, OperationsAre, FailsKeeps
<1>6. ASSUME NEW pc \in {"seat", "written"}, Fails("posting", pc, Closes) PROVE IInv'
  BY <1>1, <1>6, OperationsAre, FailsKeeps
<1> QED BY <1>2, <1>3, <1>4, <1>5, <1>6, BreaksKeeps DEF Breakdowns

LEMMA NextKeeps == ASSUME IInv, [Next]_vars PROVE IInv'
<1>1. CASE Polls
  BY <1>1, PollsKeeps
<1>2. CASE Edit \/ Tick \/ Receives \/ Disconnected
  BY <1>2, EditKeeps, TickKeeps, ReceivesKeeps, DisconnectedKeeps
<1>3. CASE Breakdowns
  BY <1>3, BreakdownsKeeps
<1>4. ASSUME NEW o \in Operations, Answers(o) \/ Aborts(o) PROVE IInv'
  BY <1>4, AnswersKeeps, AbortsKeeps
<1>5. CASE UNCHANGED vars
  <2>1. /\ UNCHANGED <<policy, task, conn, gui, live, activity, posting, world, seen>>
    BY <1>5 DEF vars
  <2>2. SameOwed /\ SameQueue /\ SamePost
    BY <2>1 DEF SameOwed, SameQueue, SamePost, Still
  <2>3. TypeOK' /\ Owned'
    BY <2>1, TypeParts, TypePartsNext DEF IInv, Owned
  <2>4. policy \in Policies
    BY TypeParts DEF IInv
  <2> QED BY <2>1, <2>2, <2>3, <2>4, FirmerSame, OwedKept, ReceivedKept, WaitingKept, PostKept DEF IInv, Gui
<1> QED BY <1>1, <1>2, <1>3, <1>4, <1>5 DEF Next

\* No step of the poll, of a task or of the clock leaves the inductive invariant.
THEOREM CommentsInvariant == Spec => []IInv
<1>1. Init => IInv
  BY InitHolds
<1>2. IInv /\ [Next]_vars => IInv'
  BY NextKeeps
<1> QED BY <1>1, <1>2, PTL DEF Spec

\* The policy, the tasks, the connection, the poll and the posting keep their types.
THEOREM CommentsTypes == Spec => []TypeOK
<1>1. IInv => TypeOK
  BY DEF IInv
<1> QED BY <1>1, CommentsInvariant, PTL

\* What the user sees of the reception is true: nothing is missing from it, and
\* when there is none something still forbids it.
THEOREM ReceptionIsTrue == Spec => []ReceptionIsHonest
<1>1. IInv => ReceptionIsWhole
  BY DEF IInv, Received, ReceptionIsWhole, Reports, Gui
<1>2. IInv => WaitsForAReason
  BY DEF IInv, Waiting, WaitsForAReason
<1>3. IInv => ReceptionIsHonest
  BY <1>1, <1>2 DEF ReceptionIsHonest
<1> QED BY <1>3, CommentsInvariant, PTL


-----------------------------------------------------------------------------
(* Where a request begins.                                                 *)
Begins(o) == task'[o].pc # task[o].pc /\ task'[o].pc \in {"request", "socket"}

LEMMA MovedBegins ==
  ASSUME NEW p \in Operations, NEW pc \in Pcs \ {"request", "socket"}, Moved(p, pc), NEW o \in Operations
  PROVE  ~Begins(o)
BY DEF Moved, Begins, Still

LEMMA ToBegins ==
  ASSUME task \in Tasks, NEW p \in Operations, NEW pc \in Pcs \ {"request", "socket"}, To(p, pc),
         NEW o \in Operations
  PROVE  ~Begins(o)
BY ToIs, MovedBegins

LEMMA FellBegins ==
  ASSUME task \in Tasks, NEW p \in Operations, NEW pc \in Pcs \ {"request", "socket"},
         NEW failure \in Reasons, task' = [task EXCEPT ![p].pc = pc, ![p].failure = failure],
         NEW o \in Operations
  PROVE  ~Begins(o)
<1>1. task'[p].pc = pc /\ \A x \in Operations \ {p} : Still(x)
  BY FellIs
<1> QED BY <1>1 DEF Begins, Still

LEMMA PollsBegin == ASSUME TypeOK, Polls, NEW o \in Operations PROVE ~Begins(o)
<1>1. /\ task \in Tasks /\ live \in Lives /\ posting \in Postings
  BY TypeParts
<1>2. CASE Borrow \/ IsFinished \/ NoteDropped \/ Take \/ Drained \/ ReadEpoch \/ ReportEpoch
  BY <1>2 DEF Borrow, IsFinished, NoteDropped, Take, Drained, ReadEpoch, ReportEpoch, Begins
<1>3. CASE Settle
  <2>1. task' = task \/ task' = [task EXCEPT !["live"].aborted = TRUE]
    BY <1>3 DEF Settle
  <2>2. task["live"] \in TaskType
    BY <1>1, OperationsAre DEF Tasks
  <2> DEFINE next == [task["live"] EXCEPT !.aborted = TRUE]
  <2>3. next.pc = task["live"].pc
    BY <2>2 DEF TaskType
  <2>4. task' = task \/ task' = [task EXCEPT !["live"] = next]
    BY <2>1
  <2> HIDE DEF next
  <2> QED BY <1>1, <2>3, <2>4 DEF Tasks, Begins
<1>4. CASE Poll
  <2>1. live.desired \in Places
    BY <1>1 DEF Lives
  <2>2. NoTask.pc = "none" /\ Task(live.desired).pc = "start"
    BY <2>1, NewIs
  <2>3. PICK left \in {task, [task EXCEPT !["live"] = NoTask]} :
          task' \in {left, [left EXCEPT !["live"] = Task(live.desired)]}
    BY <1>4 DEF Poll
  <2>4. \A p \in Operations : task'[p] \in {task[p], NoTask, Task(live.desired)}
    BY <1>1, <2>3 DEF Tasks
  <2> QED BY <2>2, <2>4 DEF Begins
<1>5. CASE PollPosting
  <2>1. NoTask.pc = "none"
    BY NewIs DEF Places
  <2>2. task' \in {task, [task EXCEPT !["posting"] = NoTask]}
    BY <1>1, <1>5 DEF PollPosting, Tasks
  <2>3. \A p \in Operations : task'[p] \in {task[p], NoTask}
    BY <1>1, <2>2 DEF Tasks
  <2> QED BY <2>1, <2>3 DEF Begins
<1>6. CASE Submit
  <2>1. PICK at : task' \in {task, [task EXCEPT !["posting"] = Task(at)]}
    BY <1>6 DEF Submit
  <2>2. Task(at).pc = "start"
    BY DEF Task, NoTask
  <2>3. \A p \in Operations : task'[p] \in {task[p], Task(at)}
    BY <1>1, <2>1 DEF Tasks
  <2> QED BY <2>2, <2>3 DEF Begins
<1>7. ASSUME NEW enabled \in BOOLEAN, NEW service \in Services \cup {None}, Update(enabled, service)
      PROVE  ~Begins(o)
  <2>1. NoTask.pc = "none" /\ Task(None).pc = "start"
    BY NewIs DEF Places
  <2> DEFINE marked(p, yes) == [task[p] EXCEPT !.aborted = @ \/ yes]
  <2>2. \A p \in Operations, yes \in BOOLEAN : marked(p, yes).pc = task[p].pc
    BY <1>1 DEF Tasks, TaskType
  <2> HIDE DEF marked
  <2>3. \/ task'[o] \in {NoTask, Task(None)}
        \/ \E yes \in BOOLEAN : task'[o] = marked(o, yes)
    BY <1>7 DEF Update, marked
  <2>4. task'[o].pc \in {"none", "start", task[o].pc}
    BY <2>1, <2>2, <2>3
  <2> QED BY <2>4 DEF Begins
<1> QED BY <1>2, <1>3, <1>4, <1>5, <1>6, <1>7 DEF Polls

\* A request begins when a task starts, or its list of threads is there.
LEMMA BeginsAt ==
  ASSUME TypeOK, [Next]_vars, NEW o \in Operations, Begins(o)
  PROVE  Start(o) \/ (o = "live" /\ Listed)
<1>1. task \in Tasks
  BY TypeParts
<1>2. task' # task
  BY DEF Begins
<1>3. ~Polls /\ ~Edit /\ ~Tick /\ ~Receives
  BY <1>2, PollsBegin DEF Edit, Tick, Receives
<1>4. "failed" \in Pcs \ {"request", "socket"} /\ "publish" \in Pcs \ {"request", "socket"}
      /\ "done" \in Pcs \ {"request", "socket"} /\ "panicked" \in Pcs \ {"request", "socket"}
      /\ "flush" \in Pcs \ {"request", "socket"} /\ "receiving" \in Pcs \ {"request", "socket"}
      /\ "seat" \in Pcs \ {"request", "socket"} /\ "written" \in Pcs \ {"request", "socket"}
      /\ "acked" \in Pcs \ {"request", "socket"}
  BY DEF Pcs
<1>5. HttpFailures \subseteq Reasons /\ Closes \subseteq Reasons /\ "none" \in Reasons
      /\ "temporary" \in Reasons
  BY DEF Reasons, HttpFailures
<1>6. ~Disconnected
  BY <1>1, <1>4, <1>5, OperationsAre, FellBegins DEF Disconnected
<1>7. \A p \in Operations, pc \in Pcs, failures \in {HttpFailures, Closes} : ~Fails(p, pc, failures)
  <2> SUFFICES ASSUME NEW p \in Operations, NEW pc \in Pcs, NEW failures \in {HttpFailures, Closes},
                      Fails(p, pc, failures)
               PROVE  FALSE
    OBVIOUS
  <2>1. PICK failure \in Reasons :
          task' = [task EXCEPT ![p].pc = "failed", ![p].failure = failure]
    BY <1>5 DEF Fails
  <2> QED BY <1>1, <1>4, <2>1, FellBegins
<1>8. \A p \in Operations : ~Panics(p) /\ ~Aborts(p)
  BY <1>1, <1>4, ToBegins DEF Panics, Aborts
<1>9. ~Breaks
  BY <1>1, <1>4, OperationsAre, ToBegins DEF Breaks
<1>10. ~Breakdowns
  <2>1. {"request", "socket", "receiving", "seat", "written"} \subseteq Pcs
    BY DEF Pcs
  <2> QED BY <1>7, <1>8, <1>9, <2>1, OperationsAre DEF Breakdowns
<1>11. PICK p \in Operations : Answers(p)
  BY <1>2, <1>3, <1>6, <1>8, <1>10 DEF Next, vars
<1>12. ~Record(p)
  <2> SUFFICES ASSUME Record(p) PROVE FALSE
    OBVIOUS
  <2>1. PICK pc \in {"publish", "done"} :
          task' = [task EXCEPT ![p].pc = pc, ![p].failure = "none"]
    BY DEF Record
  <2> QED BY <1>1, <1>4, <1>5, <2>1, FellBegins
<1>13. ~Subscribed /\ ~Publish /\ ~Flushed /\ ~Fetched
  BY <1>1, <1>4, OperationsAre, ToBegins DEF Subscribed, Publish, Flushed, Fetched
<1>14. ~Seated /\ ~Write /\ ~Acknowledged /\ ~Posted /\ ~Refused
  BY <1>1, <1>4, OperationsAre, ToBegins DEF Seated, Write, Acknowledged, Posted, Refused
<1>15. Start(p) \/ (p = "live" /\ Listed)
  BY <1>11, <1>12, <1>13, <1>14 DEF Answers
<1>16. p = o
  <2>1. PICK pc \in Pcs : To(p, pc)
    BY <1>15 DEF Start, Listed, Pcs
  <2>2. Moved(p, pc)
    BY <1>1, <2>1, ToIs
  <2> QED BY <2>2 DEF Moved, Still, Begins
<1> QED BY <1>15, <1>16

\* No request begins before the wait, nor where it was refused for good: whoever
\* checks the policy finds there all that was asked for, as no failure is unrecorded then.
THEOREM LimitsAreHeld == Spec => LimitsHold
<1>1. ASSUME IInv, [Next]_vars, NEW o \in Operations, Begins(o)
      PROVE  seen.asked[o] = 0 /\ <<o, task[o].at>> \notin seen.banned
  <2>1. task \in Tasks /\ policy \in Policies /\ seen \in Seens
    BY <1>1, TypeParts DEF IInv
  <2>2. Start(o) \/ (o = "live" /\ Listed)
    BY <1>1, BeginsAt DEF IInv
  <2>3. \A p \in Operations : task[p].pc # "failed"
    BY <2>2 DEF Start, Listed, Runs
  <2>4. Allowed(o, task[o].at)
    <3>1. CASE Start(o)
      <4> SUFFICES ASSUME ~Allowed(o, task[o].at) PROVE FALSE
        OBVIOUS
      <4>1. PICK pc \in Pcs \ {"request", "socket"} : To(o, pc)
        BY <3>1 DEF Start, Pcs
      <4> QED BY <1>1, <2>1, <4>1, ToBegins
    <3>2. CASE o = "live" /\ Listed
      <4> SUFFICES ASSUME ~Allowed(o, task[o].at) PROVE FALSE
        OBVIOUS
      <4>1. To(o, "publish") /\ "publish" \in Pcs \ {"request", "socket"}
        BY <3>2 DEF Listed, Pcs
      <4> QED BY <1>1, <2>1, <4>1, ToBegins
    <3> QED BY <2>2, <3>1, <3>2
  <2>5. seen.asked[o] <= Until(policy, o) /\ Until(policy, o) = 0
    BY <1>1, <2>3, <2>4 DEF IInv, Owed, Tells, Allowed
  <2>6. seen.asked[o] \in Nat
    BY <2>1, WaitIs DEF Seens
  <2>7. seen.banned \subseteq policy.stopped
    BY <1>1, <2>3 DEF IInv, Owed
  <2>8. <<o, task[o].at>> \notin policy.stopped
    BY <2>4 DEF Allowed, Stopped
  <2> QED BY <2>5, <2>6, <2>7, <2>8
<1>2. IInv /\ [Next]_vars =>
        [\A o \in Operations :
           task'[o].pc # task[o].pc /\ task'[o].pc \in {"request", "socket"} =>
             seen.asked[o] = 0 /\ <<o, task[o].at>> \notin seen.banned]_vars
  BY <1>1 DEF Begins
<1> QED BY <1>2, CommentsInvariant, PTL DEF Spec, LimitsHold

\* What the user reads about a comment is what became of it, and a draft is dropped
\* only when it was posted or another service is on the screen.
THEOREM PostingIsTrue == Spec => PostingIsHonest
<1>1. ASSUME IInv, IInv', [Next]_vars
      PROVE  /\ posting'.status = "failed" => ~seen'.stored
             /\ posting'.status = "sent" => seen'.stored
             /\ posting.draft = "edited" /\ posting'.draft = "empty" =>
                  posting'.target # posting.target
  <2>1. /\ posting'.status = "failed" => ~seen'.stored
        /\ posting'.status = "sent" => seen'.stored
    BY <1>1 DEF IInv, Shown
  <2>2. posting \in Postings
    BY <1>1, TypeParts DEF IInv
  <2>3. ASSUME posting.draft = "edited", posting'.draft = "empty"
        PROVE  posting'.target # posting.target
    <3>1. CASE PollPosting
      BY <1>1, <2>3, <3>1, PolledIs DEF PollPosting, PolledWell
    <3>2. CASE Submit
      <4>1. PICK p \in Polled : posting' = [p EXCEPT !.phase = "running", !.status = "sending", !.draft = "posted"]
                                \/ posting' = [p EXCEPT !.status = "failed"]
        BY <3>2 DEF Submit
      <4>2. p \in Postings /\ p.draft = "edited"
        BY <1>1, <2>3, PolledIs DEF PolledWell
      <4> QED BY <2>3, <4>1, <4>2 DEF Postings
    <3>3. ASSUME NEW enabled \in BOOLEAN, NEW service \in Services \cup {None}, Update(enabled, service)
          PROVE  posting'.target # posting.target
      <4>1. service # posting.target
        BY <2>3, <3>3 DEF Update
      <4>2. posting'.target = service
        BY <2>2, <3>3, <4>1 DEF Update, Postings
      <4> QED BY <4>1, <4>2
    <3>4. CASE posting' = posting
      BY <2>3, <3>4
    <3>5. CASE Edit
      BY <2>2, <2>3, <3>5 DEF Edit, Postings
    <3>6. CASE Tick
      BY <2>2, <2>3, <3>6 DEF Tick, Postings
    <3>7. CASE Breakdowns
      <4>1. posting' = posting \/ posting' = [posting EXCEPT !.outcome = "failed"]
        BY <3>7 DEF Breakdowns, Fails, Panics, Breaks
      <4> QED BY <2>2, <2>3, <4>1 DEF Postings
    <3>8. ASSUME NEW o \in Operations, Answers(o) \/ Aborts(o)
          PROVE  posting'.target # posting.target
      <4>1. \/ posting' = posting
            \/ \E outcome : posting' = [posting EXCEPT !.outcome = outcome]
            \/ posting' = [posting EXCEPT !.sent = TRUE]
        BY <3>8 DEF Answers, Aborts, Start, Record, Listed, Subscribed, Publish, Flushed, Fetched,
                    Seated, Write, Acknowledged, Posted, Refused
      <4> QED BY <2>2, <2>3, <4>1 DEF Postings
    <3>9. CASE Polls
      <4>1. \/ posting' = posting \/ PollPosting \/ Submit
            \/ \E enabled \in BOOLEAN, service \in Services \cup {None} : Update(enabled, service)
        BY <3>9 DEF Polls, Poll, Borrow, IsFinished, NoteDropped, Take, Drained, Settle, ReadEpoch,
                    ReportEpoch
      <4> QED BY <3>1, <3>2, <3>3, <3>4, <4>1
    <3>10. Receives \/ Disconnected \/ UNCHANGED vars => posting' = posting
      BY DEF Receives, Disconnected, vars
    <3> QED BY <1>1, <3>4, <3>5, <3>6, <3>7, <3>8, <3>9, <3>10 DEF Next
  <2> QED BY <2>1, <2>3
<1>2. IInv /\ IInv' /\ [Next]_vars =>
        [/\ posting'.status = "failed" => ~seen'.stored
         /\ posting'.status = "sent" => seen'.stored
         /\ posting.draft = "edited" /\ posting'.draft = "empty" =>
              posting'.target # posting.target]_vars
  BY <1>1
<1> QED BY <1>2, CommentsInvariant, PTL DEF Spec, PostingIsHonest

=============================================================================
