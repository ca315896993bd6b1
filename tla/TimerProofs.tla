----------------------------- MODULE TimerProofs -----------------------------
(***************************************************************************)
(* What the timers promise, for any number of timers, any deadlines and    *)
(* any period, granularity and latency: the tree and base->next agree, no  *)
(* callback runs early, and none is late by more than a period.            *)
(***************************************************************************)
EXTENDS TimerLemmas

\* The inductive invariant.  LateByAtMostAPeriod alone does not survive timer_start of a
\* timer whose deadline has passed, which arms nothing: what saves it is the scheduler's
\* timer, always enqueued and never set further ahead than one period, for which the
\* device is armed whenever no handler runs or is pending.
TimerInv ==
  /\ mtime \in 0..MaxTime /\ mtimecmp \in Nat /\ ssip \in BOOLEAN
  /\ CurrentBase \in Base
  /\ since \in [AllTimers -> Nat] /\ \A t \in AllTimers : since[t] <= mtime
  /\ Ordered(CurrentBase, since)
  /\ now = NotHandling \/ (now \in Nat /\ now <= mtime /\ mtime <= now + Latency)
  /\ state[SchedTimer] = "ENQUEUED" /\ expires[SchedTimer] <= mtime + Period
  /\ now = NotHandling /\ ~ssip => mtimecmp <= expires[SchedTimer] + MinDelta + Latency
  /\ LateByAtMostAPeriod

\* What InstallBase stores is the base afterwards.
LEMMA InstallFacts ==
  ASSUME NEW s \in Base, InstallBase(s)
  PROVE  CurrentBase' = s
  BY DEF InstallBase, CurrentBase, Base

\* The timers of the tree are the enqueued ones, and the first of them, to which
\* base->next points, expires no later than the others.
LEMMA FirstFacts ==
  ASSUME NEW s \in Base, NEW started, Ordered(s, started), NEW u \in AllTimers, s.state[u] = "ENQUEUED"
  PROVE  s.next \in AllTimers /\ s.state[s.next] = "ENQUEUED" /\ s.expires[s.next] <= s.expires[u]
<1>1. /\ s.tree \in Seq(AllTimers) /\ s.expires \in [AllTimers -> 0..KtimeMax]
      /\ s.next \in AllTimers \cup {NoTimer}
  BY DEF Base
<1>2. PICK i \in 1..Len(s.tree) : s.tree[i] = u
  BY DEF Ordered
<1>3. 1 \in 1..Len(s.tree) /\ Len(s.tree) \in Nat /\ s.tree # <<>> /\ s.tree[1] \in AllTimers
  BY <1>1, <1>2
<1>4. s.next = s.tree[1]
  BY <1>3 DEF Ordered
<1>5. s.state[s.next] = "ENQUEUED"
  BY <1>3, <1>4 DEF Ordered
<1>6. CASE i = 1
  BY <1>1, <1>2, <1>3, <1>4, <1>5, <1>6
<1>7. CASE 1 < i
  BY <1>2, <1>3, <1>4, <1>5, <1>7 DEF Ordered
<1> QED BY <1>6, <1>7

\* The tree holds exactly the enqueued timers.
LEMMA TreeFacts ==
  ASSUME NEW s \in Base, NEW started, Ordered(s, started)
  PROVE  {s.tree[i] : i \in DOMAIN s.tree} = {u \in AllTimers : s.state[u] = "ENQUEUED"}
<1>1. /\ s.tree \in Seq(AllTimers)
      /\ \A u \in AllTimers : s.state[u] = "ENQUEUED" <=> \E i \in 1..Len(s.tree) : s.tree[i] = u
  BY DEF Base, Ordered
<1>2. DOMAIN s.tree = 1..Len(s.tree) /\ \A i \in 1..Len(s.tree) : s.tree[i] \in AllTimers
  BY <1>1
<1> QED BY <1>1, <1>2

\* The timers in the tree are those whose state says so.
LEMMA QueuedFacts ==
  ASSUME NEW started, CurrentBase \in Base, Ordered(CurrentBase, started)
  PROVE  Queued = {u \in AllTimers : state[u] = "ENQUEUED"}
<1>1. CurrentBase.tree = tree /\ CurrentBase.state = state
  BY DEF CurrentBase
<1>2. {CurrentBase.tree[i] : i \in DOMAIN CurrentBase.tree}
        = {u \in AllTimers : CurrentBase.state[u] = "ENQUEUED"}
  BY TreeFacts
<1> QED BY <1>1, <1>2 DEF Queued

\* The same in the state after a step.
LEMMA QueuedFactsNext ==
  ASSUME NEW started, CurrentBase' \in Base, Ordered(CurrentBase', started)
  PROVE  Queued' = {u \in AllTimers : state'[u] = "ENQUEUED"}
<1>1. CurrentBase'.tree = tree' /\ CurrentBase'.state = state'
  BY DEF CurrentBase
<1>2. {CurrentBase'.tree[i] : i \in DOMAIN CurrentBase'.tree}
        = {u \in AllTimers : CurrentBase'.state[u] = "ENQUEUED"}
  BY TreeFacts
<1> QED BY <1>1, <1>2 DEF Queued

\* clockevent_set_event_next leaves the device alone when the time has passed, and
\* else arms it at most MinDelta after that time, and what the clock has moved on since
\* the time it was given.
LEMMA ArmFacts ==
  ASSUME TimerAssumption, mtime \in Nat, NEW cmp \in Nat, NEW n \in Nat, n <= mtime, NEW e \in Nat
  PROVE  /\ SetEventNext(cmp, n, e) \in Nat
         /\ e < n => SetEventNext(cmp, n, e) = cmp
         /\ ~(e < n) => SetEventNext(cmp, n, e) <= e + MinDelta + (mtime - n)
  BY DEF SetEventNext, Later, TimerAssumption

\* Expiry times stay in the range of a ktime_t.
LEMMA AddSafeFacts ==
  ASSUME TimerAssumption
  PROVE  /\ \A d \in Deadline \cup {Negative} : KtimeAddSafe(d, 0) \in 0..KtimeMax
         /\ \A m \in 0..MaxTime : /\ KtimeAddSafe(m, Period) = m + Period
                                  /\ m + Period \in 0..KtimeMax
  BY DEF KtimeAddSafe, TimerAssumption, Negative

\* LateByAtMostAPeriod in terms of the enqueued timers.
LEMMA LateFacts ==
  ASSUME NEW started, CurrentBase \in Base, Ordered(CurrentBase, started)
  PROVE  LateByAtMostAPeriod <=>
           (now = NotHandling /\ ~ssip =>
              \A u \in AllTimers : state[u] = "ENQUEUED" =>
                mtimecmp <= Later(expires[u], since[u]) + Period + MinDelta + Latency)
  BY QueuedFacts DEF LateByAtMostAPeriod

\* do_sched_init leaves the scheduler's timer as the only one, and the device armed for it.
LEMMA TimerInitInv == Init => TimerInv
<1> SUFFICES ASSUME Init PROVE TimerInv
  OBVIOUS
<1>0. SchedTimer \in AllTimers /\ 0 \in 0..MaxTime
  BY TimerAssumption DEF AllTimers
<1>1. KtimeAddSafe(0, Period) = Period /\ Period \in 0..KtimeMax
  BY <1>0, AddSafeFacts, TimerAssumption
<1>2. /\ mtime = 0 /\ mtimecmp = Later(Period, MinDelta) /\ ssip = FALSE
      /\ tree = <<SchedTimer>> /\ next = SchedTimer
      /\ expires = [t \in AllTimers |-> IF t = SchedTimer THEN Period ELSE 0]
      /\ state = [t \in AllTimers |-> IF t = SchedTimer THEN "ENQUEUED" ELSE "INACTIVE"]
      /\ now = NotHandling /\ since = [t \in AllTimers |-> 0]
  BY <1>1 DEF Init
<1>3. mtimecmp \in Nat /\ mtimecmp <= Period + MinDelta
  BY <1>2, TimerAssumption DEF Later
<1>4. CurrentBase \in Base
  <2>1. tree \in Seq(AllTimers) /\ next \in AllTimers \cup {NoTimer}
    BY <1>0, <1>2
  <2>2. /\ expires \in [AllTimers -> 0..KtimeMax]
        /\ state \in [AllTimers -> {"INACTIVE", "ENQUEUED"}]
    BY <1>1, <1>2, TimerAssumption
  <2> QED BY <2>1, <2>2 DEF CurrentBase, Base
<1>5. Ordered(CurrentBase, since)
  <2>1. Len(tree) = 1 /\ tree # <<>> /\ tree[1] = SchedTimer
    BY <1>2
  <2> QED BY <1>0, <1>2, <2>1 DEF CurrentBase, Ordered
<1>6. state[SchedTimer] = "ENQUEUED" /\ expires[SchedTimer] = Period
  BY <1>0, <1>2
<1>7. LateByAtMostAPeriod
  <2>1. \A u \in AllTimers : state[u] = "ENQUEUED" => u = SchedTimer
    BY <1>2
  <2>2. mtimecmp <= Later(expires[SchedTimer], since[SchedTimer]) + Period + MinDelta + Latency
    BY <1>0, <1>2, <1>3, <1>6, TimerAssumption DEF Later
  <2> QED BY <1>4, <1>5, <2>1, <2>2, LateFacts
<1>8. /\ mtime \in 0..MaxTime /\ ssip = FALSE /\ now = NotHandling
      /\ since \in [AllTimers -> Nat] /\ \A t \in AllTimers : since[t] <= mtime
  BY <1>0, <1>2
<1>9. /\ expires[SchedTimer] <= mtime + Period
      /\ mtimecmp <= expires[SchedTimer] + MinDelta + Latency
  BY <1>2, <1>3, <1>6, TimerAssumption
<1> QED BY <1>3, <1>4, <1>5, <1>6, <1>7, <1>8, <1>9 DEF TimerInv

\* A step that leaves the base and the start times alone keeps what is said of them alone.
LEMMA SameBase ==
  ASSUME TimerInv, UNCHANGED <<base, since>>
  PROVE  /\ CurrentBase' = CurrentBase /\ CurrentBase' \in Base /\ Ordered(CurrentBase', since')
         /\ since' = since /\ state' = state /\ expires' = expires /\ next' = next
         /\ Queued' = Queued
         /\ state \in [AllTimers -> {"INACTIVE", "ENQUEUED"}] /\ expires \in [AllTimers -> 0..KtimeMax]
<1>1. tree' = tree /\ next' = next /\ expires' = expires /\ state' = state /\ since' = since
  BY DEF base
<1>2. CurrentBase' = CurrentBase
  BY <1>1 DEF CurrentBase
<1> QED BY <1>1, <1>2 DEF TimerInv, Queued, Base, CurrentBase

\* The clock's tick and timer_vector touch no timer; the software interrupt that
\* timer_vector raises takes over from the compare register it overwrites.
LEMMA ClockInv ==
  ASSUME TimerInv, Clock \/ TimerVector
  PROVE  TimerInv'
<1>1. UNCHANGED <<base, since, now>>
  BY DEF Clock, TimerVector
<1>2. /\ CurrentBase' \in Base /\ Ordered(CurrentBase', since') /\ since' = since /\ now' = now
      /\ state' = state /\ expires' = expires /\ Queued' = Queued
      /\ expires \in [AllTimers -> 0..KtimeMax] /\ SchedTimer \in AllTimers
  BY <1>1, SameBase DEF AllTimers
<1>3. CASE Clock
  <2>1. /\ mtime' = mtime + 1 /\ mtime < MaxTime /\ mtimecmp' = mtimecmp /\ ssip' = ssip
        /\ now # NotHandling => mtime < now + Latency
    BY <1>3 DEF Clock
  <2>2. /\ mtime' \in 0..MaxTime /\ mtimecmp' \in Nat /\ ssip' \in BOOLEAN
        /\ mtime' > mtime /\ mtime \in Nat
    BY <2>1, TimerAssumption DEF TimerInv
  <2>3. since' \in [AllTimers -> Nat] /\ \A t \in AllTimers : since'[t] <= mtime'
    BY <1>2, <2>1, <2>2 DEF TimerInv
  <2>4. now' = NotHandling \/ (now' \in Nat /\ now' <= mtime' /\ mtime' <= now' + Latency)
    BY <1>2, <2>1, TimerAssumption DEF TimerInv
  <2>5. state'[SchedTimer] = "ENQUEUED" /\ expires'[SchedTimer] <= mtime' + Period
    BY <1>2, <2>1, TimerAssumption DEF TimerInv
  <2>6. now' = NotHandling /\ ~ssip' => mtimecmp' <= expires'[SchedTimer] + MinDelta + Latency
    BY <1>2, <2>1 DEF TimerInv
  <2>7. LateByAtMostAPeriod'
    BY <1>2, <2>1 DEF TimerInv, LateByAtMostAPeriod
  <2> QED BY <1>2, <2>2, <2>3, <2>4, <2>5, <2>6, <2>7 DEF TimerInv
<1>4. CASE TimerVector
  <2>1. mtime' = mtime /\ mtimecmp' \in Nat /\ ssip' = TRUE
    BY <1>4, TimerAssumption DEF TimerVector
  <2>2. LateByAtMostAPeriod'
    BY <2>1 DEF LateByAtMostAPeriod
  <2> QED BY <1>2, <2>1, <2>2 DEF TimerInv
<1> QED BY <1>3, <1>4

\* What the operations of callers have in common: one timer t other than the scheduler's
\* changes, and the device is left alone or armed for a time before all the others.
LEMMA CallerStep ==
  ASSUME TimerInv, NEW t \in Timer, now = NotHandling, UNCHANGED <<mtime, ssip, now>>,
         CurrentBase' \in Base, Ordered(CurrentBase', since'),
         \A u \in AllTimers \ {t} :
           expires'[u] = expires[u] /\ since'[u] = since[u] /\ state'[u] = state[u],
         since' \in [AllTimers -> Nat], since'[t] <= mtime,
         state'[t] = "INACTIVE" \/ since'[t] = mtime,
         mtimecmp' \in Nat,
         \/ mtimecmp' = mtimecmp
         \/ \A u \in AllTimers \ {t} : state[u] = "ENQUEUED" => mtimecmp' <= expires[u] + MinDelta
  PROVE  TimerInv'
<1>1. SchedTimer \in AllTimers \ {t} /\ t \in AllTimers
  BY TimerAssumption DEF AllTimers
<1>2. /\ mtime \in Nat /\ mtime' = mtime /\ mtimecmp \in Nat /\ ssip' = ssip /\ now' = now
      /\ expires \in [AllTimers -> 0..KtimeMax] /\ expires' \in [AllTimers -> 0..KtimeMax]
      /\ since \in [AllTimers -> Nat]
      /\ MinDelta \in Nat /\ Latency \in Nat /\ Period \in Nat
  <2>1. expires \in [AllTimers -> 0..KtimeMax]
    BY DEF TimerInv, CurrentBase, Base
  <2>2. expires' \in [AllTimers -> 0..KtimeMax]
    BY DEF CurrentBase, Base
  <2> QED BY <2>1, <2>2, TimerAssumption DEF TimerInv
<1>3. /\ state'[SchedTimer] = "ENQUEUED" /\ expires'[SchedTimer] = expires[SchedTimer]
      /\ expires[SchedTimer] \in Nat /\ expires[SchedTimer] <= mtime + Period
  BY <1>1, <1>2 DEF TimerInv
<1>4. \A u \in AllTimers : since'[u] <= mtime'
  BY <1>1, <1>2 DEF TimerInv
<1>5. ~ssip' => mtimecmp' <= expires'[SchedTimer] + MinDelta + Latency
  <2>1. CASE mtimecmp' = mtimecmp
    BY <2>1, <1>2, <1>3 DEF TimerInv
  <2>2. CASE \A u \in AllTimers \ {t} : state[u] = "ENQUEUED" => mtimecmp' <= expires[u] + MinDelta
    BY <2>2, <1>1, <1>2, <1>3 DEF TimerInv
  <2> QED BY <2>1, <2>2
<1>6. LateByAtMostAPeriod'
  <2> SUFFICES ASSUME ~ssip', NEW u \in AllTimers, state'[u] = "ENQUEUED"
               PROVE  mtimecmp' <= Later(expires'[u], since'[u]) + Period + MinDelta + Latency
    <3>1. Queued' = {u \in AllTimers : state'[u] = "ENQUEUED"}
      BY QueuedFactsNext
    <3> QED BY <3>1 DEF LateByAtMostAPeriod
  <2>0. expires'[u] \in Nat /\ since'[u] \in Nat /\ mtimecmp' \in Nat
    BY <1>2
  <2>1. CASE u = t
    <3>1. since'[u] = mtime
      BY <2>1
    <3> QED BY <3>1, <2>0, <1>2, <1>3, <1>5 DEF Later
  <2>2. CASE u # t /\ mtimecmp' = mtimecmp
    <3>1. state[u] = "ENQUEUED" /\ expires'[u] = expires[u] /\ since'[u] = since[u]
      BY <2>2
    <3>2. mtimecmp <= Later(expires[u], since[u]) + Period + MinDelta + Latency
      BY <3>1, <1>2, LateFacts DEF TimerInv
    <3> QED BY <2>2, <3>1, <3>2
  <2>3. CASE u # t /\ mtimecmp' # mtimecmp
    <3>1. mtimecmp' <= expires'[u] + MinDelta
      BY <2>3
    <3> QED BY <3>1, <2>0, <1>2 DEF Later
  <2> QED BY <2>1, <2>2, <2>3
<1> QED BY <1>2, <1>3, <1>4, <1>5, <1>6 DEF TimerInv

\* Arming the device for base->next changes nothing or arms it before every enqueued
\* timer is due.
LEMMA ArmedForFirst ==
  ASSUME mtime \in Nat, NEW cmp \in Nat, NEW s \in Base, NEW started, Ordered(s, started),
         s.next \in AllTimers
  PROVE  LET c == SetEventNext(cmp, mtime, s.expires[s.next]) IN
         /\ c \in Nat
         /\ \/ c = cmp
            \/ \A u \in AllTimers : s.state[u] = "ENQUEUED" => c <= s.expires[u] + MinDelta
<1> DEFINE e == s.expires[s.next]
           c == SetEventNext(cmp, mtime, e)
<1>1. s.expires \in [AllTimers -> 0..KtimeMax] /\ e \in Nat /\ MinDelta \in Nat
  BY TimerAssumption DEF Base
<1>2. c \in Nat /\ (c = cmp \/ c <= e + MinDelta)
  <2> HIDE DEF e
  <2> QED BY <1>1, ArmFacts, TimerAssumption
<1>3. ASSUME NEW u \in AllTimers, s.state[u] = "ENQUEUED" PROVE e <= s.expires[u] /\ s.expires[u] \in Nat
  BY <1>1, <1>3, FirstFacts, TimerAssumption
<1> HIDE DEF c, e
<1>4. c <= e + MinDelta => \A u \in AllTimers : s.state[u] = "ENQUEUED" => c <= s.expires[u] + MinDelta
  BY <1>1, <1>2, <1>3
<1> QED BY <1>2, <1>4 DEF c, e

\* What del_timer, and arming the device again when the timer was the first, leave behind.
LEMMA DelAndArm ==
  ASSUME TimerInv, NEW t \in Timer, NEW s1, s1 = DelTimer(CurrentBase, t), NEW c,
         c = IF next = t /\ s1.next # NoTimer
             THEN SetEventNext(mtimecmp, mtime, s1.expires[s1.next]) ELSE mtimecmp
  PROVE  /\ s1 \in Base /\ Ordered(s1, since) /\ s1.expires = expires
         /\ s1.state = [state EXCEPT ![t] = "INACTIVE"]
         /\ c \in Nat
         /\ \/ c = mtimecmp
            \/ \A u \in AllTimers \ {t} : state[u] = "ENQUEUED" => c <= expires[u] + MinDelta
<1>1. /\ t \in AllTimers /\ CurrentBase \in Base /\ Ordered(CurrentBase, since)
      /\ since \in [AllTimers -> Nat] /\ mtime \in Nat /\ mtimecmp \in Nat
  BY DEF TimerInv, AllTimers
<1>2. CurrentBase.state = state /\ CurrentBase.expires = expires
  BY DEF CurrentBase
<1>3. /\ s1 \in Base /\ Ordered(s1, since) /\ s1.expires = expires
      /\ s1.state = [state EXCEPT ![t] = "INACTIVE"]
  BY <1>1, <1>2, DelFacts
<1>4. \A u \in AllTimers \ {t} : state[u] = "ENQUEUED" => s1.state[u] = "ENQUEUED"
  BY <1>1, <1>3 DEF TimerInv, CurrentBase, Base
<1>5. CASE next = t /\ s1.next # NoTimer
  <2>1. s1.next \in AllTimers
    BY <1>3, <1>5 DEF Base
  <2>2. /\ c \in Nat
        /\ \/ c = mtimecmp
           \/ \A u \in AllTimers : s1.state[u] = "ENQUEUED" => c <= s1.expires[u] + MinDelta
    BY <1>1, <1>3, <1>5, <2>1, ArmedForFirst
  <2> QED BY <1>3, <1>4, <2>2
<1>6. CASE ~(next = t /\ s1.next # NoTimer)
  BY <1>1, <1>3, <1>6
<1> QED BY <1>5, <1>6

\* timer_cancel: the timer leaves the tree; the device is armed for the new first timer when
\* it was the first, and the scheduler's timer is still there.
LEMMA TimerCancelInv ==
  ASSUME TimerInv, NEW t \in Timer, TimerCancel(t)
  PROVE  TimerInv'
<1> DEFINE s1 == DelTimer(CurrentBase, t)
<1>1. /\ InstallBase(s1) /\ now = NotHandling
      /\ mtimecmp' = IF next = t /\ s1.next # NoTimer
                     THEN SetEventNext(mtimecmp, mtime, s1.expires[s1.next]) ELSE mtimecmp
      /\ mtime' = mtime /\ ssip' = ssip /\ now' = now /\ since' = since
  BY DEF TimerCancel, CallerRuns
<1>2. /\ s1 \in Base /\ Ordered(s1, since) /\ s1.expires = expires
      /\ s1.state = [state EXCEPT ![t] = "INACTIVE"]
      /\ mtimecmp' \in Nat
      /\ \/ mtimecmp' = mtimecmp
         \/ \A u \in AllTimers \ {t} : state[u] = "ENQUEUED" => mtimecmp' <= expires[u] + MinDelta
  <2> HIDE DEF s1
  <2>1. s1 = DelTimer(CurrentBase, t)
    BY DEF s1
  <2> QED BY <1>1, <2>1, DelAndArm
<1> HIDE DEF s1
<1>3. CurrentBase' = s1
  BY <1>1, <1>2, InstallFacts
<1>4. state' = [state EXCEPT ![t] = "INACTIVE"] /\ expires' = expires
  BY <1>1, <1>2 DEF InstallBase
<1>5. /\ t \in AllTimers /\ state \in [AllTimers -> {"INACTIVE", "ENQUEUED"}]
      /\ since \in [AllTimers -> Nat] /\ since[t] <= mtime
  BY DEF TimerInv, AllTimers, CurrentBase, Base
<1>6. state'[t] = "INACTIVE" /\ \A u \in AllTimers \ {t} : state'[u] = state[u]
  BY <1>4, <1>5
<1> QED BY <1>1, <1>2, <1>3, <1>4, <1>5, <1>6, CallerStep

\* timer_start: a timer started past its deadline arms nothing and is left to the
\* scheduler's timer, which is due within a period.
LEMMA TimerStartInv ==
  ASSUME TimerInv, NEW t \in Timer, NEW d \in Deadline \cup {Negative}, TimerStart(t, d)
  PROVE  TimerInv'
<1> DEFINE s1 == DelTimer(CurrentBase, t)
           c1 == IF next = t /\ s1.next # NoTimer
                 THEN SetEventNext(mtimecmp, mtime, s1.expires[s1.next]) ELSE mtimecmp
           e  == KtimeAddSafe(d, 0)
           s2 == AddTimer(s1, t, e)
<1>1. /\ InstallBase(s2) /\ now = NotHandling
      /\ mtimecmp' = IF s2.next = t THEN SetEventNext(c1, mtime, e) ELSE c1
      /\ mtime' = mtime /\ ssip' = ssip /\ now' = now /\ since' = [since EXCEPT ![t] = mtime]
  BY DEF TimerStart, CallerRuns
<1>2. /\ s1 \in Base /\ Ordered(s1, since) /\ s1.expires = expires
      /\ s1.state = [state EXCEPT ![t] = "INACTIVE"]
      /\ c1 \in Nat
      /\ \/ c1 = mtimecmp
         \/ \A u \in AllTimers \ {t} : state[u] = "ENQUEUED" => c1 <= expires[u] + MinDelta
  <2> DEFINE s == s1
             c == c1
  <2>1. s = DelTimer(CurrentBase, t)
    OBVIOUS
  <2>2. c = IF next = t /\ s.next # NoTimer
            THEN SetEventNext(mtimecmp, mtime, s.expires[s.next]) ELSE mtimecmp
    OBVIOUS
  <2> HIDE DEF s, c
  <2>3. /\ s \in Base /\ Ordered(s, since) /\ s.expires = expires
        /\ s.state = [state EXCEPT ![t] = "INACTIVE"]
        /\ c \in Nat
        /\ \/ c = mtimecmp
           \/ \A u \in AllTimers \ {t} : state[u] = "ENQUEUED" => c <= expires[u] + MinDelta
    BY <2>1, <2>2, DelAndArm
  <2> QED BY <2>3 DEF s, c
<1> HIDE DEF s1, c1
<1>3. /\ t \in AllTimers /\ t # SchedTimer /\ state \in [AllTimers -> {"INACTIVE", "ENQUEUED"}]
      /\ expires \in [AllTimers -> 0..KtimeMax]
      /\ since \in [AllTimers -> Nat] /\ \A u \in AllTimers : since[u] <= mtime
      /\ mtime \in Nat
  BY TimerAssumption DEF TimerInv, AllTimers, CurrentBase, Base
<1>4. e \in 0..KtimeMax
  BY AddSafeFacts, TimerAssumption
<1>5. /\ since' \in [AllTimers -> Nat] /\ since'[t] = mtime
      /\ \A u \in AllTimers \ {t} : since'[u] = since[u]
  BY <1>1, <1>3
<1> HIDE DEF e
<1>6. /\ s2 \in Base /\ Ordered(s2, since')
      /\ s2.state = [s1.state EXCEPT ![t] = "ENQUEUED"]
      /\ s2.expires = [s1.expires EXCEPT ![t] = e]
  <2>1. s1.state[t] = "INACTIVE"
    BY <1>2, <1>3
  <2>2. \A u \in AllTimers \ {t} : since[u] <= since'[t]
    BY <1>3, <1>5
  <2> QED BY <1>2, <1>3, <1>4, <1>5, <2>1, <2>2, AddFacts
<1> HIDE DEF s2
<1>7. CurrentBase' = s2 /\ state' = s2.state /\ expires' = s2.expires
  BY <1>1, <1>6, InstallFacts DEF InstallBase
<1>8. /\ state'[t] = "ENQUEUED" /\ expires'[t] = e
      /\ \A u \in AllTimers \ {t} : state'[u] = state[u] /\ expires'[u] = expires[u]
  BY <1>2, <1>3, <1>6, <1>7
<1>9. /\ mtimecmp' \in Nat
      /\ \/ mtimecmp' = mtimecmp
         \/ \A u \in AllTimers \ {t} : state[u] = "ENQUEUED" => mtimecmp' <= expires[u] + MinDelta
  <2>1. CASE s2.next = t
    <3>1. mtimecmp' = SetEventNext(c1, mtime, s2.expires[s2.next])
      BY <1>1, <1>7, <1>8, <2>1
    <3>2. /\ mtimecmp' \in Nat
          /\ \/ mtimecmp' = c1
             \/ \A u \in AllTimers : s2.state[u] = "ENQUEUED" => mtimecmp' <= s2.expires[u] + MinDelta
      BY <1>2, <1>3, <1>6, <2>1, <3>1, ArmedForFirst
    <3> QED BY <1>2, <1>7, <1>8, <3>2
  <2>2. CASE s2.next # t
    BY <1>1, <1>2, <2>2
  <2> QED BY <2>1, <2>2
<1>10. since'[t] <= mtime
  BY <1>3, <1>5
<1> QED BY <1>1, <1>5, <1>6, <1>7, <1>8, <1>9, <1>10, CallerStep

\* timer_event_handler starts: the time it samples is the present.
LEMMA HandlerEnterInv ==
  ASSUME TimerInv, HandlerEnter
  PROVE  TimerInv'
<1>1. UNCHANGED <<base, since>> /\ mtime' = mtime /\ mtimecmp' = mtimecmp /\ ssip' = FALSE /\ now' = mtime
  BY DEF HandlerEnter
<1>2. /\ CurrentBase' \in Base /\ Ordered(CurrentBase', since') /\ since' = since
      /\ state' = state /\ expires' = expires
  BY <1>1, SameBase
<1>3. mtime \in Nat /\ now' # NotHandling /\ now' <= mtime' /\ mtime' <= now' + Latency
  BY <1>1, TimerAssumption DEF TimerInv, NotHandling
<1>4. LateByAtMostAPeriod'
  BY <1>3 DEF LateByAtMostAPeriod
<1> QED BY <1>1, <1>2, <1>3, <1>4 DEF TimerInv

\* One turn of the handler's loop takes the first timer out, and puts it back a period
\* ahead of the present when it is the scheduler's; it changes no other timer.
LEMMA FireFacts ==
  ASSUME TimerInv, HandlerFire
  PROVE  /\ now \in Nat /\ now <= mtime /\ next \in AllTimers /\ expires[next] <= now
         /\ CurrentBase' \in Base /\ Ordered(CurrentBase', since)
         /\ \A u \in AllTimers \ {next} : state'[u] = state[u] /\ expires'[u] = expires[u]
         /\ next = SchedTimer =>
              state'[SchedTimer] = "ENQUEUED" /\ expires'[SchedTimer] = mtime + Period
<1> DEFINE s1 == DelTimer(CurrentBase, next)
           e  == KtimeAddSafe(mtime, Period)
           s2 == AddTimer(s1, next, e)
<1>1. /\ now # NotHandling /\ next # NoTimer /\ now >= expires[next]
      /\ InstallBase(IF next = SchedTimer THEN s2 ELSE s1)
  BY DEF HandlerFire
<1>2. /\ CurrentBase \in Base /\ Ordered(CurrentBase, since) /\ since \in [AllTimers -> Nat]
      /\ mtime \in 0..MaxTime /\ now \in Nat /\ now <= mtime
  BY <1>1 DEF TimerInv
<1>3. /\ next \in AllTimers /\ state \in [AllTimers -> {"INACTIVE", "ENQUEUED"}]
      /\ expires \in [AllTimers -> 0..KtimeMax]
      /\ CurrentBase.state = state /\ CurrentBase.expires = expires
  BY <1>1, <1>2 DEF CurrentBase, Base
<1>4. expires[next] <= now
  BY <1>1, <1>2, <1>3, TimerAssumption
<1>5. /\ s1 \in Base /\ Ordered(s1, since) /\ s1.expires = expires
      /\ s1.state = [state EXCEPT ![next] = "INACTIVE"]
  BY <1>2, <1>3, DelFacts
<1> HIDE DEF s1
<1>6. e = mtime + Period /\ e \in 0..KtimeMax
  BY <1>2, AddSafeFacts, TimerAssumption
<1> HIDE DEF e
<1>7. CASE next = SchedTimer
  <2>1. s1.state[next] = "INACTIVE"
    BY <1>3, <1>5
  <2>2. /\ s2 \in Base /\ Ordered(s2, since)
        /\ s2.state = [s1.state EXCEPT ![next] = "ENQUEUED"]
        /\ s2.expires = [s1.expires EXCEPT ![next] = e]
    BY <1>2, <1>3, <1>5, <1>6, <1>7, <2>1, AddFacts
  <2> HIDE DEF s2
  <2>3. CurrentBase' = s2 /\ state' = s2.state /\ expires' = s2.expires
    BY <1>1, <1>7, <2>2, InstallFacts DEF InstallBase
  <2> QED BY <1>2, <1>3, <1>4, <1>5, <1>6, <1>7, <2>2, <2>3
<1>8. CASE next # SchedTimer
  <2>1. CurrentBase' = s1 /\ state' = s1.state /\ expires' = s1.expires
    BY <1>1, <1>5, <1>8, InstallFacts DEF InstallBase
  <2> QED BY <1>2, <1>3, <1>4, <1>5, <1>8, <2>1
<1> QED BY <1>7, <1>8

\* One turn of the handler's loop: a due timer is taken out, and put back when its callback
\* says so.
LEMMA HandlerFireInv ==
  ASSUME TimerInv, HandlerFire
  PROVE  TimerInv'
<1>1. /\ now \in Nat /\ CurrentBase' \in Base /\ Ordered(CurrentBase', since)
      /\ \A u \in AllTimers \ {next} : state'[u] = state[u] /\ expires'[u] = expires[u]
      /\ next = SchedTimer =>
           state'[SchedTimer] = "ENQUEUED" /\ expires'[SchedTimer] = mtime + Period
  BY FireFacts
<1>2. mtime' = mtime /\ mtimecmp' = mtimecmp /\ ssip' = ssip /\ now' = now /\ since' = since
  BY DEF HandlerFire
<1>3. SchedTimer \in AllTimers /\ mtime \in Nat /\ Period \in Nat
  BY TimerAssumption DEF AllTimers, TimerInv
<1>4. state'[SchedTimer] = "ENQUEUED" /\ expires'[SchedTimer] <= mtime' + Period
  BY <1>1, <1>2, <1>3 DEF TimerInv
<1>5. now' # NotHandling
  BY <1>1, <1>2 DEF NotHandling
<1>6. LateByAtMostAPeriod'
  BY <1>5 DEF LateByAtMostAPeriod
<1> QED BY <1>1, <1>2, <1>4, <1>5, <1>6 DEF TimerInv

\* The handler leaves the device armed for the first timer, late by no more than it ran.
LEMMA HandlerExitInv ==
  ASSUME TimerInv, HandlerExit
  PROVE  TimerInv'
<1>1. /\ UNCHANGED <<base, since>> /\ mtime' = mtime /\ ssip' = ssip /\ now' = NotHandling
      /\ now # NotHandling /\ (next = NoTimer \/ now < expires[next])
      /\ mtimecmp' = IF next = NoTimer THEN mtimecmp ELSE SetEventNext(mtimecmp, now, expires[next])
  BY DEF HandlerExit
<1>2. /\ CurrentBase' \in Base /\ Ordered(CurrentBase', since') /\ since' = since
      /\ state' = state /\ expires' = expires /\ expires \in [AllTimers -> 0..KtimeMax]
  BY <1>1, SameBase
<1>3. /\ SchedTimer \in AllTimers /\ CurrentBase \in Base /\ Ordered(CurrentBase, since)
      /\ CurrentBase.state = state /\ CurrentBase.expires = expires /\ CurrentBase.next = next
      /\ state[SchedTimer] = "ENQUEUED" /\ since \in [AllTimers -> Nat]
  BY DEF AllTimers, TimerInv, CurrentBase
<1>4. /\ mtime \in Nat /\ now \in Nat /\ now <= mtime /\ mtime <= now + Latency /\ mtimecmp \in Nat
      /\ MinDelta \in Nat /\ Latency \in Nat /\ Period \in Nat
  BY <1>1, TimerAssumption DEF TimerInv
<1>5. \A u \in AllTimers : state[u] = "ENQUEUED" => next \in AllTimers /\ expires[next] <= expires[u]
  BY <1>3, FirstFacts
<1>6. next \in AllTimers /\ next # NoTimer /\ now < expires[next] /\ expires[next] \in Nat
  BY <1>1, <1>2, <1>3, <1>5, TimerAssumption DEF AllTimers
<1>7. mtimecmp' \in Nat /\ mtimecmp' <= expires[next] + MinDelta + Latency
  <2> DEFINE e == expires[next]
  <2>1. mtimecmp' = SetEventNext(mtimecmp, now, e)
    BY <1>1, <1>6
  <2>2. e \in Nat /\ ~(e < now)
    BY <1>4, <1>6
  <2> HIDE DEF e
  <2>3. mtimecmp' \in Nat /\ mtimecmp' <= e + MinDelta + (mtime - now)
    BY <1>4, <2>1, <2>2, ArmFacts, TimerAssumption
  <2> QED BY <1>4, <2>2, <2>3 DEF e
<1>8. ASSUME NEW u \in AllTimers, state[u] = "ENQUEUED"
      PROVE  mtimecmp' <= expires[u] + MinDelta + Latency
  BY <1>2, <1>4, <1>5, <1>6, <1>7, <1>8
<1>9. LateByAtMostAPeriod'
  <2>1. ASSUME NEW u \in AllTimers, state'[u] = "ENQUEUED"
        PROVE  mtimecmp' <= Later(expires'[u], since'[u]) + Period + MinDelta + Latency
    <3>1. expires'[u] \in Nat /\ since'[u] \in Nat /\ mtimecmp' <= expires'[u] + MinDelta + Latency
      BY <1>2, <1>3, <1>8, <2>1
    <3> QED BY <1>4, <1>7, <3>1 DEF Later
  <2>2. Queued' = {u \in AllTimers : state'[u] = "ENQUEUED"}
    BY <1>2, QueuedFactsNext
  <2> QED BY <2>1, <2>2 DEF LateByAtMostAPeriod
<1>10. mtimecmp' <= expires'[SchedTimer] + MinDelta + Latency
  BY <1>2, <1>3, <1>8
<1> QED BY <1>1, <1>2, <1>7, <1>9, <1>10 DEF TimerInv
-----------------------------------------------------------------------------
\* Every step of the clock, of the callers and of the handler preserves the invariant.
LEMMA TimerStepInv == TimerInv /\ [Next]_vars => TimerInv'
<1> SUFFICES ASSUME TimerInv, [Next]_vars PROVE TimerInv'
  OBVIOUS
<1>1. CASE Clock \/ TimerVector
  BY <1>1, ClockInv
<1>2. CASE \E t \in Timer, d \in Deadline \cup {Negative} : TimerStart(t, d)
  BY <1>2, TimerStartInv
<1>3. CASE \E t \in Timer : TimerCancel(t)
  BY <1>3, TimerCancelInv
<1>4. CASE HandlerEnter
  BY <1>4, HandlerEnterInv
<1>5. CASE HandlerFire
  BY <1>5, HandlerFireInv
<1>6. CASE HandlerExit
  BY <1>6, HandlerExitInv
<1>7. CASE UNCHANGED vars
  <2>1. /\ UNCHANGED <<base, since>> /\ mtime' = mtime /\ mtimecmp' = mtimecmp
        /\ ssip' = ssip /\ now' = now
    BY <1>7 DEF vars
  <2>2. /\ CurrentBase' \in Base /\ Ordered(CurrentBase', since') /\ since' = since
        /\ state' = state /\ expires' = expires /\ Queued' = Queued
    BY <2>1, SameBase
  <2>3. LateByAtMostAPeriod'
    BY <2>1, <2>2 DEF TimerInv, LateByAtMostAPeriod
  <2> QED BY <2>1, <2>2, <2>3 DEF TimerInv
<1> QED BY <1>1, <1>2, <1>3, <1>4, <1>5, <1>6, <1>7 DEF Next

\* The invariant holds in every behaviour.
LEMMA TimerInvariance == Spec => []TimerInv
<1>1. Init => TimerInv
  BY TimerInitInv
<1>2. TimerInv /\ [Next]_vars => TimerInv'
  BY TimerStepInv
<1> QED BY <1>1, <1>2, PTL DEF Spec

\* add_timer, del_timer and the handler keep the cached base->next equal to the first timer
\* of the tree, and the tree in order, for any number of timers and any deadlines.
THEOREM TreeStaysInOrder == Spec => []NextIsEarliest
<1>1. TimerInv => NextIsEarliest
  <2> SUFFICES ASSUME TimerInv PROVE NextIsEarliest
    OBVIOUS
  <2>1. CurrentBase \in Base /\ Ordered(CurrentBase, since)
    BY DEF TimerInv
  <2>2. /\ tree \in Seq(AllTimers)
        /\ next = IF tree = <<>> THEN NoTimer ELSE tree[1]
        /\ \A i, j \in 1..Len(tree) : i < j => tree[i] # tree[j] /\ expires[tree[i]] <= expires[tree[j]]
        /\ \A i, j \in 1..Len(tree) :
             i < j /\ expires[tree[i]] = expires[tree[j]] /\ SchedTimer \notin {tree[i], tree[j]}
               => since[tree[i]] <= since[tree[j]]
    BY <2>1 DEF CurrentBase, Base, Ordered
  <2>3. DOMAIN tree = 1..Len(tree) /\ (tree # <<>> => Head(tree) = tree[1])
    BY <2>2
  <2>4. Queued = {t \in AllTimers : state[t] = "ENQUEUED"}
    BY <2>1, QueuedFacts
  <2> QED BY <2>2, <2>3, <2>4 DEF NextIsEarliest
<1> QED BY <1>1, TimerInvariance, PTL

\* The interrupt for a timer comes at most a scheduler period, and the slack of one handler
\* run, after it is due, also when clockevent_set_event_next refused to arm the device for it.
THEOREM InterruptComesInTime == Spec => []LateByAtMostAPeriod
<1>1. TimerInv => LateByAtMostAPeriod
  BY DEF TimerInv
<1> QED BY <1>1, TimerInvariance, PTL

\* timer_event_handler takes a timer out of the tree, or sets it forward, only when its
\* deadline has passed.
THEOREM CallbacksNeverEarly == Spec => NeverEarlyProp
<1>1. TimerInv /\ [Next]_vars => [NeverEarly]_vars
  <2> SUFFICES ASSUME TimerInv, TimerInv', Next, now # NotHandling, NEW t \in Queued,
                      t \notin Queued' \/ expires'[t] # expires[t]
               PROVE  expires[t] <= mtime
    BY TimerStepInv DEF NeverEarly
  <2>1. CASE UNCHANGED <<base, since>>
    BY <2>1, SameBase
  <2>2. CASE HandlerFire
    <3>1. /\ now \in Nat /\ now <= mtime /\ next \in AllTimers /\ expires[next] <= now
          /\ \A u \in AllTimers \ {next} : state'[u] = state[u] /\ expires'[u] = expires[u]
      BY <2>2, FireFacts
    <3>2. /\ Queued = {u \in AllTimers : state[u] = "ENQUEUED"}
          /\ expires \in [AllTimers -> 0..KtimeMax] /\ mtime \in Nat
      <4>1. CurrentBase \in Base /\ Ordered(CurrentBase, since) /\ mtime \in Nat
        BY DEF TimerInv
      <4>2. expires \in [AllTimers -> 0..KtimeMax]
        BY <4>1 DEF CurrentBase, Base
      <4> QED BY <4>1, <4>2, QueuedFacts
    <3>3. Queued' = {u \in AllTimers : state'[u] = "ENQUEUED"}
      BY QueuedFactsNext DEF TimerInv
    <3>4. t = next
      BY <3>1, <3>2, <3>3
    <3> QED BY <3>1, <3>2, <3>4, TimerAssumption
  <2> QED BY <2>1, <2>2 DEF Next, Clock, TimerVector, TimerStart, TimerCancel, HandlerEnter,
                              HandlerExit, CallerRuns
<1> QED BY <1>1, TimerInvariance, PTL DEF Spec, NeverEarlyProp
=============================================================================
