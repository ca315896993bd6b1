------------------------------- MODULE Timer -------------------------------
(***************************************************************************)
(* Software timers over one clock event device: core/timer.c,              *)
(* driver/clockevent.c, driver/ce-clint-timer.c, the machine-mode          *)
(* timer_vector of arch/entry.S and the scheduler's periodic timer.        *)
(*                                                                         *)
(* The CLINT raises a machine interrupt while mtime >= mtimecmp.  It is    *)
(* taken at once, whatever the supervisor does: timer_vector overwrites    *)
(* mtimecmp and raises a supervisor software interrupt, which runs         *)
(* timer_event_handler when the supervisor next enables interrupts.  The   *)
(* timer operations run with interrupts disabled, so they are atomic.      *)
(* Nanoseconds and clock cycles are one unit of time here.                 *)
(***************************************************************************)
EXTENDS Integers, Sequences, FiniteSets

CONSTANTS Timer,      \* timers that callers start and cancel
          SchedTimer, \* the scheduler's periodic timer
          NoTimer,
          Period,     \* its period, 1000 ms
          MinDelta,   \* ce->min_delta_ns
          Interval,   \* what timer_vector stores in mtimecmp, 0xffffffff
          KtimeMax,   \* KTIME_MAX
          Deadline,   \* deadlines callers pass to timer_start, none of them negative
          Latency,    \* bound on the time one run of the handler takes
          MaxTime     \* bound on the clock

ASSUME TimerAssumption ==
  /\ SchedTimer \notin Timer /\ NoTimer \notin Timer \cup {SchedTimer}
  /\ Period \in Nat \ {0} /\ MinDelta \in Nat \ {0} /\ Interval \in Nat
  /\ Latency \in Nat /\ MaxTime \in Nat /\ KtimeMax \in Nat /\ MaxTime + Period < KtimeMax
  /\ Deadline \subseteq 0..KtimeMax

VARIABLES mtime,      \* CLINT mtime, which ktime_get reads
          mtimecmp,
          ssip,       \* the supervisor software interrupt is pending
          tree,       \* the timers of base->head, in tree order
          next,       \* base->next
          expires, state,
          now,        \* the handler's `now' while it runs, else NotHandling
          since       \* when the timer was last started (history variable)

base == <<tree, next, expires, state>>
vars == <<mtime, mtimecmp, ssip, base, now, since>>

NotHandling == -1

\* What stands for the negative deadlines, all of which KtimeAddSafe treats alike.
Negative == -1

AllTimers == Timer \cup {SchedTimer}

Later(a, b) == IF a >= b THEN a ELSE b

\* The timers of the tree.
Queued == {tree[i] : i \in DOMAIN tree}

\* ktime_add_safe: a sum that is negative or overflows becomes KTIME_MAX.
KtimeAddSafe(a, b) ==
  IF a + b < 0 \/ a + b > KtimeMax \/ a + b < a \/ a + b < b THEN KtimeMax ELSE a + b

\* The tree, as the sequence in which rb_first and rb_next go through it: a timer put
\* at place i, and the timer at place i taken out.
rb_link_node(s, i, t) == SubSeq(s, 1, i - 1) \o <<t>> \o SubSeq(s, i, Len(s))
rb_erase(s, i) == SubSeq(s, 1, i - 1) \o SubSeq(s, i + 1, Len(s))

\* add_timer of an inactive timer whose expiry time becomes e: equal times keep
\* the order of insertion.
AddTimer(s, t, e) ==
  LET ex == [s.expires EXCEPT ![t] = e]
      i  == 1 + Cardinality({j \in DOMAIN s.tree : ex[s.tree[j]] <= e})
  IN [tree    |-> rb_link_node(s.tree, i, t),
      next    |-> IF s.next = NoTimer \/ e < ex[s.next] THEN t ELSE s.next,
      expires |-> ex,
      state   |-> [s.state EXCEPT ![t] = "ENQUEUED"]]

\* Faulty variant of del_timer: base->next is cleared, not moved on.
DelTimerClearsNext(s, t) ==
  IF s.state[t] # "ENQUEUED" THEN s ELSE
  [s EXCEPT !.tree = SelectSeq(@, LAMBDA u : u # t),
            !.next = IF @ = t THEN NoTimer ELSE @,
            !.state[t] = "INACTIVE"]

\* del_timer: nothing unless the timer is enqueued; base->next moves on to the
\* timer after it in the tree when it was the first.
DelTimer(s, t) ==
  IF s.state[t] # "ENQUEUED" THEN s ELSE
  LET i == CHOOSE j \in DOMAIN s.tree : s.tree[j] = t
  IN [s EXCEPT !.tree = rb_erase(@, i),
               !.next = IF @ # t THEN @
                        ELSE IF i = Len(s.tree) THEN NoTimer ELSE s.tree[i + 1],
               !.state[t] = "INACTIVE"]

\* clockevent_set_event_next(ce, n, e) with the compare register holding cmp: an
\* expiry time before n arms nothing, one nearer than MinDelta is moved there.
\* (max_delta_ns is beyond the scheduler's period and never reached.)
SetEventNext(cmp, n, e) ==
  IF e < n THEN cmp ELSE mtime + Later(e - n, MinDelta)

CurrentBase == [tree |-> tree, next |-> next, expires |-> expires, state |-> state]

InstallBase(s) ==
  /\ tree' = s.tree /\ next' = s.next
  /\ expires' = s.expires /\ state' = s.state

\* Code outside machine mode runs only while no machine timer interrupt is raised:
\* the supervisor cannot mask it.
NoMachineIrq == mtime < mtimecmp

\* A caller of the timer operations runs: not in the middle of the handler, which
\* has interrupts disabled.
CallerRuns == NoMachineIrq /\ now = NotHandling
-----------------------------------------------------------------------------
\* do_sched_init, after the clock event device was bound to an empty base.
Init ==
  LET e == KtimeAddSafe(0, Period) IN
  /\ mtime = 0
  /\ mtimecmp = Later(e, MinDelta)
  /\ ssip = FALSE
  /\ tree = <<SchedTimer>> /\ next = SchedTimer
  /\ expires = [t \in AllTimers |-> IF t = SchedTimer THEN e ELSE 0]
  /\ state = [t \in AllTimers |-> IF t = SchedTimer THEN "ENQUEUED" ELSE "INACTIVE"]
  /\ now = NotHandling
  /\ since = [t \in AllTimers |-> 0]

\* The clock advances, also while the handler runs.
Clock ==
  /\ mtime < MaxTime
  /\ now # NotHandling => mtime < now + Latency
  /\ mtime' = mtime + 1
  /\ UNCHANGED <<mtimecmp, ssip, base, now, since>>

\* timer_vector: mtimecmp is set to the interval, not advanced by it.
TimerVector ==
  /\ ~NoMachineIrq
  /\ mtimecmp' = Interval
  /\ ssip' = TRUE
  /\ UNCHANGED <<mtime, base, now, since>>

\* timer_start(t, now, interval) with now + interval = d (sys_nanosleep passes
\* its deadline as now and 0 as interval).  A timer still enqueued is removed,
\* and the device armed for the one after it, before it is added again.
TimerStart(t, d) ==
  /\ CallerRuns
  /\ LET s1   == DelTimer(CurrentBase, t)
         cmp1 == IF next = t /\ s1.next # NoTimer
                 THEN SetEventNext(mtimecmp, mtime, s1.expires[s1.next]) ELSE mtimecmp
         e    == KtimeAddSafe(d, 0)
         s2   == AddTimer(s1, t, e)
     IN /\ InstallBase(s2)
        /\ mtimecmp' = IF s2.next = t THEN SetEventNext(cmp1, mtime, e) ELSE cmp1
  /\ since' = [since EXCEPT ![t] = mtime]
  /\ UNCHANGED <<mtime, ssip, now>>

\* timer_cancel.
TimerCancel(t) ==
  /\ CallerRuns
  /\ LET s1 == DelTimer(CurrentBase, t)
     IN /\ InstallBase(s1)
        /\ mtimecmp' = IF next = t /\ s1.next # NoTimer
                       THEN SetEventNext(mtimecmp, mtime, s1.expires[s1.next]) ELSE mtimecmp
  /\ UNCHANGED <<mtime, ssip, now, since>>

\* do_IRQ, cause 1: the software interrupt is acknowledged and timer_event_handler
\* samples the time once.
HandlerEnter ==
  /\ CallerRuns /\ ssip
  /\ ssip' = FALSE
  /\ now' = mtime
  /\ UNCHANGED <<mtime, mtimecmp, base, since>>

\* Faulty variant: timers due one unit later fire as well.
HandlerFireEarly ==
  /\ NoMachineIrq /\ now # NotHandling
  /\ next # NoTimer /\ now + 1 >= expires[next]
  /\ LET s1 == DelTimer(CurrentBase, next)
     IN InstallBase(IF next = SchedTimer
                    THEN AddTimer(s1, next, KtimeAddSafe(mtime, Period)) ELSE s1)
  /\ UNCHANGED <<mtime, mtimecmp, ssip, now, since>>

\* One turn of the handler's loop: the first timer has expired at the sampled time
\* and its callback runs.  The scheduler's callback sets the timer forward from
\* the present time and asks for a restart; sleep_callback does not.
HandlerFire ==
  /\ NoMachineIrq /\ now # NotHandling
  /\ next # NoTimer /\ now >= expires[next]
  /\ LET s1 == DelTimer(CurrentBase, next)
     IN InstallBase(IF next = SchedTimer
                    THEN AddTimer(s1, next, KtimeAddSafe(mtime, Period)) ELSE s1)
  /\ UNCHANGED <<mtime, mtimecmp, ssip, now, since>>

\* Faulty variant: the device is not armed again.
HandlerExitUnarmed ==
  /\ NoMachineIrq /\ now # NotHandling
  /\ next = NoTimer \/ now < expires[next]
  /\ now' = NotHandling
  /\ UNCHANGED <<mtime, mtimecmp, ssip, base, since>>

\* The loop ends; the device is armed for the first timer left, by its distance
\* from the sampled time.
HandlerExit ==
  /\ NoMachineIrq /\ now # NotHandling
  /\ next = NoTimer \/ now < expires[next]
  /\ mtimecmp' = IF next = NoTimer THEN mtimecmp
                 ELSE SetEventNext(mtimecmp, now, expires[next])
  /\ now' = NotHandling
  /\ UNCHANGED <<mtime, ssip, base, since>>

Next ==
  \/ Clock
  \/ TimerVector
  \/ \E t \in Timer, d \in Deadline \cup {Negative} : TimerStart(t, d)
  \/ \E t \in Timer : TimerCancel(t)
  \/ HandlerEnter
  \/ HandlerFire
  \/ HandlerExit

Spec == Init /\ [][Next]_vars
-----------------------------------------------------------------------------
\* The cached pointer base->next is the first timer of the tree, the tree is in
\* order of expiry, equal deadlines in the order in which they were started, and holds
\* exactly the timers marked enqueued, once each.
NextIsEarliest ==
  /\ next = IF tree = <<>> THEN NoTimer ELSE Head(tree)
  /\ \A i, j \in DOMAIN tree : i < j => tree[i] # tree[j] /\ expires[tree[i]] <= expires[tree[j]]
  /\ Queued = {t \in AllTimers : state[t] = "ENQUEUED"}
  /\ \A i, j \in DOMAIN tree :
       i < j /\ expires[tree[i]] = expires[tree[j]] /\ SchedTimer \notin {tree[i], tree[j]}
         => since[tree[i]] <= since[tree[j]]

\* The interrupt that runs timer t's callback comes at the latest one scheduler
\* period (and the slack of one handler run) after t was due, even when t was
\* started past its deadline and armed nothing, or sits behind such a timer: the
\* handler runs or is pending, or the device will raise it in time.
LateByAtMostAPeriod ==
  now = NotHandling /\ ~ssip =>
    \A t \in Queued :
      mtimecmp <= Later(expires[t], since[t]) + Period + MinDelta + Latency

\* A callback never runs early: a timer leaves the tree through the handler only
\* when its deadline has passed (ut/syscall/time/nanosleep.c asserts it of
\* nanosleep).
NeverEarly ==
  now # NotHandling => \A t \in Queued :
    t \notin Queued' \/ expires'[t] # expires[t] => expires[t] <= mtime

NeverEarlyProp == [][NeverEarly]_vars

\* A machine timer interrupt is over once timer_vector has run: it schedules the
\* next one, so that the code it interrupted goes on.
VectorSchedulesNext == [][TimerVector => mtimecmp' > mtime]_vars
=============================================================================
