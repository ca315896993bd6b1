------------------------------- MODULE Kernel -------------------------------
(***************************************************************************)
(* The threads of the running system: the scheduler (core/sched.c, the     *)
(* thread life cycle of core/thread.c, arch/context_switch.S) and every    *)
(* way a thread gives the CPU away: preemption by the scheduler timer,     *)
(* sys_yield, sys_nanosleep, futexes (core/futex.c), synchronous IPC       *)
(* (core/ipc/*.c) and exit.                                                *)
(*                                                                         *)
(* One action is one system call, one timer interrupt taken in user mode   *)
(* (with the schedule() it may cause on the way back), or one turn of the  *)
(* boot thread's loop.  The kernel is built for one hart (CONFIG_CPU = 1), *)
(* interrupts are masked in all of them and kernel code is never           *)
(* preempted, so nothing interleaves inside an action; the threads         *)
(* interleave between actions.  The scheduler's operations are parts of    *)
(* such an action: each takes the ready list and the status table as the   *)
(* action has left them so far.                                            *)
(***************************************************************************)
EXTENDS Naturals, Sequences, FiniteSets, Functions

CONSTANTS Thread,    \* every thread_t the instance may allocate
          Main,      \* the boot thread, which becomes while (1) schedule()
          Idle,      \* the program /idle: `while (1);' (its start-up calls never block)
          Boot,      \* the programs do_user_init launches, in order
          Conn,      \* the ipc_connection_t objects the instance may create
          Target,    \* Target[c]: the server thread create_connection makes for c
          Key,       \* futex keys: pairs (vmspace, address)
          KeysOf,    \* KeysOf[t]: the keys whose vmspace is that of t
          Bucket,    \* Bucket[k]: the hash bucket of k
          Val,       \* values of a futex word
          NoThread, NoConn, NoQ

Buckets == Range(Bucket)

ASSUME ThreadAssumption ==
  /\ Main \in Thread /\ Idle \in Thread /\ Main # Idle
  /\ Boot \in Seq(Thread \ {Main}) /\ IsInjective(Boot) /\ Idle \in Range(Boot)
  /\ NoThread \notin Thread

ASSUME ConnAssumption ==
  /\ Target \in [Conn -> Thread \ ({Main} \cup Range(Boot))] /\ IsInjective(Target)
  /\ NoConn \notin Conn

ASSUME FutexAssumption ==
  /\ KeysOf \in [Thread -> SUBSET Key] /\ DOMAIN Bucket = Key
  /\ NoQ \notin [key : Key, val : Val]

VARIABLES current,   \* thread_self()
          ready,     \* the list `ready' of sched.c, head first
          status,    \* thread->status, "NONE" before the object exists
          ctx,       \* where thread->context resumes: see Context
          freed,     \* threads deleted by the tail of schedule()
          panic,     \* PANIC("empty thread list") was reached
          sleepq,    \* threads whose sleep_timer is enqueued, in tree order
          chain,     \* chain[b]: the threads of the futex_q's of bucket b, head first
          waiters,   \* waiters[b]: the counter hb->waiters
          fq,        \* fq[t]: the futex_q of the futex_wait t is in, else NoQ
          word,      \* word[k]: the user word at k
          unsignalled, \* keys stored to since the last futex_wake on them
          owner,     \* owner[c]: the client that registered c, NoThread before
          source,    \* conn->source
          active     \* thread->active_conn

schedVars == <<current, ready, status, ctx, freed, panic>>
futexVars == <<chain, waiters, fq, word, unsignalled>>
ipcVars == <<owner, source, active>>
vars == <<schedVars, sleepq, futexVars, ipcVars>>

ServerThread == Range(Target)

\* Threads that run user programs other than /idle and so make system calls.
InUser == current \notin {Main, Idle}

(***************************************************************************)
(* The scheduler                                                           *)
(***************************************************************************)

\* The kernel's linked lists are sequences without duplicates.
\* s with e linked so that it becomes element i.
InsertBefore(s, i, e) == SubSeq(s, 1, i - 1) \o <<e>> \o SubSeq(s, i, Len(s))

\* The sequences that list, in the order of s, exactly the elements of s that
\* are in S (one sequence when s has no duplicates).
Pick(s, S) ==
  {r \in UNION {[1..m -> S \cap Range(s)] : m \in 0..Len(s)} :
     /\ Range(r) = S \cap Range(s)
     /\ \A i, j \in DOMAIN r : i < j =>
          \A a, b \in DOMAIN s : s[a] = r[i] /\ s[b] = r[j] => a < b}

\* enum task_status_t, and "NONE" for an object not yet allocated.
Status == {"NONE", "RUNNING", "READY", "SUSPEND", "EXIT"}

\* What context.ra points into: "user" is ret_from_exception (a new thread, or
\* a server thread reset by ipc_call), the others are the two callers of
\* switch_to.
Context == {"user", "schedule", "schedule_to"}

Suspended == {t \in Thread : status[t] = "SUSPEND"}

SchedTypeOK ==
  /\ current \in Thread
  /\ ready \in Seq(Thread)
  /\ status \in [Thread -> Status]
  /\ ctx \in [Thread -> Context]
  /\ freed \in SUBSET Thread
  /\ panic \in BOOLEAN

\* thread_resume on each thread of ws, in that order, all of them suspended:
\* the status table that results.  The ready list becomes ready \o ws
\* (scheduler_enqueue_task adds at the tail).
Resumed(ws) == [t \in Thread |-> IF t \in Range(ws) THEN "READY" ELSE status[t]]

\* The second half of schedule(), with q the list after the caller was queued or
\* not: the head is taken off and made RUNNING, or the kernel panics.  When the
\* new thread resumes inside its own schedule() it runs the tail of that function
\* and deletes the old thread if its status is in dead.
SwitchFrom(st, q, dead) ==
  IF q = <<>>
  THEN panic' = TRUE /\ UNCHANGED <<current, ready, status, ctx, freed>>
  ELSE /\ ready' = Tail(q)
       /\ current' = Head(q)
       /\ status' = [st EXCEPT ![Head(q)] = "RUNNING"]
       /\ ctx' = [ctx EXCEPT ![current] = "schedule"]
       /\ freed' = IF ctx[Head(q)] = "schedule" /\ st[current] \in dead
                   THEN freed \cup {current} ELSE freed
       /\ UNCHANGED panic

\* Faulty variants of schedule(): the caller queued whatever its status;
\* queued at the head; a suspended thread deleted like an exited one.
ScheduleAlwaysQueues(rq, st) == SwitchFrom(st, Append(rq, current), {"EXIT"})

ScheduleQueuesAtHead(rq, st) ==
  SwitchFrom(st, IF st[current] \in {"SUSPEND", "EXIT"} THEN rq ELSE <<current>> \o rq, {"EXIT"})

ScheduleDeletesSuspended(rq, st) ==
  SwitchFrom(st, IF st[current] \in {"SUSPEND", "EXIT"} THEN rq ELSE Append(rq, current),
             {"EXIT", "SUSPEND"})

\* schedule(): a suspended or exiting caller stays off the list, any other one
\* goes to its tail with its status untouched; the head is taken off the list
\* and made RUNNING.
Schedule(rq, st) ==
  SwitchFrom(st, IF st[current] \in {"SUSPEND", "EXIT"} THEN rq ELSE Append(rq, current),
             {"EXIT"})

\* schedule_to(t): the caller is suspended and t runs at once.  The target is
\* not taken off the ready list and the old thread is never deleted.  cx is the
\* context table as the caller has left it.
ScheduleTo(t, cx) ==
  /\ current' = t
  /\ status' = [status EXCEPT ![current] = "SUSPEND", ![t] = "RUNNING"]
  /\ ctx' = [cx EXCEPT ![current] = "schedule_to"]
  /\ UNCHANGED <<ready, freed, panic>>

\* thread_create: the new thread is suspended and enters at ret_from_exception.
ThreadCreate(t) ==
  /\ status[t] = "NONE"
  /\ status' = [status EXCEPT ![t] = "SUSPEND"]
  /\ ctx' = [ctx EXCEPT ![t] = "user"]
  /\ UNCHANGED <<current, ready, freed, panic>>

\* thread_suspend(thread_self()): the caller is RUNNING, so it is marked
\* suspended and the CPU is given away.
ThreadSuspend ==
  Schedule(ready, [status EXCEPT ![current] = "SUSPEND"])

\* thread_destroy(thread_self()).
ThreadDestroy ==
  Schedule(ready, [status EXCEPT ![current] = "EXIT"])

\* do_task_init makes the boot thread RUNNING; do_user_init creates and resumes
\* the boot programs in order, before the boot thread first calls schedule().
SchedInit(boot) ==
  /\ current = Main
  /\ ready = boot
  /\ status = [t \in Thread |-> IF t = Main THEN "RUNNING"
                                ELSE IF t \in Range(boot) THEN "READY" ELSE "NONE"]
  /\ ctx = [t \in Thread |-> "user"]
  /\ freed = {}
  /\ panic = FALSE

(***************************************************************************)
(* System calls and interrupts                                             *)
(***************************************************************************)

Init ==
  /\ SchedInit(Boot)
  /\ sleepq = <<>>
  /\ chain = [b \in Buckets |-> <<>>]
  /\ waiters = [b \in Buckets |-> 0]
  /\ fq = [t \in Thread |-> NoQ]
  /\ word \in [Key -> Val]
  /\ unsignalled = {}
  /\ owner = [c \in Conn |-> NoThread]
  /\ source = [c \in Conn |-> NoThread]
  /\ active = [t \in Thread |-> NoConn]

\* main(): while (1) schedule();
MainLoop ==
  /\ current = Main
  /\ Schedule(ready, status)
  /\ UNCHANGED <<sleepq, futexVars, ipcVars>>

\* Faulty variant: expired timers leave the tree but their threads are not resumed.
TickForgetsResume(n, resched) ==
  /\ current # Main
  /\ sleepq' = SubSeq(sleepq, n + 1, Len(sleepq))
  /\ IF resched THEN Schedule(ready, status) ELSE UNCHANGED schedVars
  /\ UNCHANGED <<futexVars, ipcVars>>

\* A timer interrupt in user mode: timer_event_handler runs the callbacks of the
\* n expired sleep timers in tree order (sleep_callback: thread_resume); when the
\* scheduler's own timer is among the expired ones it sets NEED_RESCHED and
\* work_pending calls schedule() before the return to user mode.  While the boot
\* thread runs no sleep timer can fire: it runs with interrupts masked.
Tick(n, resched) ==
  /\ current # Main
  /\ sleepq' = SubSeq(sleepq, n + 1, Len(sleepq))
  /\ \E ws \in Pick(SubSeq(sleepq, 1, n), Suspended) :
       IF resched
       THEN Schedule(ready \o ws, Resumed(ws))
       ELSE /\ ready' = ready \o ws
            /\ status' = Resumed(ws)
            /\ UNCHANGED <<current, ctx, freed, panic>>
  /\ UNCHANGED <<futexVars, ipcVars>>

\* sys_yield: thread_suspend(thread_self()).
SysYield ==
  /\ InUser
  /\ ThreadSuspend
  /\ UNCHANGED <<sleepq, futexVars, ipcVars>>

\* Faulty variant: the timer is started and the call returns without suspending.
NanosleepReturns(i) ==
  /\ InUser
  /\ sleepq' = InsertBefore(sleepq, i, current)
  /\ UNCHANGED <<schedVars, futexVars, ipcVars>>

\* sys_nanosleep: the thread's own timer is inserted in the tree at the place its
\* deadline gives it (any place: deadlines are arbitrary), then it suspends.
SysNanosleep(i) ==
  /\ InUser
  /\ sleepq' = InsertBefore(sleepq, i, current)
  /\ ThreadSuspend
  /\ UNCHANGED <<futexVars, ipcVars>>

\* A user program stores to a futex word.
Store(k, v) ==
  /\ InUser /\ k \in KeysOf[current]
  /\ word' = [word EXCEPT ![k] = v]
  /\ unsignalled' = unsignalled \cup {k}
  /\ UNCHANGED <<schedVars, sleepq, chain, waiters, fq, ipcVars>>

\* Faulty variant: the word is not compared.
FutexWaitBlindly(k, v) ==
  /\ InUser /\ k \in KeysOf[current]
  /\ waiters' = [waiters EXCEPT ![Bucket[k]] = @ + 1]
  /\ chain' = [chain EXCEPT ![Bucket[k]] = <<current>> \o @]
  /\ fq' = [fq EXCEPT ![current] = [key |-> k, val |-> v]]
  /\ Schedule(ready, [status EXCEPT ![current] = "SUSPEND"])
  /\ UNCHANGED <<word, unsignalled, sleepq, ipcVars>>

\* sys_futex_wait: the counter goes up and the word is compared; on a mismatch
\* the counter goes back down and the call fails.  Otherwise the thread is
\* suspended, linked at the head of the chain, and schedule() is called.
SysFutexWait(k, v) ==
  /\ InUser /\ k \in KeysOf[current]
  /\ LET b == Bucket[k] IN
     IF word[k] # v
     THEN UNCHANGED <<schedVars, futexVars>>
     ELSE /\ waiters' = [waiters EXCEPT ![b] = @ + 1]
          /\ chain' = [chain EXCEPT ![b] = <<current>> \o @]
          /\ fq' = [fq EXCEPT ![current] = [key |-> k, val |-> v]]
          /\ Schedule(ready, [status EXCEPT ![current] = "SUSPEND"])
          /\ UNCHANGED <<word, unsignalled>>
  /\ UNCHANGED <<sleepq, ipcVars>>

\* Faulty variant: the threads are resumed but their futex_q's stay linked.
FutexWakeKeepsLinked(k) ==
  /\ InUser /\ k \in KeysOf[current]
  /\ unsignalled' = unsignalled \ {k}
  /\ \E ws \in Pick(chain[Bucket[k]], Suspended) :
       /\ ready' = ready \o ws
       /\ status' = Resumed(ws)
  /\ UNCHANGED <<current, ctx, freed, panic, chain, waiters, fq, sleepq, word, ipcVars>>

\* sys_futex_wake: nothing when the bucket's counter is zero; otherwise every
\* futex_q of the chain with this key is unlinked (the counter goes down by one
\* for each) and its thread resumed, in chain order.
SysFutexWake(k) ==
  /\ InUser /\ k \in KeysOf[current]
  /\ unsignalled' = unsignalled \ {k}
  /\ LET b    == Bucket[k]
         same == {t \in Thread : fq[t] # NoQ /\ fq[t].key = k}
     IN IF waiters[b] = 0
        THEN UNCHANGED <<schedVars, chain, waiters, fq>>
        ELSE \E woken \in Pick(chain[b], same), rest \in Pick(chain[b], Thread \ same) :
             /\ chain' = [chain EXCEPT ![b] = rest]
             /\ waiters' = [waiters EXCEPT ![b] = @ - Len(woken)]
             /\ fq' = [t \in Thread |-> IF t \in Range(woken) THEN NoQ ELSE fq[t]]
             /\ \E ws \in Pick(woken, Suspended) :
                  /\ ready' = ready \o ws
                  /\ status' = Resumed(ws)
             /\ UNCHANGED <<current, ctx, freed, panic>>
  /\ UNCHANGED <<sleepq, word, ipcVars>>

\* sys_thread_create: the new thread is installed in a slot and never resumed.
SysThreadCreate(t) ==
  /\ InUser /\ t \notin ServerThread
  /\ ThreadCreate(t)
  /\ UNCHANGED <<sleepq, futexVars, ipcVars>>

\* Faulty variant: the new server thread is made runnable.
RegisterClientResumes(c) ==
  /\ InUser /\ owner[c] = NoThread /\ status[Target[c]] = "NONE"
  /\ status' = [status EXCEPT ![Target[c]] = "READY"]
  /\ ready' = Append(ready, Target[c])
  /\ owner' = [owner EXCEPT ![c] = current]
  /\ UNCHANGED <<current, ctx, freed, panic, sleepq, futexVars, source, active>>

\* sys_register_client(_by_name): create_connection makes the connection and
\* the server thread that will serve it.
SysRegisterClient(c) ==
  /\ InUser /\ owner[c] = NoThread
  /\ ThreadCreate(Target[c])
  /\ owner' = [owner EXCEPT ![c] = current]
  /\ UNCHANGED <<sleepq, futexVars, source, active>>

\* Faulty variants: conn->source is not set; any thread may use a connection.
IpcCallForgetsSource(c) ==
  /\ InUser /\ owner[c] = current
  /\ active' = [active EXCEPT ![Target[c]] = c]
  /\ ScheduleTo(Target[c], [ctx EXCEPT ![Target[c]] = "user"])
  /\ UNCHANGED <<sleepq, futexVars, owner, source>>

IpcCallByAnyone(c) ==
  /\ InUser /\ owner[c] # NoThread
  /\ source' = [source EXCEPT ![c] = current]
  /\ active' = [active EXCEPT ![Target[c]] = c]
  /\ ScheduleTo(Target[c], [ctx EXCEPT ![Target[c]] = "user"])
  /\ UNCHANGED <<sleepq, futexVars, owner>>

\* sys_ipc_call: the caller becomes conn->source, the server thread's context is
\* reset to enter the callback from ret_from_exception, and the CPU is handed to
\* it.  A connection is used by the thread that registered it.
SysIpcCall(c) ==
  /\ InUser /\ owner[c] = current
  /\ source' = [source EXCEPT ![c] = current]
  /\ active' = [active EXCEPT ![Target[c]] = c]
  /\ ScheduleTo(Target[c], [ctx EXCEPT ![Target[c]] = "user"])
  /\ UNCHANGED <<sleepq, futexVars, owner>>

\* sys_ipc_return, which the callback of a server thread ends with.
SysIpcReturn ==
  /\ InUser /\ active[current] # NoConn
  /\ active' = [active EXCEPT ![current] = NoConn]
  /\ ScheduleTo(source[active[current]], ctx)
  /\ UNCHANGED <<sleepq, futexVars, owner, source>>

\* sys_thread_exit, sys_process_exit.  A server thread ends its callback with
\* sys_ipc_return and does not exit.
SysExit ==
  /\ InUser /\ current \notin ServerThread
  /\ ThreadDestroy
  /\ UNCHANGED <<sleepq, futexVars, ipcVars>>

Next ==
  \/ MainLoop
  \/ \E n \in 0..Len(sleepq), r \in BOOLEAN : Tick(n, r)
  \/ SysYield
  \/ \E i \in 1..Len(sleepq) + 1 : SysNanosleep(i)
  \/ \E k \in Key, v \in Val : Store(k, v)
  \/ \E k \in Key, v \in Val : SysFutexWait(k, v)
  \/ \E k \in Key : SysFutexWake(k)
  \/ \E t \in Thread : SysThreadCreate(t)
  \/ \E c \in Conn : SysRegisterClient(c)
  \/ \E c \in Conn : SysIpcCall(c)
  \/ SysIpcReturn
  \/ SysExit

Spec == Init /\ [][Next]_vars

\* The boot thread's loop runs on; in user mode interrupts are enabled and the
\* scheduler timer is periodic, so a tick that reschedules eventually comes; and a
\* sleeping thread's deadline is a fixed instant, so a tick at which it has
\* expired comes if ticks come at all.  System calls are never forced.
Fairness ==
  /\ WF_vars(MainLoop)
  /\ WF_vars(\E n \in 0..Len(sleepq) : Tick(n, TRUE))
  /\ \A t \in Thread :
       SF_vars(\E n \in 1..Len(sleepq), r \in BOOLEAN :
                 t \in Range(SubSeq(sleepq, 1, n)) /\ Tick(n, r))

FairSpec == Spec /\ Fairness
-----------------------------------------------------------------------------
Sleepers == Range(sleepq)
FutexWaiters == UNION {Range(chain[b]) : b \in Buckets}
Busy == {c \in Conn : active[Target[c]] = c}
Callers == {source[c] : c \in Busy}

\* Type invariant: every list holds threads, every table maps threads, buckets,
\* keys or connections to values the code stores there.
TypeOK ==
  /\ SchedTypeOK
  /\ sleepq \in Seq(Thread)
  /\ chain \in [Buckets -> Seq(Thread)]
  /\ waiters \in [Buckets -> Nat]
  /\ fq \in [Thread -> {NoQ} \cup [key : Key, val : Val]]
  /\ word \in [Key -> Val]
  /\ unsignalled \in SUBSET Key
  /\ owner \in [Conn -> Thread \cup {NoThread}]
  /\ source \in [Conn -> Thread \cup {NoThread}]
  /\ active \in [Thread -> Conn \cup {NoConn}]

\* The ready list never holds a thread twice (list_add_tail on a linked node
\* would break the list), and it holds exactly the threads that could run and
\* are not running: no runnable thread is lost, no suspended or exited thread is
\* scheduled.  schedule_to, which leaves its target on the list if it is there,
\* is the operation that could break it.
ReadyListSound ==
  /\ IsInjective(ready)
  /\ status[current] = "RUNNING"
  /\ Range(ready) = {t \in Thread \ {current} : status[t] \in {"READY", "RUNNING"}}

\* A suspended thread waits for one thing only: a thread is at most once in the
\* timer tree, at most once in one futex chain, and the client of at most one
\* call in progress, never two of these, and it is suspended.  So no thread_resume
\* and no schedule_to can hit a thread that waits for something else.
OneWaker ==
  /\ IsInjective(sleepq)
  /\ \A b \in Buckets : IsInjective(chain[b])
  /\ \A b1, b2 \in Buckets : b1 # b2 => Range(chain[b1]) \cap Range(chain[b2]) = {}
  /\ \A c1, c2 \in Busy : source[c1] = source[c2] => c1 = c2
  /\ Sleepers \cap FutexWaiters = {}
  /\ Callers \cap (Sleepers \cup FutexWaiters) = {}
  /\ Sleepers \cup FutexWaiters \cup Callers \subseteq Suspended

\* A connection in progress belongs to its registered client; an idle server
\* thread, whose context the next ipc_call overwrites, is suspended and waits for
\* nothing that could make it run in the middle of that call.
ServerIdleOrBusy ==
  \A c \in Conn :
    /\ active[Target[c]] \in {c, NoConn}
    /\ c \in Busy => source[c] = owner[c]
    /\ c \notin Busy /\ owner[c] # NoThread =>
         /\ status[Target[c]] = "SUSPEND"
         /\ Target[c] \notin Sleepers \cup FutexWaiters \cup Callers

\* A deleted thread_t is referenced by nothing the kernel will follow: not the
\* ready list, the CPU, the timer tree, a futex chain or a call in progress.  It
\* had exited, so no thread is deleted twice.
NoUseAfterFree ==
  /\ \A t \in freed : status[t] = "EXIT"
  /\ freed \cap ({current} \cup Range(ready) \cup Sleepers \cup FutexWaiters \cup Callers) = {}

\* schedule() always finds a thread: PANIC("empty thread list") is unreachable
\* because the boot thread never leaves the ready list but to run.
NoPanic == ~panic

\* The promise of a futex: a thread asleep on a word that no longer holds the
\* value it waited for is only there because the thread that stored the new value
\* has not called futex_wake yet.  No wake-up is lost between the comparison and
\* the sleep, nor by the test of hb->waiters that skips the chain.
NoLostWakeup ==
  \A t \in FutexWaiters : word[fq[t].key] # fq[t].val => fq[t].key \in unsignalled

\* hb->waiters counts the chain of its bucket, so the unlocked test in
\* sys_futex_wake skips only empty chains, and each waiter is in its key's bucket.
WaitersCounted ==
  \A b \in Buckets :
    /\ waiters[b] = Len(chain[b])
    /\ \A t \in Range(chain[b]) : fq[t] # NoQ /\ Bucket[fq[t].key] = b

\* What the invariants above need besides each other to be inductive: the boot
\* thread never leaves RUNNING, active_conn is set on server threads only and to
\* their own connection, a connection and its server thread are made together.
Bookkeeping ==
  /\ status[Main] = "RUNNING"
  /\ \A t \in Thread : active[t] # NoConn => Target[active[t]] = t
  /\ \A c \in Conn : owner[c] = NoThread <=> status[Target[c]] = "NONE"

\* Clients wait for servers and servers for the servers they call, never in a
\* circle: following calls in progress from any thread ends at one that is not
\* itself waiting for a reply.
NoCallCycle ==
  \A C \in SUBSET Busy :
    (\A c \in C : \E d \in C : source[d] = Target[c]) => C = {}

\* A suspended thread runs again only through the event it suspended for: its
\* timer fired, a wake on its futex unlinked it, its own server thread returned, or
\* (an idle server thread) its own client called.
WokenByItsEvent ==
  \A t \in Thread : status[t] = "SUSPEND" /\ status'[t] # "SUSPEND" =>
    \/ t \in Sleepers \ Sleepers'
    \/ t \in FutexWaiters \ FutexWaiters'
    \/ \E c \in Busy : t = source[c] /\ current = Target[c] /\ c \notin Busy'
    \/ \E c \in Busy' \ Busy : t = Target[c] /\ current = owner[c]

WokenByItsEventProp == [][WokenByItsEvent]_vars

\* No thread starves: a thread on the ready list eventually runs, even while IPC
\* partners hand the CPU to each other with schedule_to.
QueuedRuns == \A t \in Thread : (t \in Range(ready)) ~> (current = t)

\* nanosleep returns: a sleeping thread eventually runs again.  With every program
\* suspended it is /idle that keeps interrupts enabled; the boot thread alone
\* would loop with interrupts masked.
SleeperRuns == \A t \in Thread : (t \in Range(sleepq)) ~> (current = t)
=============================================================================
