---------------------------- MODULE KernelProofs ----------------------------
(***************************************************************************)
(* The invariants of Kernel hold for every set of threads, connections and *)
(* futex keys, nobody waits in a circle of calls, and a suspended thread   *)
(* runs again only through the event it waits for.                         *)
(***************************************************************************)
EXTENDS KernelFutexProofs, KernelStepProofs, FiniteSetTheorems

USE DEF NoPanic

\* Counting the elements of a list without duplicates that futex_wake takes apart.
LEMMA PartLengths == PartsAddUp
<1> SUFFICES ASSUME NEW s \in Seq(Thread), NEW p \in Seq(Thread), NEW r \in Seq(Thread),
                    IsInjective(s), IsInjective(p), IsInjective(r),
                    Range(p) \cup Range(r) = Range(s), Range(p) \cap Range(r) = {}
             PROVE  Len(s) = Len(p) + Len(r)
  BY DEF PartsAddUp
<1>1. ASSUME NEW u \in Seq(Thread), IsInjective(u)
      PROVE  IsFiniteSet(Range(u)) /\ Cardinality(Range(u)) = Len(u)
  <2>1. u \in Bijection(1..Len(u), Range(u))
    <3>1. DOMAIN u = 1..Len(u) /\ \A x : x \in Range(u) <=> \E i \in 1..Len(u) : u[i] = x
      BY RangeDef
    <3>2. u \in [1..Len(u) -> Range(u)]
      BY <3>1
    <3>3. \A i, j \in 1..Len(u) : u[i] = u[j] => i = j
      BY <1>1, InjDef
    <3> QED BY <3>1, <3>2, <3>3 DEF Bijection, Injection, Surjection, IsInjective
  <2>2. ExistsBijection(1..Len(u), Range(u)) /\ Len(u) \in Nat
    BY <2>1 DEF ExistsBijection
  <2>3. IsFiniteSet(1..Len(u))
    BY <2>2, FS_Interval
  <2> QED BY <2>2, <2>3, FS_CountingElements, FS_Bijection
<1> DEFINE P == Range(p)
           R == Range(r)
<1>2. /\ IsFiniteSet(P) /\ Cardinality(P) = Len(p)
      /\ IsFiniteSet(R) /\ Cardinality(R) = Len(r)
      /\ Cardinality(P \cup R) = Len(s) /\ P \cap R = {}
  BY <1>1
<1> HIDE DEF P, R
<1>3. Cardinality(P \cup R) = Len(p) + Len(r) - Cardinality(P \cap R)
  BY <1>2, FS_Union
<1>4. Cardinality(P \cap R) = 0
  BY <1>2, FS_EmptySet
<1> QED BY <1>2, <1>3, <1>4

\* The state main() reaches before its first schedule() satisfies the invariant.
LEMMA InitInv == Init => IInv
<1> SUFFICES ASSUME Init PROVE IInv
  OBVIOUS
<1>1. /\ current = Main /\ ready = Boot /\ freed = {} /\ panic = FALSE
      /\ status = [t \in Thread |-> IF t = Main THEN "RUNNING"
                                ELSE IF t \in Range(Boot) THEN "READY" ELSE "NONE"]
      /\ ctx = [t \in Thread |-> "user"]
      /\ sleepq = <<>> /\ chain = [b \in Buckets |-> <<>>] /\ waiters = [b \in Buckets |-> 0]
      /\ fq = [t \in Thread |-> NoQ] /\ word \in [Key -> Val] /\ unsignalled = {}
      /\ owner = [c \in Conn |-> NoThread] /\ source = [c \in Conn |-> NoThread]
      /\ active = [t \in Thread |-> NoConn]
  BY DEF Init, SchedInit
<1>2. /\ Main \in Thread /\ Boot \in Seq(Thread) /\ IsInjective(Boot)
      /\ Range(Boot) \subseteq Thread \ {Main}
  <2>1. Boot \in Seq(Thread \ {Main}) /\ Main \in Thread /\ IsInjective(Boot)
    BY ThreadAssumption
  <2>2. Range(Boot) \subseteq Thread \ {Main}
    BY <2>1, RangeDef
  <2>3. Boot \in Seq(Thread)
    BY <2>1
  <2> QED BY <2>1, <2>2, <2>3
<1>3. Range(<<>>) = {} /\ IsInjective(<<>>) /\ Len(<<>>) = 0
  BY DEF Range, IsInjective
<1>4. SchedTypeOK
  <2>1. status \in [Thread -> Status] /\ ctx \in [Thread -> Context]
    BY <1>1 DEF Status, Context
  <2>2. panic = FALSE /\ freed = {} /\ current = Main /\ ready = Boot
    BY <1>1
  <2> QED BY ZenonT(60), <1>2, <2>1, <2>2 DEF SchedTypeOK
<1>5. TypeOK
  BY <1>1, <1>4 DEF TypeOK
<1>6. ReadyListSound
  BY <1>1, <1>2 DEF ReadyListSound
<1>7. Sleepers = {} /\ FutexWaiters = {} /\ Busy = {} /\ Callers = {}
  <2>1. Sleepers = {}
    BY <1>1, <1>3 DEF Sleepers
  <2>2. FutexWaiters = {}
    BY <1>1, <1>3 DEF FutexWaiters
  <2>3. Busy = {}
    BY <1>1, ConnAssumption DEF Busy
  <2>4. Callers = {}
    BY <2>3 DEF Callers
  <2> QED BY <2>1, <2>2, <2>3, <2>4
<1>8. OneWaker
  BY <1>1, <1>3, <1>7 DEF OneWaker
<1>9. ServerIdleOrBusy /\ Bookkeeping
  BY <1>1, <1>2, <1>7, ConnAssumption DEF ServerIdleOrBusy, Bookkeeping
<1>10. FreedExited /\ NoPanic /\ NoLostWakeup
  BY <1>1, <1>7 DEF FreedExited, NoLostWakeup
<1>11. WaitersCounted
  BY <1>1, <1>3 DEF WaitersCounted
<1> QED BY <1>5, <1>6, <1>8, <1>9, <1>10, <1>11 DEF IInv

\* Every system call, interrupt and turn of main's loop preserves the invariant.
LEMMA StepInv == IInv /\ [Next]_vars => IInv'
<1> SUFFICES ASSUME IInv, [Next]_vars PROVE IInv'
  OBVIOUS
<1>1. CASE MainLoop
  BY <1>1, MainLoopInv
<1>2. CASE \E n \in 0..Len(sleepq), r \in BOOLEAN : Tick(n, r)
  BY <1>2, TickInv
<1>3. CASE SysYield
  BY <1>3, GiveUpInv DEF SysYield, ThreadSuspend, InUser
<1>4. CASE \E i \in 1..Len(sleepq) + 1 : SysNanosleep(i)
  BY <1>4, GiveUpInv DEF SysNanosleep, ThreadSuspend, InUser
<1>5. CASE \E k \in Key, v \in Val : Store(k, v)
  BY <1>5, StoreInv
<1>6. CASE \E k \in Key, v \in Val : SysFutexWait(k, v)
  BY <1>6, FutexWaitInv
<1>7. CASE \E k \in Key : SysFutexWake(k)
  BY <1>7, FutexWakeInv, PartLengths
<1>8. CASE \E t \in Thread : SysThreadCreate(t)
  BY <1>8, ThreadCreateInv
<1>9. CASE \E c \in Conn : SysRegisterClient(c)
  BY <1>9, RegisterClientInv
<1>10. CASE \E c \in Conn : SysIpcCall(c)
  BY <1>10, IpcCallInv
<1>11. CASE SysIpcReturn
  BY <1>11, IpcReturnInv
<1>12. CASE SysExit
  BY <1>12, GiveUpInv DEF SysExit, ThreadDestroy, InUser
<1>13. CASE UNCHANGED vars
  BY <1>13, StutterInv
<1> QED BY SMTT(60), <1>1, <1>2, <1>3, <1>4, <1>5, <1>6, <1>7, <1>8, <1>9, <1>10, <1>11, <1>12, <1>13
        DEF Next

\* In every reachable state the invariant holds.
THEOREM Invariance == Spec => []IInv
BY InitInv, StepInv, PTL DEF Spec

\* The invariant implies that nothing linked has been deleted.
LEMMA FreedFacts == IInv => NoUseAfterFree
<1> SUFFICES ASSUME IInv PROVE NoUseAfterFree
  OBVIOUS
<1>1. \A t \in freed : t \in Thread /\ status[t] = "EXIT"
  BY DEF IInv, FreedExited, TypeOK, SchedTypeOK
<1>2. \A t \in {current} \cup Range(ready) : status[t] \in {"READY", "RUNNING"}
  BY DEF IInv, ReadyListSound
<1>3. \A t \in Sleepers \cup FutexWaiters \cup Callers : status[t] = "SUSPEND"
  BY DEF IInv, OneWaker, Suspended
<1> QED BY <1>1, <1>2, <1>3 DEF NoUseAfterFree

\* The type invariant of the kernel's thread state, for any number of threads,
\* connections and futexes.
THEOREM TypeCorrect == Spec => []TypeOK
BY Invariance, PTL DEF IInv

\* The ready list is always sound: no duplicates, exactly the runnable threads.
THEOREM ReadyListIsSound == Spec => []ReadyListSound
BY Invariance, PTL DEF IInv

\* A suspended thread is always in at most one wait structure: no timer, futex_wake or
\* ipc_return can resume it twice.
THEOREM WaitersAreSeparate == Spec => []OneWaker
BY Invariance, PTL DEF IInv

\* No thread that is deleted is reachable, and schedule() never panics.
THEOREM NoDanglingThread == Spec => [](NoUseAfterFree /\ NoPanic)
BY Invariance, FreedFacts, PTL DEF IInv

\* Futexes never lose a wake-up and the bucket counters are exact.
THEOREM FutexKeepsItsPromise == Spec => [](NoLostWakeup /\ WaitersCounted)
BY Invariance, PTL DEF IInv

\* A server thread is always idle, suspended and waiting for nothing else, or in the
\* middle of a call that belongs to the client registered for its connection: what
\* sys_ipc_call relies on when it overwrites the context of the server thread.
THEOREM ServersAreIdleOrBusy == Spec => []ServerIdleOrBusy
BY Invariance, PTL DEF IInv
-----------------------------------------------------------------------------
\* Calls in progress never form a circle, whatever one step of the system does.
\* sys_ipc_call adds the call of a connection whose server thread is idle and so
\* is nobody's caller: the new call is in no circle.
LEMMA CallCycleStep == IInv /\ NoCallCycle /\ [Next]_vars => NoCallCycle'
<1> SUFFICES ASSUME IInv, NoCallCycle, [Next]_vars PROVE NoCallCycle'
  OBVIOUS
<1>1. CASE source' = source /\ active' = active
  <2>1. Busy' = Busy
    BY <1>1 DEF Busy
  <2> QED BY <1>1, <2>1 DEF NoCallCycle
<1>2. ASSUME NEW c \in Conn, SysIpcCall(c) PROVE NoCallCycle'
  <2> DEFINE t == Target[c]
  <2>1. /\ owner[c] = current /\ source' = [source EXCEPT ![c] = current]
        /\ active' = [active EXCEPT ![t] = c]
    BY <1>2 DEF SysIpcCall
  <2>2. current \in Thread /\ current \notin Callers
    BY RunningFacts
  <2>3. c \notin Busy
    BY <2>1, <2>2 DEF IInv, ServerIdleOrBusy, Callers
  <2>4. t \in Thread /\ t \notin Callers /\ t # current
    BY <2>1, <2>2, <2>3, RunningFacts, ThreadAssumption, ConnAssumption DEF IInv, ServerIdleOrBusy
  <2>5. Busy' = Busy \cup {c}
    BY <2>1, <2>4, ConnAssumption DEF IInv, TypeOK, Busy, IsInjective
  <2>6. source'[c] = current /\ \A d \in Conn \ {c} : source'[d] = source[d]
    BY <2>1 DEF IInv, TypeOK
  <2> SUFFICES ASSUME NEW C \in SUBSET Busy',
                      \A e \in C : \E d \in C : source'[d] = Target[e]
               PROVE  C = {}
    BY DEF NoCallCycle
  <2>7. c \notin C
    <3> SUFFICES ASSUME c \in C PROVE FALSE
      OBVIOUS
    <3>1. PICK d \in C : source'[d] = t
      OBVIOUS
    <3>2. d # c
      BY <3>1, <2>4, <2>6
    <3>3. d \in Busy /\ d \in Conn
      BY <3>2, <2>5 DEF Busy
    <3> QED BY <3>1, <3>2, <3>3, <2>4, <2>6 DEF Callers
  <2>8. C \in SUBSET Busy
    BY <2>5, <2>7
  <2>9. \A e \in C : \E d \in C : source[d] = Target[e]
    BY <2>6, <2>7, <2>8 DEF Busy
  <2> QED BY <2>8, <2>9 DEF NoCallCycle
<1>3. CASE SysIpcReturn
  <2>1. source' = source /\ active' = [active EXCEPT ![current] = NoConn]
    BY <1>3 DEF SysIpcReturn
  <2>2. Busy' \subseteq Busy
    BY <2>1, ConnAssumption DEF IInv, TypeOK, Busy
  <2> QED BY <2>1, <2>2 DEF NoCallCycle
<1>4. \/ source' = source /\ active' = active
      \/ \E c \in Conn : SysIpcCall(c)
      \/ SysIpcReturn
  BY DEF Next, vars, ipcVars, MainLoop, Tick, SysYield, SysNanosleep, Store, SysFutexWait,
         SysFutexWake, SysThreadCreate, SysRegisterClient, SysExit
<1> QED BY <1>1, <1>2, <1>3, <1>4

\* Following calls in progress always ends at a thread that is not waiting for a
\* reply: no circle of servers that call each other can hang, whatever the threads
\* and connections.
THEOREM NoCallCycles == Spec => []NoCallCycle
<1>1. Init => NoCallCycle
  <2> SUFFICES ASSUME Init PROVE NoCallCycle
    OBVIOUS
  <2>1. active = [t \in Thread |-> NoConn]
    BY DEF Init
  <2>2. Busy = {}
    BY <2>1, ConnAssumption DEF Busy
  <2> QED BY <2>2 DEF NoCallCycle
<1> QED BY <1>1, CallCycleStep, Invariance, PTL DEF Spec
-----------------------------------------------------------------------------
\* A step that resumes nobody breaks no thread's sleep.
LEMMA NobodyWoken ==
  ASSUME \A t \in Thread : status[t] = "SUSPEND" => status'[t] = "SUSPEND"
  PROVE  WokenByItsEvent
BY DEF WokenByItsEvent

\* A timer interrupt wakes sleepers whose timer it takes out of the tree, no others.
LEMMA TickWakes ==
  ASSUME IInv, NEW n \in 0..Len(sleepq), NEW resched \in BOOLEAN, Tick(n, resched)
  PROVE  WokenByItsEvent
<1> DEFINE p == SubSeq(sleepq, 1, n)
           r == SubSeq(sleepq, n + 1, Len(sleepq))
<1>1. /\ p \in Seq(Thread) /\ r \in Seq(Thread)
      /\ Range(p) \cup Range(r) = Range(sleepq) /\ Range(p) \cap Range(r) = {}
  BY WaitingFacts, SplitFacts
<1>2. PICK ws \in Pick(p, Suspended) :
        IF resched
        THEN Schedule(ready \o ws, Resumed(ws))
        ELSE /\ ready' = ready \o ws
             /\ status' = Resumed(ws)
             /\ UNCHANGED <<current, ctx, freed, panic>>
  BY DEF Tick
<1>3. sleepq' = r
  BY DEF Tick
<1> HIDE DEF p, r
<1>4. \A t \in Thread : status[t] = "SUSPEND" /\ status'[t] # "SUSPEND" => t \in Range(p)
  <2>1. CASE resched
    BY <1>1, <1>2, <2>1, PreemptFacts
  <2>2. CASE ~resched
    <3>1. status' = Resumed(ws) /\ Range(ws) = Suspended \cap Range(p)
      BY <1>1, <1>2, <2>2, PickFacts
    <3> QED BY <3>1 DEF Resumed
  <2> QED BY <2>1, <2>2
<1> QED BY <1>1, <1>3, <1>4 DEF WokenByItsEvent, Sleepers

\* futex_wake resumes the threads it unlinks from the chain of the key.
LEMMA FutexWakeWakes ==
  ASSUME IInv, NEW k \in Key, SysFutexWake(k)
  PROVE  WokenByItsEvent
<1> DEFINE b == Bucket[k]
           same == {t \in Thread : fq[t] # NoQ /\ fq[t].key = k}
<1>b. b \in Buckets
  BY FutexAssumption DEF Buckets, Range
<1>c. /\ chain[b] \in Seq(Thread) /\ Range(chain[b]) \subseteq FutexWaiters
      /\ \A t \in Range(chain[b]) : t \in Thread /\ status[t] = "SUSPEND" /\ fq[t] # NoQ
  BY <1>b, ChainFacts
<1>1. CASE waiters[b] = 0
  <2>1. status' = status
    BY <1>1 DEF SysFutexWake, schedVars
  <2> QED BY <2>1, NobodyWoken
<1>2. CASE waiters[b] # 0
  <2>1. PICK woken \in Pick(chain[b], same), rest \in Pick(chain[b], Thread \ same) :
             /\ chain' = [chain EXCEPT ![b] = rest]
             /\ fq' = [t \in Thread |-> IF t \in Range(woken) THEN NoQ ELSE fq[t]]
             /\ \E ws \in Pick(woken, Suspended) : status' = Resumed(ws)
    BY ZenonT(60), <1>2 DEF SysFutexWake
  <2>2. PICK ws \in Pick(woken, Suspended) : status' = Resumed(ws)
    BY <2>1
  <2>3. woken \in Seq(Thread) /\ Range(woken) = same \cap Range(chain[b])
    BY ZenonT(60), <1>c, PickFacts
  <2>4. Range(ws) = Suspended \cap Range(woken)
    BY ZenonT(60), <2>3, PickFacts
  <2>5. \A t \in Thread : status[t] = "SUSPEND" /\ status'[t] # "SUSPEND" => t \in Range(woken)
    BY <2>2, <2>4 DEF Resumed
  <2>6. \A t \in Range(woken) : t \in FutexWaiters /\ t \in Thread /\ fq'[t] = NoQ
    <3>1. \A t \in Range(woken) : t \in FutexWaiters /\ t \in Thread
      BY <2>3, <1>c
    <3> QED BY <3>1, <2>1
  <2>7. \A t \in FutexWaiters' : fq'[t] # NoQ
    <3>1. IInv'
      BY FutexWakeInv, PartLengths
    <3>2. WaitersCounted'
      BY <3>1 DEF IInv
    <3> QED BY <3>2 DEF WaitersCounted, FutexWaiters, Buckets
  <2> QED BY <2>5, <2>6, <2>7 DEF WokenByItsEvent
<1> QED BY <1>1, <1>2

\* sys_ipc_call wakes the idle server thread of its connection only.
LEMMA IpcCallWakes ==
  ASSUME IInv, NEW c \in Conn, SysIpcCall(c)
  PROVE  WokenByItsEvent
<1> DEFINE t == Target[c]
<1>1. /\ owner[c] = current /\ active' = [active EXCEPT ![t] = c]
      /\ status' = [status EXCEPT ![current] = "SUSPEND", ![t] = "RUNNING"]
  BY DEF SysIpcCall, ScheduleTo
<1>2. current \in Thread /\ current \notin Callers
  BY RunningFacts
<1>3. c \notin Busy
  BY <1>1, <1>2 DEF IInv, ServerIdleOrBusy, Callers
<1>4. t \in Thread /\ status \in [Thread -> Status] /\ active \in [Thread -> Conn \cup {NoConn}]
  BY ConnAssumption DEF IInv, TypeOK, SchedTypeOK
<1>5. c \in Busy'
  BY <1>1, <1>4 DEF Busy
<1>6. \A u \in Thread : status[u] = "SUSPEND" /\ status'[u] # "SUSPEND" => u = t
  BY <1>1, <1>2, <1>4
<1> QED BY <1>1, <1>3, <1>5, <1>6 DEF WokenByItsEvent

\* sys_ipc_return wakes the client of the call it ends.
LEMMA IpcReturnWakes ==
  ASSUME IInv, SysIpcReturn
  PROVE  WokenByItsEvent
<1> DEFINE c == active[current]
           s == source[c]
<1>1. /\ c # NoConn /\ active' = [active EXCEPT ![current] = NoConn] /\ source' = source
      /\ status' = [status EXCEPT ![current] = "SUSPEND", ![s] = "RUNNING"]
  BY DEF SysIpcReturn, ScheduleTo
<1>2. current \in Thread /\ active \in [Thread -> Conn \cup {NoConn}] /\ status \in [Thread -> Status]
  BY DEF IInv, TypeOK, SchedTypeOK
<1>3. c \in Conn /\ Target[c] = current /\ c \in Busy
  BY <1>1, <1>2 DEF IInv, Bookkeeping, Busy
<1>4. c \notin Busy'
  BY <1>1, <1>2, <1>3 DEF Busy
<1>5. \A u \in Thread : status[u] = "SUSPEND" /\ status'[u] # "SUSPEND" => u = s
  BY <1>1, <1>2
<1> QED BY <1>3, <1>4, <1>5 DEF WokenByItsEvent

\* Whatever step makes a suspended thread runnable again, it is the event the thread
\* suspended for.
LEMMA WokenStep == IInv /\ [Next]_vars => WokenByItsEvent
<1> SUFFICES ASSUME IInv, [Next]_vars PROVE WokenByItsEvent
  OBVIOUS
<1>t. /\ current \in Thread /\ status[current] = "RUNNING" /\ status \in [Thread -> Status]
      /\ SchedTypeOK /\ ready \in Seq(Thread) /\ status[Main] = "RUNNING" /\ Main \in Thread
  BY ThreadAssumption DEF IInv, TypeOK, SchedTypeOK, ReadyListSound, Bookkeeping
<1>1. CASE MainLoop
  <2>1. Schedule(ready, status)
    BY <1>1 DEF MainLoop
  <2>2. /\ status[current'] \in {"READY", "RUNNING"}
        /\ status' = [status EXCEPT ![current'] = "RUNNING"]
    BY <1>t, <2>1, ScheduleFacts DEF IInv, ReadyListSound
  <2> QED BY <1>t, <2>2, NobodyWoken
<1>2. CASE \E n \in 0..Len(sleepq), r \in BOOLEAN : Tick(n, r)
  BY <1>2, TickWakes
<1>3. ASSUME NEW x \in {"SUSPEND", "EXIT"}, current # Main,
             Schedule(ready, [status EXCEPT ![current] = x])
      PROVE  WokenByItsEvent
  <2>1. \A t \in Thread \ {current} :
              status[t] \in {"NONE", "SUSPEND", "EXIT"} => status'[t] = status[t]
    BY <1>3, GiveUpFacts
  <2> QED BY <1>t, <2>1, NobodyWoken
<1>4. CASE SysYield
  BY <1>3, <1>4 DEF SysYield, ThreadSuspend, InUser
<1>5. CASE \E i \in 1..Len(sleepq) + 1 : SysNanosleep(i)
  BY <1>3, <1>5 DEF SysNanosleep, ThreadSuspend, InUser
<1>6. CASE \E k \in Key, v \in Val : Store(k, v)
  BY <1>6, NobodyWoken DEF Store, schedVars
<1>7. CASE \E k \in Key, v \in Val : SysFutexWait(k, v)
  <2>1. PICK k \in Key, v \in Val : SysFutexWait(k, v)
    BY <1>7
  <2>2. CASE word[k] # v
    BY <2>1, <2>2, NobodyWoken DEF SysFutexWait, schedVars
  <2>3. CASE word[k] = v
    BY <1>3, <2>1, <2>3 DEF SysFutexWait, InUser
  <2> QED BY <2>2, <2>3
<1>8. CASE \E k \in Key : SysFutexWake(k)
  BY <1>8, FutexWakeWakes
<1>9. ASSUME NEW t \in Thread, ThreadCreate(t) PROVE WokenByItsEvent
  BY <1>t, <1>9, NobodyWoken DEF ThreadCreate
<1>10. CASE \E t \in Thread : SysThreadCreate(t)
  BY <1>9, <1>10 DEF SysThreadCreate
<1>11. CASE \E c \in Conn : SysRegisterClient(c)
  BY <1>9, <1>11, ConnAssumption DEF SysRegisterClient
<1>12. CASE \E c \in Conn : SysIpcCall(c)
  BY <1>12, IpcCallWakes
<1>13. CASE SysIpcReturn
  BY <1>13, IpcReturnWakes
<1>14. CASE SysExit
  BY <1>3, <1>14 DEF SysExit, ThreadDestroy, InUser
<1>15. CASE UNCHANGED vars
  BY <1>15, NobodyWoken DEF vars, schedVars
<1> QED BY <1>1, <1>2, <1>4, <1>5, <1>6, <1>7, <1>8, <1>10, <1>11, <1>12, <1>13, <1>14, <1>15
        DEF Next

\* thread_resume and schedule_to never cut a sleep short: a suspended thread runs again
\* only because its own timer fired, its futex was woken, its server thread returned
\* or, an idle server thread, its client called.
THEOREM WokenByItsOwnEvent == Spec => WokenByItsEventProp
<1>1. IInv /\ [Next]_vars => [WokenByItsEvent]_vars
  BY WokenStep
<1> QED BY <1>1, Invariance, PTL DEF Spec, WokenByItsEventProp
=============================================================================
