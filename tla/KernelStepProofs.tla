-------------------------- MODULE KernelStepProofs --------------------------
(***************************************************************************)
(* The boot loop, timer interrupts, yield, sleep, exit, user stores, the   *)
(* creation of threads, the registration of a client and the two halves of *)
(* a synchronous call preserve the invariant of Kernel.                    *)
(***************************************************************************)
EXTENDS KernelLemmas

USE DEF NoPanic

\* main's loop preserves the invariant.
LEMMA MainLoopInv == IInv /\ MainLoop => IInv'
<1> SUFFICES ASSUME IInv, MainLoop PROVE IInv'
  OBVIOUS
<1>1. UNCHANGED <<futexVars, ipcVars>> /\ sleepq' = sleepq /\ Schedule(ready, status)
  BY DEF MainLoop
<1>2. /\ SchedTypeOK /\ ready \in Seq(Thread) /\ status \in [Thread -> Status]
      /\ IsInjective(ready) /\ status[current] = "RUNNING" /\ status[Main] = "RUNNING"
      /\ Range(ready) = {t \in Thread \ {current} : status[t] \in {"READY", "RUNNING"}}
  BY DEF IInv, TypeOK, SchedTypeOK, ReadyListSound, Bookkeeping
<1>3. /\ SchedTypeOK' /\ panic' = panic /\ ReadyListSound'
      /\ status[current'] \in {"READY", "RUNNING"}
      /\ status' = [status EXCEPT ![current'] = "RUNNING"]
      /\ freed' = freed
  BY <1>1, <1>2, ScheduleFacts
<1>4. \A t \in Thread : status'[t] = IF t = current' THEN "RUNNING" ELSE status[t]
  BY <1>2, <1>3
<1>5. \A t \in Thread : /\ status[t] \in {"SUSPEND", "EXIT", "NONE"} => status'[t] = status[t]
                        /\ status'[t] = "NONE" => status[t] = "NONE"
  BY <1>3, <1>4
<1>6. FreedExited' /\ NoPanic' /\ status'[Main] = "RUNNING"
  BY <1>2, <1>3, <1>4, <1>5, ThreadAssumption
     DEF IInv, FreedExited, SchedTypeOK
<1> QED BY <1>1, <1>3, <1>5, <1>6, FrameFacts, WaitingFacts

\* A timer interrupt preserves the invariant, whatever timers have expired.
LEMMA TickInv ==
  ASSUME IInv, NEW n \in 0..Len(sleepq), NEW resched \in BOOLEAN, Tick(n, resched)
  PROVE  IInv'
<1> DEFINE p == SubSeq(sleepq, 1, n)
           r == SubSeq(sleepq, n + 1, Len(sleepq))
<1>1. /\ p \in Seq(Thread) /\ r \in Seq(Thread) /\ IsInjective(r)
      /\ Range(p) \cup Range(r) = Range(sleepq) /\ Range(p) \cap Range(r) = {}
  BY WaitingFacts, SplitFacts
<1>2. PICK ws \in Pick(p, Suspended) :
        IF resched
        THEN Schedule(ready \o ws, Resumed(ws))
        ELSE /\ ready' = ready \o ws
             /\ status' = Resumed(ws)
             /\ UNCHANGED <<current, ctx, freed, panic>>
  BY DEF Tick
<1>3. sleepq' = r /\ UNCHANGED <<futexVars, ipcVars>>
  BY DEF Tick
<1> HIDE DEF p, r
<1>4. /\ SchedTypeOK' /\ ReadyListSound' /\ FreedExited' /\ NoPanic'
      /\ status'[Main] = "RUNNING"
      /\ \A t \in Thread :
           /\ status'[t] = "SUSPEND" <=> status[t] = "SUSPEND" /\ t \notin Range(p)
           /\ status'[t] = "NONE" <=> status[t] = "NONE"
  <2>1. CASE resched
    BY <1>1, <1>2, <2>1, PreemptFacts
  <2>2. CASE ~resched
    <3>1. SchedTypeOK /\ ReadyListSound /\ Main \in Thread
      BY ThreadAssumption DEF IInv, TypeOK
    <3>2. /\ ready \o ws \in Seq(Thread) /\ IsInjective(ready \o ws)
          /\ Range(ws) = Suspended \cap Range(p)
          /\ Resumed(ws) \in [Thread -> Status]
          /\ Range(ready \o ws) =
               {t \in Thread \ {current} : Resumed(ws)[t] \in {"READY", "RUNNING"}}
      BY <1>1, <3>1, ResumeFacts
    <3>3. /\ ready' = ready \o ws /\ status' = Resumed(ws)
          /\ UNCHANGED <<current, ctx, freed, panic>>
      BY <1>2, <2>2
    <3>4. \A t \in Thread : status'[t] = IF t \in Range(ws) THEN "READY" ELSE status[t]
      BY <3>3 DEF Resumed
    <3>5. SchedTypeOK'
      BY <3>1, <3>2, <3>3 DEF SchedTypeOK
    <3>6. ReadyListSound'
      <4>1. status'[current'] = "RUNNING"
        BY SMTT(60), <3>1, <3>2, <3>3, <3>4 DEF ReadyListSound, Suspended, SchedTypeOK
      <4> QED BY <3>2, <3>3, <4>1 DEF ReadyListSound
    <3>7. FreedExited' /\ NoPanic' /\ status'[Main] = "RUNNING"
      BY SMTT(60), <3>1, <3>2, <3>3, <3>4
         DEF IInv, FreedExited, Bookkeeping, Suspended, SchedTypeOK
    <3>8. \A t \in Thread :
           /\ status'[t] = "SUSPEND" <=> status[t] = "SUSPEND" /\ t \notin Range(p)
           /\ status'[t] = "NONE" <=> status[t] = "NONE"
      BY SMTT(60), <3>2, <3>4 DEF Suspended
    <3> QED BY <3>5, <3>6, <3>7, <3>8
  <2> QED BY <2>1, <2>2
<1>5. /\ \A t \in Range(r) : status'[t] = "SUSPEND"
      /\ \A t \in FutexWaiters \cup Callers : status'[t] = "SUSPEND"
      /\ \A c \in Conn : c \notin Busy /\ owner[c] # NoThread => status'[Target[c]] = "SUSPEND"
  BY SMTT(60), <1>1, <1>4, WaitingFacts
<1>6. \A t \in Range(r) : t \notin FutexWaiters /\ t \notin Callers
                        /\ \A c \in Conn : t = Target[c] => c \in Busy
  BY <1>1, WaitingFacts
<1> QED BY <1>1, <1>3, <1>4, <1>5, <1>6, FrameFacts

\* Leaving the CPU by sys_yield or by exiting preserves the invariant.
LEMMA GiveUpInv ==
  ASSUME IInv, NEW x \in {"SUSPEND", "EXIT"}, current # Main,
         x = "EXIT" => current \notin ServerThread,
         Schedule(ready, [status EXCEPT ![current] = x]),
         sleepq' = sleepq \/ (\E i \in 1..Len(sleepq) + 1 :
                                x = "SUSPEND" /\ sleepq' = InsertBefore(sleepq, i, current)),
         UNCHANGED <<futexVars, ipcVars>>
  PROVE  IInv'
<1>1. /\ SchedTypeOK' /\ ReadyListSound' /\ FreedExited' /\ NoPanic'
      /\ status'[Main] = "RUNNING" /\ status'[current] = x
      /\ \A t \in Thread \ {current} :
           /\ status[t] \in {"NONE", "SUSPEND", "EXIT"} => status'[t] = status[t]
           /\ status'[t] \in {"NONE", "SUSPEND", "EXIT"} => status'[t] = status[t]
  BY ZenonT(60), GiveUpFacts
<1>2. /\ current \in Thread /\ status[current] = "RUNNING"
      /\ current \notin Range(sleepq) /\ current \notin FutexWaiters /\ current \notin Callers
      /\ \A c \in Conn : Target[c] = current => c \in Busy
  BY RunningFacts DEF Sleepers
<1>3. /\ sleepq' \in Seq(Thread) /\ IsInjective(sleepq')
      /\ Range(sleepq') = Range(sleepq) \/
           (x = "SUSPEND" /\ Range(sleepq') = Range(sleepq) \cup {current})
  BY <1>2, WaitingFacts, InsertFacts
<1>4. \A t \in Thread : status[t] = "SUSPEND" => status'[t] = "SUSPEND"
  BY <1>1, <1>2
<1>5. \A t \in Thread : status'[t] = "NONE" <=> status[t] = "NONE"
  BY <1>1, <1>2
<1>6. \A t \in Range(sleepq') :
           /\ t \notin FutexWaiters /\ t \notin Callers /\ status'[t] = "SUSPEND"
           /\ \A c \in Conn : t = Target[c] => c \in Busy
  BY SMTT(60), <1>1, <1>2, <1>3, <1>4, WaitingFacts
<1>7. /\ \A t \in FutexWaiters \cup Callers : status'[t] = "SUSPEND"
      /\ \A c \in Conn : c \notin Busy /\ owner[c] # NoThread => status'[Target[c]] = "SUSPEND"
  BY <1>4, WaitingFacts
<1> QED BY SMTT(60), <1>1, <1>3, <1>5, <1>6, <1>7, FrameFacts
-----------------------------------------------------------------------------
\* A store to a futex word preserves the invariant: the key it makes stale is
\* recorded as unsignalled.
LEMMA StoreInv ==
  ASSUME IInv, NEW k \in Key, NEW v \in Val, Store(k, v)
  PROVE  IInv'
<1>1. /\ word' = [word EXCEPT ![k] = v] /\ unsignalled' = unsignalled \cup {k}
      /\ UNCHANGED <<current, ready, status, ctx, freed, panic, sleepq, chain, waiters, fq,
                     owner, source, active>>
  BY DEF Store, schedVars, ipcVars
<1>2. FutexWaiters' = FutexWaiters /\ Callers' = Callers /\ Busy' = Busy /\ Sleepers' = Sleepers
  BY <1>1 DEF FutexWaiters, Callers, Busy, Sleepers
<1>3. TypeOK'
  BY SMTT(60), <1>1 DEF IInv, TypeOK, SchedTypeOK
<1>4. ReadyListSound' /\ FreedExited' /\ NoPanic' /\ Bookkeeping'
  BY <1>1 DEF IInv, ReadyListSound, FreedExited, Bookkeeping
<1>5. OneWaker'
  BY <1>1, <1>2 DEF IInv, OneWaker, Suspended, Buckets
<1>6. ServerIdleOrBusy'
  BY SMTT(60), <1>1, <1>2 DEF IInv, ServerIdleOrBusy
<1>7. WaitersCounted'
  BY <1>1 DEF IInv, WaitersCounted, Buckets
<1>8. NoLostWakeup'
  <2>1. ASSUME NEW t \in FutexWaiters, word'[fq[t].key] # fq[t].val
        PROVE  fq[t].key \in unsignalled'
    BY <1>1, <2>1 DEF IInv, NoLostWakeup, TypeOK
  <2> QED BY <1>1, <1>2, <2>1 DEF NoLostWakeup
<1> QED BY SMTT(60), <1>3, <1>4, <1>5, <1>6, <1>7, <1>8 DEF IInv

\* sys_thread_create preserves the invariant: a new thread is in no list.
LEMMA ThreadCreateInv ==
  ASSUME IInv, NEW t \in Thread, SysThreadCreate(t)
  PROVE  IInv'
<1>1. /\ status[t] = "NONE" /\ t \notin ServerThread
      /\ status' = [status EXCEPT ![t] = "SUSPEND"] /\ ctx' = [ctx EXCEPT ![t] = "user"]
      /\ UNCHANGED <<current, ready, freed, panic, sleepq>> /\ UNCHANGED <<futexVars, ipcVars>>
  BY DEF SysThreadCreate, ThreadCreate
<1>2. \A u \in Thread : status'[u] = IF u = t THEN "SUSPEND" ELSE status[u]
  BY <1>1 DEF IInv, TypeOK, SchedTypeOK
<1>3. SchedTypeOK'
  BY <1>1 DEF IInv, TypeOK, SchedTypeOK, Status, Context
<1>4. ReadyListSound'
  BY <1>1, <1>2 DEF IInv, ReadyListSound, TypeOK, SchedTypeOK
<1>5. FreedExited' /\ NoPanic' /\ status'[Main] = "RUNNING"
  BY <1>1, <1>2, ThreadAssumption DEF IInv, FreedExited, Bookkeeping, TypeOK, SchedTypeOK
<1>6. Bookkeeping'
  <2>1. \A c \in Conn : Target[c] \in Thread /\ Target[c] # t
    BY <1>1, ConnAssumption DEF ServerThread, Range
  <2> QED BY <1>1, <1>2, <1>5, <2>1 DEF IInv, Bookkeeping, ipcVars
<1>7. UNCHANGED <<chain, waiters, fq, word, unsignalled, owner, source, active>>
  BY <1>1 DEF futexVars, ipcVars
<1>8. FutexWaiters' = FutexWaiters /\ Callers' = Callers /\ Busy' = Busy /\ Sleepers' = Sleepers
  BY <1>1, <1>7 DEF FutexWaiters, Callers, Busy, Sleepers
<1>9. TypeOK'
  BY <1>1, <1>3, <1>7 DEF IInv, TypeOK
<1>10. Suspended \subseteq Suspended'
  BY <1>2 DEF Suspended
<1>11. OneWaker'
  BY <1>1, <1>7, <1>8, <1>10 DEF IInv, OneWaker, Buckets
<1>12. ServerIdleOrBusy'
  BY <1>2, <1>7, <1>8, ConnAssumption DEF IInv, ServerIdleOrBusy
<1>13. WaitersCounted' /\ NoLostWakeup'
  BY SMTT(60), <1>7, <1>8 DEF IInv, WaitersCounted, NoLostWakeup, Buckets
<1> QED BY <1>4, <1>5, <1>6, <1>9, <1>11, <1>12, <1>13 DEF IInv

\* Registering a client preserves the invariant: the new connection is idle.
LEMMA RegisterClientInv ==
  ASSUME IInv, NEW c \in Conn, SysRegisterClient(c)
  PROVE  IInv'
<1> DEFINE t == Target[c]
<1>0. t \in Thread /\ \A d \in Conn : Target[d] \in Thread /\ (d # c => Target[d] # t)
  BY ConnAssumption DEF IsInjective
<1>1. /\ status[t] = "NONE" /\ owner[c] = NoThread /\ owner' = [owner EXCEPT ![c] = current]
      /\ status' = [status EXCEPT ![t] = "SUSPEND"] /\ ctx' = [ctx EXCEPT ![t] = "user"]
      /\ UNCHANGED <<current, ready, freed, panic, sleepq, source, active>>
      /\ UNCHANGED <<chain, waiters, fq, word, unsignalled>>
  BY DEF SysRegisterClient, ThreadCreate, futexVars
<1> HIDE DEF t
<1>2. \A u \in Thread : status'[u] = IF u = t THEN "SUSPEND" ELSE status[u]
  BY <1>1 DEF IInv, TypeOK, SchedTypeOK
<1>o. /\ owner'[c] = current /\ current \in Thread /\ current # NoThread
      /\ \A d \in Conn \ {c} : owner'[d] = owner[d]
  BY <1>1, ThreadAssumption DEF IInv, TypeOK, SchedTypeOK
<1>3. SchedTypeOK'
  BY ZenonT(60), <1>1 DEF IInv, TypeOK, SchedTypeOK, Status, Context
<1>4. ReadyListSound'
  BY <1>1, <1>2 DEF IInv, ReadyListSound, TypeOK, SchedTypeOK
<1>5. FreedExited' /\ NoPanic' /\ status'[Main] = "RUNNING"
  BY <1>1, <1>2, ThreadAssumption DEF IInv, FreedExited, Bookkeeping, TypeOK, SchedTypeOK
<1>6. Bookkeeping'
  <2>1. \A d \in Conn : owner'[d] = NoThread <=> status'[Target[d]] = "NONE"
    BY <1>0, <1>1, <1>2, <1>o DEF IInv, Bookkeeping, t
  <2>2. \A u \in Thread : active'[u] # NoConn => Target[active'[u]] = u
    BY <1>1 DEF IInv, Bookkeeping
  <2> QED BY <1>5, <2>1, <2>2 DEF Bookkeeping
<1>8. FutexWaiters' = FutexWaiters /\ Callers' = Callers /\ Busy' = Busy /\ Sleepers' = Sleepers
  BY <1>1 DEF FutexWaiters, Callers, Busy, Sleepers
<1>9. TypeOK'
  BY <1>1, <1>3, <1>o DEF IInv, TypeOK
<1>10. Suspended \subseteq Suspended' /\ t \notin Suspended
  BY <1>1, <1>2 DEF Suspended
<1>11. OneWaker'
  BY <1>1, <1>8, <1>10 DEF IInv, OneWaker, Buckets
<1>12. ServerIdleOrBusy'
  <2>1. c \notin Busy
    <3>1. c \in Busy => source[c] \in Suspended /\ source[c] = owner[c]
      BY DEF IInv, OneWaker, ServerIdleOrBusy, Callers
    <3> QED BY <1>1, <3>1, ThreadAssumption DEF Suspended
  <2>2. t \notin Sleepers \cup FutexWaiters \cup Callers
    BY <1>10 DEF IInv, OneWaker
  <2>3. ASSUME NEW d \in Conn
        PROVE  /\ active'[Target[d]] \in {d, NoConn}
               /\ d \in Busy' => source'[d] = owner'[d]
               /\ d \notin Busy' /\ owner'[d] # NoThread =>
                    /\ status'[Target[d]] = "SUSPEND"
                    /\ Target[d] \notin Sleepers' \cup FutexWaiters' \cup Callers'
    <3>1. CASE d = c
      BY SMTT(60), <3>1, <2>1, <2>2, <1>0, <1>1, <1>2, <1>8 DEF t, IInv, ServerIdleOrBusy
    <3>2. CASE d # c
      BY SMTT(60), <3>2, <1>0, <1>1, <1>2, <1>8, <1>o DEF IInv, ServerIdleOrBusy
    <3> QED BY <3>1, <3>2
  <2> QED BY <2>3 DEF ServerIdleOrBusy
<1>13. WaitersCounted' /\ NoLostWakeup'
  BY <1>1, <1>8 DEF IInv, WaitersCounted, NoLostWakeup, Buckets
<1> QED BY <1>4, <1>5, <1>6, <1>9, <1>11, <1>12, <1>13 DEF IInv
\* schedule_to() hands the CPU from the running thread to a suspended one: the
\* ready list is still sound although neither thread was queued or dequeued.
LEMMA ScheduleToFacts ==
  ASSUME IInv, NEW t \in Thread, NEW cx \in [Thread -> Context], ScheduleTo(t, cx),
         status[t] = "SUSPEND", current # Main
  PROVE  /\ SchedTypeOK' /\ ReadyListSound' /\ FreedExited' /\ NoPanic'
         /\ status'[Main] = "RUNNING"
         /\ \A u \in Thread : status'[u] = IF u = t THEN "RUNNING"
                                           ELSE IF u = current THEN "SUSPEND" ELSE status[u]
<1>0. current' = t /\ ready' = ready /\ freed' = freed /\ panic' = panic
  BY DEF ScheduleTo
<1>1. /\ status' = [status EXCEPT ![current] = "SUSPEND", ![t] = "RUNNING"]
      /\ ctx' = [cx EXCEPT ![current] = "schedule_to"]
  BY DEF ScheduleTo
<1>2. /\ current \in Thread /\ status[current] = "RUNNING" /\ status \in [Thread -> Status]
      /\ ready \in Seq(Thread) /\ freed \in SUBSET Thread /\ panic = FALSE
      /\ status[Main] = "RUNNING" /\ Main \in Thread
  BY ThreadAssumption DEF IInv, TypeOK, SchedTypeOK, ReadyListSound, Bookkeeping
<1>3. \A u \in Thread : status'[u] = IF u = t THEN "RUNNING"
                                     ELSE IF u = current THEN "SUSPEND" ELSE status[u]
  BY <1>1, <1>2
<1>4. status' \in [Thread -> Status]
  BY <1>1, <1>2 DEF Status
<1>5. ctx' \in [Thread -> Context]
  BY <1>1, <1>2 DEF Context
<1>6. SchedTypeOK' /\ NoPanic'
  <2>1. panic' = FALSE
    BY <1>0, <1>2
  <2>2. current' \in Thread /\ ready' \in Seq(Thread) /\ freed' \in SUBSET Thread
    BY <1>0, <1>2
  <2> QED BY ZenonT(60), <1>4, <1>5, <2>1, <2>2 DEF SchedTypeOK
<1>7. ReadyListSound'
  <2>1. IsInjective(ready) /\ Range(ready) = {u \in Thread \ {current} : status[u] \in {"READY", "RUNNING"}}
    BY DEF IInv, ReadyListSound
  <2>2. Range(ready) = {u \in Thread \ {t} : status'[u] \in {"READY", "RUNNING"}}
    BY <1>2, <1>3, <2>1
  <2>3. status'[t] = "RUNNING"
    BY <1>3
  <2> QED BY <1>0, <2>1, <2>2, <2>3 DEF ReadyListSound
<1>8. FreedExited'
  BY <1>0, <1>2, <1>3 DEF IInv, FreedExited
<1>9. status'[Main] = "RUNNING"
  BY <1>2, <1>3
<1> QED BY <1>3, <1>6, <1>7, <1>8, <1>9

\* sys_ipc_call preserves the invariant: the server thread it hands the CPU to is
\* idle, so it is suspended and in no list, and the caller gains its only waker.
LEMMA IpcCallInv ==
  ASSUME IInv, NEW c \in Conn, SysIpcCall(c)
  PROVE  IInv'
<1> DEFINE t == Target[c]
<1>0. t \in Thread /\ \A d \in Conn : Target[d] \in Thread /\ (d # c => Target[d] # t)
  BY ConnAssumption DEF IsInjective
<1>1. /\ owner[c] = current /\ current # Main
      /\ source' = [source EXCEPT ![c] = current]
      /\ active' = [active EXCEPT ![t] = c]
      /\ ScheduleTo(t, [ctx EXCEPT ![t] = "user"])
      /\ UNCHANGED <<sleepq, owner>>
      /\ UNCHANGED <<chain, waiters, fq, word, unsignalled>>
  BY DEF SysIpcCall, futexVars, InUser
<1>2. /\ current \in Thread /\ status[current] = "RUNNING"
      /\ current \notin Sleepers /\ current \notin FutexWaiters /\ current \notin Callers
  BY RunningFacts
<1>3. c \notin Busy /\ owner[c] # NoThread
  <2>1. c \in Busy => current \in Callers
    BY <1>1 DEF IInv, ServerIdleOrBusy, Callers
  <2> QED BY <1>1, <1>2, <2>1, ThreadAssumption
<1>4. /\ status[t] = "SUSPEND" /\ t \notin Sleepers /\ t \notin FutexWaiters /\ t \notin Callers
      /\ t # current /\ t # Main
  BY <1>2, <1>3 DEF IInv, ServerIdleOrBusy, Bookkeeping
<1>5. /\ source'[c] = current /\ \A d \in Conn \ {c} : source'[d] = source[d]
      /\ active'[t] = c /\ \A u \in Thread \ {t} : active'[u] = active[u]
  BY <1>0, <1>1 DEF IInv, TypeOK
<1>6. /\ SchedTypeOK' /\ ReadyListSound' /\ FreedExited' /\ NoPanic'
      /\ status'[Main] = "RUNNING"
      /\ \A u \in Thread : status'[u] = IF u = t THEN "RUNNING"
                                        ELSE IF u = current THEN "SUSPEND" ELSE status[u]
  <2>1. [ctx EXCEPT ![t] = "user"] \in [Thread -> Context]
    BY <1>0 DEF IInv, TypeOK, SchedTypeOK, Context
  <2> HIDE DEF t
  <2> QED BY ZenonT(60), <2>1, <1>0, <1>1, <1>4, ScheduleToFacts
<1>b. Busy' = Busy \cup {c}
  BY <1>0, <1>1, <1>5 DEF Busy, t
<1> HIDE DEF t
<1>7. Callers' = Callers \cup {current}
  <2>1. Callers' = {source'[d] : d \in Busy \cup {c}}
    BY <1>b DEF Callers
  <2>2. Busy \subseteq Conn
    BY DEF Busy
  <2> QED BY <2>1, <2>2, <1>3, <1>5 DEF Callers
<1>8. FutexWaiters' = FutexWaiters /\ Sleepers' = Sleepers
  BY SMTT(60), <1>1 DEF FutexWaiters, Sleepers
<1>10. TypeOK'
  BY SMTT(60), <1>0, <1>1, <1>2, <1>6 DEF IInv, TypeOK
<1>13. OneWaker'
  <2>1. Sleepers' \cup FutexWaiters' \cup Callers' \subseteq Suspended'
    BY SMTT(60), <1>2, <1>4, <1>6, <1>7, <1>8 DEF IInv, OneWaker, Suspended
  <2>2. \A c1, c2 \in Busy' : source'[c1] = source'[c2] => c1 = c2
    <3>1. \A d \in Busy : source'[d] = source[d] /\ source[d] \in Callers
      BY <1>3, <1>5 DEF Busy, Callers
    <3>2. \A d \in Busy : source'[d] # current
      BY <3>1, <1>2
    <3> QED BY <3>1, <3>2, <1>5, <1>b DEF IInv, OneWaker
  <2>3. /\ Sleepers' \cap FutexWaiters' = {}
        /\ Callers' \cap (Sleepers' \cup FutexWaiters') = {}
    BY SMTT(60), <1>2, <1>7, <1>8 DEF IInv, OneWaker
  <2> QED BY SMTT(60), <1>1, <2>1, <2>2, <2>3 DEF IInv, OneWaker, Buckets
<1>14. ServerIdleOrBusy'
  <2>1. ASSUME NEW d \in Conn
        PROVE  /\ active'[Target[d]] \in {d, NoConn}
               /\ d \in Busy' => source'[d] = owner'[d]
               /\ d \notin Busy' /\ owner'[d] # NoThread =>
                    /\ status'[Target[d]] = "SUSPEND"
                    /\ Target[d] \notin Sleepers' \cup FutexWaiters' \cup Callers'
    <3>1. CASE d = c
      BY SMTT(60), <3>1, <1>1, <1>5, <1>b DEF t
    <3>2. CASE d # c
      <4>1. d \notin Busy /\ owner[d] # NoThread => Target[d] # current
        BY SMTT(60), RunningFacts
      <4> QED BY SMTT(60), <3>2, <4>1, <1>0, <1>1, <1>5, <1>6, <1>7, <1>8, <1>b DEF IInv, ServerIdleOrBusy
    <3> QED BY <3>1, <3>2
  <2> QED BY <2>1 DEF ServerIdleOrBusy
<1>15. Bookkeeping'
  <2>2. \A u \in Thread : active'[u] # NoConn => Target[active'[u]] = u
    BY <1>5 DEF IInv, Bookkeeping, t
  <2>3. \A d \in Conn : owner'[d] = NoThread <=> status'[Target[d]] = "NONE"
    BY SMTT(60), <1>0, <1>1, <1>2, <1>4, <1>6 DEF IInv, Bookkeeping
  <2> QED BY <1>6, <2>2, <2>3 DEF Bookkeeping
<1>16. WaitersCounted' /\ NoLostWakeup'
  BY <1>1, <1>8 DEF IInv, WaitersCounted, NoLostWakeup, Buckets
<1> QED BY SMTT(60), <1>6, <1>10, <1>13, <1>14, <1>15, <1>16 DEF IInv

\* sys_ipc_return preserves the invariant: the client it hands the CPU to is the
\* one suspended in this connection's call, and the server thread becomes idle.
LEMMA IpcReturnInv ==
  ASSUME IInv, SysIpcReturn
  PROVE  IInv'
<1> DEFINE c == active[current]
           s == source[c]
<1>1. /\ c # NoConn /\ current # Main
      /\ active' = [active EXCEPT ![current] = NoConn]
      /\ ScheduleTo(s, ctx)
      /\ UNCHANGED <<sleepq, owner, source>>
      /\ UNCHANGED <<chain, waiters, fq, word, unsignalled>>
  BY DEF SysIpcReturn, futexVars, InUser
<1>2. /\ current \in Thread /\ status[current] = "RUNNING"
      /\ current \notin Sleepers /\ current \notin FutexWaiters /\ current \notin Callers
  BY RunningFacts
<1>3. c \in Conn /\ Target[c] = current /\ c \in Busy
  BY <1>1, <1>2 DEF IInv, TypeOK, Bookkeeping, Busy
<1>0. \A d \in Conn : Target[d] \in Thread /\ (d # c => Target[d] # current)
  BY <1>3, ConnAssumption DEF IsInjective
<1>4. /\ s \in Callers /\ s \in Thread /\ status[s] = "SUSPEND"
      /\ s \notin Sleepers /\ s \notin FutexWaiters /\ s # current /\ s # Main
      /\ \A d \in Busy : d # c => source[d] # s
      /\ s = owner[c]
  <2>1. s \in Callers
    BY <1>3 DEF Callers
  <2>2. s \in Thread /\ status[s] = "SUSPEND" /\ s \notin Sleepers /\ s \notin FutexWaiters
    BY <2>1 DEF IInv, OneWaker, Suspended
  <2>3. s # current /\ s # Main
    BY <2>2, <1>2 DEF IInv, Bookkeeping
  <2>4. (\A d \in Busy : d # c => source[d] # s) /\ s = owner[c]
    BY <1>3 DEF IInv, OneWaker, ServerIdleOrBusy
  <2> QED BY <2>1, <2>2, <2>3, <2>4
<1>5. active'[current] = NoConn /\ \A u \in Thread \ {current} : active'[u] = active[u]
  BY <1>1, <1>2 DEF IInv, TypeOK
<1>6. /\ SchedTypeOK' /\ ReadyListSound' /\ FreedExited' /\ NoPanic'
      /\ status'[Main] = "RUNNING"
      /\ \A u \in Thread : status'[u] = IF u = s THEN "RUNNING"
                                        ELSE IF u = current THEN "SUSPEND" ELSE status[u]
  <2>1. ctx \in [Thread -> Context]
    BY DEF IInv, TypeOK, SchedTypeOK, Context
  <2> HIDE DEF c, s
  <2> QED BY <2>1, <1>1, <1>4, ScheduleToFacts
<1>b. Busy' = Busy \ {c}
  BY <1>0, <1>1, <1>3, <1>5, ConnAssumption DEF Busy
<1> HIDE DEF c, s
<1>7. Callers' = Callers \ {s}
  <2>1. Callers' = {source[d] : d \in Busy \ {c}}
    <3>1. source' = source
      BY <1>1
    <3> QED BY <1>b, <3>1 DEF Callers
  <2>2. s = source[c]
    BY DEF s
  <2> QED BY <2>1, <2>2, <1>4 DEF Callers
<1>8. FutexWaiters' = FutexWaiters /\ Sleepers' = Sleepers
  BY SMTT(60), <1>1 DEF FutexWaiters, Sleepers
<1>10. TypeOK'
  <2>1. active' \in [Thread -> Conn \cup {NoConn}]
    <3>1. active' = [active EXCEPT ![current] = NoConn]
      BY <1>1
    <3> QED BY ZenonT(60), <3>1 DEF IInv, TypeOK
  <2>2. /\ UNCHANGED <<sleepq, owner, source>>
        /\ UNCHANGED <<chain, waiters, fq, word, unsignalled>>
    BY <1>1
  <2> QED BY <1>6, <2>1, <2>2 DEF IInv, TypeOK, Buckets
<1>13. OneWaker'
  <2>1. Sleepers' \cup FutexWaiters' \cup Callers' \subseteq Suspended'
    BY <1>2, <1>4, <1>6, <1>7, <1>8 DEF IInv, OneWaker, Suspended
  <2>2. \A c1, c2 \in Busy' : source'[c1] = source'[c2] => c1 = c2
    BY <1>1, <1>b DEF IInv, OneWaker
  <2>3. /\ Sleepers' \cap FutexWaiters' = {}
        /\ Callers' \cap (Sleepers' \cup FutexWaiters') = {}
    BY <1>7, <1>8 DEF IInv, OneWaker
  <2> QED BY <1>1, <2>1, <2>2, <2>3 DEF IInv, OneWaker, Buckets
<1>14. ServerIdleOrBusy'
  <2>1. ASSUME NEW d \in Conn
        PROVE  /\ active'[Target[d]] \in {d, NoConn}
               /\ d \in Busy' => source'[d] = owner'[d]
               /\ d \notin Busy' /\ owner'[d] # NoThread =>
                    /\ status'[Target[d]] = "SUSPEND"
                    /\ Target[d] \notin Sleepers' \cup FutexWaiters' \cup Callers'
    <3>1. CASE d = c
      BY SMTT(60), <3>1, <1>2, <1>3, <1>4, <1>5, <1>6, <1>7, <1>8, <1>b
    <3>2. CASE d # c
      <4>1. d \notin Busy /\ owner[d] # NoThread => Target[d] # s
        BY <1>4 DEF IInv, ServerIdleOrBusy
      <4> QED BY SMTT(60), <3>2, <4>1, <1>0, <1>1, <1>5, <1>6, <1>7, <1>8, <1>b DEF IInv, ServerIdleOrBusy
    <3> QED BY SMTT(60), <3>1, <3>2
  <2> QED BY <2>1 DEF ServerIdleOrBusy
<1>15. Bookkeeping'
  <2>2. \A u \in Thread : active'[u] # NoConn => Target[active'[u]] = u
    BY SMTT(60), <1>5 DEF IInv, Bookkeeping
  <2>3. \A d \in Conn : owner'[d] = NoThread <=> status'[Target[d]] = "NONE"
    BY SMTT(60), <1>0, <1>1, <1>2, <1>4, <1>6 DEF IInv, Bookkeeping
  <2> QED BY SMTT(60), <1>6, <2>2, <2>3 DEF Bookkeeping
<1>16. WaitersCounted' /\ NoLostWakeup'
  BY <1>1, <1>8 DEF IInv, WaitersCounted, NoLostWakeup, Buckets
<1> QED BY <1>6, <1>10, <1>13, <1>14, <1>15, <1>16 DEF IInv
=============================================================================
