------------------------- MODULE KernelFutexProofs --------------------------
(***************************************************************************)
(* futex_wait and futex_wake preserve the invariant of Kernel: nobody is   *)
(* woken twice, and whoever waits on a word still has a waker.             *)
(***************************************************************************)
EXTENDS KernelLemmas

USE DEF NoPanic

\* In a bucket, the futex_q's of the waiting threads; no thread is in two.
LEMMA ChainFacts ==
  ASSUME IInv, NEW b \in Buckets
  PROVE  /\ chain[b] \in Seq(Thread) /\ IsInjective(chain[b])
         /\ Range(chain[b]) \subseteq FutexWaiters
         /\ waiters[b] = Len(chain[b])
         /\ \A t \in Range(chain[b]) :
              t \in Thread /\ status[t] = "SUSPEND" /\ fq[t] # NoQ /\ Bucket[fq[t].key] = b
         /\ \A t \in FutexWaiters : (fq[t] # NoQ /\ Bucket[fq[t].key] = b) => t \in Range(chain[b])
<1>1. chain[b] \in Seq(Thread) /\ IsInjective(chain[b])
  BY DEF IInv, TypeOK, OneWaker
<1>2. Range(chain[b]) \subseteq FutexWaiters
  BY DEF FutexWaiters
<1>3. waiters[b] = Len(chain[b]) /\ \A t \in Range(chain[b]) : fq[t] # NoQ /\ Bucket[fq[t].key] = b
  BY DEF IInv, WaitersCounted
<1>4. \A t \in FutexWaiters : t \in Thread /\ status[t] = "SUSPEND"
  BY DEF IInv, OneWaker, Suspended
<1>5. ASSUME NEW t \in FutexWaiters, fq[t] # NoQ, Bucket[fq[t].key] = b
      PROVE  t \in Range(chain[b])
  <2>1. PICK d \in Buckets : t \in Range(chain[d])
    BY DEF FutexWaiters
  <2>2. Bucket[fq[t].key] = d
    BY <2>1 DEF IInv, WaitersCounted
  <2> QED BY <1>5, <2>1, <2>2
<1> QED BY <1>1, <1>2, <1>3, <1>4, <1>5

\* sys_futex_wait preserves the invariant.  The word was compared in the same
\* uninterrupted call, so the new waiter waits for the value the word holds.
LEMMA FutexWaitInv ==
  ASSUME IInv, NEW k \in Key, NEW v \in Val, SysFutexWait(k, v)
  PROVE  IInv'
<1>1. CASE word[k] # v
  <2>1. UNCHANGED vars
    BY <1>1 DEF SysFutexWait, vars
  <2> QED BY <2>1, StutterInv
<1>2. CASE word[k] = v
  <2> DEFINE b == Bucket[k]
             w == <<current>>
             ch == chain[b]
             nc == w \o ch
  <2>b. b \in Buckets
    BY FutexAssumption DEF Buckets, Range
  <2>1. /\ waiters' = [waiters EXCEPT ![b] = @ + 1]
        /\ chain' = [chain EXCEPT ![b] = nc]
        /\ fq' = [fq EXCEPT ![current] = [key |-> k, val |-> v]]
        /\ Schedule(ready, [status EXCEPT ![current] = "SUSPEND"])
        /\ UNCHANGED <<word, unsignalled, sleepq, owner, source, active>>
        /\ current # Main
    BY <1>2 DEF SysFutexWait, ipcVars, InUser
  <2>2. /\ current \in Thread /\ status[current] = "RUNNING"
        /\ current \notin Range(sleepq) /\ current \notin FutexWaiters /\ current \notin Callers
        /\ \A c \in Conn : Target[c] = current => c \in Busy
    BY RunningFacts DEF Sleepers
  <2>3. /\ SchedTypeOK' /\ ReadyListSound' /\ FreedExited' /\ NoPanic'
        /\ status'[Main] = "RUNNING" /\ status'[current] = "SUSPEND"
        /\ \A t \in Thread \ {current} :
             /\ status[t] \in {"NONE", "SUSPEND", "EXIT"} => status'[t] = status[t]
             /\ status'[t] \in {"NONE", "SUSPEND", "EXIT"} => status'[t] = status[t]
    BY <2>1, GiveUpFacts
  <2>s. /\ \A t \in Thread : status[t] = "SUSPEND" => status'[t] = "SUSPEND"
        /\ \A t \in Thread : status'[t] = "NONE" <=> status[t] = "NONE"
    BY <2>2, <2>3
  <2>4. w \in Seq(Thread) /\ IsInjective(w) /\ Range(w) = {current} /\ Len(w) = 1
    BY <2>2 DEF IsInjective, Range
  <2>5. /\ ch \in Seq(Thread) /\ IsInjective(ch) /\ Range(ch) \subseteq FutexWaiters
        /\ waiters[b] = Len(ch)
    BY <2>b, ChainFacts
  <2> HIDE DEF w, ch, b
  <2>6. /\ nc \in Seq(Thread) /\ IsInjective(nc) /\ Range(nc) = Range(ch) \cup {current}
        /\ Len(nc) = waiters[b] + 1
    <3>1. Range(w) \cap Range(ch) = {}
      BY <2>2, <2>4, <2>5
    <3>2. Len(nc) = Len(w) + Len(ch)
      BY ZenonT(60), <2>4, <2>5, ConcatFacts
    <3>3. Len(ch) \in Nat
      BY <2>5
    <3> QED BY <2>4, <2>5, <3>1, <3>2, <3>3, ConcatFacts
  <2> HIDE DEF nc
  <2>7. /\ chain'[b] = nc /\ \A d \in Buckets \ {b} : chain'[d] = chain[d]
        /\ waiters'[b] = waiters[b] + 1 /\ \A d \in Buckets \ {b} : waiters'[d] = waiters[d]
        /\ fq'[current] = [key |-> k, val |-> v]
        /\ \A t \in Thread \ {current} : fq'[t] = fq[t]
    BY <2>1, <2>2, <2>b DEF IInv, TypeOK
  <2>8. FutexWaiters' = FutexWaiters \cup {current}
    <3>1. FutexWaiters' = UNION {Range(chain'[d]) : d \in Buckets}
      BY DEF FutexWaiters, Buckets
    <3>2. FutexWaiters' \subseteq FutexWaiters \cup {current}
      <4>1. ASSUME NEW d \in Buckets, NEW t \in Range(chain'[d])
            PROVE  t \in FutexWaiters \cup {current}
        <5>1. CASE d = b
          BY <5>1, <4>1, <2>5, <2>6, <2>7
        <5>2. CASE d # b
          <6>1. t \in Range(chain[d])
            BY <5>2, <4>1, <2>7
          <6> QED BY <6>1 DEF FutexWaiters
        <5> QED BY <5>1, <5>2
      <4> QED BY <4>1, <3>1
    <3>3. current \in Range(chain'[b])
      BY <2>6, <2>7
    <3>4. ASSUME NEW t \in FutexWaiters PROVE t \in FutexWaiters'
      <4>1. PICK d \in Buckets : t \in Range(chain[d])
        BY DEF FutexWaiters
      <4>2. t \in Range(chain'[d])
        <5>1. CASE d = b
          BY <5>1, <4>1, <2>6, <2>7 DEF ch
        <5>2. CASE d # b
          BY <5>2, <4>1, <2>7
        <5> QED BY <5>1, <5>2
      <4> QED BY <3>1, <4>2
    <3> QED BY <3>1, <3>2, <3>3, <3>4, <2>b
  <2>9. Callers' = Callers /\ Busy' = Busy /\ Sleepers' = Sleepers
    BY SMTT(60), <2>1 DEF Callers, Busy, Sleepers
  <2>10. TypeOK'
    BY SMTT(60), <2>1, <2>2, <2>3, <2>5, <2>6, <2>b DEF IInv, TypeOK, Buckets
  <2>11. OneWaker'
    <3>1. \A d \in Buckets : IsInjective(chain'[d])
      BY <2>6, <2>7 DEF IInv, OneWaker
    <3>2. ASSUME NEW d \in Buckets, NEW e \in Buckets, d # e
          PROVE  Range(chain'[d]) \cap Range(chain'[e]) = {}
      <4>1. Range(chain[d]) \cap Range(chain[e]) = {}
        BY <3>2 DEF IInv, OneWaker
      <4>2. current \notin Range(chain[d]) /\ current \notin Range(chain[e])
        BY <2>2 DEF FutexWaiters
      <4> QED BY <4>1, <4>2, <3>2, <2>6, <2>7 DEF ch
    <3>3. \A c1, c2 \in Busy' : source'[c1] = source'[c2] => c1 = c2
      BY <2>1, <2>9 DEF IInv, OneWaker
    <3>4. /\ Sleepers' \cap FutexWaiters' = {}
          /\ Callers' \cap (Sleepers' \cup FutexWaiters') = {}
      BY <2>2, <2>8, <2>9 DEF IInv, OneWaker, Sleepers
    <3>5. Sleepers' \cup FutexWaiters' \cup Callers' \subseteq Suspended'
      BY SMTT(60), <2>2, <2>3, <2>8, <2>9, <2>s DEF IInv, OneWaker, Suspended
    <3>6. IsInjective(sleepq')
      BY <2>1 DEF IInv, OneWaker
    <3> QED BY SMTT(60), <3>1, <3>2, <3>3, <3>4, <3>5, <3>6 DEF OneWaker, Buckets
  <2>12. ServerIdleOrBusy'
    BY SMTT(60), <2>1, <2>2, <2>8, <2>9, <2>s, ConnAssumption DEF IInv, ServerIdleOrBusy
  <2>13. Bookkeeping'
    BY <2>1, <2>3, <2>s, ConnAssumption DEF IInv, Bookkeeping
  <2>14. WaitersCounted'
    <3>1. ASSUME NEW d \in Buckets
          PROVE  waiters'[d] = Len(chain'[d])
      BY <2>6, <2>7 DEF IInv, WaitersCounted
    <3>2. ASSUME NEW d \in Buckets, NEW t \in Range(chain'[d])
          PROVE  fq'[t] # NoQ /\ Bucket[fq'[t].key] = d
      <4>1. CASE t = current
        <5>1. d = b
          <6>1. current \notin Range(chain[d])
            BY <2>2 DEF FutexWaiters
          <6> QED BY <6>1, <4>1, <3>2, <2>7
        <5> QED BY <4>1, <5>1, <2>7, FutexAssumption DEF b
      <4>2. CASE t # current
        <5>1. t \in Range(chain[d])
          BY SMTT(60), <4>2, <3>2, <2>6, <2>7 DEF ch
        <5>2. t \in Thread /\ fq[t] # NoQ /\ Bucket[fq[t].key] = d
          BY <5>1, ChainFacts
        <5> QED BY <4>2, <5>2, <2>7
      <4> QED BY <4>1, <4>2
    <3> QED BY <3>1, <3>2 DEF WaitersCounted, Buckets
  <2>15. NoLostWakeup'
    <3>1. ASSUME NEW t \in FutexWaiters', word[fq'[t].key] # fq'[t].val
          PROVE  fq'[t].key \in unsignalled
      <4>1. t # current
        BY <3>1, <2>7, <1>2
      <4>2. t \in FutexWaiters /\ t \in Thread
        BY <4>1, <2>8 DEF IInv, OneWaker, Suspended
      <4> QED BY SMTT(60), <4>1, <4>2, <3>1, <2>7 DEF IInv, NoLostWakeup
    <3> QED BY <3>1, <2>1 DEF NoLostWakeup
  <2> QED BY <2>3, <2>10, <2>11, <2>12, <2>13, <2>14, <2>15 DEF IInv
<1> QED BY <1>1, <1>2
\* sys_futex_wake preserves the invariant: what it unlinks it resumes, and what it
\* counts down it unlinked.
LEMMA FutexWakeInv ==
  ASSUME IInv, NEW k \in Key, SysFutexWake(k), PartsAddUp
  PROVE  IInv'
<1> DEFINE b == Bucket[k]
           same == {t \in Thread : fq[t] # NoQ /\ fq[t].key = k}
<1>b. b \in Buckets
  BY FutexAssumption DEF Buckets, Range
<1>c. /\ chain[b] \in Seq(Thread) /\ IsInjective(chain[b])
      /\ Range(chain[b]) \subseteq FutexWaiters
      /\ waiters[b] = Len(chain[b])
      /\ \A t \in Range(chain[b]) :
           t \in Thread /\ status[t] = "SUSPEND" /\ fq[t] # NoQ /\ Bucket[fq[t].key] = b
      /\ \A t \in FutexWaiters : (fq[t] # NoQ /\ Bucket[fq[t].key] = b) => t \in Range(chain[b])
  BY <1>b, ChainFacts
<1>q. \A t \in FutexWaiters : t \in Thread /\ fq[t] # NoQ /\ fq[t].key \in Key
  <2>1. ASSUME NEW d \in Buckets, NEW t \in Range(chain[d])
        PROVE  t \in Thread /\ fq[t] # NoQ /\ fq[t].key \in Key
    <3>1. t \in Thread /\ fq[t] # NoQ
      BY ChainFacts
    <3> QED BY SMTT(60), <3>1 DEF IInv, TypeOK
  <2> QED BY <2>1 DEF FutexWaiters
<1>u. /\ unsignalled' = unsignalled \ {k}
      /\ UNCHANGED <<sleepq, word, owner, source, active>>
  BY DEF SysFutexWake, ipcVars
<1>v. Callers' = Callers /\ Busy' = Busy /\ Sleepers' = Sleepers
  BY <1>u DEF Callers, Busy, Sleepers
<1>1. CASE waiters[b] = 0
  <2>1. UNCHANGED <<current, ready, status, ctx, freed, panic, chain, waiters, fq>>
    BY <1>1 DEF SysFutexWake, schedVars
  <2>2. FutexWaiters' = FutexWaiters
    BY <2>1 DEF FutexWaiters
  <2>3. Range(chain[b]) = {}
    BY <1>1, <1>c DEF Range
  <2>4. TypeOK'
    BY <2>1, <1>u DEF IInv, TypeOK, SchedTypeOK
  <2>5. ReadyListSound' /\ FreedExited' /\ NoPanic' /\ Bookkeeping'
    BY <2>1, <1>u DEF IInv, ReadyListSound, FreedExited, Bookkeeping
  <2>8. OneWaker'
    BY <2>1, <2>2, <1>u, <1>v DEF IInv, OneWaker, Suspended, Buckets
  <2>9. ServerIdleOrBusy'
    BY <2>1, <2>2, <1>u, <1>v DEF IInv, ServerIdleOrBusy
  <2>10. WaitersCounted'
    BY <2>1 DEF IInv, WaitersCounted, Buckets
  <2>6. \A t \in FutexWaiters : fq[t].key # k
    BY <2>3, <1>c, <1>q
  <2>7. NoLostWakeup'
    BY SMTT(60), <2>1, <2>2, <2>6, <1>u DEF IInv, NoLostWakeup
  <2> QED BY SMTT(60), <2>4, <2>5, <2>7, <2>8, <2>9, <2>10 DEF IInv
<1>2. CASE waiters[b] # 0
  <2>1. PICK woken \in Pick(chain[b], same), rest \in Pick(chain[b], Thread \ same) :
             /\ chain' = [chain EXCEPT ![b] = rest]
             /\ waiters' = [waiters EXCEPT ![b] = @ - Len(woken)]
             /\ fq' = [t \in Thread |-> IF t \in Range(woken) THEN NoQ ELSE fq[t]]
             /\ \E ws \in Pick(woken, Suspended) :
                  /\ ready' = ready \o ws
                  /\ status' = Resumed(ws)
             /\ UNCHANGED <<current, ctx, freed, panic>>
    BY ZenonT(60), <1>2 DEF SysFutexWake
  <2>2. PICK ws \in Pick(woken, Suspended) : ready' = ready \o ws /\ status' = Resumed(ws)
    BY <2>1
  <2>3. /\ woken \in Seq(Thread) /\ IsInjective(woken) /\ Range(woken) = same \cap Range(chain[b])
        /\ rest \in Seq(Thread) /\ IsInjective(rest)
        /\ Range(rest) = (Thread \ same) \cap Range(chain[b])
    <3>1. chain[b] \in Seq(Thread) /\ IsInjective(chain[b])
      BY <1>c
    <3>2. woken \in Seq(Thread) /\ IsInjective(woken) /\ Range(woken) = same \cap Range(chain[b])
      BY ZenonT(60), <3>1, PickFacts
    <3>3. /\ rest \in Seq(Thread) /\ IsInjective(rest)
          /\ Range(rest) = (Thread \ same) \cap Range(chain[b])
      BY ZenonT(60), <3>1, PickFacts
    <3> QED BY <3>2, <3>3
  <2>4. SchedTypeOK /\ ReadyListSound /\ Main \in Thread
    BY ThreadAssumption DEF IInv, TypeOK
  <2>5. /\ ready \o ws \in Seq(Thread) /\ IsInjective(ready \o ws)
        /\ Range(ws) = Suspended \cap Range(woken)
        /\ Resumed(ws) \in [Thread -> Status]
        /\ Range(ready \o ws) =
             {t \in Thread \ {current} : Resumed(ws)[t] \in {"READY", "RUNNING"}}
    BY SMTT(60), <2>3, <2>4, ResumeFacts
  <2>6. Range(ws) = Range(woken)
    BY SMTT(60), <2>3, <2>5, <1>c DEF Suspended
  <2>7. \A t \in Thread : status'[t] = IF t \in Range(woken) THEN "READY" ELSE status[t]
    BY SMTT(60), <2>2, <2>6 DEF Resumed
  <2>8. /\ \A t \in Thread : status'[t] = "SUSPEND" <=> status[t] = "SUSPEND" /\ t \notin Range(woken)
        /\ \A t \in Thread : status'[t] = "NONE" <=> status[t] = "NONE"
    BY SMTT(60), <2>3, <2>7, <1>c
  <2>9. /\ chain'[b] = rest /\ \A d \in Buckets \ {b} : chain'[d] = chain[d]
        /\ waiters'[b] = waiters[b] - Len(woken)
        /\ \A d \in Buckets \ {b} : waiters'[d] = waiters[d]
        /\ \A t \in Thread : fq'[t] = IF t \in Range(woken) THEN NoQ ELSE fq[t]
    BY <2>1, <1>b DEF IInv, TypeOK
  <2>10. Len(chain[b]) = Len(woken) + Len(rest) /\ Len(woken) \in Nat /\ Len(rest) \in Nat
    <3>1. Range(woken) \cup Range(rest) = Range(chain[b]) /\ Range(woken) \cap Range(rest) = {}
      BY <2>3, <1>c
    <3>2. Len(woken) \in Nat /\ Len(rest) \in Nat
      BY <2>3
    <3>3. chain[b] \in Seq(Thread) /\ IsInjective(chain[b])
      BY <1>c
    <3>4. Len(chain[b]) = Len(woken) + Len(rest)
      BY ZenonT(60), <2>3, <3>1, <3>3 DEF PartsAddUp
    <3> QED BY <3>2, <3>4
  <2>11. FutexWaiters' = FutexWaiters \ Range(woken)
    <3>1. FutexWaiters' = UNION {Range(chain'[d]) : d \in Buckets}
      BY DEF FutexWaiters, Buckets
    <3>2. ASSUME NEW d \in Buckets, NEW t \in Range(chain'[d])
          PROVE  t \in FutexWaiters \ Range(woken)
      <4>1. CASE d = b
        BY <4>1, <3>2, <2>3, <2>9, <1>c
      <4>2. CASE d # b
        <5>1. t \in Range(chain[d])
          BY <4>2, <3>2, <2>9
        <5>2. Bucket[fq[t].key] = d
          BY <5>1, ChainFacts
        <5>3. t \notin Range(woken)
          BY <5>2, <4>2, <2>3, <1>c
        <5> QED BY <5>1, <5>3 DEF FutexWaiters
      <4> QED BY SMTT(60), <4>1, <4>2
    <3>3. ASSUME NEW t \in FutexWaiters \ Range(woken) PROVE t \in FutexWaiters'
      <4>1. PICK d \in Buckets : t \in Range(chain[d])
        BY DEF FutexWaiters
      <4>2. CASE d = b
        <5>1. t \in Range(rest)
          BY SMTT(60), <4>1, <4>2, <2>3, <3>3, <1>c
        <5> QED BY SMTT(60), <5>1, <4>2, <2>9, <3>1
      <4>3. CASE d # b
        BY SMTT(60), <4>1, <4>3, <2>9, <3>1
      <4> QED BY <4>2, <4>3
    <3> QED BY <3>1, <3>2, <3>3
  <2>12. TypeOK'
    <3>1. SchedTypeOK'
      BY SMTT(60), <2>1, <2>2, <2>4, <2>5 DEF SchedTypeOK
    <3>2. waiters' \in [Buckets -> Nat] /\ chain' \in [Buckets -> Seq(Thread)]
      <4>1. waiters[b] - Len(woken) \in Nat
        BY <2>10, <1>c
      <4> QED BY SMTT(60), <4>1, <2>1, <2>3, <1>b DEF IInv, TypeOK
    <3>3. fq' \in [Thread -> {NoQ} \cup [key : Key, val : Val]]
      BY SMTT(60), <2>1 DEF IInv, TypeOK
    <3> QED BY SMTT(60), <3>1, <3>2, <3>3, <1>u DEF IInv, TypeOK, Buckets
  <2>13. ReadyListSound'
    <3>1. current' = current /\ ready' = ready \o ws /\ status' = Resumed(ws)
      BY <2>1, <2>2
    <3>2. current \in Thread /\ status[current] = "RUNNING"
      BY <2>4 DEF ReadyListSound, SchedTypeOK
    <3>3. current \notin Range(woken)
      BY <3>2, <2>3, <1>c
    <3>4. status'[current'] = "RUNNING"
      BY <3>1, <3>2, <3>3, <2>7
    <3> QED BY <3>1, <3>4, <2>5 DEF ReadyListSound
  <2>14. OneWaker'
    <3>1. \A d \in Buckets : IsInjective(chain'[d])
      BY ZenonT(60), <2>3, <2>9 DEF IInv, OneWaker
    <3>2. ASSUME NEW d \in Buckets, NEW e \in Buckets, d # e
          PROVE  Range(chain'[d]) \cap Range(chain'[e]) = {}
      <4>1. Range(chain[d]) \cap Range(chain[e]) = {}
        BY SMTT(60), <3>2 DEF IInv, OneWaker
      <4>2. Range(chain'[d]) \subseteq Range(chain[d]) /\ Range(chain'[e]) \subseteq Range(chain[e])
        BY <2>3, <2>9
      <4> QED BY SMTT(60), <4>1, <4>2
    <3>3. \A c1, c2 \in Busy' : source'[c1] = source'[c2] => c1 = c2
      BY <1>u, <1>v DEF IInv, OneWaker
    <3>4. /\ Sleepers' \cap FutexWaiters' = {}
          /\ Callers' \cap (Sleepers' \cup FutexWaiters') = {}
      BY <2>11, <1>v DEF IInv, OneWaker
    <3>5. Sleepers' \cup FutexWaiters' \cup Callers' \subseteq Suspended'
      <4>1. Range(woken) \subseteq FutexWaiters
        BY SMTT(60), <2>3, <1>c
      <4> QED BY SMTT(60), <4>1, <2>8, <2>11, <1>v DEF IInv, OneWaker, Suspended
    <3>6. IsInjective(sleepq')
      BY SMTT(60), <1>u DEF IInv, OneWaker
    <3> QED BY SMTT(60), <3>1, <3>2, <3>3, <3>4, <3>5, <3>6 DEF OneWaker, Buckets
  <2>15. ServerIdleOrBusy'
    <3>1. Range(woken) \subseteq FutexWaiters
      BY <2>3, <1>c
    <3>2. ServerIdleOrBusy
      BY DEF IInv
    <3>3. \A t \in Thread : t \notin FutexWaiters => (status'[t] = "SUSPEND" <=> status[t] = "SUSPEND")
      BY <3>1, <2>8
    <3> QED BY SMTT(60), <3>1, <3>2, <3>3, <2>8, <2>11, <1>u, <1>v, ConnAssumption DEF ServerIdleOrBusy
  <2>16. FreedExited' /\ NoPanic'
    BY SMTT(60), <2>1, <2>3, <2>7, <1>c DEF IInv, FreedExited, TypeOK, SchedTypeOK
  <2>17. Bookkeeping'
    <3>1. status'[Main] = "RUNNING"
      <4>1. status[Main] = "RUNNING" /\ Main \notin Range(woken)
        BY <2>3, <1>c DEF IInv, Bookkeeping
      <4> QED BY <4>1, <2>4, <2>7
    <3>2. \A t \in Thread : active'[t] # NoConn => Target[active'[t]] = t
      BY <1>u DEF IInv, Bookkeeping
    <3>3. \A c \in Conn : owner'[c] = NoThread <=> status'[Target[c]] = "NONE"
      BY <1>u, <2>8, ConnAssumption DEF IInv, Bookkeeping
    <3> QED BY <3>1, <3>2, <3>3 DEF Bookkeeping
  <2>18. WaitersCounted'
    <3>1. ASSUME NEW d \in Buckets PROVE waiters'[d] = Len(chain'[d])
      <4>1. CASE d = b
        <5>1. waiters[b] - Len(woken) = Len(rest)
          BY SMTT(60), <2>10, <1>c
        <5> QED BY SMTT(60), <4>1, <5>1, <2>9
      <4>2. CASE d # b
        BY SMTT(60), <4>2, <2>9 DEF IInv, WaitersCounted
      <4> QED BY <4>1, <4>2
    <3>2. ASSUME NEW d \in Buckets, NEW t \in Range(chain'[d])
          PROVE  fq'[t] # NoQ /\ Bucket[fq'[t].key] = d
      <4>1. t \in Range(chain[d]) /\ t \notin Range(woken)
        <5>1. t \in FutexWaiters'
          BY SMTT(60), <3>2 DEF FutexWaiters, Buckets
        <5>2. t \notin Range(woken)
          BY <5>1, <2>11
        <5>3. CASE d = b
          <6>1. t \in Range(rest)
            BY <5>3, <2>9, <3>2
          <6> QED BY <6>1, <5>2, <5>3, <2>3
        <5>4. CASE d # b
          BY <5>2, <5>4, <2>9, <3>2
        <5> QED BY <5>3, <5>4
      <4>2. t \in Thread /\ fq[t] # NoQ /\ Bucket[fq[t].key] = d
        BY SMTT(60), <4>1, ChainFacts
      <4> QED BY SMTT(60), <4>1, <4>2, <2>9
    <3> QED BY <3>1, <3>2 DEF WaitersCounted, Buckets
  <2>19. NoLostWakeup'
    <3>1. ASSUME NEW t \in FutexWaiters', word[fq'[t].key] # fq'[t].val
          PROVE  fq'[t].key \in unsignalled'
      <4>1. t \in FutexWaiters /\ t \notin Range(woken) /\ t \in Thread /\ fq'[t] = fq[t]
        BY SMTT(60), <2>9, <2>11, <1>q
      <4>2. fq[t].key \in unsignalled
        BY SMTT(60), <3>1, <4>1 DEF IInv, NoLostWakeup
      <4>3. fq[t].key # k
        BY <4>1, <2>3, <1>c, <1>q
      <4> QED BY SMTT(60), <4>1, <4>2, <4>3, <1>u
    <3> QED BY <3>1, <1>u DEF NoLostWakeup
  <2> QED BY SMTT(60), <2>12, <2>13, <2>14, <2>15, <2>16, <2>17, <2>18, <2>19 DEF IInv
<1> QED BY <1>1, <1>2
=============================================================================
