---------------------------- MODULE KernelLemmas ----------------------------
(***************************************************************************)
(* Facts about lists without duplicates, the inductive invariant of        *)
(* Kernel, and what the scheduler's operations do to it.                   *)
(***************************************************************************)
EXTENDS Kernel, TLAPS

USE DEF NoPanic

\* What the range of a sequence contains, in terms of its length (any list of
\* the kernel, walked head to tail).
LEMMA RangeDef ==
  ASSUME NEW S, NEW s \in Seq(S)
  PROVE  /\ DOMAIN s = 1..Len(s) /\ Len(s) \in Nat
         /\ Range(s) \subseteq S
         /\ \A x : x \in Range(s) <=> \E i \in 1..Len(s) : s[i] = x
  BY DEF Range

\* Having no duplicates, in terms of positions.
LEMMA InjDef ==
  ASSUME NEW S, NEW s \in Seq(S)
  PROVE  IsInjective(s) <=> \A i, j \in 1..Len(s) : s[i] = s[j] => i = j
  BY DEF IsInjective

\* list_add_tail of an element that is not linked keeps a list free of
\* duplicates and adds exactly that element.
LEMMA AppendFacts ==
  ASSUME NEW S, NEW s \in Seq(S), NEW e \in S
  PROVE  /\ Append(s, e) \in Seq(S)
         /\ Append(s, e) # <<>>
         /\ Range(Append(s, e)) = Range(s) \cup {e}
         /\ IsInjective(s) /\ e \notin Range(s) => IsInjective(Append(s, e))
<1>1. /\ Append(s, e) \in Seq(S) /\ Len(Append(s, e)) = Len(s) + 1
      /\ \A i \in 1..Len(s) : Append(s, e)[i] = s[i]
      /\ Append(s, e)[Len(s) + 1] = e
  OBVIOUS
<1>2. Range(Append(s, e)) = Range(s) \cup {e}
  BY <1>1 DEF Range
<1>3. ASSUME IsInjective(s), e \notin Range(s)
      PROVE  IsInjective(Append(s, e))
  BY <1>1, <1>3 DEF Range, IsInjective
<1> QED BY <1>1, <1>2, <1>3

\* Taking the head off a nonempty list without duplicates removes exactly the
\* head from it.
LEMMA TailFacts ==
  ASSUME NEW S, NEW s \in Seq(S), s # <<>>
  PROVE  /\ Tail(s) \in Seq(S) /\ Head(s) \in S /\ Head(s) \in Range(s)
         /\ IsInjective(s) => IsInjective(Tail(s)) /\ Range(Tail(s)) = Range(s) \ {Head(s)}
<1> DEFINE u == Tail(s)
           h == Head(s)
<1>1. /\ u \in Seq(S) /\ h \in S /\ Len(s) # 0
      /\ Len(u) = Len(s) - 1 /\ h = s[1]
      /\ \A i \in 1..Len(u) : u[i] = s[i + 1]
  OBVIOUS
<1> HIDE DEF u, h
<1>r. /\ \A x : x \in Range(s) <=> \E i \in 1..Len(s) : s[i] = x
      /\ \A x : x \in Range(u) <=> \E i \in 1..Len(u) : u[i] = x
  BY <1>1, RangeDef
<1>2. h \in Range(s)
  BY <1>1, <1>r
<1>3. ASSUME IsInjective(s)
      PROVE  IsInjective(u) /\ Range(u) = Range(s) \ {h}
  <2>0. \A i, j \in 1..Len(s) : s[i] = s[j] => i = j
    BY <1>3, InjDef
  <2>1. \A i, j \in 1..Len(u) : u[i] = u[j] => i = j
    BY <1>1, <2>0
  <2>2. ASSUME NEW x \in Range(u) PROVE x \in Range(s) \ {h}
    <3>1. PICK i \in 1..Len(u) : u[i] = x
      BY <1>r
    <3>2. i + 1 \in 1..Len(s) /\ s[i + 1] = x /\ i + 1 # 1
      BY <3>1, <1>1
    <3> QED BY <3>2, <1>1, <1>r, <2>0
  <2>3. ASSUME NEW x \in Range(s) \ {h} PROVE x \in Range(u)
    <3>1. PICK i \in 1..Len(s) : s[i] = x
      BY <1>r
    <3>2. i - 1 \in 1..Len(u) /\ u[i - 1] = x
      BY <3>1, <1>1
    <3> QED BY <3>2, <1>r
  <2> QED BY <2>1, <2>2, <2>3, <1>1, InjDef
<1> QED BY <1>1, <1>2, <1>3 DEF u, h

\* Joining two lists without duplicates that share no element.
LEMMA ConcatFacts ==
  ASSUME NEW S, NEW s \in Seq(S), NEW w \in Seq(S)
  PROVE  /\ s \o w \in Seq(S) /\ Len(s \o w) = Len(s) + Len(w)
         /\ Range(s \o w) = Range(s) \cup Range(w)
         /\ IsInjective(s) /\ IsInjective(w) /\ Range(s) \cap Range(w) = {}
              => IsInjective(s \o w)
<1>1. /\ s \o w \in Seq(S) /\ Len(s \o w) = Len(s) + Len(w)
      /\ \A i \in 1..Len(s) + Len(w) :
           (s \o w)[i] = IF i <= Len(s) THEN s[i] ELSE w[i - Len(s)]
  OBVIOUS
<1>2. Range(s \o w) = Range(s) \cup Range(w)
  <2>1. ASSUME NEW x \in Range(s \o w) PROVE x \in Range(s) \cup Range(w)
    BY <1>1, <2>1 DEF Range
  <2>2. ASSUME NEW x \in Range(s) PROVE x \in Range(s \o w)
    BY <1>1, <2>2 DEF Range
  <2>3. ASSUME NEW x \in Range(w) PROVE x \in Range(s \o w)
    <3>1. PICK i \in 1..Len(w) : w[i] = x
      BY RangeDef, <2>3
    <3>2. i + Len(s) \in 1..Len(s \o w) /\ (s \o w)[i + Len(s)] = x
      BY <3>1, <1>1
    <3> QED BY ZenonT(60), <3>2, <1>1, RangeDef
  <2> QED BY <2>1, <2>2, <2>3
<1>3. ASSUME IsInjective(s), IsInjective(w), Range(s) \cap Range(w) = {}
      PROVE  IsInjective(s \o w)
  <2> SUFFICES ASSUME NEW i \in 1..Len(s \o w), NEW j \in 1..Len(s \o w),
                      (s \o w)[i] = (s \o w)[j]
               PROVE  i = j
    BY <1>1 DEF IsInjective
  <2>1. CASE i <= Len(s) /\ j <= Len(s)
    BY <2>1, <1>1, <1>3 DEF IsInjective
  <2>2. CASE i > Len(s) /\ j > Len(s)
    BY <2>2, <1>1, <1>3 DEF IsInjective
  <2>r. /\ \A k \in 1..Len(s) : s[k] \in Range(s)
        /\ \A k \in 1..Len(w) : w[k] \in Range(w)
    BY DEF Range
  <2>3. CASE i <= Len(s) /\ j > Len(s)
    <3>1. i \in 1..Len(s) /\ j - Len(s) \in 1..Len(w) /\ s[i] = w[j - Len(s)]
      BY <2>3, <1>1
    <3> QED BY <3>1, <2>r, <1>3
  <2>4. CASE i > Len(s) /\ j <= Len(s)
    <3>1. j \in 1..Len(s) /\ i - Len(s) \in 1..Len(w) /\ s[j] = w[i - Len(s)]
      BY <2>4, <1>1
    <3> QED BY <3>1, <2>r, <1>3
  <2> QED BY <2>1, <2>2, <2>3, <2>4, <1>1
<1> QED BY <1>1, <1>2, <1>3

\* A prefix and the rest of a list without duplicates: what the timer handler
\* takes out of the tree and what it leaves.
LEMMA SplitFacts ==
  ASSUME NEW S, NEW s \in Seq(S), NEW n \in 0..Len(s), IsInjective(s)
  PROVE  LET p == SubSeq(s, 1, n)
             r == SubSeq(s, n + 1, Len(s))
         IN  /\ p \in Seq(S) /\ r \in Seq(S) /\ IsInjective(p) /\ IsInjective(r)
             /\ Range(p) \cup Range(r) = Range(s) /\ Range(p) \cap Range(r) = {}
<1> DEFINE p == SubSeq(s, 1, n)
           r == SubSeq(s, n + 1, Len(s))
<1>1. /\ p \in Seq(S) /\ Len(p) = n /\ \A i \in 1..n : p[i] = s[i]
      /\ r \in Seq(S) /\ Len(r) = Len(s) - n
      /\ \A i \in 1..Len(s) - n : r[i] = s[n + i]
  OBVIOUS
<1> HIDE DEF p, r
<1>d. \A i, j \in 1..Len(s) : s[i] = s[j] => i = j
  BY InjDef
<1>2. IsInjective(p) /\ IsInjective(r)
  <2>1. \A i, j \in 1..Len(p) : p[i] = p[j] => i = j
    BY <1>1, <1>d
  <2>2. \A i, j \in 1..Len(r) : r[i] = r[j] => i = j
    BY <1>1, <1>d
  <2>3. IsInjective(p)
    BY <2>1, <1>1, InjDef
  <2>4. IsInjective(r)
    BY <2>2, <1>1, InjDef
  <2> QED BY <2>3, <2>4
<1>p. \A x : x \in Range(p) <=> \E i \in 1..Len(p) : p[i] = x
  BY <1>1, RangeDef
<1>r. \A x : x \in Range(r) <=> \E i \in 1..Len(r) : r[i] = x
  BY <1>1, RangeDef
<1>s. \A x : x \in Range(s) <=> \E i \in 1..Len(s) : s[i] = x
  BY RangeDef
<1>3. \A x : x \in Range(p) <=> \E i \in 1..n : s[i] = x
  BY <1>1, <1>p
<1>4. \A x : x \in Range(r) <=> \E i \in n + 1..Len(s) : s[i] = x
  <2>1. ASSUME NEW x, x \in Range(r) PROVE \E i \in n + 1..Len(s) : s[i] = x
    <3>1. PICK i \in 1..Len(r) : r[i] = x
      BY <1>r, <2>1
    <3> QED BY SMTT(60), <3>1, <1>1
  <2>2. ASSUME NEW x, NEW i \in n + 1..Len(s), s[i] = x PROVE x \in Range(r)
    <3>1. i - n \in 1..Len(r) /\ r[i - n] = x
      BY <2>2, <1>1
    <3> QED BY <3>1, <1>r
  <2> QED BY <2>1, <2>2
<1>5. Range(p) \cup Range(r) = Range(s)
  BY <1>3, <1>4, <1>s
<1>6. Range(p) \cap Range(r) = {}
  <2> SUFFICES ASSUME NEW x, x \in Range(p), x \in Range(r) PROVE FALSE
    OBVIOUS
  <2>1. PICK i \in 1..n : s[i] = x
    BY <1>3
  <2>2. PICK j \in n + 1..Len(s) : s[j] = x
    BY <1>4
  <2> QED BY <2>1, <2>2, <1>d
<1> QED BY <1>1, <1>2, <1>5, <1>6 DEF p, r

\* Linking one more element anywhere in a list.
LEMMA InsertFacts ==
  ASSUME NEW S, NEW s \in Seq(S), NEW i \in 1..Len(s) + 1, NEW e \in S,
         IsInjective(s), e \notin Range(s)
  PROVE  /\ InsertBefore(s, i, e) \in Seq(S)
         /\ IsInjective(InsertBefore(s, i, e))
         /\ Range(InsertBefore(s, i, e)) = Range(s) \cup {e}
<1> DEFINE p == SubSeq(s, 1, i - 1)
           r == SubSeq(s, i, Len(s))
<1>1. /\ p \in Seq(S) /\ r \in Seq(S) /\ IsInjective(p) /\ IsInjective(r)
      /\ Range(p) \cup Range(r) = Range(s) /\ Range(p) \cap Range(r) = {}
  <2>1. i - 1 \in 0..Len(s) /\ (i - 1) + 1 = i
    OBVIOUS
  <2> QED BY <2>1, SplitFacts
<1> DEFINE w == <<e>>
           pw == p \o w
<1>2. w \in Seq(S) /\ IsInjective(w) /\ Range(w) = {e}
  BY DEF IsInjective, Range
<1> HIDE DEF p, r, w
<1>3. pw \in Seq(S) /\ IsInjective(pw) /\ Range(pw) = Range(p) \cup {e}
  BY <1>1, <1>2, ConcatFacts
<1> HIDE DEF pw
<1>4. /\ pw \o r \in Seq(S) /\ IsInjective(pw \o r)
      /\ Range(pw \o r) = Range(s) \cup {e}
  BY <1>1, <1>3, ConcatFacts
<1> QED BY <1>4 DEF InsertBefore, p, r, w, pw

\* Pick(s, S), the resumption order of thread_resume and of the futex chain,
\* lists each element of s that is in S, once.
LEMMA PickFacts ==
  ASSUME NEW T, NEW s \in Seq(T), NEW S, NEW r \in Pick(s, S)
  PROVE  r \in Seq(T) /\ Range(r) = S \cap Range(s) /\ IsInjective(r)
<1>1. PICK n \in 0..Len(s) : r \in [1..n -> S \cap Range(s)]
  BY DEF Pick
<1>2. r \in Seq(T) /\ Len(r) = n
  <2>1. Range(s) \subseteq T
    BY RangeDef
  <2>2. r \in [1..n -> T] /\ n \in Nat
    BY <1>1, <2>1
  <2> QED BY <2>2
<1>3. Range(r) = S \cap Range(s)
  BY DEF Pick
<1>4. \A i, j \in 1..n : i < j => r[i] # r[j]
  <2> SUFFICES ASSUME NEW i \in 1..n, NEW j \in 1..n, i < j, r[i] = r[j]
               PROVE  FALSE
    OBVIOUS
  <2>1. PICK a \in DOMAIN s : s[a] = r[i]
    BY <1>1 DEF Range
  <2>2. a < a
    BY <1>1, <2>1 DEF Pick
  <2>3. a \in Nat
    BY <2>1
  <2> QED BY <2>2, <2>3
<1>5. \A i, j \in 1..Len(r) : r[i] = r[j] => i = j
  BY <1>4, <1>2
<1> QED BY <1>2, <1>3, <1>5, InjDef
-----------------------------------------------------------------------------
\* A list without duplicates that is taken apart into two lists (futex_wake, which
\* unlinks some of a chain and leaves the others): their lengths add up.  It is used
\* as an assumption where counters go down, and proved as PartLengths.
PartsAddUp ==
  \A s, p, r \in Seq(Thread) :
    /\ IsInjective(s) /\ IsInjective(p) /\ IsInjective(r)
    /\ Range(p) \cup Range(r) = Range(s) /\ Range(p) \cap Range(r) = {}
    => Len(s) = Len(p) + Len(r)

\* The inductive invariant.  NoUseAfterFree is replaced by its first half: the
\* second follows from the statuses the other parts give to everything linked.
FreedExited == \A t \in freed : status[t] = "EXIT"

IInv ==
  /\ TypeOK
  /\ ReadyListSound
  /\ OneWaker
  /\ ServerIdleOrBusy
  /\ FreedExited
  /\ NoPanic
  /\ Bookkeeping
  /\ WaitersCounted
  /\ NoLostWakeup
\* schedule(), from a ready list and a status table that agree (ReadyListSound
\* holds of them but for the status of the caller): it finds a thread, the list
\* and the statuses agree again, and only an exited caller is deleted.
LEMMA ScheduleFacts ==
  ASSUME SchedTypeOK,
         NEW rq \in Seq(Thread), NEW st \in [Thread -> Status],
         IsInjective(rq),
         Range(rq) = {t \in Thread \ {current} : st[t] \in {"READY", "RUNNING"}},
         st[current] \in {"RUNNING", "SUSPEND", "EXIT"},
         st[Main] = "RUNNING",
         Schedule(rq, st)
  PROVE  /\ SchedTypeOK'
         /\ panic' = panic
         /\ ReadyListSound'
         /\ st[current'] \in {"READY", "RUNNING"}
         /\ status' = [st EXCEPT ![current'] = "RUNNING"]
         /\ freed' = freed \/ (freed' = freed \cup {current} /\ st[current] = "EXIT")
<1> DEFINE q == IF st[current] \in {"SUSPEND", "EXIT"} THEN rq ELSE Append(rq, current)
<1>t. current \in Thread /\ Main \in Thread
  BY ThreadAssumption DEF SchedTypeOK
<1>1. /\ q \in Seq(Thread) /\ IsInjective(q) /\ q # <<>>
      /\ Range(q) = {t \in Thread : st[t] \in {"READY", "RUNNING"}}
  <2>1. CASE st[current] \in {"SUSPEND", "EXIT"}
    <3>1. Main \in Range(rq)
      BY <2>1, <1>t
    <3>2. rq # <<>>
      BY <3>1 DEF Range
    <3> QED BY <2>1, <3>2
  <2>2. CASE st[current] = "RUNNING"
    <3>1. current \notin Range(rq)
      OBVIOUS
    <3>2. /\ Append(rq, current) \in Seq(Thread) /\ Append(rq, current) # <<>>
          /\ Range(Append(rq, current)) = Range(rq) \cup {current}
          /\ IsInjective(Append(rq, current))
      BY <3>1, <1>t, AppendFacts
    <3> QED BY <2>2, <3>2, <1>t
  <2> QED BY <2>1, <2>2
<1>2. SwitchFrom(st, q, {"EXIT"})
  BY DEF Schedule
<1> HIDE DEF q
<1> DEFINE h == Head(q)
           u == Tail(q)
<1>3. /\ u \in Seq(Thread) /\ h \in Thread /\ h \in Range(q)
      /\ IsInjective(u) /\ Range(u) = Range(q) \ {h}
  BY <1>1, TailFacts
<1>4. /\ ready' = u /\ current' = h /\ status' = [st EXCEPT ![h] = "RUNNING"]
      /\ ctx' = [ctx EXCEPT ![current] = "schedule"] /\ panic' = panic
      /\ freed' = IF ctx[h] = "schedule" /\ st[current] \in {"EXIT"}
                  THEN freed \cup {current} ELSE freed
  BY <1>1, <1>2 DEF SwitchFrom
<1> HIDE DEF h, u
<1>5. /\ current' \in Thread /\ ready' \in Seq(Thread)
      /\ status' \in [Thread -> Status] /\ ctx' \in [Thread -> Context]
      /\ freed' \in SUBSET Thread
  BY <1>3, <1>4, <1>t DEF SchedTypeOK, Status, Context
<1>6. ReadyListSound'
  <2>1. IsInjective(ready') /\ status'[current'] = "RUNNING"
    BY <1>3, <1>4
  <2>2. Range(ready') = {t \in Thread \ {current'} : status'[t] \in {"READY", "RUNNING"}}
    BY <1>1, <1>3, <1>4
  <2> QED BY <2>1, <2>2 DEF ReadyListSound
<1>7. st[current'] \in {"READY", "RUNNING"}
  BY <1>1, <1>3, <1>4
<1> QED BY <1>4, <1>5, <1>6, <1>7 DEF SchedTypeOK

\* thread_resume on the suspended threads of a list: they are added to the ready
\* list and the list and the statuses agree again.
LEMMA ResumeFacts ==
  ASSUME SchedTypeOK, ReadyListSound,
         NEW s \in Seq(Thread), NEW ws \in Pick(s, Suspended)
  PROVE  /\ ready \o ws \in Seq(Thread) /\ IsInjective(ready \o ws)
         /\ Range(ws) = Suspended \cap Range(s)
         /\ Resumed(ws) \in [Thread -> Status]
         /\ Range(ready \o ws) =
              {t \in Thread \ {current} : Resumed(ws)[t] \in {"READY", "RUNNING"}}
<1>1. ws \in Seq(Thread) /\ Range(ws) = Suspended \cap Range(s) /\ IsInjective(ws)
  BY PickFacts
<1>2. ready \in Seq(Thread) /\ IsInjective(ready) /\ Range(ready) \cap Range(ws) = {}
  BY <1>1 DEF SchedTypeOK, ReadyListSound, Suspended
<1>3. /\ ready \o ws \in Seq(Thread) /\ IsInjective(ready \o ws)
      /\ Range(ready \o ws) = Range(ready) \cup Range(ws)
  BY <1>1, <1>2, ConcatFacts
<1>4. Resumed(ws) \in [Thread -> Status]
  BY DEF Resumed, SchedTypeOK, Status
<1>5. current \notin Range(ws)
  BY <1>1 DEF Suspended, ReadyListSound
<1>6. \A t \in Thread : Resumed(ws)[t] = IF t \in Range(ws) THEN "READY" ELSE status[t]
  BY DEF Resumed
<1>7. Range(ws) \subseteq Thread
  BY <1>1 DEF Suspended
<1>8. Range(ready) \cup Range(ws) =
        {t \in Thread \ {current} : Resumed(ws)[t] \in {"READY", "RUNNING"}}
  BY <1>5, <1>6, <1>7 DEF ReadyListSound
<1> QED BY <1>1, <1>3, <1>4, <1>8

\* A thread that suspends or exits (x) gives the CPU away: every other thread
\* keeps its standing, only an exited thread is deleted.
LEMMA GiveUpFacts ==
  ASSUME IInv, NEW x \in {"SUSPEND", "EXIT"}, current # Main,
         Schedule(ready, [status EXCEPT ![current] = x])
  PROVE  /\ SchedTypeOK' /\ ReadyListSound' /\ FreedExited' /\ NoPanic'
         /\ status'[Main] = "RUNNING" /\ status'[current] = x
         /\ \A t \in Thread \ {current} :
              /\ status[t] \in {"NONE", "SUSPEND", "EXIT"} => status'[t] = status[t]
              /\ status'[t] \in {"NONE", "SUSPEND", "EXIT"} => status'[t] = status[t]
<1> DEFINE st == [status EXCEPT ![current] = x]
<1>1. /\ current \in Thread /\ ready \in Seq(Thread) /\ st \in [Thread -> Status]
      /\ SchedTypeOK /\ Main \in Thread
  BY ThreadAssumption DEF IInv, TypeOK, SchedTypeOK, Status
<1>2. /\ IsInjective(ready)
      /\ Range(ready) = {t \in Thread \ {current} : st[t] \in {"READY", "RUNNING"}}
      /\ st[current] = x /\ st[Main] = "RUNNING"
      /\ \A t \in Thread \ {current} : st[t] = status[t]
  BY <1>1 DEF IInv, ReadyListSound, Bookkeeping, SchedTypeOK
<1> HIDE DEF st
<1>3. Schedule(ready, st)
  BY DEF st
<1>4. /\ SchedTypeOK' /\ panic' = panic /\ ReadyListSound'
      /\ st[current'] \in {"READY", "RUNNING"}
      /\ status' = [st EXCEPT ![current'] = "RUNNING"]
      /\ freed' = freed \/ (freed' = freed \cup {current} /\ st[current] = "EXIT")
  BY <1>1, <1>2, <1>3, ScheduleFacts
<1>5. \A t \in Thread : status'[t] = IF t = current' THEN "RUNNING" ELSE st[t]
  BY <1>1, <1>4
<1>6. current' # current /\ current' \in Thread
  BY <1>2, <1>4 DEF SchedTypeOK
<1>7. FreedExited'
  <2>1. \A t \in freed : t \in Thread /\ st[t] = "EXIT"
    <3>1. \A t \in freed : t \in Thread /\ status[t] = "EXIT" /\ t # current
      BY DEF IInv, FreedExited, ReadyListSound, TypeOK, SchedTypeOK
    <3> QED BY <3>1, <1>2
  <2>2. \A t \in freed' : t \in Thread /\ st[t] = "EXIT"
    BY <2>1, <1>4, <1>1
  <2> QED BY <2>2, <1>4, <1>5 DEF FreedExited
<1>8. NoPanic'
  BY <1>4 DEF IInv
<1>9. status'[Main] = "RUNNING" /\ status'[current] = x
  BY <1>1, <1>2, <1>5, <1>6
<1> QED BY <1>2, <1>4, <1>5, <1>7, <1>8, <1>9

\* The interrupt handler resumes the suspended threads of s and the running thread
\* is preempted.
LEMMA PreemptFacts ==
  ASSUME IInv, NEW s \in Seq(Thread), NEW ws \in Pick(s, Suspended),
         Schedule(ready \o ws, Resumed(ws))
  PROVE  /\ SchedTypeOK' /\ ReadyListSound' /\ FreedExited' /\ NoPanic'
         /\ status'[Main] = "RUNNING"
         /\ \A t \in Thread :
              /\ status'[t] = "SUSPEND" <=> status[t] = "SUSPEND" /\ t \notin Range(s)
              /\ status'[t] = "NONE" <=> status[t] = "NONE"
<1> DEFINE st == Resumed(ws)
           rq == ready \o ws
<1>0. SchedTypeOK /\ ReadyListSound /\ Main \in Thread
  BY ThreadAssumption DEF IInv, TypeOK
<1>1. /\ rq \in Seq(Thread) /\ IsInjective(rq) /\ st \in [Thread -> Status]
      /\ Range(ws) = Suspended \cap Range(s)
      /\ Range(rq) = {t \in Thread \ {current} : st[t] \in {"READY", "RUNNING"}}
  BY <1>0, ResumeFacts
<1>2. \A t \in Thread : st[t] = IF t \in Range(ws) THEN "READY" ELSE status[t]
  BY DEF Resumed
<1>3. Schedule(rq, st)
  OBVIOUS
<1> HIDE DEF st, rq
<1>4. st[current] = "RUNNING" /\ st[Main] = "RUNNING"
  BY <1>0, <1>1, <1>2 DEF ReadyListSound, Suspended, SchedTypeOK, IInv, Bookkeeping
<1>5. /\ SchedTypeOK' /\ panic' = panic /\ ReadyListSound'
      /\ st[current'] \in {"READY", "RUNNING"}
      /\ status' = [st EXCEPT ![current'] = "RUNNING"]
      /\ freed' = freed
  BY <1>0, <1>1, <1>3, <1>4, ScheduleFacts
<1>6. \A t \in Thread : status'[t] = IF t = current' THEN "RUNNING" ELSE st[t]
  BY <1>1, <1>5
<1>7. FreedExited'
  <2>1. \A t \in freed : t \in Thread /\ status[t] = "EXIT" /\ t \notin Range(ws)
    BY <1>1 DEF IInv, FreedExited, TypeOK, SchedTypeOK, Suspended
  <2> QED BY <2>1, <1>2, <1>5, <1>6 DEF FreedExited
<1>8. NoPanic'
  BY <1>5 DEF IInv
<1>9. status'[Main] = "RUNNING"
  BY <1>0, <1>4, <1>6
<1>10. \A t \in Thread :
        /\ status'[t] = "SUSPEND" <=> status[t] = "SUSPEND" /\ t \notin Range(s)
        /\ status'[t] = "NONE" <=> status[t] = "NONE"
  BY <1>1, <1>2, <1>5, <1>6 DEF Suspended
<1> QED BY <1>5, <1>7, <1>8, <1>9, <1>10
-----------------------------------------------------------------------------
\* The running thread waits for nothing: it is in no wait structure, and if it is
\* a server thread it is serving its connection.
LEMMA RunningFacts ==
  ASSUME IInv
  PROVE  /\ current \in Thread /\ status[current] = "RUNNING"
         /\ current \notin Sleepers /\ current \notin FutexWaiters /\ current \notin Callers
         /\ \A c \in Conn : Target[c] = current => c \in Busy
<1>1. current \in Thread /\ status[current] = "RUNNING"
  BY DEF IInv, TypeOK, SchedTypeOK, ReadyListSound
<1>2. current \notin Suspended
  BY <1>1 DEF Suspended
<1>3. current \notin Sleepers /\ current \notin FutexWaiters /\ current \notin Callers
  BY <1>2 DEF IInv, OneWaker
<1>4. ASSUME NEW c \in Conn, Target[c] = current, c \notin Busy PROVE FALSE
  <2>1. owner[c] # NoThread
    BY <1>1, <1>4 DEF IInv, Bookkeeping
  <2> QED BY <1>1, <1>4, <2>1 DEF IInv, ServerIdleOrBusy
<1> QED BY <1>1, <1>3, <1>4

\* A step that leaves futexes and IPC alone preserves the invariant when it keeps
\* the scheduler's part and disturbs no thread that waits in a futex chain, for a
\* reply or for a call.
LEMMA FrameFacts ==
  ASSUME IInv, UNCHANGED <<futexVars, ipcVars>>,
         SchedTypeOK', ReadyListSound', FreedExited', NoPanic', status'[Main] = "RUNNING",
         sleepq' \in Seq(Thread), IsInjective(sleepq'),
         \A t \in Range(sleepq') :
           /\ t \notin FutexWaiters /\ t \notin Callers /\ status'[t] = "SUSPEND"
           /\ \A c \in Conn : t = Target[c] => c \in Busy,
         \A t \in FutexWaiters \cup Callers : status'[t] = "SUSPEND",
         \A c \in Conn : c \notin Busy /\ owner[c] # NoThread => status'[Target[c]] = "SUSPEND",
         \A t \in Thread : status'[t] = "NONE" <=> status[t] = "NONE"
  PROVE  IInv'
<1>1. FutexWaiters' = FutexWaiters /\ Callers' = Callers /\ Busy' = Busy
  BY DEF futexVars, ipcVars, FutexWaiters, Callers, Busy
<1>2. UNCHANGED <<chain, waiters, fq, word, unsignalled, owner, source, active>>
  BY DEF futexVars, ipcVars
<1>t. Range(sleepq') \subseteq Thread /\ FutexWaiters \cup Callers \subseteq Thread
  <2>1. Range(sleepq') \subseteq Thread
    BY RangeDef
  <2>2. FutexWaiters \cup Callers \subseteq Suspended
    BY DEF IInv, OneWaker
  <2> QED BY <2>1, <2>2 DEF Suspended
<1>3. TypeOK'
  BY <1>2 DEF IInv, TypeOK
<1>4. OneWaker'
  <2>1. Sleepers' = Range(sleepq')
    BY DEF Sleepers
  <2>2. Sleepers' \cap FutexWaiters' = {} /\ Callers' \cap (Sleepers' \cup FutexWaiters') = {}
    BY <1>1, <2>1 DEF IInv, OneWaker
  <2>3. Sleepers' \cup FutexWaiters' \cup Callers' \subseteq Suspended'
    BY SMTT(60), <1>1, <1>t, <2>1 DEF Suspended
  <2>4. /\ \A b \in Buckets : IsInjective(chain'[b])
        /\ \A b1, b2 \in Buckets : b1 # b2 => Range(chain'[b1]) \cap Range(chain'[b2]) = {}
        /\ \A c1, c2 \in Busy' : source'[c1] = source'[c2] => c1 = c2
    BY <1>1, <1>2 DEF IInv, OneWaker
  <2> QED BY SMTT(60), <2>2, <2>3, <2>4 DEF OneWaker, Buckets
<1>5. ServerIdleOrBusy'
  BY <1>1, <1>2 DEF IInv, ServerIdleOrBusy, Sleepers
<1>6. Bookkeeping'
  <2>1. \A c \in Conn : Target[c] \in Thread
    BY ConnAssumption
  <2> QED BY <1>2, <2>1 DEF IInv, Bookkeeping
<1>7. WaitersCounted'
  BY <1>2 DEF IInv, WaitersCounted, Buckets
<1>8. NoLostWakeup'
  BY <1>1, <1>2 DEF IInv, NoLostWakeup
<1> QED BY <1>3, <1>4, <1>5, <1>6, <1>7, <1>8 DEF IInv

\* What IInv says of the threads that wait, in the form FrameFacts asks for.
LEMMA WaitingFacts ==
  ASSUME IInv
  PROVE  /\ sleepq \in Seq(Thread) /\ IsInjective(sleepq)
         /\ \A t \in Range(sleepq) :
              /\ t \in Thread /\ t \notin FutexWaiters /\ t \notin Callers
              /\ status[t] = "SUSPEND"
              /\ \A c \in Conn : t = Target[c] => c \in Busy
         /\ \A t \in FutexWaiters \cup Callers :
              t \in Thread /\ status[t] = "SUSPEND" /\ t \notin Range(sleepq)
         /\ \A c \in Conn : c \notin Busy /\ owner[c] # NoThread =>
              /\ Target[c] \in Thread /\ status[Target[c]] = "SUSPEND"
              /\ Target[c] \notin Range(sleepq) /\ Target[c] \notin FutexWaiters
              /\ Target[c] \notin Callers
<1>1. sleepq \in Seq(Thread) /\ IsInjective(sleepq)
  BY DEF IInv, TypeOK, OneWaker
<1>2. /\ Range(sleepq) \cap FutexWaiters = {}
      /\ Callers \cap (Range(sleepq) \cup FutexWaiters) = {}
      /\ \A t \in Range(sleepq) \cup FutexWaiters \cup Callers :
           t \in Thread /\ status[t] = "SUSPEND"
  BY DEF IInv, OneWaker, Sleepers, Suspended
<1>3. \A c \in Conn : c \notin Busy /\ owner[c] # NoThread =>
              /\ Target[c] \in Thread /\ status[Target[c]] = "SUSPEND"
              /\ Target[c] \notin Range(sleepq) /\ Target[c] \notin FutexWaiters
              /\ Target[c] \notin Callers
  BY ConnAssumption DEF IInv, ServerIdleOrBusy, Sleepers
<1>4. \A c \in Conn : Target[c] \in Range(sleepq) => c \in Busy
  BY <1>2, <1>3 DEF IInv, Bookkeeping
<1> QED BY <1>1, <1>2, <1>3, <1>4

\* A step that changes nothing (a futex_wait that finds another value).
LEMMA StutterInv == IInv /\ UNCHANGED vars => IInv'
<1> SUFFICES ASSUME IInv, UNCHANGED vars PROVE IInv'
  OBVIOUS
<1>1. UNCHANGED <<current, ready, status, ctx, freed, panic, sleepq, chain, waiters, fq, word,
                  unsignalled, owner, source, active>>
  BY DEF vars, schedVars, futexVars, ipcVars
<1>2. FutexWaiters' = FutexWaiters /\ Callers' = Callers /\ Busy' = Busy /\ Sleepers' = Sleepers
  BY <1>1 DEF FutexWaiters, Callers, Busy, Sleepers
<1>3. TypeOK'
  BY SMTT(60), <1>1 DEF IInv, TypeOK, SchedTypeOK
<1>4. ReadyListSound' /\ FreedExited' /\ NoPanic' /\ Bookkeeping'
  BY <1>1 DEF IInv, ReadyListSound, FreedExited, Bookkeeping
<1>5. OneWaker'
  BY <1>1, <1>2 DEF IInv, OneWaker, Suspended, Buckets
<1>6. ServerIdleOrBusy'
  BY SMTT(60), <1>1, <1>2 DEF IInv, ServerIdleOrBusy
<1>7. WaitersCounted'
  BY <1>1 DEF IInv, WaitersCounted, Buckets
<1>8. NoLostWakeup'
  BY <1>1, <1>2 DEF IInv, NoLostWakeup
<1> QED BY <1>3, <1>4, <1>5, <1>6, <1>7, <1>8 DEF IInv
=============================================================================
