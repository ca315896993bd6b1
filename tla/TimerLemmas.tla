---------------------------- MODULE TimerLemmas -----------------------------
(***************************************************************************)
(* What the operations on the timers' tree do to it: an insertion by       *)
(* add_timer and a removal by del_timer keep the tree in the order of the  *)
(* deadlines and base->next its first timer.                               *)
(***************************************************************************)
EXTENDS Timer, FiniteSetTheorems, TLAPS

\* Positions in a sequence that continues another.
LEMMA ConcatFacts ==
  ASSUME NEW S, NEW s \in Seq(S), NEW w \in Seq(S)
  PROVE  /\ s \o w \in Seq(S) /\ Len(s \o w) = Len(s) + Len(w)
         /\ \A j \in 1..Len(s) + Len(w) :
              (s \o w)[j] = IF j <= Len(s) THEN s[j] ELSE w[j - Len(s)]
  OBVIOUS

\* Where an element that is inserted ends up, and where the others go (rb_link_node).
LEMMA InsertFacts ==
  ASSUME NEW S, NEW s \in Seq(S), NEW i \in 1..Len(s) + 1, NEW e \in S
  PROVE  LET r == rb_link_node(s, i, e) IN
         /\ r \in Seq(S) /\ Len(r) = Len(s) + 1
         /\ \A j \in 1..Len(s) + 1 :
              r[j] = IF j < i THEN s[j] ELSE IF j = i THEN e ELSE s[j - 1]
<1> DEFINE p == SubSeq(s, 1, i - 1)
           w == <<e>>
           q == SubSeq(s, i, Len(s))
           pw == p \o w
<1>1. /\ p \in Seq(S) /\ Len(p) = i - 1 /\ \A j \in 1..i - 1 : p[j] = s[j]
      /\ q \in Seq(S) /\ Len(q) = Len(s) - i + 1
      /\ \A j \in 1..Len(s) - i + 1 : q[j] = s[i + j - 1]
  OBVIOUS
<1>2. w \in Seq(S) /\ Len(w) = 1 /\ w[1] = e
  OBVIOUS
<1> HIDE DEF p, w, q
<1>3. /\ pw \in Seq(S) /\ Len(pw) = i
      /\ \A j \in 1..i : pw[j] = IF j < i THEN s[j] ELSE e
  <2>1. /\ pw \in Seq(S) /\ Len(pw) = Len(p) + Len(w)
        /\ \A j \in 1..Len(p) + Len(w) :
             pw[j] = IF j <= Len(p) THEN p[j] ELSE w[j - Len(p)]
    BY <1>1, <1>2, ConcatFacts
  <2> HIDE DEF pw
  <2> QED BY <1>1, <1>2, <2>1
<1> HIDE DEF pw
<1>4. /\ pw \o q \in Seq(S) /\ Len(pw \o q) = Len(s) + 1
      /\ \A j \in 1..Len(s) + 1 : (pw \o q)[j] = IF j <= i THEN pw[j] ELSE q[j - i]
  <2>1. /\ pw \o q \in Seq(S) /\ Len(pw \o q) = Len(pw) + Len(q)
        /\ \A j \in 1..Len(pw) + Len(q) :
             (pw \o q)[j] = IF j <= Len(pw) THEN pw[j] ELSE q[j - Len(pw)]
    BY <1>1, <1>3, ConcatFacts
  <2> QED BY <1>1, <1>3, <2>1
<1>5. \A j \in 1..Len(s) + 1 :
        (pw \o q)[j] = IF j < i THEN s[j] ELSE IF j = i THEN e ELSE s[j - 1]
  BY <1>1, <1>3, <1>4
<1> QED BY <1>4, <1>5 DEF rb_link_node, p, q, w, pw

\* What is left after the element at a position has been taken out (rb_erase).
LEMMA RemoveFacts ==
  ASSUME NEW S, NEW s \in Seq(S), NEW i \in 1..Len(s)
  PROVE  LET r == rb_erase(s, i) IN
         /\ r \in Seq(S) /\ Len(r) = Len(s) - 1
         /\ \A j \in 1..Len(s) - 1 : r[j] = IF j < i THEN s[j] ELSE s[j + 1]
<1> DEFINE p == SubSeq(s, 1, i - 1)
           q == SubSeq(s, i + 1, Len(s))
<1>1. /\ p \in Seq(S) /\ Len(p) = i - 1 /\ \A j \in 1..i - 1 : p[j] = s[j]
      /\ q \in Seq(S) /\ Len(q) = Len(s) - i
      /\ \A j \in 1..Len(s) - i : q[j] = s[i + j]
  OBVIOUS
<1> HIDE DEF p, q
<1>2. /\ p \o q \in Seq(S) /\ Len(p \o q) = Len(s) - 1
      /\ \A j \in 1..Len(s) - 1 : (p \o q)[j] = IF j < i THEN p[j] ELSE q[j - i + 1]
  <2>1. /\ p \o q \in Seq(S) /\ Len(p \o q) = Len(p) + Len(q)
        /\ \A j \in 1..Len(p) + Len(q) :
             (p \o q)[j] = IF j <= Len(p) THEN p[j] ELSE q[j - Len(p)]
    BY <1>1, ConcatFacts
  <2> QED BY <1>1, <2>1
<1>3. \A j \in 1..Len(s) - 1 : (p \o q)[j] = IF j < i THEN s[j] ELSE s[j + 1]
  BY <1>1, <1>2
<1> QED BY <1>2, <1>3 DEF rb_erase, p, q

\* A set of positions that has, with each position, all those before it, is counted
\* by its last one.
LEMMA PrefixCount ==
  ASSUME NEW n \in Nat, NEW P \in SUBSET (1..n),
         \A i, j \in 1..n : i < j /\ j \in P => i \in P
  PROVE  Cardinality(P) \in 0..n /\ P = 1..Cardinality(P)
<1> DEFINE c == Cardinality(P)
<1>1. IsFiniteSet(1..n) /\ Cardinality(1..n) = n
  BY FS_Interval
<1>2. IsFiniteSet(P) /\ c \in Nat /\ c <= n
  BY <1>1, FS_Subset, FS_CardinalityType
<1>3. P \subseteq 1..c
  <2> SUFFICES ASSUME NEW j \in P PROVE j <= c
    BY <1>2
  <2>1. 1..j \subseteq P
    OBVIOUS
  <2>2. Cardinality(1..j) = j
    BY FS_Interval
  <2> QED BY <1>2, <2>1, <2>2, FS_Subset
<1>4. IsFiniteSet(1..c) /\ Cardinality(1..c) = c
  BY <1>2, FS_Interval
<1>5. P = 1..c
  BY <1>3, <1>4, FS_Subset
<1> QED BY <1>2, <1>5
-----------------------------------------------------------------------------
\* The timer base of one CPU, and what NextIsEarliest says of it, with started the
\* times at which the timers were last started.
Base == [tree : Seq(AllTimers), next : AllTimers \cup {NoTimer},
         expires : [AllTimers -> 0..KtimeMax], state : [AllTimers -> {"INACTIVE", "ENQUEUED"}]]

Ordered(s, started) ==
  /\ s.next = IF s.tree = <<>> THEN NoTimer ELSE s.tree[1]
  /\ \A i, j \in 1..Len(s.tree) : i < j =>
       s.tree[i] # s.tree[j] /\ s.expires[s.tree[i]] <= s.expires[s.tree[j]]
  /\ \A t \in AllTimers : s.state[t] = "ENQUEUED" <=> \E i \in 1..Len(s.tree) : s.tree[i] = t
  /\ \A i, j \in 1..Len(s.tree) :
       i < j /\ s.expires[s.tree[i]] = s.expires[s.tree[j]] /\ SchedTimer \notin {s.tree[i], s.tree[j]}
         => started[s.tree[i]] <= started[s.tree[j]]

\* add_timer keeps the base in order: the timer goes behind all those that expire no
\* later, and becomes the first exactly when base->next is moved to it.
LEMMA AddFacts ==
  ASSUME NEW s \in Base, NEW old \in [AllTimers -> Nat], NEW new \in [AllTimers -> Nat],
         Ordered(s, old),
         NEW t \in AllTimers, s.state[t] = "INACTIVE", NEW e \in 0..KtimeMax,
         \A u \in AllTimers \ {t} : new[u] = old[u],
         t # SchedTimer => \A u \in AllTimers \ {t} : old[u] <= new[t]
  PROVE  /\ AddTimer(s, t, e) \in Base /\ Ordered(AddTimer(s, t, e), new)
         /\ AddTimer(s, t, e).state = [s.state EXCEPT ![t] = "ENQUEUED"]
         /\ AddTimer(s, t, e).expires = [s.expires EXCEPT ![t] = e]
<1> DEFINE tr == s.tree
           n  == Len(tr)
           ex == [s.expires EXCEPT ![t] = e]
           P  == {j \in DOMAIN tr : ex[tr[j]] <= e}
           i  == 1 + Cardinality(P)
           r  == rb_link_node(tr, i, t)
           nx == IF s.next = NoTimer \/ e < ex[s.next] THEN t ELSE s.next
           st == [s.state EXCEPT ![t] = "ENQUEUED"]
           a  == AddTimer(s, t, e)
<1>a. a = [tree |-> r, next |-> nx, expires |-> ex, state |-> st]
  BY DEF AddTimer
<1>t. /\ tr \in Seq(AllTimers) /\ s.next \in AllTimers \cup {NoTimer}
      /\ s.expires \in [AllTimers -> 0..KtimeMax]
      /\ s.state \in [AllTimers -> {"INACTIVE", "ENQUEUED"}]
  BY DEF Base
<1>d. DOMAIN tr = 1..n /\ n \in Nat /\ \A j \in 1..n : tr[j] \in AllTimers
  BY <1>t
<1>1. \A j \in 1..n : tr[j] # t /\ ex[tr[j]] = s.expires[tr[j]] /\ ex[tr[j]] \in 0..KtimeMax
  BY <1>t, <1>d DEF Ordered
<1>2. ex \in [AllTimers -> 0..KtimeMax] /\ ex[t] = e /\ st \in [AllTimers -> {"INACTIVE", "ENQUEUED"}]
  BY <1>t
<1>3. \A j, k \in 1..n : j < k => tr[j] # tr[k] /\ ex[tr[j]] <= ex[tr[k]]
  BY <1>1 DEF Ordered
<1>4. Cardinality(P) \in 0..n /\ P = 1..Cardinality(P)
  <2>1. P \in SUBSET (1..n)
    BY <1>d
  <2>2. \A j, k \in 1..n : j < k /\ k \in P => j \in P
    BY <1>d, <1>1, <1>2, <1>3
  <2> HIDE DEF P
  <2> QED BY <1>d, <2>1, <2>2, PrefixCount
<1>5. i \in 1..n + 1 /\ \A j \in 1..n : j < i <=> ex[tr[j]] <= e
  <2>1. \A j \in 1..n : j \in P <=> ex[tr[j]] <= e
    BY <1>d
  <2> DEFINE c == Cardinality(P)
  <2>2. c \in 0..n /\ P = 1..c
    BY <1>4
  <2> HIDE DEF P, c, ex, n
  <2> QED BY <2>1, <2>2, <1>d DEF c
<1>o. /\ s.next = IF tr = <<>> THEN NoTimer ELSE tr[1]
      /\ \A u \in AllTimers : s.state[u] = "ENQUEUED" <=> \E j \in 1..n : tr[j] = u
  BY DEF Ordered
<1>s. \A j, k \in 1..n : j < k /\ ex[tr[j]] = ex[tr[k]] /\ SchedTimer # tr[j] /\ SchedTimer # tr[k]
                           => new[tr[j]] <= new[tr[k]]
  BY <1>1, <1>d DEF Ordered
<1> HIDE DEF ex, P, i, st, n, tr
<1>6. /\ r \in Seq(AllTimers) /\ Len(r) = n + 1
      /\ \A j \in 1..n + 1 : r[j] = IF j < i THEN tr[j] ELSE IF j = i THEN t ELSE tr[j - 1]
  <2>1. i \in 1..Len(tr) + 1
    BY <1>5 DEF n
  <2>2. /\ r \in Seq(AllTimers) /\ Len(r) = Len(tr) + 1
        /\ \A j \in 1..Len(tr) + 1 : r[j] = IF j < i THEN tr[j] ELSE IF j = i THEN t ELSE tr[j - 1]
    <3>1. tr \in Seq(AllTimers)
      BY <1>t
    <3> QED BY ONLY <3>1, <2>1, t \in AllTimers, InsertFacts
  <2> QED BY <2>2 DEF n
<1> HIDE DEF r
\* Where an entry of the new tree comes from.
<1>p. ASSUME NEW j \in 1..n + 1
      PROVE  \/ j < i /\ j \in 1..n /\ r[j] = tr[j]
             \/ j = i /\ r[j] = t
             \/ i < j /\ j - 1 \in 1..n /\ ~(j - 1 < i) /\ r[j] = tr[j - 1]
  <2>1. i \in 1..n + 1 /\ n \in Nat
    BY <1>5, <1>d
  <2>2. CASE j < i
    <3>1. j \in 1..n
      BY <2>1, <2>2
    <3> QED BY <2>2, <3>1, <1>6
  <2>3. CASE j = i
    <3>1. ~(j < i)
      BY <2>1, <2>3
    <3> QED BY <2>3, <3>1, <1>6
  <2>4. CASE i < j
    <3>1. j - 1 \in 1..n /\ ~(j - 1 < i) /\ ~(j < i) /\ j # i
      BY <2>1, <2>4
    <3> QED BY <2>4, <3>1, <1>6
  <2> QED BY <2>1, <2>2, <2>3, <2>4
<1>7. nx = IF r = <<>> THEN NoTimer ELSE r[1]
  <2>1. r # <<>> /\ 1 \in 1..n + 1 /\ ~(i < 1)
    BY <1>6, <1>d, <1>5
  <2>2. CASE n = 0
    <3>1. tr = <<>>
      BY <2>2, <1>t DEF n
    <3>2. i = 1
      BY <2>2, <1>5
    <3> QED BY <2>1, <3>1, <3>2, <1>p, <1>o
  <2>3. CASE n # 0
    <3>1. tr # <<>> /\ 1 \in 1..n
      BY <2>3, <1>t, <1>d DEF n
    <3>2. s.next = tr[1] /\ s.next # NoTimer
      BY <3>1, <1>d, <1>o, TimerAssumption DEF AllTimers
    <3>3. 1 < i <=> ~(e < ex[s.next])
      BY <3>1, <3>2, <1>1, <1>5
    <3> QED BY <2>1, <3>2, <3>3, <1>p
  <2> QED BY <2>2, <2>3
<1>8. nx \in AllTimers \cup {NoTimer}
  BY <1>t
<1>9. ASSUME NEW j \in 1..n + 1, NEW k \in 1..n + 1, j < k
      PROVE  /\ r[j] # r[k] /\ ex[r[j]] <= ex[r[k]]
             /\ ex[r[j]] = ex[r[k]] /\ SchedTimer # r[j] /\ SchedTimer # r[k] => new[r[j]] <= new[r[k]]
  <2>i. i \in 1..n + 1 /\ n \in Nat
    BY <1>5, <1>d
  <2>1. CASE k < i
    <3>1. j \in 1..n /\ k \in 1..n /\ j < i
      BY <2>i, <2>1, <1>9
    <3>2. r[j] = tr[j] /\ r[k] = tr[k]
      BY <2>1, <2>i, <3>1, <1>p
    <3> QED BY <1>9, <3>1, <3>2, <1>3, <1>s
  <2>2. CASE k = i
    <3>1. j \in 1..n /\ j < i
      BY <2>i, <2>2, <1>9
    <3>2. r[j] = tr[j] /\ r[k] = t
      BY <2>2, <2>i, <3>1, <1>p
    <3>3. tr[j] # t /\ ex[tr[j]] <= e /\ tr[j] \in AllTimers
      BY <3>1, <1>1, <1>5, <1>d
    <3> QED BY <3>2, <3>3, <1>2
  <2>3. CASE j = i
    <3>1. k - 1 \in 1..n /\ r[k] = tr[k - 1] /\ r[j] = t /\ ~(k - 1 < i)
      BY <2>3, <2>i, <1>9, <1>p
    <3>2. ~(ex[tr[k - 1]] <= e) /\ tr[k - 1] # t /\ ex[tr[k - 1]] \in 0..KtimeMax
      BY <3>1, <1>5, <1>1
    <3>3. e < ex[tr[k - 1]]
      BY <3>2
    <3> QED BY <3>1, <3>2, <3>3, <1>2
  <2>4. CASE j < i /\ i < k
    <3>1. j \in 1..n /\ r[j] = tr[j]
      BY <2>4, <2>i, <1>p
    <3>2. k - 1 \in 1..n /\ r[k] = tr[k - 1]
      BY <2>4, <2>i, <1>p
    <3>3. j < k - 1
      BY <2>4, <2>i
    <3> QED BY <3>1, <3>2, <3>3, <1>3, <1>s
  <2>5. CASE i < j
    <3>1. j - 1 \in 1..n /\ r[j] = tr[j - 1]
      BY <2>5, <2>i, <1>p
    <3>2. i < k
      BY <2>5, <2>i, <1>9
    <3>3. k - 1 \in 1..n /\ r[k] = tr[k - 1]
      BY <3>2, <2>i, <1>p
    <3>4. j - 1 < k - 1
      BY <1>9, <2>i
    <3> QED BY <3>1, <3>3, <3>4, <1>3, <1>s
  <2> QED BY <2>1, <2>2, <2>3, <2>4, <2>5, <2>i
<1>10. ASSUME NEW u \in AllTimers
       PROVE  st[u] = "ENQUEUED" <=> \E j \in 1..n + 1 : r[j] = u
  <2>1. CASE u = t
    <3>1. st[u] = "ENQUEUED"
      BY <2>1, <1>t DEF st
    <3>2. i \in 1..n + 1 /\ r[i] = u
      BY <2>1, <1>5, <1>p
    <3> QED BY <3>1, <3>2
  <2>2. CASE u # t
    <3>1. st[u] = s.state[u]
      BY <2>2, <1>t DEF st
    <3>2. s.state[u] = "ENQUEUED" <=> \E j \in 1..n : tr[j] = u
      BY <1>o
    <3>3. ASSUME NEW j \in 1..n, tr[j] = u PROVE \E k \in 1..n + 1 : r[k] = u
      <4>1. CASE j < i
        <5>1. j \in 1..n + 1
          BY <1>d
        <5>2. r[j] = u
          BY <4>1, <5>1, <3>3, <1>6
        <5> QED BY <5>1, <5>2
      <4>2. CASE ~(j < i)
        <5>1. j + 1 \in 1..n + 1 /\ ~(j + 1 < i) /\ j + 1 # i /\ (j + 1) - 1 = j
          BY <4>2, <1>d, <1>5
        <5>2. r[j + 1] = u
          BY <5>1, <3>3, <1>6
        <5> QED BY <5>1, <5>2
      <4> QED BY <4>1, <4>2
    <3>4. ASSUME NEW k \in 1..n + 1, r[k] = u PROVE \E j \in 1..n : tr[j] = u
      BY <2>2, <3>4, <1>p
    <3> QED BY <3>1, <3>2, <3>3, <3>4
  <2> QED BY <2>1, <2>2
<1> HIDE DEF nx
<1>12. a \in Base /\ a.state = st /\ a.expires = ex /\ a.tree = r /\ a.next = nx
  BY <1>a, <1>2, <1>6, <1>8 DEF Base
<1> HIDE DEF a
<1>13. Ordered(a, new)
  <2>1. Len(a.tree) = n + 1 /\ a.next = IF a.tree = <<>> THEN NoTimer ELSE a.tree[1]
    BY <1>6, <1>7, <1>12
  <2>2. \A j, k \in 1..Len(a.tree) : j < k =>
           a.tree[j] # a.tree[k] /\ a.expires[a.tree[j]] <= a.expires[a.tree[k]]
    BY <2>1, <1>9, <1>12
  <2>3. \A u \in AllTimers : a.state[u] = "ENQUEUED" <=> \E j \in 1..Len(a.tree) : a.tree[j] = u
    BY <2>1, <1>10, <1>12
  <2>4. \A j, k \in 1..Len(a.tree) :
           j < k /\ a.expires[a.tree[j]] = a.expires[a.tree[k]]
                 /\ SchedTimer \notin {a.tree[j], a.tree[k]} => new[a.tree[j]] <= new[a.tree[k]]
    BY <2>1, <1>9, <1>12
  <2> QED BY <2>1, <2>2, <2>3, <2>4 DEF Ordered
<1> QED BY <1>12, <1>13 DEF a, st, ex
\* del_timer keeps the base in order: base->next moves on when the timer was the first.
LEMMA DelFacts ==
  ASSUME NEW s \in Base, NEW started \in [AllTimers -> Nat], Ordered(s, started), NEW t \in AllTimers
  PROVE  /\ DelTimer(s, t) \in Base /\ Ordered(DelTimer(s, t), started)
         /\ DelTimer(s, t).state = [s.state EXCEPT ![t] = "INACTIVE"]
         /\ DelTimer(s, t).expires = s.expires
<1> DEFINE tr == s.tree
           n  == Len(tr)
           i  == CHOOSE j \in DOMAIN tr : tr[j] = t
           r  == rb_erase(tr, i)
           nx == IF s.next # t THEN s.next ELSE IF i = n THEN NoTimer ELSE tr[i + 1]
           st == [s.state EXCEPT ![t] = "INACTIVE"]
           d  == DelTimer(s, t)
<1>t. /\ tr \in Seq(AllTimers) /\ s.next \in AllTimers \cup {NoTimer}
      /\ s.expires \in [AllTimers -> 0..KtimeMax]
      /\ s.state \in [AllTimers -> {"INACTIVE", "ENQUEUED"}]
      /\ s = [tree |-> tr, next |-> s.next, expires |-> s.expires, state |-> s.state]
  BY DEF Base
<1>c. CASE s.state[t] # "ENQUEUED"
  <2>1. d = s
    BY <1>c DEF DelTimer
  <2>2. s.state[t] = "INACTIVE"
    BY <1>c, <1>t
  <2>3. st = s.state
    BY <2>2, <1>t
  <2> QED BY <2>1, <2>3
<1>e. CASE s.state[t] = "ENQUEUED"
  <2>a. d = [tree |-> r, next |-> nx, expires |-> s.expires, state |-> st]
    <3>1. d = [s EXCEPT !.tree = r, !.next = nx, !.state[t] = "INACTIVE"]
      BY <1>e DEF DelTimer
    <3> HIDE DEF r, nx, d
    <3> QED BY <1>t, <3>1
  <2>d. DOMAIN tr = 1..n /\ n \in Nat /\ \A j \in 1..n : tr[j] \in AllTimers
    BY <1>t
  <2>o. /\ s.next = IF tr = <<>> THEN NoTimer ELSE tr[1]
        /\ \A u \in AllTimers : s.state[u] = "ENQUEUED" <=> \E j \in 1..n : tr[j] = u
        /\ \A j, k \in 1..n : j < k => tr[j] # tr[k] /\ s.expires[tr[j]] <= s.expires[tr[k]]
        /\ \A j, k \in 1..n : j < k /\ s.expires[tr[j]] = s.expires[tr[k]]
                                   /\ SchedTimer # tr[j] /\ SchedTimer # tr[k]
                                   => started[tr[j]] <= started[tr[k]]
    BY DEF Ordered
  <2> HIDE DEF tr, n, st, d
  <2>i. i \in 1..n /\ tr[i] = t
    <3>1. \E j \in DOMAIN tr : tr[j] = t
      BY <1>e, <2>d, <2>o
    <3> QED BY <3>1, <2>d
  <2> HIDE DEF i
  <2>r. /\ r \in Seq(AllTimers) /\ Len(r) = n - 1
        /\ \A j \in 1..n - 1 : r[j] = IF j < i THEN tr[j] ELSE tr[j + 1]
    <3>1. i \in 1..Len(tr)
      BY <2>i DEF n
    <3> QED BY <1>t, <3>1, RemoveFacts DEF n
  <2> HIDE DEF r
  \* Where an entry of the new tree comes from.
  <2>p. ASSUME NEW j \in 1..n - 1
        PROVE  \/ j < i /\ j \in 1..n /\ r[j] = tr[j]
               \/ ~(j < i) /\ j + 1 \in 1..n /\ i < j + 1 /\ r[j] = tr[j + 1]
    <3>1. j \in 1..n /\ j + 1 \in 1..n /\ (~(j < i) => i < j + 1)
      BY <2>i, <2>d
    <3> QED BY <3>1, <2>r
  <2>1. nx \in AllTimers \cup {NoTimer}
    BY <1>t, <2>d, <2>i
  <2>2. nx = IF r = <<>> THEN NoTimer ELSE r[1]
    <3>1. n # 0 /\ tr # <<>> /\ 1 \in 1..n
      BY <1>t, <2>i, <2>d DEF n
    <3>2. s.next = tr[1]
      BY <3>1, <2>o
    <3>3. s.next = t <=> i = 1
      BY <3>1, <3>2, <2>i, <2>o, <2>d
    <3>4. CASE s.next # t
      <4>1. 1 < i /\ 1 \in 1..n - 1
        BY <3>3, <3>4, <2>i, <2>d
      <4>2. r[1] = tr[1] /\ r # <<>>
        BY <4>1, <2>r, <2>d
      <4> QED BY <3>2, <3>4, <4>2
    <3>5. CASE s.next = t /\ n = 1
      <4>1. r = <<>>
        BY <3>5, <2>r
      <4> QED BY <3>3, <3>5, <4>1
    <3>6. CASE s.next = t /\ n # 1
      <4>1. 1 \in 1..n - 1 /\ ~(1 < i) /\ i + 1 = 2 /\ 1 + 1 = 2
        BY <3>1, <3>3, <3>6, <2>d
      <4>2. r[1] = tr[2] /\ r # <<>>
        BY <4>1, <2>r, <2>d
      <4> QED BY <3>3, <3>6, <4>1, <4>2
    <3> QED BY <3>4, <3>5, <3>6
  <2>3. ASSUME NEW j \in 1..n - 1, NEW k \in 1..n - 1, j < k
        PROVE  /\ r[j] # r[k] /\ s.expires[r[j]] <= s.expires[r[k]]
               /\ s.expires[r[j]] = s.expires[r[k]] /\ SchedTimer # r[j] /\ SchedTimer # r[k]
                    => started[r[j]] <= started[r[k]]
    <3> DEFINE jj == IF j < i THEN j ELSE j + 1
               kk == IF k < i THEN k ELSE k + 1
    <3>1. jj \in 1..n /\ kk \in 1..n /\ jj < kk
      BY <2>3, <2>i, <2>d
    <3>2. r[j] = tr[jj] /\ r[k] = tr[kk]
      BY <2>r
    <3> HIDE DEF jj, kk
    <3> QED BY <3>1, <3>2, <2>o
  <2>4. ASSUME NEW u \in AllTimers
        PROVE  st[u] = "ENQUEUED" <=> \E j \in 1..n - 1 : r[j] = u
    <3>1. CASE u = t
      <4>1. st[u] # "ENQUEUED"
        BY <3>1, <1>t DEF st
      <4>2. \A j \in 1..n : j # i => tr[j] # u
        BY <3>1, <2>i, <2>o, <2>d
      <4>3. \A j \in 1..n - 1 : r[j] # u
        <5> TAKE j \in 1..n - 1
        <5>1. CASE j < i
          BY <5>1, <4>2, <2>p, <2>i, <2>d
        <5>2. CASE ~(j < i)
          <6>1. j + 1 # i
            BY <5>2, <2>i, <2>d
          <6> QED BY <5>2, <6>1, <4>2, <2>p
        <5> QED BY <5>1, <5>2
      <4> QED BY <4>1, <4>3
    <3>2. CASE u # t
      <4>1. st[u] = s.state[u]
        BY <3>2, <1>t DEF st
      <4>2. s.state[u] = "ENQUEUED" <=> \E j \in 1..n : tr[j] = u
        BY <2>o
      <4>3. ASSUME NEW j \in 1..n, tr[j] = u PROVE \E k \in 1..n - 1 : r[k] = u
        <5>0. j # i
          BY <3>2, <4>3, <2>i
        <5>1. CASE j < i
          <6>1. j \in 1..n - 1
            BY <5>1, <2>i, <2>d
          <6>2. r[j] = u
            BY <5>1, <6>1, <4>3, <2>r
          <6> QED BY <6>1, <6>2
        <5>2. CASE i < j
          <6>1. j - 1 \in 1..n - 1 /\ ~(j - 1 < i) /\ (j - 1) + 1 = j
            BY <5>2, <2>i, <2>d
          <6>2. r[j - 1] = u
            BY <6>1, <4>3, <2>r
          <6> QED BY <6>1, <6>2
        <5> QED BY <5>0, <5>1, <5>2, <2>i
      <4>4. ASSUME NEW k \in 1..n - 1, r[k] = u PROVE \E j \in 1..n : tr[j] = u
        BY <4>4, <2>p
      <4> QED BY <4>1, <4>2, <4>3, <4>4
    <3> QED BY <3>1, <3>2
  <2>5. st \in [AllTimers -> {"INACTIVE", "ENQUEUED"}]
    BY <1>t DEF st
  <2> HIDE DEF nx
  <2>6. d \in Base /\ d.state = st /\ d.expires = s.expires /\ d.tree = r /\ d.next = nx
    BY <2>a, <1>t, <2>1, <2>r, <2>5 DEF Base
  <2>7. Ordered(d, started)
    <3>1. Len(d.tree) = n - 1 /\ d.next = IF d.tree = <<>> THEN NoTimer ELSE d.tree[1]
      BY <2>r, <2>2, <2>6
    <3>2. \A j, k \in 1..Len(d.tree) : j < k =>
             d.tree[j] # d.tree[k] /\ d.expires[d.tree[j]] <= d.expires[d.tree[k]]
      BY <3>1, <2>3, <2>6
    <3>3. \A u \in AllTimers : d.state[u] = "ENQUEUED" <=> \E j \in 1..Len(d.tree) : d.tree[j] = u
      BY <3>1, <2>4, <2>6
    <3>4. \A j, k \in 1..Len(d.tree) :
             j < k /\ d.expires[d.tree[j]] = d.expires[d.tree[k]]
                   /\ SchedTimer \notin {d.tree[j], d.tree[k]} => started[d.tree[j]] <= started[d.tree[k]]
      BY <3>1, <2>3, <2>6
    <3> QED BY <3>1, <3>2, <3>3, <3>4 DEF Ordered
  <2> QED BY <2>6, <2>7 DEF d, st
<1> QED BY <1>c, <1>e
=============================================================================
