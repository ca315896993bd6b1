------------------------------ MODULE Sorting -------------------------------
EXTENDS Integers, SequencesExt

(***************************************************************************)
(* The list sort lib/lsort.c: elements are taken off the list one by one   *)
(* and merged into sorted parts of 1, 2, 4, ... elements, as a binary      *)
(* counter carries; at the end the parts are merged into one.  An element  *)
(* is <<k, i>>: cmp compares k, and i is its place in the unsorted list.   *)
(***************************************************************************)

CONSTANTS SortKey,
          MaxLen,      \* bound on the length of the list
          MaxLevel     \* the last index of part that lsort uses: 20 - 1

VARIABLES list,        \* what is left of the list, at the end the result
          part,        \* part[lev], empty when NULL; an empty one at the end stops a carry
          maxlev,
          input,       \* history: the list given
          sorting

lsortVars == <<list, part, maxlev, input, sorting>>

LsortInit ==
  /\ \E ks \in BoundedSeq(SortKey, MaxLen) : input = [i \in DOMAIN ks |-> <<ks[i], i>>]
  /\ list = input
  /\ part = [lev \in 0..(MaxLevel + 1) |-> <<>>]
  /\ maxlev = 0
  /\ sorting = (input # <<>>)

\* Faulty variant: of equal elements the second list's goes first.
RECURSIVE MergeUnstable(_, _)
MergeUnstable(a, b) ==
  IF a = <<>> THEN b ELSE IF b = <<>> THEN a
  ELSE IF Head(a)[1] < Head(b)[1] THEN <<Head(a)>> \o MergeUnstable(Tail(a), b)
  ELSE <<Head(b)>> \o MergeUnstable(a, Tail(b))

RECURSIVE merge(_, _)
merge(a, b) ==
  IF a = <<>> THEN b ELSE IF b = <<>> THEN a
  ELSE IF Head(a)[1] <= Head(b)[1] THEN <<Head(a)>> \o merge(Tail(a), b)
  ELSE <<Head(b)>> \o merge(a, Tail(b))

\* One element goes into the parts: those of the levels below the first empty one are
\* merged with it, the largest last.  At the last level it stays one below.
Carry ==
  /\ sorting /\ list # <<>>
  /\ LET free == CHOOSE l \in DOMAIN part :
                   part[l] = <<>> /\ \A j \in 0..(l - 1) : part[j] # <<>>
         cur[l \in 0..(MaxLevel + 1)] ==
           IF l = 0 THEN <<Head(list)>> ELSE merge(part[l - 1], cur[l - 1])
         lev == IF free > maxlev /\ free >= MaxLevel + 1 THEN free - 1 ELSE free
     IN /\ part' = [l \in DOMAIN part |-> IF l = lev THEN cur[free]
                                          ELSE IF l < free THEN <<>> ELSE part[l]]
        /\ maxlev' = IF free > maxlev THEN lev ELSE maxlev
  /\ list' = Tail(list)
  /\ UNCHANGED <<input, sorting>>

\* The parts below maxlev, then the last with merge_and_restore_back_links.
Finish ==
  /\ sorting /\ list = <<>>
  /\ LET all[l \in 0..(maxlev + 1)] == IF l = 0 THEN <<>> ELSE merge(part[l - 1], all[l - 1])
     IN list' = all[maxlev + 1]
  /\ sorting' = FALSE
  /\ UNCHANGED <<part, maxlev, input>>

LsortNext == Carry \/ Finish

LsortSpec == LsortInit /\ [][LsortNext]_lsortVars

\* The result has the elements given, in order, and equal ones in the order in which they
\* were given, however long the list is compared with the array of parts.
SortsStably ==
  ~sorting =>
    /\ Len(list) = Len(input) /\ ToSet(list) = ToSet(input)
    /\ \A i, j \in DOMAIN list : i < j =>
         \/ list[i][1] < list[j][1]
         \/ list[i][1] = list[j][1] /\ list[i][2] < list[j][2]

-----------------------------------------------------------------------------
(***************************************************************************)
(* qsort and bsearch of the user library: libc/stdlib/qsort.c and          *)
(* libc/stdlib/bsearch.c.  An array is a sequence; its elements carry a    *)
(* key, which is all cmp sees, and an identity.  Positions count elements, *)
(* so es is 1, and the segment being sorted is a[lo] .. a[lo + n - 1].     *)
(***************************************************************************)

CONSTANTS Input        \* the arrays to sort, as sequences of keys

VARIABLES given, array, \* the argument and what it became
          calls        \* how often qsort was called on it

qsortVars == <<given, array, calls>>

cmp(a, i, j) == a[i].key - a[j].key

swap(a, i, j) == [a EXCEPT ![i] = a[j], ![j] = a[i]]

\* vecswap: n elements from i on with n elements from j on, in turn.
vecswap(a, i, j, n) ==
  FoldLeft(LAMBDA b, k : swap(b, i + k - 1, j + k - 1), a, [k \in 1..n |-> k])

med3(a, i, j, k) ==
  IF cmp(a, i, j) < 0
  THEN IF cmp(a, j, k) < 0 THEN j ELSE IF cmp(a, i, k) < 0 THEN k ELSE i
  ELSE IF cmp(a, j, k) > 0 THEN j ELSE IF cmp(a, i, k) < 0 THEN i ELSE k

RECURSIVE Sink(_, _, _)
Sink(a, lo, pl) ==
  IF pl > lo /\ cmp(a, pl - 1, pl) > 0 THEN Sink(swap(a, pl, pl - 1), lo, pl - 1) ELSE a

\* The insertion sort of short and of nearly sorted segments.
Insertion(a, lo, n) ==
  FoldLeft(LAMBDA b, k : Sink(b, lo, lo + k), a, [k \in 1..(n - 1) |-> k])

\* The position of the pivot.
Pivot(a, lo, n) ==
  LET pm == lo + n \div 2
      pn == lo + n - 1
      d  == n \div 8
  IN IF n = 7 THEN pm
     ELSE IF n <= 40 THEN med3(a, lo, pm, pn)
     ELSE med3(a, med3(a, lo, lo + d, lo + 2 * d), med3(a, pm - d, pm, pm + d),
                  med3(a, pn - 2 * d, pn - d, pn))

\* One turn of the two while loops: from the left while no greater than the pivot a[lo],
\* equals to the far left; from the right likewise.
RECURSIVE ScanUp(_, _), ScanDown(_, _), Partition(_, _)
ScanUp(s, lo) ==
  LET r == cmp(s.a, s.pb, lo)
  IN IF s.pb > s.pc \/ r > 0 THEN s
     ELSE ScanUp(IF r < 0 THEN [s EXCEPT !.pb = @ + 1]
                 ELSE [s EXCEPT !.a = swap(@, s.pa, s.pb), !.pa = @ + 1, !.pb = @ + 1,
                                !.swapped = TRUE], lo)
ScanDown(s, lo) ==
  LET r == cmp(s.a, s.pc, lo)
  IN IF s.pb > s.pc \/ r < 0 THEN s
     ELSE ScanDown(IF r > 0 THEN [s EXCEPT !.pc = @ - 1]
                   ELSE [s EXCEPT !.a = swap(@, s.pc, s.pd), !.pd = @ - 1, !.pc = @ - 1,
                                  !.swapped = TRUE], lo)
Partition(s, lo) ==
  LET u == ScanDown(ScanUp(s, lo), lo)
  IN IF u.pb > u.pc THEN u
     ELSE Partition([u EXCEPT !.a = swap(@, u.pb, u.pc), !.pb = @ + 1, !.pc = @ - 1,
                              !.swapped = TRUE], lo)

Smaller(i, j) == IF i < j THEN i ELSE j

\* The equals, put aside at both ends, are moved to the middle.
Gather(s, lo, n) ==
  LET pn == lo + n
      r1 == Smaller(s.pa - lo, s.pb - s.pa)
      r2 == Smaller(s.pd - s.pc, pn - s.pd - 1)
  IN vecswap(vecswap(s.a, lo, s.pb - r1, r1), s.pb, pn - r2, r2)

\* qsort of a segment: the recursive call sorts what is less than the pivot, the goto what
\* is greater.
RECURSIVE QsortSegment(_, _, _)
QsortSegment(a, lo, n) ==
  IF n < 7 THEN Insertion(a, lo, n)
  ELSE LET s == Partition([a |-> swap(a, lo, Pivot(a, lo, n)), pa |-> lo + 1, pb |-> lo + 1,
                           pc |-> lo + n - 1, pd |-> lo + n - 1, swapped |-> FALSE], lo)
           less == s.pb - s.pa
           more == s.pd - s.pc
           g == Gather(s, lo, n)
           h == IF less > 1 THEN QsortSegment(g, lo, less) ELSE g
       IN IF ~s.swapped THEN Insertion(s.a, lo, n)
          ELSE IF more > 1 THEN QsortSegment(h, lo + n - more, more) ELSE h

\* A second call sorts a sorted array.
qsort ==
  /\ calls < 2
  /\ array' = QsortSegment(array, 1, Len(array))
  /\ calls' = calls + 1
  /\ UNCHANGED given

\* bsearch: the position of a key in a sorted array, 0 for NULL.
RECURSIVE BsearchIn(_, _, _, _)
BsearchIn(a, key, l, u) ==
  LET idx == (l + u) \div 2
      k   == a[idx + 1].key
  IN IF l >= u THEN 0
     ELSE IF key < k THEN BsearchIn(a, key, l, idx)
     ELSE IF key > k THEN BsearchIn(a, key, idx + 1, u)
     ELSE idx + 1

bsearch(a, key) == BsearchIn(a, key, 0, Len(a))

QsInit ==
  /\ given \in Input
  /\ array = [i \in 1..Len(given) |-> [key |-> given[i], id |-> i]]
  /\ calls = 0

QsSpec == QsInit /\ [][qsort]_qsortVars

Sorted(a) == \A i \in 1..(Len(a) - 1) : a[i].key <= a[i + 1].key

\* qsort leaves the elements it was given, each once, in the order of cmp, and bsearch on
\* what it leaves finds a key if and only if the array has it.
SortsAndFinds ==
  calls > 0 =>
    /\ Sorted(array)
    /\ {array[i] : i \in DOMAIN array} = {[key |-> given[i], id |-> i] : i \in DOMAIN given}
    /\ \A key \in 0..4 :
         LET i == bsearch(array, key)
         IN IF key \in Range(given) THEN i > 0 /\ array[i].key = key ELSE i = 0
=============================================================================
