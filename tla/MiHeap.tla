------------------------------- MODULE MiHeap -------------------------------
(* The heaps of mimalloc (user-test/lib/mimalloc): blocks of one size class in   *)
(* pages, pages in segments, and the protocol by which a thread frees a block of *)
(* a page another thread owns.  The owner works on its pages without atomic      *)
(* operations; what other threads touch is a page's xthread_free (a list and the *)
(* delayed-free flag in one word), a page's xheap, a heap's thread_delayed_free  *)
(* and the list of abandoned segments.  A step below is one access to one of     *)
(* those, with the private work that follows it; a compare-and-swap loop is the  *)
(* iteration that succeeds.                                                      *)
(*                                                                               *)
(* Abstractions: a free list is the set of its blocks (which one is popped is    *)
(* left open); memory is sequentially consistent; the statistics, the deferred   *)
(* free hook (none is registered), page reset and the segment cache (its default *)
(* size is 0) are left out.                                                      *)
EXTENDS Naturals, FiniteSets, Sequences, SequencesExt, FiniteSetsExt, Functions

CONSTANTS Thread, Main,      \* the threads; the one that ran mi_process_init
          Heap, Home,        \* heaps, and the thread a heap belongs to
          Backing,           \* Backing[t]: the heap embedded in t's mi_thread_data_t
          Seg, Page, SegOf,  \* segments, their pages
          HugeSeg,           \* the segments a huge block gets for itself
          Block, PageOf,     \* blocks, and the page a block is in
          Extend,            \* blocks one mi_page_extend_free adds to a page
          Cycles,            \* MI_RETIRE_CYCLES
          MaxTries,          \* max_tries of mi_segment_try_reclaim
          None,              \* NULL, and thread id 0
          MaxOps             \* bound: calls made by the program

VARIABLES m,      \* the allocator's memory (MemInit)
          th,     \* per thread: where it is in a call, and the call's locals
          live,   \* the blocks the program holds
          born,   \* born[b]: the heap b was last allocated from, or its pages went to
          tainted,\* mi_heap_destroy was called on a heap with pages of another heap
          ops     \* calls made

vars == <<m, th, live, born, tainted, ops>>

PagesOf(s) == {p \in Page : SegOf[p] = s}
BlocksOf(p) == {b \in Block : PageOf[b] = p}
SegOfBlock(b) == SegOf[PageOf[b]]

\* mi_delayed_t: the flag in the two low bits of xthread_free.
Flag == {"USE", "FREEING", "NO", "NEVER"}

\* Faulty variant: delayed freeing is not asked for.
ClearedUnasked == [in_use |-> FALSE, heap |-> None, cap |-> {}, free |-> {}, local |-> {},
                   tfree |-> {}, flag |-> "NO", used |-> 0, in_full |-> FALSE, expire |-> 0]

\* A page of a segment that is not in use (mi_segment_page_clear).
Cleared == [in_use |-> FALSE, heap |-> None, cap |-> {}, free |-> {}, local |-> {},
            tfree |-> {}, flag |-> "USE", used |-> 0, in_full |-> FALSE, expire |-> 0]

MemInit == [pg      |-> [p \in Page |-> Cleared],
            queue   |-> [h \in Heap |-> <<>>],      \* pages[bin]
            full    |-> [h \in Heap |-> <<>>],      \* pages[MI_BIN_FULL]
            delayed |-> [h \in Heap |-> {}],        \* thread_delayed_free
            retired |-> [h \in Heap |-> FALSE],     \* the bin is in page_retired_min..max
            alive   |-> {Backing[Main]},            \* heaps whose memory is allocated
            tid     |-> [s \in Seg |-> None],       \* thread_id
            mapped  |-> {},                         \* segments obtained from the OS
            gone    |-> [s \in Seg |-> 0],          \* abandoned
            visits  |-> [s \in Seg |-> 0],          \* abandoned_visits
            segq    |-> [t \in Thread |-> <<>>],    \* small_free
            abandoned |-> {}, visited |-> {}]

Idle == [pc |-> "idle", op |-> "none", h |-> None, work |-> {}, b |-> None, todo |-> <<>>,
         find |-> 0, tries |-> 0, s |-> None, mode |-> "none", found |-> FALSE, free |-> TRUE]

-----------------------------------------------------------------------------
(* A page's lists. *)

\* _mi_page_thread_free_collect and _mi_page_free_collect: what other threads
\* freed joins local_free, and local_free becomes free when free is empty.
Collected(r, force) ==
  LET local == r.local \cup r.tfree
      move  == r.free = {} \/ force
  IN [r EXCEPT !.tfree = {}, !.used = @ - Cardinality(r.tfree),
               !.free  = IF move THEN @ \cup local ELSE @,
               !.local = IF move THEN {} ELSE local]

Collect(mm, p, force) == [mm EXCEPT !.pg[p] = Collected(@, force)]

\* mi_page_extend_free: the sets of blocks that may become the page's new ones.
Extensions(mm, p) ==
  LET rest == BlocksOf(p) \ mm.pg[p].cap
      n    == IF Cardinality(rest) < Extend THEN Cardinality(rest) ELSE Extend
  IN {S \in SUBSET rest : Cardinality(S) = n}

Extended(mm, p, S) == [mm EXCEPT !.pg[p].cap = @ \cup S, !.pg[p].free = @ \cup S]

\* _mi_page_malloc, after which b is the caller's.
Popped(mm, p, b) == [mm EXCEPT !.pg[p].free = @ \ {b}, !.pg[p].used = @ + 1, !.pg[p].expire = 0]

-----------------------------------------------------------------------------
(* A heap's page queues (page-queue.c). *)

\* mi_page_queue_remove.
Unqueued(mm, p) ==
  LET h == mm.pg[p].heap IN
  IF mm.pg[p].in_full
  THEN [mm EXCEPT !.full[h] = Remove(@, p), !.pg[p].in_full = FALSE]
  ELSE [mm EXCEPT !.queue[h] = Remove(@, p)]

\* mi_page_queue_push.
Pushed(mm, h, p) == [mm EXCEPT !.queue[h] = <<p>> \o @, !.pg[p].in_full = FALSE]

\* mi_page_to_full and _mi_page_unfull (mi_page_queue_enqueue_from).
ToFull(mm, p) ==
  LET h == mm.pg[p].heap IN
  [mm EXCEPT !.queue[h] = Remove(@, p), !.full[h] = Append(@, p), !.pg[p].in_full = TRUE]

Unfull(mm, p) ==
  LET h == mm.pg[p].heap IN
  [mm EXCEPT !.full[h] = Remove(@, p), !.queue[h] = Append(@, p), !.pg[p].in_full = FALSE]

-----------------------------------------------------------------------------
(* Segments (segment.c). *)

InUse(mm, s) == Cardinality({p \in PagesOf(s) : mm.pg[p].in_use})
Capacity(s) == Cardinality(PagesOf(s))

\* mi_segment_alloc, into the thread's queue of segments with free pages.
SegmentAlloc(mm, s, t) ==
  [mm EXCEPT !.mapped = @ \cup {s}, !.tid[s] = t, !.gone[s] = 0, !.visits[s] = 0,
             !.segq[t] = Append(@, s)]

\* mi_segment_free: back to the OS.
SegmentFree(mm, s, t) ==
  [mm EXCEPT !.segq[t] = Remove(@, s), !.tid[s] = None, !.mapped = @ \ {s}]

\* mi_segment_abandon: no thread owns it until one reclaims it.
SegmentAbandon(mm, s, t) ==
  [mm EXCEPT !.segq[t] = Remove(@, s), !.tid[s] = None, !.visits[s] = 0,
             !.abandoned = @ \cup {s}]

\* _mi_segment_page_free (mi_segment_page_clear first).
SegPageFree(mm, p, t) ==
  LET s  == SegOf[p]
      m1 == [mm EXCEPT !.pg[p] = Cleared]
  IN IF InUse(m1, s) = 0 THEN SegmentFree(m1, s, t)
     ELSE IF InUse(m1, s) = m1.gone[s] THEN SegmentAbandon(m1, s, t)
     ELSE IF InUse(m1, s) + 1 = Capacity(s) THEN [m1 EXCEPT !.segq[t] = Append(@, s)]
     ELSE m1

\* mi_segment_find_free, mi_segment_page_claim and mi_page_init: the first page
\* of s that is free, with its first blocks S, at the head of h's queue.
Fresh(mm, s, h, p, S) ==
  LET m1 == [mm EXCEPT !.pg[p] = [Cleared EXCEPT !.in_use = TRUE, !.heap = h]]
      m2 == IF InUse(m1, s) = Capacity(s) THEN [m1 EXCEPT !.segq[Home[h]] = Remove(@, s)] ELSE m1
  IN Pushed(Extended(m2, p, S), h, p)

\* _mi_page_free.
PageFree(mm, p, t) == SegPageFree(Unqueued(mm, p), p, t)

\* _mi_page_abandon, _mi_segment_page_abandon.
PageAbandon(mm, p, t) ==
  LET s  == SegOf[p]
      m1 == [Unqueued(mm, p) EXCEPT !.pg[p].heap = None, !.gone[s] = @ + 1]
  IN IF InUse(m1, s) = m1.gone[s] THEN SegmentAbandon(m1, s, t) ELSE m1

\* _mi_page_retire: the only page of a size class is kept for a while.
Retire(mm, p, t) ==
  LET h == mm.pg[p].heap IN
  IF ~mm.pg[p].in_full /\ mm.queue[h] = <<p>>
  THEN [mm EXCEPT !.pg[p].expire = Cycles, !.retired[h] = TRUE]
  ELSE PageFree(mm, p, t)

\* _mi_heap_collect_retired.
CollectRetired(mm, h, force) ==
  LET p == Head(mm.queue[h])
      r == mm.pg[p]
      off == [mm EXCEPT !.retired[h] = FALSE]
  IN IF ~mm.retired[h] THEN mm
     ELSE IF mm.queue[h] = <<>> \/ r.expire = 0 THEN off
     ELSE IF r.used # 0 THEN [off EXCEPT !.pg[p].expire = 0]
     ELSE IF force \/ r.expire = 1 THEN PageFree(off, p, Home[h])
     ELSE [mm EXCEPT !.pg[p].expire = @ - 1]

\* A block freed by the thread that owns its page: mi_free's local path and
\* _mi_free_block.
LocalFree(mm, b, t) ==
  LET p  == PageOf[b]
      m1 == [mm EXCEPT !.pg[p].local = @ \cup {b}, !.pg[p].used = @ - 1]
  IN IF m1.pg[p].used = 0 THEN Retire(m1, p, t)
     ELSE IF m1.pg[p].in_full THEN Unfull(m1, p) ELSE m1

\* mi_heap_free and mi_heap_reset_pages.
HeapFree(mm, h) ==
  [mm EXCEPT !.alive = @ \ {h}, !.queue[h] = <<>>, !.full[h] = <<>>, !.delayed[h] = {},
             !.retired[h] = FALSE]

\* Faulty variant of _mi_page_use_delayed_free: it does not wait for the flag.
FlagIgnored(mm, p) == TRUE

\* _mi_page_use_delayed_free once no thread is between setting and clearing
\* MI_DELAYED_FREEING.
FlagSettled(mm, p) == mm.pg[p].flag # "FREEING"

UseDelayed(mm, p, flag, override) ==
  IF mm.pg[p].flag = "NEVER" /\ ~override THEN mm ELSE [mm EXCEPT !.pg[p].flag = flag]

-----------------------------------------------------------------------------
Init == /\ m = MemInit
        /\ th = [t \in Thread |-> Idle]
        /\ live = {}
        /\ born = [b \in Block |-> None]
        /\ tainted = FALSE
        /\ ops = 0

Goto(t, pc) == th' = [th EXCEPT ![t].pc = pc]
Finish(t) == th' = [th EXCEPT ![t] = Idle]
Call == ops < MaxOps /\ ops' = ops + 1

\* The pages mi_heap_visit_pages visits.
AllPages(h) == m.queue[h] \o m.full[h]

\* The heaps thread t may allocate from.
HeapsOf(t) == {h \in m.alive : Home[h] = t} \cup {Backing[t]}

\* The blocks of h's pages that are allocated, as far as the program knows or a
\* free of them is on its way.
Held(h) == {b \in Block : /\ m.pg[PageOf[b]].heap = h
                          /\ \/ b \in live
                             \/ \E u \in Thread : th[u].op = "free" /\ th[u].b = b}

HandOut(t, b, h) ==
  /\ live' = live \cup {b}
  /\ born' = [born EXCEPT ![b] = h]
  /\ Finish(t)

-----------------------------------------------------------------------------
(* Allocation. *)

\* mi_heap_malloc when the first page of the queue has a free block.
MallocFast(t, h) ==
  /\ th[t].pc = "idle" /\ Call
  /\ h \in HeapsOf(t) /\ m.queue[h] # <<>>
  /\ \E b \in m.pg[Head(m.queue[h])].free :
       /\ m' = [Popped(m, PageOf[b], b) EXCEPT !.pg[PageOf[b]].expire = m.pg[PageOf[b]].expire]
       /\ HandOut(t, b, h)
  /\ UNCHANGED tainted

\* _mi_malloc_generic: mi_thread_init if the thread has no heap yet.  A huge block
\* always comes here.
MallocGeneric(t, h) ==
  /\ th[t].pc = "idle" /\ Call
  /\ h \in HeapsOf(t)
  /\ m' = [m EXCEPT !.alive = @ \cup {h}]
  /\ \E op \in {"malloc", "huge"} :
       /\ op = "malloc" /\ m.queue[h] # <<>> => m.pg[Head(m.queue[h])].free = {}
       /\ op = "huge" => HugeSeg # {}
       /\ th' = [th EXCEPT ![t] = [Idle EXCEPT !.pc = "take", !.op = op, !.h = h]]
  /\ UNCHANGED <<live, born, tainted>>

\* mi_heap_new.
HeapNew(t, h) ==
  /\ th[t].pc = "idle" /\ Call
  /\ Home[h] = t /\ h \notin m.alive /\ h # Backing[t] /\ Backing[t] \in m.alive
  /\ m' = [m EXCEPT !.alive = @ \cup {h}]
  /\ UNCHANGED <<th, live, born, tainted>>

\* _mi_heap_done from the loop over the thread's heaps on: the next one to delete,
\* or, when only the backing heap is left, its pages are marked.
DoneFrom(mm, t) ==
  LET rest == {h \in mm.alive : Home[h] = t} \ {Backing[t]}
      bh   == Backing[t]
  IN IF rest = {}
     THEN [Idle EXCEPT !.pc = "never", !.op = "done", !.h = bh, !.todo = mm.queue[bh] \o mm.full[bh]]
     ELSE [Idle EXCEPT !.pc = "take", !.op = "done", !.mode = "absorb", !.h = CHOOSE h \in rest : TRUE]

\* What follows _mi_heap_delayed_free in its callers: _mi_malloc_generic looks for
\* a page, mi_heap_collect_ex goes on with the retired pages and then all pages,
\* mi_heap_absorb moves the pages and, the second time, frees the heap.
AfterDelayed(t, mm) ==
  LET l    == th[t]
      find == l.op \in {"malloc", "huge"} /\ l.mode # "collect"
      collect == l.mode = "collect" \/ l.h = Backing[t]
      forced == CollectRetired(mm, l.h, TRUE)
  IN \/ /\ find
        /\ m' = mm
        /\ th' = [th EXCEPT ![t] = [l EXCEPT !.pc = IF l.op = "huge" THEN "huge" ELSE "find",
                                             !.todo = mm.queue[l.h], !.work = {}, !.b = None]]
     \/ /\ ~find /\ collect
        /\ m' = forced
        /\ th' = [th EXCEPT ![t] = [l EXCEPT !.pc = "visit", !.work = {}, !.b = None,
                                             !.todo = forced.queue[l.h] \o forced.full[l.h]]]
     \/ /\ ~find /\ ~collect /\ l.mode = "absorb"
        /\ m' = mm
        /\ th' = [th EXCEPT ![t] = [l EXCEPT !.pc = "append", !.work = {}, !.b = None,
                                             !.todo = mm.queue[l.h] \o mm.full[l.h]]]
     \/ /\ ~find /\ ~collect /\ l.mode = "absorbed"
        /\ m' = HeapFree(mm, l.h)
        /\ th' = [th EXCEPT ![t] = IF l.op = "done" THEN DoneFrom(m', t) ELSE Idle]

\* _mi_heap_delayed_free: the whole list at once ...
TakeDelayed(t) ==
  LET l == th[t]
      w == m.delayed[l.h]
      m1 == [m EXCEPT !.delayed[l.h] = {}]
  IN /\ l.pc = "take"
     /\ IF w = {} THEN AfterDelayed(t, m1)
        ELSE /\ m' = m1
             /\ th' = [th EXCEPT ![t].pc = "flag", ![t].work = w]
     /\ UNCHANGED <<live, born, tainted, ops>>

\* ... then _mi_free_delayed_block for each: the flag is put back first,
FlagDelayed(t) ==
  /\ th[t].pc = "flag"
  /\ \E b \in th[t].work :
       /\ FlagSettled(m, PageOf[b])
       /\ m' = UseDelayed(m, PageOf[b], "USE", FALSE)
       /\ th' = [th EXCEPT ![t].pc = "drop", ![t].b = b]
  /\ UNCHANGED <<live, born, tainted, ops>>

\* then the page's lists are collected and the block is freed.
DropDelayed(t) ==
  LET l == th[t]
      m1 == LocalFree(Collect(m, PageOf[l.b], FALSE), l.b, t)
      w  == l.work \ {l.b}
  IN /\ l.pc = "drop"
     /\ IF w = {} THEN AfterDelayed(t, m1)
        ELSE /\ m' = m1
             /\ th' = [th EXCEPT ![t].pc = "flag", ![t].work = w, ![t].b = None]
     /\ UNCHANGED <<live, born, tainted, ops>>

\* mi_find_free_page, mi_page_queue_find_free_ex: one page of the queue.
FindInPage(t) ==
  LET l  == th[t]
      p  == Head(l.todo)
      m1 == Collect(m, p, FALSE)
  IN /\ l.pc = "find" /\ l.todo # <<>>
     /\ \/ \E b \in m1.pg[p].free : m' = Popped(m1, p, b) /\ HandOut(t, b, l.h)
        \/ /\ m1.pg[p].free = {} /\ m1.pg[p].cap # BlocksOf(p)
           /\ \E S \in Extensions(m1, p) : \E b \in S :
                m' = Popped(Extended(m1, p, S), p, b) /\ HandOut(t, b, l.h)
        \/ /\ m1.pg[p].free = {} /\ m1.pg[p].cap = BlocksOf(p)
           /\ m' = ToFull(m1, p)
           /\ Goto(t, "full")
           /\ UNCHANGED <<live, born>>
     /\ UNCHANGED <<tainted, ops>>

\* mi_page_to_full's second collect, for a block freed just before.
CollectFull(t) ==
  /\ th[t].pc = "full"
  /\ m' = Collect(m, Head(th[t].todo), FALSE)
  /\ th' = [th EXCEPT ![t].pc = "find", ![t].todo = Tail(@)]
  /\ UNCHANGED <<live, born, tainted, ops>>

\* A page of the first segment with free pages, and a block of it.
TakeFresh(t, mm) ==
  LET l == th[t]
      s == Head(mm.segq[t])
  IN \E p \in {q \in PagesOf(s) : ~mm.pg[q].in_use} :
       \E S \in Extensions([mm EXCEPT !.pg[p] = Cleared], p) : \E b \in S :
         m' = Popped(Fresh(mm, s, l.h, p, S), p, b) /\ HandOut(t, b, l.h)

\* mi_page_fresh when the queue has no page to offer.
FreshPage(t) ==
  LET l  == th[t]
      m1 == CollectRetired(m, l.h, FALSE)
  IN /\ l.pc = "find" /\ l.todo = <<>>
     /\ IF m1.segq[t] # <<>> THEN TakeFresh(t, m1)
        ELSE /\ m' = m1
             /\ th' = [th EXCEPT ![t].pc = "pop", ![t].tries = MaxTries, ![t].mode = "fresh"]
             /\ UNCHANGED <<live, born>>
     /\ UNCHANGED <<tainted, ops>>

\* _mi_malloc_generic's mi_heap_collect(heap, true) before the second mi_find_page.
CollectAndRetry(t) ==
  LET l == th[t] IN
  th' = [th EXCEPT ![t].pc = IF t = Main /\ l.h = Backing[t] THEN "pop" ELSE "take",
                   ![t].mode = "collect"]

\* No page: find once more (first_try), then collect and find again, then NULL.
NoPage(t) ==
  LET l == th[t] IN
  \/ /\ l.find \in {0, 2}
     /\ th' = [th EXCEPT ![t] = [l EXCEPT !.pc = "find", !.find = @ + 1, !.mode = "none",
                                          !.todo = m'.queue[l.h]]]
  \/ l.find = 1 /\ CollectAndRetry(t)
  \/ l.find = 3 /\ Finish(t)

-----------------------------------------------------------------------------
(* Abandoned segments (mi_segment_try_reclaim, _mi_abandoned_reclaim_all). *)

\* mi_abandoned_pop; when there is none left, a fresh segment from the OS, or no
\* page; or, in mi_heap_collect, on to the delayed blocks.
PopAbandoned(t) ==
  LET l == th[t]
      list == IF m.abandoned = {} THEN m.visited ELSE m.abandoned
      kept == IF m.abandoned = {} THEN {} ELSE m.visited
  IN /\ l.pc = "pop"
     /\ \/ /\ l.mode = "fresh" /\ list # {} /\ l.tries > 0
           /\ \E s \in list :
                /\ m' = [m EXCEPT !.abandoned = list \ {s}, !.visited = kept, !.visits[s] = @ + 1]
                /\ th' = [th EXCEPT ![t] = [l EXCEPT !.pc = "check", !.s = s, !.tries = @ - 1,
                                                     !.todo = SetToSeq(PagesOf(s)),
                                                     !.found = FALSE, !.free = TRUE]]
           /\ UNCHANGED <<live, born>>
        \/ /\ l.mode = "collect" /\ list # {}
           /\ \E s \in list :
                /\ m' = [m EXCEPT !.abandoned = list \ {s}, !.visited = kept,
                                  !.tid[s] = t, !.visits[s] = 0]
                /\ th' = [th EXCEPT ![t] = [l EXCEPT !.pc = "reclaim", !.s = s,
                                                     !.todo = SetToSeq(PagesOf(s)), !.found = FALSE]]
           /\ UNCHANGED <<live, born>>
        \/ /\ l.mode = "collect" /\ list = {}
           /\ Goto(t, "take")
           /\ UNCHANGED <<m, live, born>>
        \/ /\ l.mode = "fresh" /\ (list = {} \/ l.tries = 0)
           /\ \/ \E s \in Seg \ (m.mapped \cup HugeSeg) : TakeFresh(t, SegmentAlloc(m, s, t))
              \/ /\ Seg \subseteq m.mapped \cup HugeSeg
                 /\ UNCHANGED <<m, live, born>>
                 /\ NoPage(t)
     /\ UNCHANGED <<tainted, ops>>

\* mi_segment_check_free, one page; then what is to be done with the segment.
CheckFree(t) ==
  LET l == th[t]
      p == Head(l.todo)
      m1 == IF m.pg[p].in_use THEN Collect(m, p, FALSE) ELSE m
      r == m1.pg[p]
      found == l.found \/ r.used = 0 \/ r.used < Cardinality(BlocksOf(p))
      free  == l.free /\ r.used = 0
      reclaim == [l EXCEPT !.pc = "reclaim", !.todo = SetToSeq(PagesOf(l.s)), !.found = FALSE,
                           !.mode = IF free THEN "drain" ELSE IF found THEN "want" ELSE "drain"]
  IN /\ l.pc = "check"
     /\ IF Len(l.todo) > 1
        THEN /\ m' = m1
             /\ th' = [th EXCEPT ![t] = [l EXCEPT !.todo = Tail(@), !.found = found, !.free = free]]
        ELSE IF free \/ found \/ m1.visits[l.s] >= 3
        THEN /\ m' = [m1 EXCEPT !.tid[l.s] = t, !.visits[l.s] = 0]
             /\ th' = [th EXCEPT ![t] = reclaim]
        ELSE /\ m' = [m1 EXCEPT !.visited = @ \cup {l.s}]
             /\ Goto(t, "pop")
     /\ UNCHANGED <<live, born, tainted, ops>>

\* The end of mi_segment_reclaim: found says that a page with a free block of the
\* wanted size is in the queue now.
Reclaimed(t, mm, found) ==
  LET l  == th[t]
      s  == l.s
      m1 == IF InUse(mm, s) = 0 THEN SegmentFree(mm, s, t)
            ELSE IF InUse(mm, s) < Capacity(s) THEN [mm EXCEPT !.segq[t] = Append(@, s)]
            ELSE mm
      again == [l EXCEPT !.pc = "pop", !.s = None, !.mode = IF @ = "collect" THEN @ ELSE "fresh"]
  IN CASE l.mode # "want" ->
            m' = m1 /\ th' = [th EXCEPT ![t] = again] /\ UNCHANGED <<live, born>>
       [] l.mode = "want" /\ found ->
            m' = m1 /\ NoPage(t) /\ UNCHANGED <<live, born>>
       [] l.mode = "want" /\ ~found /\ InUse(mm, s) # 0 -> TakeFresh(t, m1)
       [] OTHER ->
            /\ m' = m1
            /\ th' = [th EXCEPT ![t] = [again EXCEPT !.tries = 0]]
            /\ UNCHANGED <<live, born>>

\* mi_segment_reclaim, one page: its heap is set first,
ReclaimHeap(t) ==
  LET l == th[t]
      p == Head(l.todo)
  IN /\ l.pc = "reclaim"
     /\ \/ /\ m.pg[p].in_use
           /\ m' = [m EXCEPT !.pg[p].heap = l.h, !.gone[l.s] = @ - 1]
           /\ Goto(t, "reflag")
           /\ UNCHANGED <<live, born>>
        \/ /\ ~m.pg[p].in_use /\ Len(l.todo) > 1
           /\ th' = [th EXCEPT ![t].todo = Tail(@)]
           /\ UNCHANGED <<m, live, born>>
        \/ /\ ~m.pg[p].in_use /\ Len(l.todo) = 1
           /\ Reclaimed(t, m, l.found)
     /\ UNCHANGED <<tainted, ops>>

\* then delayed freeing is allowed again,
ReclaimFlag(t) ==
  LET p == Head(th[t].todo) IN
  /\ th[t].pc = "reflag" /\ FlagSettled(m, p)
  /\ m' = UseDelayed(m, p, "USE", TRUE)
  /\ Goto(t, "recollect")
  /\ UNCHANGED <<live, born, tainted, ops>>

\* and the page is collected: a page without blocks in use is cleared, another
\* joins the heap's queue (_mi_page_reclaim).
ReclaimCollect(t) ==
  LET l  == th[t]
      p  == Head(l.todo)
      m1 == Collect(m, p, FALSE)
      m2 == IF m1.pg[p].used = 0 THEN [m1 EXCEPT !.pg[p] = Cleared] ELSE Pushed(m1, l.h, p)
      found == \/ l.found
               \/ m1.pg[p].used # 0 /\ m1.pg[p].used < Cardinality(BlocksOf(p))
  IN /\ l.pc = "recollect"
     /\ IF Len(l.todo) = 1 THEN Reclaimed(t, m2, found)
        ELSE /\ m' = m2
             /\ th' = [th EXCEPT ![t] = [l EXCEPT !.pc = "reclaim", !.todo = Tail(@), !.found = found]]
             /\ UNCHANGED <<live, born>>
     /\ UNCHANGED <<tainted, ops>>

-----------------------------------------------------------------------------
(* Collecting, deleting and destroying heaps; the end of a thread. *)

\* mi_collect(true).
CollectHeap(t) ==
  LET h == Backing[t] IN
  /\ th[t].pc = "idle" /\ Call
  /\ h \in m.alive
  /\ th' = [th EXCEPT ![t] = [Idle EXCEPT !.pc = IF t = Main THEN "pop" ELSE "take",
                                          !.op = "collect", !.h = h, !.mode = "collect"]]
  /\ UNCHANGED <<m, live, born, tainted>>

\* mi_heap_page_collect: one page of mi_heap_visit_pages.
VisitPage(t) ==
  LET l  == th[t]
      p  == Head(l.todo)
      m1 == Collect(m, p, TRUE)
  IN /\ l.pc = "visit" /\ l.todo # <<>>
     /\ m' = IF m1.pg[p].used = 0 THEN PageFree(m1, p, t)
             ELSE IF l.op = "done" THEN PageAbandon(m1, p, t) ELSE m1
     /\ th' = [th EXCEPT ![t].todo = Tail(@)]
     /\ UNCHANGED <<live, born, tainted, ops>>

\* The end of mi_heap_collect_ex: the allocation tries again, the thread is done
\* (_mi_heap_done frees the heap), or the call returns.
VisitDone(t) ==
  LET l == th[t] IN
  /\ l.pc = "visit" /\ l.todo = <<>>
  /\ m' = IF l.op = "done" THEN HeapFree(m, l.h) ELSE m
  /\ th' = [th EXCEPT ![t] = IF l.op \in {"malloc", "huge"}
                             THEN [l EXCEPT !.pc = IF l.op = "huge" THEN "huge" ELSE "find",
                                            !.find = 2, !.mode = "none", !.todo = m.queue[l.h]]
                             ELSE Idle]
  /\ UNCHANGED <<live, born, tainted, ops>>

\* mi_thread_done, _mi_heap_done: the thread's other heaps are deleted first.
ThreadDone(t) ==
  /\ th[t].pc = "idle" /\ Call
  /\ t # Main /\ Backing[t] \in m.alive
  /\ th' = [th EXCEPT ![t] = DoneFrom(m, t)]
  /\ born' = [b \in Block |-> IF born[b] \in HeapsOf(t) THEN Backing[t] ELSE born[b]]
  /\ UNCHANGED <<m, live, tainted>>

\* mi_heap_page_never_delayed_free on each page, before the delayed blocks.
NeverDelayed(t) ==
  LET l == th[t] IN
  /\ l.pc = "never"
  /\ IF l.todo = <<>> THEN Goto(t, "take") /\ UNCHANGED m
     ELSE /\ FlagSettled(m, Head(l.todo))
          /\ m' = UseDelayed(m, Head(l.todo), "NEVER", FALSE)
          /\ th' = [th EXCEPT ![t].todo = Tail(@)]
  /\ UNCHANGED <<live, born, tainted, ops>>

\* mi_heap_delete: the backing heap absorbs the pages (mi_heap_absorb).
HeapDelete(t, h) ==
  /\ th[t].pc = "idle" /\ Call
  /\ h \in m.alive /\ Home[h] = t /\ h # Backing[t]
  /\ \/ /\ AllPages(h) = <<>>
        /\ m' = HeapFree(m, h) /\ UNCHANGED th
     \/ /\ AllPages(h) # <<>>
        /\ th' = [th EXCEPT ![t] = [Idle EXCEPT !.pc = "take", !.op = "delete", !.mode = "absorb", !.h = h]]
        /\ UNCHANGED m
  /\ born' = [b \in Block |-> IF born[b] = h THEN Backing[t] ELSE born[b]]
  /\ UNCHANGED <<live, tainted>>

\* _mi_page_queue_append: the page's heap is set,
AppendHeap(t) ==
  LET l == th[t] IN
  /\ l.pc = "append" /\ l.todo # <<>>
  /\ m' = [m EXCEPT !.pg[Head(l.todo)].heap = Backing[t]]
  /\ Goto(t, "appendflag")
  /\ UNCHANGED <<live, born, tainted, ops>>

\* and no thread may still be using the old one.
AppendFlag(t) ==
  LET p == Head(th[t].todo) IN
  /\ th[t].pc = "appendflag" /\ FlagSettled(m, p)
  /\ m' = UseDelayed(m, p, "USE", FALSE)
  /\ th' = [th EXCEPT ![t].pc = "append", ![t].todo = Tail(@)]
  /\ UNCHANGED <<live, born, tainted, ops>>

\* Then the queues are joined and what is left of the delayed list is freed.
AppendDone(t) ==
  LET l  == th[t]
      bh == Backing[t]
  IN /\ l.pc = "append" /\ l.todo = <<>>
     /\ m' = [m EXCEPT !.queue[bh] = @ \o m.queue[l.h], !.full[bh] = @ \o m.full[l.h],
                       !.queue[l.h] = <<>>, !.full[l.h] = <<>>]
     /\ th' = [th EXCEPT ![t].pc = "take", ![t].mode = "absorbed"]
     /\ UNCHANGED <<live, born, tainted, ops>>

\* mi_heap_destroy: the program gives up the blocks of the heap, and frees none of
\* them at the same time.  (A huge block is in no heap's queue and stays.)
HeapDestroy(t, h) ==
  /\ th[t].pc = "idle" /\ Call
  /\ h \in m.alive /\ Home[h] = t /\ h # Backing[t]
  /\ \A u \in Thread : th[u].op = "free" => born[th[u].b] # h
  /\ live' = {b \in live : born[b] # h \/ SegOfBlock(b) \in HugeSeg}
  /\ tainted' = (tainted \/ \E b \in Held(h) : born[b] # h)
  /\ th' = [th EXCEPT ![t] = [Idle EXCEPT !.pc = "destroy", !.op = "destroy", !.h = h, !.todo = AllPages(h)]]
  /\ UNCHANGED <<m, born>>

\* _mi_heap_page_destroy on each page.
DestroyPage(t) ==
  LET l == th[t] IN
  /\ l.pc = "destroy"
  /\ IF l.todo = <<>> THEN m' = HeapFree(m, l.h) /\ Finish(t)
     ELSE /\ FlagSettled(m, Head(l.todo))
          /\ m' = SegPageFree(m, Head(l.todo), t)
          /\ th' = [th EXCEPT ![t].todo = Tail(@)]
  /\ UNCHANGED <<live, born, tainted, ops>>

-----------------------------------------------------------------------------
(* Freeing. *)

\* mi_free by the thread that owns the segment.
FreeLocal(t, b) ==
  /\ th[t].pc = "idle" /\ Call
  /\ b \in live /\ m.tid[SegOfBlock(b)] = t
  /\ live' = live \ {b}
  /\ m' = LocalFree(m, b, t)
  /\ UNCHANGED <<th, born, tainted>>

\* _mi_free_block_mt: the block goes on the page's list, unless it is the first
\* since delayed freeing was asked for: then it is for the heap's list.
FreeRemote(t, b) ==
  LET p == PageOf[b] IN
  /\ th[t].pc = "idle" /\ Call
  /\ b \in live /\ m.tid[SegOf[p]] # t /\ SegOf[p] \notin HugeSeg
  /\ live' = live \ {b}
  /\ IF m.pg[p].flag = "USE"
     THEN /\ m' = [m EXCEPT !.pg[p].flag = "FREEING"]
          /\ th' = [th EXCEPT ![t] = [Idle EXCEPT !.pc = "send", !.op = "free", !.b = b]]
     ELSE /\ m' = [m EXCEPT !.pg[p].tfree = @ \cup {b}]
          /\ UNCHANGED th
  /\ UNCHANGED <<born, tainted>>

\* page->xheap is read while the flag says MI_DELAYED_FREEING,
ReadHeap(t) ==
  /\ th[t].pc = "send"
  /\ th' = [th EXCEPT ![t].pc = IF m.pg[PageOf[th[t].b]].heap = None THEN "reset" ELSE "push",
                      ![t].h = m.pg[PageOf[th[t].b]].heap]
  /\ UNCHANGED <<m, live, born, tainted, ops>>

\* the block is pushed on that heap's list,
PushDelayed(t) ==
  /\ th[t].pc = "push"
  /\ m' = [m EXCEPT !.delayed[th[t].h] = @ \cup {th[t].b}]
  /\ Goto(t, "reset")
  /\ UNCHANGED <<live, born, tainted, ops>>

\* and the flag says that one block is there.
ResetFlag(t) ==
  /\ th[t].pc = "reset"
  /\ m' = [m EXCEPT !.pg[PageOf[th[t].b]].flag = "NO"]
  /\ Finish(t)
  /\ UNCHANGED <<live, born, tainted, ops>>

\* mi_huge_page_alloc: a segment for one block, owned by no thread; without memory
\* for it, mi_heap_collect(force) and once more.
HugeAlloc(t) ==
  LET l == th[t] IN
  /\ l.pc = "huge"
  /\ \/ \E b \in Block :
          /\ SegOfBlock(b) \in HugeSeg \ m.mapped
          /\ m' = [m EXCEPT !.mapped = @ \cup {SegOfBlock(b)},
                            !.pg[PageOf[b]] = [Cleared EXCEPT !.in_use = TRUE, !.cap = {b}, !.used = 1]]
          /\ HandOut(t, b, l.h)
     \/ /\ HugeSeg \subseteq m.mapped
        /\ IF l.find = 0 THEN CollectAndRetry(t) ELSE Finish(t)
        /\ UNCHANGED <<m, live, born>>
  /\ UNCHANGED <<tainted, ops>>

\* _mi_segment_huge_page_free by any thread (mi_heap_get_default: mi_thread_init).
FreeHuge(t, b) ==
  LET s == SegOfBlock(b) IN
  /\ th[t].pc = "idle" /\ Call
  /\ b \in live /\ s \in HugeSeg
  /\ live' = live \ {b}
  /\ m' = SegPageFree([m EXCEPT !.tid[s] = t, !.alive = @ \cup {Backing[t]}], PageOf[b], t)
  /\ UNCHANGED <<th, born, tainted>>

-----------------------------------------------------------------------------
Step(t) ==
  \/ \E h \in Heap : \/ MallocFast(t, h) \/ MallocGeneric(t, h) \/ HeapNew(t, h)
                     \/ HeapDelete(t, h) \/ HeapDestroy(t, h)
  \/ \E b \in Block : FreeLocal(t, b) \/ FreeRemote(t, b) \/ FreeHuge(t, b)
  \/ TakeDelayed(t) \/ FlagDelayed(t) \/ DropDelayed(t)
  \/ FindInPage(t) \/ CollectFull(t) \/ FreshPage(t)
  \/ PopAbandoned(t) \/ CheckFree(t) \/ ReclaimHeap(t) \/ ReclaimFlag(t) \/ ReclaimCollect(t)
  \/ CollectHeap(t) \/ VisitPage(t) \/ VisitDone(t)
  \/ ThreadDone(t) \/ NeverDelayed(t)
  \/ AppendHeap(t) \/ AppendFlag(t) \/ AppendDone(t) \/ DestroyPage(t)
  \/ ReadHeap(t) \/ PushDelayed(t) \/ ResetFlag(t) \/ HugeAlloc(t)

Next == \E t \in Thread : Step(t)

Spec == Init /\ [][Next]_vars

-----------------------------------------------------------------------------
Count(S, p) == Cardinality(S \cap BlocksOf(p))

\* The blocks thread t took off a delayed list and has not freed yet, or is on
\* the way of putting on one.
Carried(t) == IF th[t].pc \in {"send", "push"} THEN {th[t].b} ELSE th[t].work

\* Pages whose blocks mi_heap_destroy is giving up.
Doomed == {p \in Page : \E t \in Thread : th[t].pc = "destroy" /\ m.pg[p].heap = th[t].h}

\* The delayed lists that someone will still take.
Delayed(h) == IF \E t \in Thread : th[t].pc = "destroy" /\ th[t].h = h THEN {} ELSE m.delayed[h]

\* Every block of a page is in exactly one place: free, in the hands of the
\* program, on the page's list of blocks freed by others, on a heap's delayed
\* list, or with a thread that is moving it; and used counts the last four.
\* (_mi_free_block_mt, _mi_page_free_collect, _mi_heap_delayed_free: a lost block
\* is a page that is never freed, a doubled one is handed out twice.)
BlocksAccounted ==
  ~tainted =>
  \A p \in Page \ Doomed :
    LET r == m.pg[p]
        out == MapThenSumSet(LAMBDA h : Count(Delayed(h), p), Heap)
               + MapThenSumSet(LAMBDA t : Count(Carried(t), p), Thread)
               + Count(live, p) + Cardinality(r.tfree)
    IN /\ r.used = out
       /\ Cardinality(r.cap) = r.used + Cardinality(r.free) + Cardinality(r.local)
       /\ r.cap = r.free \cup r.local \cup r.tfree
                  \cup (BlocksOf(p) \cap (live \cup UNION {Delayed(h) : h \in Heap}
                                                \cup UNION {Carried(t) : t \in Thread}))

\* The owner of a page that is in the full queue hears of a block freed by
\* another thread: as long as such a block, or a free one, is in the page, one
\* block of it is on its way through a delayed list, or the owner is about to
\* collect it or to abandon it.  (mimalloc-types.h: MI_NO_DELAYED_FREE only while a block of the
\* page is on the heap's list; else the page would never be used or freed again.)
FullPagesHeardOf ==
  ~tainted =>
  \A p \in Page \ Doomed :
    LET r == m.pg[p] IN
    r.in_use /\ r.in_full /\ r.free \cup r.local \cup r.tfree # {} =>
      \/ \E h \in Heap : Delayed(h) \cap BlocksOf(p) # {}
      \/ \E t \in Thread : Carried(t) \cap BlocksOf(p) # {}
      \/ \E t \in Thread : th[t].pc = "full" /\ Head(th[t].todo) = p
      \/ r.flag = "NEVER" /\ th[Home[r.heap]].op = "done"

\* A thread that frees a block only touches a heap whose memory is there, and a
\* page has an owner's queue or is abandoned, never both: the flag
\* MI_DELAYED_FREEING holds back the end of a heap (_mi_page_use_delayed_free).
HeapsStayWhileUsed ==
  ~tainted =>
  /\ \A t \in Thread : th[t].pc = "push" => th[t].h \in m.alive
  /\ \A p \in Page : m.pg[p].flag = "FREEING" =>
       Cardinality({t \in Thread : th[t].op = "free" /\ th[t].b \in BlocksOf(p)}) = 1
  /\ \A s \in m.abandoned \cup m.visited : \A p \in PagesOf(s) :
       m.pg[p].in_use => m.pg[p].heap = None /\ m.pg[p].flag = "NEVER"

\* A block the program holds lies in memory that is mapped and in a page that is
\* in use, whatever other heaps and threads did since it was handed out.
LiveBlocksStay == \A b \in live : m.pg[PageOf[b]].in_use /\ SegOfBlock(b) \in m.mapped

\* No segment is lost: each that is mapped belongs to a thread, is on one of the
\* abandoned lists, is being reclaimed, or is a huge one.
SegmentsKept ==
  ~tainted =>
  /\ \A s \in m.mapped :
       \/ m.tid[s] # None \/ s \in HugeSeg
       \/ s \in m.abandoned \cup m.visited
       \/ \E t \in Thread : th[t].s = s
  /\ \A t \in Thread : \A i \in DOMAIN m.segq[t] : m.tid[m.segq[t][i]] = t
  /\ \A t \in Thread : IsInjective(m.segq[t])
=============================================================================
