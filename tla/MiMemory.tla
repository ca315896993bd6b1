------------------------------ MODULE MiMemory ------------------------------
EXTENDS Integers, FiniteSets, FiniteSetsExt, Sequences, SequencesExt

(* Memory from the operating system (os.c): aligned mappings cut out of larger     *)
(* ones, large pages that are tried and given up for a while, and ranges that are   *)
(* committed, decommitted and reset page by page although callers name bytes.       *)
(* The OS (mmap, munmap, mprotect, madvise) is external: a mapping lands on any     *)
(* free pages, the hint of mi_os_get_aligned_hint being only a hint.                 *)

CONSTANTS OsThread, None,
          Space,        \* the page numbers of the address space
          PageSize,     \* os_page_size, in bytes
          LargePage,    \* large_os_page_size, in bytes
          Requests,     \* <<size, alignment>> in bytes
          RetryAfter,   \* calls that do not try large pages after one that failed
          MaxMaps, OsOps  \* bounds on calls: new areas are for the first MaxMaps only

VARIABLES mapped, access, large,  \* pages: of the program; accessible; of large OS pages
          tryOk,                \* large_page_try_ok
          reserved,             \* stats->reserved, in pages
          areas,                \* what the callers hold
          wanted,                 \* bytes the callers committed and may touch
          resets,               \* ranges the callers have reset
          opt, th,              \* options, constant; the threads of the running part
          ops                   \* calls made

osVars == <<mapped, access, large, tryOk, reserved, areas, wanted, resets, opt, th, ops>>

OsIdle == [pc |-> "idle", p |-> 0, n |-> 0, align |-> 0, commit |-> FALSE, allow |-> FALSE, is |-> FALSE]

Down(a, n) == (a \div n) * n
Up(a, n) == Down(a + n - 1, n)
BytesOf(S) == UNION {(k * PageSize)..((k + 1) * PageSize - 1) : k \in S}

OsInit ==
  /\ mapped = {} /\ access = {} /\ large = {} /\ tryOk = 0 /\ reserved = 0
  /\ areas = {} /\ wanted = {} /\ resets = {}
  /\ opt \in [large_os_pages : BOOLEAN, reset_decommits : BOOLEAN]
  /\ th = [t \in OsThread |-> OsIdle]
  /\ ops = 0

OsGo(t, l) == th' = [th EXCEPT ![t] = l]

use_large_os_page(size, align) == opt.large_os_pages /\ size % LargePage = 0 /\ align % LargePage = 0

\* Any run of free pages: where mmap puts n of them.
Landing(n) == {p \in Space : p..(p + n - 1) \subseteq Space \ mapped}

\* mi_unix_mmap: what it may return.  p is None when the OS has no memory; tried is the
\* count of calls for which large pages are not tried again.
Mmap(n, align, allow) ==
  LET plain(tried) == [p : Landing(n) \cup {None}, is : {FALSE}, tried : {tried}]
  IN IF ~(allow /\ use_large_os_page(n * PageSize, align)) THEN plain(tryOk)
     ELSE IF tryOk > 0 THEN plain(tryOk - 1)
     ELSE [p : Landing(n), is : {TRUE}, tried : {0}] \cup plain(RetryAfter)

\* The n pages that mmap returned, if any.
Mapped(got, n, commit) ==
  LET new == IF got.p = None THEN {} ELSE got.p..(got.p + n - 1) IN
  /\ tryOk' = got.tried
  /\ mapped' = mapped \cup new
  /\ access' = IF commit THEN access \cup new ELSE access
  /\ large' = IF got.is THEN large \cup new ELSE large
  /\ reserved' = reserved + Cardinality(new)

\* mi_os_mem_free
Unmap(p, n) ==
  LET gone == p..(p + n - 1) IN
  /\ mapped' = mapped \ gone /\ access' = access \ gone /\ large' = large \ gone
  /\ reserved' = reserved - n

_mi_os_alloc_aligned(t) ==
  /\ th[t].pc = "idle" /\ ops < MaxMaps /\ ops' = ops + 1
  /\ \E r \in Requests, <<commit, allow>> \in {<<TRUE, TRUE>>, <<TRUE, FALSE>>, <<FALSE, TRUE>>} :
       OsGo(t, [OsIdle EXCEPT !.pc = "map", !.n = Up(r[1], PageSize) \div PageSize,
                              !.align = Up(r[2], PageSize), !.commit = commit,
                              !.allow = allow /\ commit])
  /\ UNCHANGED <<mapped, access, large, tryOk, reserved, areas, wanted, resets, opt>>

\* The caller has its memory and, when it was committed, may touch all of it.
Handed(t, l) ==
  /\ areas' = areas \cup {[p |-> l.p, n |-> l.n, align |-> l.align,
                           commit |-> l.commit, is |-> l.is]}
  /\ wanted' = IF l.commit THEN wanted \cup BytesOf(l.p..(l.p + l.n - 1)) ELSE wanted
  /\ OsGo(t, OsIdle)

\* mi_os_mem_alloc_aligned: the first mapping may be aligned already.
FirstTry(t) ==
  LET l == th[t] IN
  /\ l.pc = "map"
  /\ \E got \in Mmap(l.n, l.align, l.allow) :
       /\ Mapped(got, l.n, l.commit)
       /\ IF got.p = None THEN OsGo(t, OsIdle) /\ UNCHANGED <<areas, wanted>>
          ELSE IF (got.p * PageSize) % l.align = 0
               THEN Handed(t, [l EXCEPT !.p = got.p, !.is = got.is])
          ELSE OsGo(t, [l EXCEPT !.pc = "free", !.p = got.p]) /\ UNCHANGED <<areas, wanted>>
  /\ UNCHANGED <<resets, opt, ops>>

FreeFirst(t) ==
  /\ th[t].pc = "free"
  /\ Unmap(th[t].p, th[t].n)
  /\ OsGo(t, [th[t] EXCEPT !.pc = "over"])
  /\ UNCHANGED <<tryOk, areas, wanted, resets, opt, ops>>

\* Map more, and find the aligned place in it.
OverTry(t) ==
  LET l    == th[t]
      over == l.n + l.align \div PageSize
  IN /\ l.pc = "over"
     /\ \E got \in Mmap(over, l.align, FALSE) :
          /\ Mapped(got, over, l.commit)
          /\ OsGo(t, IF got.p = None THEN OsIdle
                     ELSE [l EXCEPT !.pc = "before", !.p = got.p, !.is = got.is])
     /\ UNCHANGED <<areas, wanted, resets, opt, ops>>

AlignedIn(l) == Up(l.p * PageSize, l.align) \div PageSize

TrimBefore(t) ==
  LET l == th[t] IN
  /\ l.pc = "before"
  /\ IF AlignedIn(l) > l.p THEN Unmap(l.p, AlignedIn(l) - l.p)
     ELSE UNCHANGED <<mapped, access, large, reserved>>
  /\ OsGo(t, [l EXCEPT !.pc = "after"])
  /\ UNCHANGED <<tryOk, areas, wanted, resets, opt, ops>>

TrimAfter(t) ==
  LET l == th[t]
      pre  == AlignedIn(l) - l.p
      post == l.align \div PageSize - pre
  IN /\ l.pc = "after"
     /\ IF post > 0 THEN Unmap(AlignedIn(l) + l.n, post)
        ELSE UNCHANGED <<mapped, access, large, reserved>>
     /\ Handed(t, [l EXCEPT !.p = AlignedIn(l)])
     /\ UNCHANGED <<tryOk, resets, opt, ops>>

Bytes(a) == BytesOf(a.p..(a.p + a.n - 1))

_mi_os_free_ex(t) ==
  /\ th[t].pc = "idle" /\ ops < OsOps /\ ops' = ops + 1
  /\ \E a \in areas :
       /\ Unmap(a.p, a.n)
       /\ areas' = areas \ {a}
       /\ wanted' = wanted \ Bytes(a)
       /\ resets' = {r \in resets : r[1] \notin Bytes(a)}
  /\ UNCHANGED <<tryOk, opt, th>>

\* mi_os_page_align_areax: the pages inside a range, or those that it touches.
PageAlignArea(conservative, from, size) ==
  IF conservative THEN {k \in Space : k * PageSize >= from /\ (k + 1) * PageSize <= from + size}
  ELSE {k \in Space : k * PageSize < from + size /\ (k + 1) * PageSize > from}

\* mi_os_commitx on a range; mprotect or mmap may refuse.
Commit(from, size, conservative) ==
  \/ access' = access \cup PageAlignArea(conservative, from, size)
     /\ wanted' = wanted \cup (from..(from + size - 1))
  \/ PageAlignArea(conservative, from, size) # {} /\ UNCHANGED <<access, wanted>>

Decommit(from, size) ==
  \/ access' = access \ PageAlignArea(TRUE, from, size)
  \/ UNCHANGED access

\* The callers work on ranges of bytes of memory they hold, none of it reset.
Ranges(a) == {<<f, n>> \in Bytes(a) \X (1..(a.n * PageSize)) :
                /\ f..(f + n - 1) \subseteq Bytes(a)
                /\ \A r \in resets : r[1] + r[2] <= f \/ f + n <= r[1]}

\* Areas share no page, so that one area is enough to see what ranges do; and a call
\* on a range is a single one of the OS, so that no thread need be in the middle of one.
RangeCall(a) == /\ ops < OsOps /\ ops' = ops + 1
                /\ areas = {a} /\ ~a.is
                /\ \A t \in OsThread : th[t].pc = "idle"
                /\ UNCHANGED <<mapped, large, tryOk, reserved, areas, opt, th>>

_mi_os_commit ==
  \E a \in areas : \E r \in Ranges(a) :
    RangeCall(a) /\ Commit(r[1], r[2], FALSE) /\ UNCHANGED resets

_mi_os_decommit ==
  \E a \in areas : \E r \in Ranges(a) :
    /\ RangeCall(a)
    /\ Decommit(r[1], r[2])
    /\ wanted' = wanted \ (r[1]..(r[1] + r[2] - 1))
    /\ UNCHANGED resets

\* With reset_decommits a reset is a decommit; otherwise the pages stay accessible.
_mi_os_reset ==
  \E a \in areas : \E r \in Ranges(a) :
    /\ RangeCall(a)
    /\ r[1]..(r[1] + r[2] - 1) \subseteq wanted
    /\ IF opt.reset_decommits THEN Decommit(r[1], r[2]) ELSE UNCHANGED access
    /\ wanted' = wanted \ (r[1]..(r[1] + r[2] - 1))
    /\ resets' = resets \cup {r}

\* Only the pages inside the range are committed again.
_mi_os_unreset ==
  \E a \in areas : \E r \in resets :
    /\ RangeCall(a) /\ r[1] \in Bytes(a)
    /\ resets' = resets \ {r}
    /\ IF opt.reset_decommits THEN Commit(r[1], r[2], TRUE)
       ELSE wanted' = wanted \cup (r[1]..(r[1] + r[2] - 1)) /\ UNCHANGED access

OsNext ==
  \/ \E t \in OsThread : \/ _mi_os_alloc_aligned(t) \/ FirstTry(t) \/ FreeFirst(t) \/ OverTry(t)
                         \/ TrimBefore(t) \/ TrimAfter(t) \/ _mi_os_free_ex(t)
  \/ _mi_os_commit \/ _mi_os_decommit \/ _mi_os_reset \/ _mi_os_unreset

OsSpec == OsInit /\ [][OsNext]_osVars

-----------------------------------------------------------------------------
\* The pages a call of mi_os_mem_alloc_aligned holds while it runs.
InFlight(l) ==
  CASE l.pc = "free"   -> l.p..(l.p + l.n - 1)
    [] l.pc = "before" -> l.p..(l.p + l.n + l.align \div PageSize - 1)
    [] l.pc = "after"  -> AlignedIn(l)..(l.p + l.n + l.align \div PageSize - 1)
    [] OTHER           -> {}

\* What a caller holds is aligned and its own, nothing else stays mapped however the
\* calls overlap, the statistics say so, only committed memory is called large, and
\* a byte that was committed stays accessible until its own range is taken back,
\* although pages are shared by ranges.
OsSound ==
  LET held == {a.p..(a.p + a.n - 1) : a \in areas}
      flying == {InFlight(th[t]) : t \in OsThread}
  IN /\ \A a \in areas : (a.p * PageSize) % a.align = 0 /\ (a.is => a.commit)
                         /\ (a.is <=> a.p \in large)
     /\ \A a, b \in areas : a = b \/ a.p + a.n <= b.p \/ b.p + b.n <= a.p
     /\ mapped = UNION (held \cup flying)
     /\ reserved = Cardinality(mapped)
     /\ \A k \in Space : \A b \in BytesOf({k}) : b \in wanted => k \in access \cap mapped

-----------------------------------------------------------------------------
(* Arenas of mimalloc (arena.c) and the bit maps they are searched with           *)
(* (bitmap.c): threads claim runs of blocks without a lock, in one field of the   *)
(* map or across several, and take back what they claimed of a run when another   *)
(* thread got in between.  A field is an atomic word; bit b of field f is block   *)
(* f * Bits + b.  A loop around one compare-and-swap that tests the bits it sets  *)
(* is one step.                                                                   *)

CONSTANTS ArenaThread,
          Bits,        \* MI_BITMAP_FIELD_BITS
          Fields,      \* arena->field_count
          BlockCount,  \* arena->block_count
          ArenaSizes,  \* blocks asked for
          MaxRetries,  \* 4 in the code
          ArenaOps     \* bound: calls made

VARIABLES inuse, dirty, committed,  \* the blocks whose bit is set
          os,      \* really committed and really zero blocks
          held,    \* the runs handed out; opt is arena->is_committed
          failed   \* history: the OS failed to commit

arenaVars == <<inuse, dirty, committed, os, held, opt, th, ops, failed>>

All == 0..Fields*Bits-1
Word(f) == f*Bits..f*Bits+Bits-1
ArenaIdle == [pc |-> "idle", n |-> 0, want |-> FALSE, visited |-> 0, map |-> {}, bit |-> 0,
              at |-> 0, field |-> 0, tries |-> 0]
Run(l) == l.at..l.at+l.n-1
First(l) == l.at \div Bits
Final(l) == (l.at + l.n - 1) \div Bits

\* mi_manage_os_memory: the bits past the last block are claimed for good.
ArenaInit == /\ inuse = BlockCount..Fields*Bits-1
             /\ dirty = {} /\ committed = {}
             /\ opt \in BOOLEAN
             /\ os = [committed |-> IF opt THEN All ELSE {}, zero |-> All]
             /\ held = {}
             /\ th = [t \in ArenaThread |-> ArenaIdle]
             /\ ops = 0 /\ failed = FALSE

ArenaGo(t, l) == th' = [th EXCEPT ![t] = l]

\* mi_arena_alloc; search_idx is stored as it was loaded and stays 0.
ArenaAlloc(t, n, want) ==
  /\ th[t].pc = "idle" /\ ops < ArenaOps /\ ops' = ops + 1
  /\ ArenaGo(t, [ArenaIdle EXCEPT !.pc = IF n <= Bits THEN "field" ELSE "across", !.n = n, !.want = want])
  /\ UNCHANGED <<inuse, dirty, committed, os, held, opt, failed>>

\* _mi_bitmap_try_find_from_claim(_across): on to the next field.
NextField(l) == IF l.visited = Fields - 1 THEN ArenaIdle
                ELSE [l EXCEPT !.pc = IF l.n <= Bits THEN "field" ELSE "across",
                               !.visited = @ + 1, !.tries = 0]

\* Not in this field: a run of several blocks may start here and go on.
NotInField(l) == IF l.n = 1 \/ l.tries > 0 THEN NextField(l) ELSE [l EXCEPT !.pc = "across"]

\* _mi_bitmap_try_find_claim_field loads the field,
LoadField(t) ==
  LET l == th[t]
      map == inuse \cap Word(l.visited)
  IN
  /\ l.pc = "field"
  /\ ArenaGo(t, IF map = Word(l.visited) THEN NotInField(l)
                ELSE [l EXCEPT !.pc = "claim", !.map = map, !.bit = l.visited * Bits])
  /\ UNCHANGED <<inuse, dirty, committed, os, held, opt, ops, failed>>

\* The places from l.bit on where the run is free in the map last seen.
ArenaRoom(l) == {b \in l.bit..Max(Word(l.visited)) - l.n + 1 : (b..b+l.n-1) \cap l.map = {}}

\* and swaps in the first place free, as long as the field is as it was loaded.
ClaimInField(t) ==
  LET l == th[t]
      map == inuse \cap Word(l.visited)
      b == Min(ArenaRoom(l))
  IN
  /\ l.pc = "claim"
  /\ \/ /\ ArenaRoom(l) = {}
        /\ ArenaGo(t, NotInField(l))
        /\ UNCHANGED inuse
     \/ /\ ArenaRoom(l) # {} /\ map = l.map
        /\ inuse' = inuse \cup (b..b+l.n-1)
        /\ ArenaGo(t, [l EXCEPT !.pc = "ready", !.at = b])
     \/ /\ ArenaRoom(l) # {} /\ map # l.map
        /\ ArenaGo(t, [l EXCEPT !.map = map, !.bit = b])
        /\ UNCHANGED inuse
  /\ UNCHANGED <<dirty, committed, os, held, opt, ops, failed>>

-----------------------------------------------------------------------------
(* mi_bitmap_try_find_claim_field_across: a run that starts in the last bits of a *)
(* field.                                                                         *)

\* mi_clz of the field: its free bits at the end.
Trailing(f) == CHOOSE k \in 0..Bits :
  /\ Word(f) \cap inuse \cap (f*Bits+Bits-k..f*Bits+Bits-1) = {}
  /\ k = Bits \/ (f*Bits + Bits - k - 1) \in inuse

LookAcross(t) ==
  LET l == th[t]
      k == Trailing(l.visited)
  IN
  /\ l.pc = "across"
  /\ ArenaGo(t, IF k = 0 THEN NextField(l)
                ELSE IF k >= l.n THEN [l EXCEPT !.pc = "field", !.tries = @ + 1]
                ELSE IF (l.n - k + Bits - 1) \div Bits >= Fields - l.visited THEN NextField(l)
                ELSE [l EXCEPT !.pc = "scan", !.at = l.visited*Bits + Bits - k, !.field = l.visited + 1])
  /\ UNCHANGED <<inuse, dirty, committed, os, held, opt, ops, failed>>

\* The fields after it are looked at one by one,
Scan(t) ==
  LET l == th[t] IN
  /\ l.pc = "scan"
  /\ ArenaGo(t, IF Run(l) \cap Word(l.field) \cap inuse # {} THEN NextField(l)
                ELSE IF l.field = Final(l) THEN [l EXCEPT !.pc = "grab", !.field = First(l)]
                ELSE [l EXCEPT !.field = @ + 1])
  /\ UNCHANGED <<inuse, dirty, committed, os, held, opt, ops, failed>>

\* and then claimed one by one.
Grab(t) ==
  LET l == th[t]
      part == Run(l) \cap Word(l.field)
  IN
  /\ l.pc = "grab"
  /\ \/ /\ part \cap inuse = {}
        /\ inuse' = inuse \cup part
        /\ ArenaGo(t, IF l.field = Final(l) THEN [l EXCEPT !.pc = "ready"] ELSE [l EXCEPT !.field = @ + 1])
     \/ /\ part \cap inuse # {}
        /\ ArenaGo(t, [l EXCEPT !.pc = "rollback", !.field = @ - 1])
        /\ UNCHANGED inuse
  /\ UNCHANGED <<dirty, committed, os, held, opt, ops, failed>>

\* Faulty variant of the rollback: the first field is not given back.
RollbackShort(t) ==
  LET l == th[t] IN
  /\ l.pc = "rollback"
  /\ IF l.field > First(l)
     THEN /\ inuse' = inuse \ (Run(l) \cap Word(l.field))
          /\ ArenaGo(t, [l EXCEPT !.field = @ - 1])
     ELSE /\ UNCHANGED inuse
          /\ ArenaGo(t, IF l.tries < MaxRetries THEN [l EXCEPT !.pc = "across", !.tries = @ + 1] ELSE NextField(l))
  /\ UNCHANGED <<dirty, committed, os, held, opt, ops, failed>>

\* What was claimed goes back, the last field first; then it tries again, a few times.
Rollback(t) ==
  LET l == th[t] IN
  /\ l.pc = "rollback"
  /\ IF l.field >= First(l)
     THEN /\ inuse' = inuse \ (Run(l) \cap Word(l.field))
          /\ ArenaGo(t, [l EXCEPT !.field = @ - 1])
     ELSE /\ UNCHANGED inuse
          /\ ArenaGo(t, IF l.tries < MaxRetries THEN [l EXCEPT !.pc = "across", !.tries = @ + 1] ELSE NextField(l))
  /\ UNCHANGED <<dirty, committed, os, held, opt, ops, failed>>

-----------------------------------------------------------------------------
\* mi_arena_alloc_from, once the blocks are claimed: nobody else touches their bits
\* (_mi_bitmap_claim_across).  The result of the commit is not looked at.
Ready(t) ==
  LET l == th[t]
      bs == Run(l)
      commits == ~opt /\ l.want /\ ~(bs \subseteq committed)
  IN
  /\ l.pc = "ready"
  /\ dirty' = dirty \cup bs
  /\ committed' = IF ~opt /\ l.want THEN committed \cup bs ELSE committed
  /\ \E ok \in BOOLEAN :
       /\ ok \/ commits
       /\ failed' = (failed \/ ~ok)
       /\ os' = [committed |-> IF commits /\ ok THEN os.committed \cup bs ELSE os.committed,
                 zero |-> os.zero \ bs]
  /\ held' = held \cup {[owner |-> t, at |-> l.at, n |-> l.n,
                         commit |-> opt \/ l.want \/ bs \subseteq committed,
                         zero |-> bs \cap dirty = {}, real |-> bs \subseteq os.zero]}
  /\ ArenaGo(t, ArenaIdle)
  /\ UNCHANGED <<inuse, opt, ops>>

\* _mi_arena_free: the blocks are decommitted, which may fail, and given back field
\* by field.
ArenaFree(t, x) ==
  /\ th[t].pc = "idle" /\ ops < ArenaOps /\ ops' = ops + 1 /\ x.owner = t
  /\ held' = held \ {x}
  /\ committed' = IF opt THEN committed ELSE committed \ (x.at..x.at+x.n-1)
  /\ \E gone \in IF opt THEN {{}} ELSE {{}, x.at..x.at+x.n-1} :
       os' = [committed |-> os.committed \ gone, zero |-> os.zero \cup gone]
  /\ ArenaGo(t, [ArenaIdle EXCEPT !.pc = "unclaim", !.at = x.at, !.n = x.n, !.field = x.at \div Bits])
  /\ UNCHANGED <<inuse, dirty, opt, failed>>

Unclaim(t) ==
  LET l == th[t] IN
  /\ l.pc = "unclaim"
  /\ inuse' = inuse \ (Run(l) \cap Word(l.field))
  /\ ArenaGo(t, IF l.field = Final(l) THEN ArenaIdle ELSE [l EXCEPT !.field = @ + 1])
  /\ UNCHANGED <<dirty, committed, os, held, opt, ops, failed>>

-----------------------------------------------------------------------------
ArenaNext ==
  \E t \in ArenaThread :
    \/ \E n \in ArenaSizes, want \in BOOLEAN : ArenaAlloc(t, n, want)
    \/ LoadField(t) \/ ClaimInField(t) \/ LookAcross(t) \/ Scan(t) \/ Grab(t) \/ Rollback(t) \/ Ready(t)
    \/ \E x \in held : ArenaFree(t, x)
    \/ Unclaim(t)

ArenaSpec == ArenaInit /\ [][ArenaNext]_arenaVars

-----------------------------------------------------------------------------
\* The blocks a thread has claimed or not yet given back, in the middle of a call.
Partly(l) ==
  CASE l.pc = "grab"     -> Run(l) \cap UNION {Word(f) : f \in First(l)..l.field-1}
    [] l.pc = "rollback" -> Run(l) \cap UNION {Word(f) : f \in First(l)..l.field}
    [] l.pc = "unclaim"  -> Run(l) \cap UNION {Word(f) : f \in l.field..Final(l)}
    [] l.pc = "ready"    -> Run(l)
    [] OTHER             -> {}

\* Blocks have one owner, and the map holds exactly the blocks that are owned,
\* being claimed or past the end: a claim across fields that fails half way leaves
\* nothing behind (the rollback of mi_bitmap_try_find_claim_field_across).  A run
\* lies inside the arena; it is committed and zero where it is reported to be,
\* unless the OS failed to commit.
ArenaSound ==
  LET parts == {[t |-> t, bs |-> Partly(th[t])] : t \in ArenaThread}
               \cup {[t |-> <<x.owner, x.at>>, bs |-> x.at..x.at+x.n-1] : x \in held}
  IN /\ inuse = UNION {p.bs : p \in parts} \cup (BlockCount..Fields*Bits-1)
     /\ \A p, q \in parts : p.t # q.t => p.bs \cap q.bs = {}
     /\ \A x \in held : x.at + x.n <= BlockCount
     /\ failed \/ \A x \in held : x.commit => x.at..x.at+x.n-1 \subseteq os.committed
     /\ \A x \in held : x.zero => x.real

-----------------------------------------------------------------------------
(* The regions of mimalloc (region.c): 256 MiB areas of OS memory handed out in   *)
(* segment-sized blocks, with a bit per block for in use, written, committed and  *)
(* reset.  A set of blocks stands for a bit map.  The bits of claimed blocks have *)
(* one owner, so the claims of dirty, commit and reset are one step; searching    *)
(* the regions, adding one and collecting them race.                              *)

CONSTANTS RegionThread, Area,
          MaxObj,        \* MI_REGION_MAX_OBJ_BLOCKS
          RegionMax,     \* MI_REGION_MAX
          RegionSizes,   \* blocks asked for
          RegionOps      \* bound: calls made

VARIABLES regions, regionsCount,
          mem,           \* the allocations handed out; os holds the areas held, their
                         \* committed and their zero blocks, opt eager_region_commit,
                         \* reset_decommits and segment_reset
          raced          \* history: a claim in a region already collected, or a look past the last

regionVars == <<regions, regionsCount, os, mem, opt, th, ops, failed, raced>>

Slots == 0..RegionMax-1
Blocks == 0..Bits-1
Empty == [valid |-> FALSE, start |-> None, in_use |-> {}, dirty |-> {}, commit |-> {}, reset |-> {}]
At(a, bs) == {a} \X bs
RegionIdle(i) == [pc |-> "idle", region_idx |-> i, idx |-> 0, left |-> 0, n |-> 0, want |-> FALSE,
                  count |-> 0, bs |-> {}, area |-> None]

RegionInit == /\ regions = [r \in Slots |-> Empty]
              /\ regionsCount = 0
              /\ os = [held |-> {}, committed |-> {}, zero |-> {}]
              /\ mem = {}
              /\ opt \in [eager_region_commit : BOOLEAN, reset_decommits : BOOLEAN, segment_reset : BOOLEAN]
              /\ opt.reset_decommits = ~opt.eager_region_commit   \* the defaults of options.c, by platform
              /\ th = [t \in RegionThread |-> RegionIdle(0)]
              /\ ops = 0 /\ failed = FALSE /\ raced = FALSE

RegionGo(t, l) == th' = [th EXCEPT ![t] = l]
Done(t) == RegionGo(t, RegionIdle(th[t].region_idx))
RegionCall(t) == th[t].pc = "idle" /\ ops < RegionOps /\ ops' = ops + 1

\* The OS has no area left, or gives the lowest one (areas are alike).
FreeArea == IF Area = os.held THEN {} ELSE {Min(Area \ os.held)}

\* An area from the OS: zero, committed on request.
Reserve(a, commit) ==
  [held |-> os.held \cup {a},
   committed |-> os.committed \cup IF commit THEN At(a, Blocks) ELSE {},
   zero |-> os.zero \cup At(a, Blocks)]

Release(a) == [held |-> os.held \ {a}, committed |-> os.committed \ At(a, Blocks),
               zero |-> os.zero \ At(a, Blocks)]

-----------------------------------------------------------------------------
(* _mi_mem_alloc_aligned, mi_region_try_alloc. *)

\* Large requests go to the OS at once; the others look through the regions there
\* are, from the one used last.
RegionAlloc(t, n, want) ==
  /\ RegionCall(t)
  /\ RegionGo(t, [th[t] EXCEPT !.n = n, !.want = want, !.idx = th[t].region_idx, !.left = regionsCount, !.count = regionsCount,
                    !.pc = IF n > MaxObj THEN "direct" ELSE IF regionsCount = 0 THEN "grow" ELSE "look"])
  /\ UNCHANGED <<regions, regionsCount, os, mem, opt, failed, raced>>

\* On to the next region, from the first one after the last.
NextRegion(l) ==
  IF l.left = 1 THEN [l EXCEPT !.pc = "grow"]
  ELSE [l EXCEPT !.pc = "look", !.left = @ - 1, !.idx = (l.idx + 1) % l.count]

\* mi_region_try_claim looks whether the region is in use.  While a thread undoes
\* its slot the count is one too high, and the look may go past the regions.
LookAt(t) ==
  LET l == th[t] IN
  /\ l.pc = "look"
  /\ raced' = (raced \/ l.idx \notin Slots)
  /\ RegionGo(t, IF l.idx \in Slots /\ regions[l.idx].valid THEN [l EXCEPT !.pc = "claim"] ELSE NextRegion(l))
  /\ UNCHANGED <<regions, regionsCount, os, mem, opt, ops, failed>>

\* Then it claims the first blocks free in it.
Fits(used, n) == {i \in 0..Bits-n : (i..i+n-1) \cap used = {}}

RegionClaim(t) ==
  LET l == th[t]
      free == Fits(regions[l.idx].in_use, l.n)
      at == Min(free)
  IN
  /\ l.pc = "claim"
  /\ \/ /\ free = {}
        /\ RegionGo(t, NextRegion(l))
        /\ UNCHANGED <<regions, raced>>
     \/ /\ free # {}
        /\ regions' = [regions EXCEPT ![l.idx].in_use = @ \cup (at..at+l.n-1)]
        /\ raced' = (raced \/ ~regions[l.idx].valid)
        /\ RegionGo(t, [l EXCEPT !.pc = "init", !.bs = at..at+l.n-1, !.region_idx = l.idx])
  /\ UNCHANGED <<regionsCount, os, mem, opt, ops, failed>>

\* mi_region_try_alloc_os: all regions may be in use already, the OS may have no
\* memory, or another thread takes the last slot.
Grow(t) ==
  LET l == th[t]
      c == l.want /\ opt.eager_region_commit
  IN
  /\ l.pc = "grow"
  /\ \/ /\ regionsCount >= RegionMax - 1
        /\ RegionGo(t, [l EXCEPT !.pc = "direct"])
        /\ UNCHANGED os
     \/ /\ regionsCount < RegionMax - 1
        /\ \/ RegionGo(t, [l EXCEPT !.pc = "direct"]) /\ UNCHANGED os
           \/ \E a \in FreeArea :
                os' = Reserve(a, c) /\ RegionGo(t, [l EXCEPT !.pc = "slot", !.area = a])
  /\ UNCHANGED <<regions, regionsCount, mem, opt, ops, failed, raced>>

TakeSlot(t) ==
  LET l == th[t] IN
  /\ l.pc = "slot"
  /\ regionsCount' = regionsCount + 1
  /\ RegionGo(t, IF regionsCount >= RegionMax THEN [l EXCEPT !.pc = "undo"]
                 ELSE [l EXCEPT !.pc = "share", !.idx = regionsCount])
  /\ UNCHANGED <<regions, os, mem, opt, ops, failed, raced>>

UndoSlot(t) ==
  /\ th[t].pc = "undo"
  /\ regionsCount' = regionsCount - 1
  /\ os' = Release(th[t].area)
  /\ RegionGo(t, [th[t] EXCEPT !.pc = "direct", !.area = None])
  /\ UNCHANGED <<regions, mem, opt, ops, failed, raced>>

\* The slot is filled in with its first blocks claimed, and then shown.
Share(t) ==
  LET l == th[t] IN
  /\ l.pc = "share"
  /\ regions' = [regions EXCEPT ![l.idx] =
       [valid |-> TRUE, start |-> l.area, in_use |-> 0..l.n-1, dirty |-> {},
        commit |-> IF l.want /\ opt.eager_region_commit THEN Blocks ELSE {}, reset |-> {}]]
  /\ RegionGo(t, [l EXCEPT !.pc = "init", !.bs = 0..l.n-1])
  /\ UNCHANGED <<regionsCount, os, mem, opt, ops, failed, raced>>

\* The claimed blocks are made ready.  A commit may fail; the in-use bits alone go
\* back then.  Blocks that were reset are committed again where a reset decommits.
InitBlocks(t) ==
  LET l == th[t]
      r == regions[l.idx]
      commits == l.want /\ ~(l.bs \subseteq r.commit)
      commit == l.want \/ l.bs \subseteq r.commit
      unresets == l.bs \cap r.reset # {} /\ opt.reset_decommits /\ commit
      here == At(r.start, l.bs)
  IN
  /\ l.pc = "init"
  /\ \/ /\ regions' = [regions EXCEPT ![l.idx].dirty = @ \cup l.bs,
                                      ![l.idx].commit = IF l.want THEN @ \cup l.bs ELSE @,
                                      ![l.idx].reset = @ \ l.bs]
        /\ os' = [os EXCEPT !.committed = IF commits \/ unresets THEN @ \cup here ELSE @,
                            !.zero = @ \ here]
        /\ mem' = mem \cup {[owner |-> t, region |-> l.idx, area |-> r.start, bs |-> l.bs,
                             commit |-> commit,
                             zero |-> l.bs \cap r.dirty = {}, real |-> here \subseteq os.zero]}
        /\ Done(t)
        /\ UNCHANGED failed
     \/ /\ commits
        /\ regions' = [regions EXCEPT ![l.idx].dirty = @ \cup l.bs, ![l.idx].commit = @ \cup l.bs,
                                      ![l.idx].in_use = @ \ l.bs]
        /\ failed' = TRUE
        /\ RegionGo(t, [l EXCEPT !.pc = "direct", !.bs = {}])
        /\ UNCHANGED <<os, mem>>
  /\ UNCHANGED <<regionsCount, opt, ops, raced>>

\* _mi_arena_alloc_aligned, without an arena: memory of its own, or none.
Direct(t) ==
  LET l == th[t] IN
  /\ l.pc = "direct"
  /\ \/ Done(t) /\ UNCHANGED <<os, mem>>
     \/ \E a \in FreeArea :
          /\ os' = [Reserve(a, l.want) EXCEPT !.zero = @ \ At(a, Blocks)]
          /\ mem' = mem \cup {[owner |-> t, region |-> None, area |-> a, bs |-> Blocks, commit |-> l.want,
                               zero |-> TRUE, real |-> TRUE]}
          /\ Done(t)
  /\ UNCHANGED <<regions, regionsCount, opt, ops, failed, raced>>

-----------------------------------------------------------------------------
(* _mi_mem_free.  By then the segment in the blocks may have committed all of its  *)
(* pages (full_commit) or reset some (any_reset).                                  *)

\* The bits of blocks given back.  With segment_reset they are reset as a whole
\* (eager_commit holds by default).
Freed(r, bs, full, any) ==
  [r EXCEPT !.in_use = @ \ bs,
            !.commit = IF full THEN @ \cup bs ELSE @,
            !.reset = IF any \/ opt.segment_reset THEN @ \cup bs ELSE @]

\* A segment with pages reset by a decommit is not reported as fully committed
\* (mi_segment_os_free).
RegionFree(t, x, full, any) ==
  LET here == At(x.area, x.bs)
      gone == opt.reset_decommits /\ (any \/ opt.segment_reset)
  IN
  /\ RegionCall(t) /\ x.owner = t /\ x.area # None
  /\ LET whole == ~(any /\ opt.reset_decommits) IN (full => whole) /\ (x.commit => full = whole)
  /\ mem' = mem \ {x}
  /\ IF x.region = None
     THEN os' = Release(x.area) /\ UNCHANGED regions
     ELSE /\ regions' = [regions EXCEPT ![x.region] = Freed(@, x.bs, full, any)]
          /\ os' = [os EXCEPT !.committed = IF gone THEN @ \ here ELSE IF full THEN @ \cup here ELSE @]
  /\ UNCHANGED <<regionsCount, opt, th, failed, raced>>

-----------------------------------------------------------------------------
(* _mi_mem_collect. *)

Collect(t) ==
  /\ RegionCall(t) /\ regionsCount > 0
  /\ RegionGo(t, [th[t] EXCEPT !.pc = "collect", !.idx = 0, !.left = regionsCount])
  /\ UNCHANGED <<regions, regionsCount, os, mem, opt, failed, raced>>

NextCollect(l) == IF l.left = 1 THEN RegionIdle(l.region_idx)
                  ELSE [l EXCEPT !.pc = "collect", !.left = @ - 1, !.idx = @ + 1, !.area = None]

\* A region without blocks in use is claimed as a whole,
CollectRegion(t) ==
  LET l == th[t]
      r == regions[l.idx]
  IN
  /\ l.pc = "collect"
  /\ raced' = (raced \/ l.idx \notin Slots)
  /\ IF l.idx \in Slots /\ r.valid /\ r.in_use = {}
     THEN /\ regions' = [regions EXCEPT ![l.idx].in_use = Blocks]
          /\ RegionGo(t, [l EXCEPT !.pc = "clear", !.area = r.start])
     ELSE RegionGo(t, NextCollect(l)) /\ UNCHANGED regions
  /\ UNCHANGED <<regionsCount, os, mem, opt, ops, failed>>

\* cleared, and given back to the OS.
ClearRegion(t) ==
  LET l == th[t] IN
  /\ l.pc = "clear"
  /\ regions' = [regions EXCEPT ![l.idx] = Empty]
  /\ RegionGo(t, [l EXCEPT !.pc = "release"])
  /\ UNCHANGED <<regionsCount, os, mem, opt, ops, failed, raced>>

ReleaseRegion(t) ==
  LET l == th[t] IN
  /\ l.pc = "release"
  /\ os' = Release(l.area)
  /\ RegionGo(t, NextCollect(l))
  /\ UNCHANGED <<regions, regionsCount, mem, opt, ops, failed, raced>>

-----------------------------------------------------------------------------
RegionNext ==
  \E t \in RegionThread :
    \/ \E n \in RegionSizes, want \in BOOLEAN : RegionAlloc(t, n, want)
    \/ LookAt(t) \/ RegionClaim(t) \/ Grow(t) \/ TakeSlot(t) \/ UndoSlot(t) \/ Share(t) \/ InitBlocks(t) \/ Direct(t)
    \/ \E x \in mem, full, any \in BOOLEAN : RegionFree(t, x, full, any)
    \/ Collect(t) \/ CollectRegion(t) \/ ClearRegion(t) \/ ReleaseRegion(t)

RegionSpec == RegionInit /\ [][RegionNext]_regionVars

-----------------------------------------------------------------------------
Owned == {[area |-> x.area, bs |-> x.bs] : x \in mem}

\* An allocation lies in memory mapped for the process, shared with no other one,
\* and is committed and zero where it is reported to be, as the bit maps of its
\* region promise (mi_region_try_alloc).  Set apart are the races of the
\* code (a region collected under a claim, a look past the last region) and a
\* commit that failed, whose bits stay set.
RegionsSound ==
  /\ raced \/ \A x \in mem : x.area \in os.held
  /\ raced \/ \A x, y \in mem : x # y /\ x.area = y.area => x.bs \cap y.bs = {}
  /\ raced \/ \A r \in Slots : regions[r].valid =>
       UNION {x.bs : x \in {y \in mem : y.region = r}} \subseteq regions[r].in_use
  /\ raced \/ failed \/ \A x \in mem : x.commit => At(x.area, x.bs) \subseteq os.committed
  /\ raced \/ \A x \in mem : x.zero => x.real

-----------------------------------------------------------------------------
(* The pages of a thread's segments and the OS memory behind them (segment.c):     *)
(* pages are committed when they are claimed, reset some time after they are       *)
(* freed, and segments wait in a cache or go back.  A segment has two units of     *)
(* memory: two small pages, or one large page.  A call works on the record x of    *)
(* everything; units whose contents the OS threw away are `lost'.                  *)

CONSTANTS Seg,
          Wrap,     \* the 32-bit expiry clock wraps here
          Delay,    \* mi_option_reset_delay, below Wrap / 2
          PagesOps  \* bound: calls made

VARIABLES pages,    \* segments, reset queue, cache, OS memory
          now       \* _mi_clock_now, modulo Wrap

pagesVars == <<pages, now, opt, ops>>

Unit == 0..1
Cap(kind) == IF kind = "small" THEN 2 ELSE 1
Units(kind, i) == IF kind = "small" THEN {i} ELSE Unit
NoPage == [used |-> FALSE, committed |-> FALSE, reset |-> FALSE, zero |-> FALSE, expire |-> 0]

NoOptions == [page_reset |-> FALSE, reset_decommits |-> FALSE, abandoned_page_reset |-> FALSE,
              lazy |-> FALSE, segment_cache |-> 0, delay |-> 0]

PagesInit == /\ pages = [seg  |-> [s \in Seg |-> [at |-> "os", kind |-> "small", pg |-> [i \in Unit |-> NoPage]]],
                         q    |-> <<>>,    \* pages_reset, the newest first, with their real age
                         cache |-> <<>>,
                         real |-> [s \in Seg |-> [committed |-> {}, zero |-> {}, lost |-> {}]],
                         early |-> FALSE,  \* a page was reset before its delay
                         failed |-> FALSE, \* the OS failed to commit
                         recast |-> FALSE, \* a segment of the cache changed its kind and counts as committed
                         got |-> None]
             /\ now \in {0, Wrap - 1}
             /\ opt \in [page_reset : BOOLEAN, reset_decommits : BOOLEAN, abandoned_page_reset : BOOLEAN,
                         lazy : BOOLEAN, segment_cache : 0..1, delay : {0, Delay}]
             /\ ops = 0

PageAt(y, s, i) == y.seg[s].pg[i]
Mem(y, s, i) == Units(y.seg[s].kind, i)
Held(y) == {s \in Seg : y.seg[s].at \in {"mine", "cache"}}   \* tld->count

-----------------------------------------------------------------------------
(* Reset and commit. *)

\* mi_page_reset, _mi_os_reset.
PageReset(y, s, i) ==
  LET p == PageAt(y, s, i) IN
  IF ~opt.page_reset \/ p.used \/ ~p.committed \/ p.reset THEN y
  ELSE [y EXCEPT !.seg[s].pg[i].reset = TRUE,
                 !.real[s].committed = IF opt.reset_decommits THEN @ \ Mem(y, s, i) ELSE @,
                 !.real[s].lost = @ \cup Mem(y, s, i)]

\* mi_page_unreset: the flag goes first.  ok: the OS commits.
PageUnreset(y, s, i, ok) ==
  LET recommit == opt.reset_decommits IN
  [y EXCEPT !.seg[s].pg[i].reset = FALSE,
            !.failed = @ \/ (recommit /\ ~ok),
            !.real[s].committed = IF recommit /\ ok THEN @ \cup Mem(y, s, i) ELSE @]

\* mi_page_reset_is_expired: the difference, as a signed number, is not negative.
IsExpired(p) == (now - p.expire) % Wrap < Wrap \div 2

\* mi_pages_reset_remove.
Unqueue(y, s, i) == [y EXCEPT !.q = SelectSeq(@, LAMBDA e : <<e.s, e.i>> # <<s, i>>)]

\* mi_pages_reset_add.
ResetAdd(y, s, i) ==
  LET p == PageAt(y, s, i) IN
  IF ~opt.page_reset \/ p.used \/ ~p.committed \/ p.reset THEN y
  ELSE IF opt.delay = 0 THEN PageReset(y, s, i)
  ELSE [y EXCEPT !.seg[s].pg[i].expire = (now + opt.delay) % Wrap,
                 !.q = <<[s |-> s, i |-> i, age |-> 0]>> \o @]

\* mi_pages_reset_remove_all_in_segment.
UnqueueOne(y, s, i, force) ==
  LET p == PageAt(y, s, i) IN
  IF i < Cap(y.seg[s].kind) /\ ~p.used /\ p.committed /\ ~p.reset
  THEN LET z == Unqueue(y, s, i) IN IF force THEN PageReset(z, s, i) ELSE z
  ELSE y

UnqueueAll(y, s, force) == UnqueueOne(UnqueueOne(y, s, 0, force), s, 1, force)

\* mi_reset_delayed: from the oldest up to the first that has not expired.
ResetDelayed(y) ==
  LET n == Len(y.q)
      Due(k) == \A j \in k..n : IsExpired(PageAt(y, y.q[j].s, y.q[j].i))
      k == CHOOSE c \in 1..n+1 : Due(c) /\ (c = 1 \/ ~Due(c - 1))
      after[j \in k-1..n] ==
        IF j = k-1 THEN y
        ELSE LET e == y.q[j]
                 z == PageReset(after[j-1], e.s, e.i)
             IN [z EXCEPT !.early = @ \/ e.age < opt.delay]
  IN IF ~opt.page_reset THEN y ELSE [after[n] EXCEPT !.q = SubSeq(y.q, 1, k-1)]

-----------------------------------------------------------------------------
(* Segments. *)

\* mi_segment_os_free.
OsFree(y, s) == [y EXCEPT !.seg[s].at = "os", !.real[s] = [committed |-> {}, zero |-> {}, lost |-> {}]]

\* mi_segment_cache_push: room for one segment, if the option says so.
SegmentFree(y, s, force) ==
  LET z == UnqueueAll(y, s, force /\ opt.abandoned_page_reset) IN
  IF ~force /\ Len(z.cache) < opt.segment_cache
  THEN [z EXCEPT !.seg[s].at = "cache", !.cache = <<s>> \o @]
  ELSE OsFree(z, s)

\* mi_segment_init of a segment from the OS (a region).  The first segments are
\* not committed as a whole; the region may have them committed anyway.
Fresh(y, kind) ==
  LET eager == ~(opt.lazy /\ kind = "small" /\ Held(y) = {}) IN
  {[y EXCEPT !.seg[s] = [at |-> "mine", kind |-> kind,
                         pg |-> [i \in Unit |-> [NoPage EXCEPT !.committed = commit, !.zero = zero]]],
             !.real[s] = [committed |-> IF commit THEN Unit ELSE {}, zero |-> IF zero THEN Unit ELSE {},
                          lost |-> {}]] :
     s \in {r \in Seg : y.seg[r].at = "os"}, commit \in {c \in BOOLEAN : eager => c}, zero \in BOOLEAN}

\* mi_segment_init of a segment from the cache: its pages stay good if they are of
\* the same kind (and not large).
FromCache(y, kind, ok) ==
  LET s == Head(y.cache)
      popped == [y EXCEPT !.cache = Tail(@), !.seg[s].at = "mine"]
      commit == ~(opt.lazy /\ kind = "small" /\ Held(y) = {})
      Un(z, i) == IF ~PageAt(z, s, i).reset \/ i >= Cap(z.seg[s].kind) THEN z
                  ELSE IF ~commit /\ opt.reset_decommits THEN [z EXCEPT !.seg[s].pg[i].reset = FALSE]
                  ELSE PageUnreset(z, s, i, ok)
      z == Un(Un(popped, 0), 1)
  IN IF kind = "small" /\ y.seg[s].kind = "small" THEN popped
     ELSE [z EXCEPT !.seg[s].kind = kind,
                    !.recast = @ \/ (commit /\ z.real[s].committed # Unit),
                    !.seg[s].pg = [i \in Unit |-> [NoPage EXCEPT !.committed = commit]]]

\* mi_segment_page_claim.  The page is out of the queue before anything else, and
\* in use before it is unreset.
Claim(y, s, i, ok) ==
  LET z == Unqueue(y, s, i)
      p == PageAt(y, s, i)
      ready == [z EXCEPT !.seg[s].pg[i].used = TRUE, !.seg[s].pg[i].committed = TRUE,
                         !.real[s].committed = IF p.committed THEN @ ELSE @ \cup Mem(y, s, i)]
      u == PageUnreset(ready, s, i, ok)
      Take(v) == [v EXCEPT !.got = <<s, i>>, !.real[s].zero = @ \ Mem(y, s, i),
                           !.real[s].lost = @ \ Mem(y, s, i)]
  IN IF ~p.committed /\ ~ok THEN [z EXCEPT !.failed = TRUE]
     ELSE IF ~p.reset THEN Take(ready)
     ELSE IF ok \/ ~opt.reset_decommits THEN Take(u)
     ELSE [u EXCEPT !.seg[s].pg[i].used = FALSE]

\* mi_segment_find_free: the pages in turn, until one can be claimed.
FindFree(y, s, ok) ==
  LET try[i \in 0..2] ==
        IF i = 0 THEN [y EXCEPT !.got = None]
        ELSE LET z == try[i-1] IN
             IF z.got # None \/ i > Cap(z.seg[s].kind) \/ PageAt(z, s, i-1).used THEN z
             ELSE Claim(z, s, i-1, ok)
  IN try[2]

Room(y, s, kind) == /\ y.seg[s].at = "mine" /\ y.seg[s].kind = kind
                    /\ \E i \in 0..Cap(kind)-1 : ~PageAt(y, s, i).used

\* _mi_segment_page_alloc: a segment with a free page (never for a large page), else
\* one from the cache, else a fresh one.  The OS may have none.
Provide(y, kind, ok) ==
  LET open == {s \in Seg : kind = "small" /\ Room(y, s, kind)} IN
  IF open # {} THEN {FindFree(y, s, ok) : s \in open}
  ELSE IF y.cache # <<>> THEN {FindFree(FromCache(y, kind, ok), Head(y.cache), ok)}
  ELSE {y} \cup {FindFree(z, CHOOSE s \in Seg : z.seg[s] # y.seg[s] /\ y.seg[s].at = "os", ok)
                   : z \in Fresh(y, kind)}

Call == ops < PagesOps /\ ops' = ops + 1

PageAlloc(kind) ==
  /\ Call
  /\ \E ok \in BOOLEAN : \E z \in Provide(pages, kind, ok) : pages' = [ResetDelayed(z) EXCEPT !.got = None]
  /\ UNCHANGED <<now, opt>>

\* mi_segment_page_clear.
Clear(y, s, i) == ResetAdd([y EXCEPT !.seg[s].pg[i].used = FALSE, !.seg[s].pg[i].zero = FALSE], s, i)

NoneUsed(y, s) == \A i \in Unit : ~PageAt(y, s, i).used

\* _mi_segment_page_free.
PageFree(s, i, force) ==
  /\ Call
  /\ pages.seg[s].at = "mine" /\ PageAt(pages, s, i).used
  /\ LET y == Clear(ResetDelayed(pages), s, i)
     IN pages' = IF NoneUsed(y, s) THEN SegmentFree(y, s, force) ELSE y
  /\ UNCHANGED <<now, opt>>

\* mi_segment_abandon: a segment whose pages the thread leaves behind.
Abandon(s) ==
  /\ Call
  /\ pages.seg[s].at = "mine" /\ ~NoneUsed(pages, s)
  /\ pages' = [UnqueueAll(ResetDelayed(pages), s, opt.abandoned_page_reset) EXCEPT !.seg[s].at = "abandoned"]
  /\ UNCHANGED <<now, opt>>

\* mi_segment_reclaim: pages found empty are cleared.
Reclaim(s) ==
  /\ Call
  /\ pages.seg[s].at = "abandoned"
  /\ \E empty \in SUBSET {i \in Unit : PageAt(pages, s, i).used} :
       LET y == [pages EXCEPT !.seg[s].at = "mine"]
           z == IF 0 \in empty THEN Clear(y, s, 0) ELSE y
           w == IF 1 \in empty THEN Clear(z, s, 1) ELSE z
       IN pages' = IF NoneUsed(w, s) THEN SegmentFree(w, s, FALSE) ELSE w
  /\ UNCHANGED <<now, opt>>

\* _mi_segment_thread_collect empties the cache.
ThreadCollect ==
  /\ Call /\ pages.cache # <<>>
  /\ pages' = [OsFree(pages, Head(pages.cache)) EXCEPT !.cache = <<>>]
  /\ UNCHANGED <<now, opt>>

Tick ==
  /\ pages.q # <<>>
  /\ now' = (now + 1) % Wrap
  /\ pages' = [pages EXCEPT !.q = [j \in DOMAIN @ |-> [@[j] EXCEPT !.age = IF @ < Wrap THEN @ + 1 ELSE @]]]
  /\ UNCHANGED <<opt, ops>>

PagesNext == \/ \E kind \in {"small", "large"} : PageAlloc(kind)
             \/ \E s \in Seg : \/ \E i \in Unit, force \in BOOLEAN : PageFree(s, i, force)
                               \/ Abandon(s) \/ Reclaim(s)
             \/ ThreadCollect \/ Tick

PagesSpec == PagesInit /\ [][PagesNext]_pagesVars

-----------------------------------------------------------------------------
Mine == {s \in Seg : pages.seg[s].at # "os"}
InUse == {<<s, i>> \in Mine \X Unit : i < Cap(pages.seg[s].kind) /\ PageAt(pages, s, i).used}

\* A page in use has its memory, committed and with nothing thrown away, however
\* long ago it was queued for a reset; only free pages of the thread's own segments
\* are queued, each once; the flags of a free page tell the truth; and no page is
\* reset before its delay, although the clock wraps (mi_pages_reset_add,
\* mi_segment_page_claim, mi_reset_delayed).  Set apart: the OS fails to commit, and
\* a segment of the cache that was committed page by page changes its kind.
PagesReady ==
  /\ \A p \in InUse : Mem(pages, p[1], p[2]) \cap pages.real[p[1]].lost = {}
  /\ pages.failed \/ pages.recast \/ \A p \in InUse : Mem(pages, p[1], p[2]) \subseteq pages.real[p[1]].committed
  /\ \A e \in ToSet(pages.q) : /\ pages.seg[e.s].at = "mine"
                               /\ LET p == PageAt(pages, e.s, e.i) IN ~p.used /\ p.committed /\ ~p.reset
  /\ Cardinality({<<e.s, e.i>> : e \in ToSet(pages.q)}) = Len(pages.q)
  /\ \A s \in Mine : \A i \in 0..Cap(pages.seg[s].kind)-1 :
       LET p == PageAt(pages, s, i) IN
       /\ ~p.used /\ p.zero => Mem(pages, s, i) \subseteq pages.real[s].zero
       /\ p.committed /\ ~p.reset /\ ~pages.failed /\ ~pages.recast => Mem(pages, s, i) \subseteq pages.real[s].committed
  /\ ~pages.early

=============================================================================
