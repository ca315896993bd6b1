----------------------------- MODULE MCMimalloc -----------------------------
(* The allocator of user programs, one part in each behaviour: the heaps of two    *)
(* threads, the list of abandoned segments, the OS memory behind them (pages,       *)
(* regions, arenas, mappings), the size classes and the contents of blocks.  The other parts *)
(* are not started.                                                                *)
EXTENDS MiHeap, TLC

CONSTANTS t1, t2, h1, h2, hx, s1, s2, p1, p2, p3, b1, b2, b3, b4, b5,
          g1, g2,                  \* threads and segments of the other parts
          r1, r2, r3,
          Parts

VARIABLES part,
          abandoned, visited, next, readers, place, listTh,     \* of MiAbandoned
          memTh, memOpt, os, failed,                            \* of the parts of MiMemory
          pages, now,
          regions, regionsCount, mem, raced,
          inuse, dirty, committed, held,
          mapped, access, large, tryOk, reserved, areas, wanted, resets,
          queue, direct, asked,                                 \* of MiBlock
          blocks, ptrs

heapVars == <<m, th, live, born, tainted>>
listVars == <<abandoned, visited, next, readers, place, listTh>>
pageVars == <<pages, now>>
regionVars == <<regions, regionsCount, mem, raced>>
arenaVars == <<inuse, dirty, committed, held>>
osVars == <<mapped, access, large, tryOk, reserved, areas, wanted, resets>>
memVars == <<memTh, memOpt, os, failed, pageVars, regionVars, arenaVars, osVars>>
blockVars == <<queue, direct, asked, blocks, ptrs>>
allVars == <<part, ops, heapVars, listVars, memVars, blockVars>>

(* The main thread has a second heap; a segment of two pages and one huge page. *)
MCHome == (h1 :> t1) @@ (h2 :> t2) @@ (hx :> t1)
MCBacking == (t1 :> h1) @@ (t2 :> h2)
MCSegOf == (p1 :> s1) @@ (p2 :> s1) @@ (p3 :> s2)
MCPageOf == (b1 :> p1) @@ (b2 :> p1) @@ (b3 :> p2) @@ (b4 :> p2) @@ (b5 :> p3)

\* Two threads push, pop and reuse two segments.
List == INSTANCE MiAbandoned WITH Seg <- {s1, s2}, Tags <- 64, MaxOps <- 7, th <- listTh

\* For the pages two segments, and a clock that wraps at 6; for the regions three threads,
\* one slot more than there may be regions, and two blocks in each; for the arena three
\* fields of two bits, for five blocks, and runs of up to three fields; for the mappings
\* seven pages of two bytes, and areas of one page and of two that are aligned to two.
Memory == INSTANCE MiMemory WITH
            Seg <- {g1, g2}, Wrap <- 6, Delay <- 2, PagesOps <- 4,
            RegionThread <- {r1, r2, r3}, Area <- 1..3, Bits <- 2, MaxObj <- 2, RegionMax <- 2,
            RegionSizes <- {1, 3}, RegionOps <- 3,
            ArenaThread <- {r1, r2}, Fields <- 3, BlockCount <- 5, ArenaSizes <- 1..4,
            MaxRetries <- 1, ArenaOps <- 3,
            OsThread <- {r1, r2}, Space <- 1..7, PageSize <- 2, LargePage <- 2,
            Requests <- {<<1, 2>>, <<3, 4>>}, RetryAfter <- 2, MaxMaps <- 2, OsOps <- 5,
            th <- memTh, opt <- memOpt

\* The segments start alike, and so do two of the threads; neither are ordered.
Alike == Permutations({g1, g2}) \cup Permutations({r1, r2})

\* Sizes around each class boundary, and pages of classes of one, two and four words, of 12
\* words and of the largest small size; for the contents of blocks, sizes below and above a
\* word, and an alignment two of the classes do not give.
MCAsked == {w * 8 + d : w \in (0..40) \cup {q * 2^k : q \in 4..8, k \in 0..18}, d \in {0, 1, 8}}
Blocks == INSTANCE MiBlock WITH
            Bins <- {1, 2, 4, 10, 24}, PageIds <- 1..5, BinOf <- <<1, 2, 2, 4, 24>>,
            Asked <- MCAsked, Width <- 4,
            Classes <- {16, 32, 48, 64}, PerPage <- 2, Sizes <- {4, 24}, Align <- 32,
            Offsets <- {0, 8}, Seen <- {3, 4, 7}, MaxOps <- 4, m <- blocks

\* A part that is not this behaviour's is never started: its variables are 0.
MCInit ==
  /\ part \in Parts
  /\ ops = 0
  /\ IF part = "heap" THEN Init
     ELSE m = 0 /\ th = 0 /\ live = 0 /\ born = 0 /\ tainted = 0
  /\ IF part = "list" THEN List!Init
     ELSE abandoned = 0 /\ visited = 0 /\ next = 0 /\ readers = 0 /\
          place = 0 /\ listTh = 0
  /\ IF part = "pages" THEN Memory!PagesInit
     ELSE pages = 0 /\ now = 0
  /\ IF part = "regions" THEN Memory!RegionInit
     ELSE regions = 0 /\ regionsCount = 0 /\ mem = 0 /\ raced = 0
  /\ IF part = "arena" THEN Memory!ArenaInit
     ELSE inuse = 0 /\ dirty = 0 /\ committed = 0 /\ held = 0
  /\ IF part = "os" THEN Memory!OsInit
     ELSE mapped = 0 /\ access = 0 /\ large = 0 /\ tryOk = 0 /\ reserved = 0 /\ areas = 0 /\
          wanted = 0 /\ resets = 0
  /\ part \notin {"regions", "arena", "os"} => memTh = 0
  /\ part \notin {"pages", "regions", "arena", "os"} => memOpt = 0
  /\ part \notin {"regions", "arena"} => os = 0 /\ failed = 0
  /\ IF part = "bins" THEN Blocks!BinsInit
     ELSE queue = 0 /\ direct = 0 /\ asked = 0
  /\ IF part = "blocks" THEN Blocks!Init
     ELSE blocks = 0 /\ ptrs = 0

Resting(threads) == \A t \in DOMAIN threads : threads[t].pc = "idle"

\* Nothing is left to do: every call has returned and no more are made.
Rest == /\ \/ part = "heap" /\ ops = MaxOps /\ Resting(th)
           \/ part = "list" /\ ops = 7 /\ Resting(listTh)
           \/ part = "pages" /\ ops = 4 /\ pages.q = <<>>
           \/ part \in {"regions", "arena"} /\ ops = 3 /\ Resting(memTh)
           \/ part = "os" /\ ops >= 2 /\ Resting(memTh)
           \/ part = "bins" /\ asked # 16
           \/ part = "blocks" /\ ops = 4
        /\ UNCHANGED allVars

InMemory == UNCHANGED <<part, heapVars, listVars, blockVars>>

MCNext ==
  \/ part = "heap" /\ Next /\ UNCHANGED <<part, listVars, memVars, blockVars>>
  \/ part = "list" /\ List!Next /\ UNCHANGED <<part, heapVars, memVars, blockVars>>
  \/ /\ part = "pages" /\ Memory!PagesNext
     /\ InMemory /\ UNCHANGED <<memTh, os, failed, regionVars, arenaVars, osVars>>
  \/ part = "regions" /\ Memory!RegionNext /\ InMemory /\ UNCHANGED <<pageVars, arenaVars, osVars>>
  \/ part = "arena" /\ Memory!ArenaNext /\ InMemory /\ UNCHANGED <<pageVars, regionVars, osVars>>
  \/ /\ part = "os" /\ Memory!OsNext
     /\ InMemory /\ UNCHANGED <<os, failed, pageVars, regionVars, arenaVars>>
  \/ /\ part = "bins" /\ asked = 16 /\ Blocks!BinsNext
     /\ UNCHANGED <<part, ops, heapVars, listVars, memVars, blocks, ptrs>>
  \/ /\ part = "blocks" /\ Blocks!Next
     /\ UNCHANGED <<part, heapVars, listVars, memVars, queue, direct, asked>>
  \/ Rest

MCSpec == MCInit /\ [][MCNext]_allVars

-----------------------------------------------------------------------------
\* No block and no segment of a heap is lost or handed out twice, whatever other
\* threads free meanwhile: MiHeap!BlocksAccounted and MiHeap!SegmentsKept, about
\* _mi_free_block_mt, _mi_page_free_collect and mi_segment_abandon.
HeapKeepsBlocks == part = "heap" => BlocksAccounted /\ SegmentsKept

\* The owner of a full page hears of a block another thread frees, and no thread
\* touches a heap that is gone: MiHeap!FullPagesHeardOf and
\* MiHeap!HeapsStayWhileUsed, about the flags of _mi_page_use_delayed_free.
DelayedFreeHeard == part = "heap" => FullPagesHeardOf /\ HeapsStayWhileUsed

\* The lock-free list of abandoned segments loses none and hands none out twice:
\* MiAbandoned!AbandonedKept, about mi_abandoned_push, _pop and _visited_revisit.
AbandonedKept == part = "list" => List!AbandonedKept

\* The memory behind the heaps: a page in use keeps its memory and no page is reset
\* early (segment.c), blocks of a region and of an arena have one owner, and memory
\* is committed and zero where the bit maps say so (region.c, arena.c, bitmap.c), and
\* what comes from the system is aligned, owned once and accessible (os.c).
OsMemoryAsTold ==
  CASE part = "pages"   -> Memory!PagesReady
    [] part = "regions" -> Memory!RegionsSound
    [] part = "arena"   -> Memory!ArenaSound
    [] part = "os"      -> Memory!OsSound
    [] OTHER            -> TRUE

\* Every request gets the tightest class, blocks stay in their page, and the table of
\* small sizes leads to the first page of the class: MiBlock!SizesFit, about _mi_bin,
\* _mi_segment_page_start and mi_heap_queue_first_update; pointers are aligned, bytes are
\* kept and zeroed as promised and no overflow is reported of a program that makes none:
\* MiBlock!BlocksKeepContents, about _mi_page_malloc, _mi_block_zero_init,
\* mi_padding_shrink and the reallocations.
BlocksSound ==
  CASE part = "bins"   -> Blocks!SizesFit
    [] part = "blocks" -> Blocks!BlocksKeepContents
    [] OTHER           -> TRUE
=============================================================================
