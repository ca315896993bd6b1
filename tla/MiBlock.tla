------------------------------ MODULE MiBlock -------------------------------
EXTENDS Integers, Sequences, SequencesExt, FiniteSets, TLC

(* Sizes in mimalloc: the size classes (page-queue.c), and where the pages of a    *)
(* segment and the blocks of a page begin and end (segment.c, page.c).  The        *)
(* constants are those of the 64-bit debug build.                                  *)

MI_INTPTR_SIZE == 8
MI_PADDING_SIZE == 8
MI_MAX_ALIGN_SIZE == 16
MI_SMALL_WSIZE_MAX == 128
MI_BIN_HUGE == 73
MI_BIN_FULL == 74
MI_SEGMENT_SIZE == 2^22
MI_LARGE_OBJ_SIZE_MAX == 2^21
OsPage == 4096

AlignUp(n, alignment) == ((n + alignment - 1) \div alignment) * alignment
WSize(size) == (size + MI_INTPTR_SIZE - 1) \div MI_INTPTR_SIZE

Bsr(n) == CHOOSE b \in 0..30 : 2^b <= n /\ n < 2^(b + 1)

\* The highest bit and the two below it: four classes to each power of two.
TopBits(w) == LET b == Bsr(w - 1) IN 4 * b + (((w - 1) \div 2^(b - 2)) % 4) - 3

\* Two machine words are the least alignment, so up to 8 words only even bins exist.
Bin(size) == LET w == WSize(size) IN
  CASE w <= 1                            -> 1
    [] w > 1 /\ w <= 8                   -> ((w + 1) \div 2) * 2
    [] w > MI_LARGE_OBJ_SIZE_MAX \div 8  -> MI_BIN_HUGE
    [] OTHER                             -> TopBits(w)

\* The block sizes of MI_PAGE_QUEUES_EMPTY, in words: 8 exact ones, then four to
\* each power of two.
BinWords(bin) ==
  CASE bin = 0                 -> 1
    [] bin \in 1..8            -> bin
    [] bin \in {MI_BIN_HUGE, MI_BIN_FULL} -> MI_LARGE_OBJ_SIZE_MAX \div 8 + bin - 72
    [] OTHER -> LET k == bin - 9 IN (5 + (k % 4)) * 2^(k \div 4 + 1)

BinSize(bin) == BinWords(bin) * MI_INTPTR_SIZE

GoodSize(size) == IF size <= MI_LARGE_OBJ_SIZE_MAX THEN BinSize(Bin(size)) ELSE AlignUp(size, OsPage)

-----------------------------------------------------------------------------
(* The geometry of a segment; addresses are relative to its start. *)

Kinds == {"small", "medium", "large"}
PageShift(kind) == CASE kind = "small" -> 16 [] kind = "medium" -> 19 [] OTHER -> 22
SegCapacity(kind) == MI_SEGMENT_SIZE \div 2^PageShift(kind)

\* The page kind _mi_segment_page_alloc chooses.
KindOf(bsize) == CASE bsize <= 2^14 -> "small"
                   [] bsize > 2^14 /\ bsize <= 2^17 -> "medium"
                   [] bsize > 2^17 /\ bsize <= MI_LARGE_OBJ_SIZE_MAX -> "large"
                   [] OTHER -> "huge"

\* sizeof(mi_segment_t) with one page, and sizeof(mi_page_t).
SegHeader == 200
PageHeader == 80
InfoSize(capacity) == AlignUp(SegHeader + (capacity - 1) * PageHeader + 16, 16 * MI_MAX_ALIGN_SIZE)

\* A huge page is the one page of a segment of its own, in units of MI_PAGE_HUGE_ALIGN.
SegmentSize(capacity, required) ==
  IF required = 0 THEN MI_SEGMENT_SIZE ELSE AlignUp(required + InfoSize(capacity), 2^18)

\* _mi_os_good_alloc_size, the block size of a huge page
GoodAllocSize(size) ==
  AlignUp(size, CASE size < 2^19 -> OsPage
                  [] size >= 2^19 /\ size < 2^21 -> 2^16
                  [] size >= 2^21 /\ size < 2^23 -> 2^18
                  [] size >= 2^23 /\ size < 2^25 -> 2^20
                  [] OTHER -> 2^22)

\* mi_segment_raw_page_start
RawStart(kind, idx) == idx * 2^PageShift(kind) + (IF idx = 0 THEN InfoSize(SegCapacity(kind)) ELSE 0)

\* _mi_segment_page_start: small and medium blocks of the first page are aligned to
\* their size.
PageStart(kind, idx, bsize) ==
  LET p == RawStart(kind, idx) IN
  IF idx = 0 /\ kind # "large" THEN AlignUp(p, bsize) ELSE p

PageBytes(kind, idx, bsize) == (idx + 1) * 2^PageShift(kind) - PageStart(kind, idx, bsize)

\* mi_page_init
Reserved(kind, idx, bsize) == PageBytes(kind, idx, bsize) \div bsize

\* mi_page_extend_free
ExtendBy(bsize, capacity, reserved) ==
  LET most == IF bsize >= 4096 THEN 1 ELSE 4096 \div bsize
      left == reserved - capacity
  IN IF left > most THEN most ELSE left

BlockAt(kind, idx, bsize, i) == PageStart(kind, idx, bsize) + i * bsize

\* _mi_segment_page_idx_of, _mi_page_ptr_unalign
PageIdxOf(kind, addr) == addr \div 2^PageShift(kind)
Unalign(kind, idx, bsize, addr) == addr - ((addr - PageStart(kind, idx, bsize)) % bsize)

-----------------------------------------------------------------------------
(* The queues of pages of a mimalloc heap, one to a size class, with the table      *)
(* that leads a small size straight to a page (page-queue.c); overflow of a count   *)
(* times a size and the encoding of free-list pointers (mimalloc-internal.h); and   *)
(* what the sizes of MiSize promise for one request.                                *)

CONSTANTS Bins,      \* the size classes with pages of their own in the state machine
          PageIds,   \* their pages
          BinOf,     \* [PageIds -> Bins]
          Asked,     \* the request sizes looked at
          Width      \* bits of a word, for overflow and encoding

VARIABLES queue,     \* [Bins \cup {MI_BIN_FULL} -> Seq(PageIds)]
          direct,    \* pages_free_direct
          asked      \* the request looked at in this behaviour

binsVars == <<queue, direct, asked>>

-----------------------------------------------------------------------------
(* The queues of a heap and pages_free_direct. *)

First(q) == IF q = <<>> THEN 0 ELSE Head(q)

RECURSIVE PrevBin(_, _)
PrevBin(bin, prev) == IF Bin(BinSize(prev)) = bin /\ prev > 0 THEN PrevBin(bin, prev - 1) ELSE prev

\* mi_heap_queue_first_update: the slots from the size class before up to this one.
FirstUpdate(d, bin, q) ==
  LET idx == BinWords(bin)
      page == First(q)
      start == IF idx <= 1 THEN 0
               ELSE LET s == 1 + BinWords(PrevBin(bin, bin - 1)) IN IF s > idx THEN idx ELSE s
  IN IF BinSize(bin) > MI_SMALL_WSIZE_MAX * MI_INTPTR_SIZE \/ d[idx] = page THEN d
     ELSE [w \in DOMAIN d |-> IF w \in start..idx THEN page ELSE d[w]]

InFull(p) == Contains(queue[MI_BIN_FULL], p)
Queued(p) == InFull(p) \/ Contains(queue[BinOf[p]], p)
QueueOf(p) == IF InFull(p) THEN MI_BIN_FULL ELSE BinOf[p]

\* The full queue has a block size above the small ones, so its changes leave the
\* table alone.
Push(p) ==
  LET b == BinOf[p] q == <<p>> \o queue[b] IN
  /\ ~Queued(p)
  /\ queue' = [queue EXCEPT ![b] = q]
  /\ direct' = FirstUpdate(direct, b, q)

Unlinked(q, p) == SelectSeq(q, LAMBDA x : x # p)

Dequeue(p) ==
  LET b == QueueOf(p) q == Unlinked(queue[b], p) IN
  /\ Queued(p)
  /\ queue' = [queue EXCEPT ![b] = q]
  /\ direct' = IF Head(queue[b]) = p THEN FirstUpdate(direct, b, q) ELSE direct

\* To the full queue, or from it back to its own.
EnqueueFrom(p) ==
  LET from == QueueOf(p)
      to == IF InFull(p) THEN BinOf[p] ELSE MI_BIN_FULL
      qf == Unlinked(queue[from], p)
      d1 == IF Head(queue[from]) = p THEN FirstUpdate(direct, from, qf) ELSE direct
      qt == Append(queue[to], p)
  IN /\ Queued(p)
     /\ queue' = [queue EXCEPT ![from] = qf, ![to] = qt]
     /\ direct' = IF queue[to] = <<>> THEN FirstUpdate(d1, to, qt) ELSE d1

-----------------------------------------------------------------------------
(* Words of Width bits. *)

Wrap == 2^Width

\* mi_mul_overflow where there is no compiler builtin.
MulOverflow(count, size) ==
  /\ size >= 2^(Width \div 2) \/ count >= 2^(Width \div 2)
  /\ size > 0
  /\ (Wrap - 1) \div size < count

\* mi_count_size_overflow
CountOverflow(count, size) == count # 1 /\ MulOverflow(count, size)

XorWord(a, b) == LET Bit(n, i) == (n \div 2^i) % 2
                     Term(i) == IF Bit(a, i) # Bit(b, i) THEN 2^i ELSE 0
                 IN FoldFunction(+, 0, [i \in 0..(Width - 1) |-> Term(i)])
Rotl(n, k) == LET s == k % Width IN ((n * 2^s) % Wrap) + (n \div 2^(Width - s))
Rotr(n, k) == Rotl(n, Width - (k % Width))

\* mi_ptr_encode, mi_ptr_decode: 0 is NULL, null stands for it in the encoding.
Encode(null, p, k0, k1) == (Rotl(XorWord(IF p = 0 THEN null ELSE p, k1), k0) + k0) % Wrap
Decode(null, e, k0, k1) == LET p == XorWord(Rotr((e + Wrap - k0) % Wrap, k0), k1)
                           IN IF p = null THEN 0 ELSE p

-----------------------------------------------------------------------------
BinsInit ==
  /\ queue = [b \in Bins \cup {MI_BIN_FULL} |-> <<>>]
  /\ direct = [w \in 0..(MI_SMALL_WSIZE_MAX + 1) |-> 0]
  /\ asked \in Asked

BinsNext ==
  /\ UNCHANGED asked
  /\ \E p \in PageIds : Push(p) \/ Dequeue(p) \/ EnqueueFrom(p)

BinsSpec == BinsInit /\ [][BinsNext]_binsVars

-----------------------------------------------------------------------------
\* A request gets the tightest class that holds it, and the class of a class' size
\* is that class, which mi_page_queue_of relies on to find a page's queue again.
ClassesTight ==
  asked <= MI_LARGE_OBJ_SIZE_MAX =>
    LET b == Bin(asked) IN
    /\ b \in 1..72
    /\ BinSize(b) >= asked
    /\ Bin(BinSize(b)) = b
    /\ \A c \in 1..(b - 1) : Bin(BinSize(c)) = c => BinSize(c) < asked
    /\ WSize(asked) > 8 => 4 * (BinWords(b) - WSize(asked)) < WSize(asked)

\* Every block of a page lies in that page of the segment, the last byte included,
\* and any address in it leads back to it (mi_segment_page_of and
\* _mi_page_ptr_unalign, for mi_free of an aligned pointer); a class' blocks fit
\* the 16-bit count; repeated extension reaches exactly the reserved blocks.
BlocksInPage ==
  asked <= MI_LARGE_OBJ_SIZE_MAX =>
    LET bsize == GoodSize(asked) kind == KindOf(bsize) IN
    \A idx \in {0, 1, SegCapacity(kind) - 1} \cap 0..(SegCapacity(kind) - 1) :
      LET n == Reserved(kind, idx, bsize) IN
      /\ n \in 1..(2^16 - 1)
      /\ \A i \in {0, n \div 2, n - 1} : LET a == BlockAt(kind, idx, bsize, i) IN
           /\ a >= InfoSize(SegCapacity(kind))
           /\ PageIdxOf(kind, a) = idx /\ PageIdxOf(kind, a + bsize - 1) = idx
           /\ \A o \in {0, 8, bsize \div 2, bsize - 1} :
                o < bsize => Unalign(kind, idx, bsize, a + o) = a
      /\ \A c \in {0, 1, n - 1} : c < n => LET e == ExtendBy(bsize, c, n) IN e > 0 /\ c + e <= n

\* A huge page has a segment of its own with room for the block after the header
\* (mi_huge_page_alloc asserts bsize >= size).
HugeFits ==
  asked > MI_LARGE_OBJ_SIZE_MAX =>
    LET bsize == GoodAllocSize(asked) IN
    /\ Bin(bsize) = MI_BIN_HUGE /\ KindOf(bsize) = "huge" /\ bsize >= asked
    /\ SegmentSize(1, bsize) - InfoSize(1) >= bsize
    /\ GoodSize(asked) >= asked

\* mi_heap_malloc_zero_aligned_at uses a plain allocation where the padded size is a
\* multiple of the alignment: every block of that class is then aligned.
AlignedForFree ==
  \A k \in 0..17 : LET a == 2^k IN
    (a <= asked /\ asked <= 2^17 /\ asked % a = 0) =>
      LET bsize == GoodSize(asked) kind == KindOf(bsize) IN
      \A idx \in {0, 1} : \A i \in {0, 1, 2} : BlockAt(kind, idx, bsize, i) % a = 0

\* Overflow is reported exactly when the product leaves the word, and an encoded
\* pointer decodes to itself unless it is the stand-in for NULL.
WordsSound ==
  asked < Wrap =>
    \A x \in 0..(Wrap - 1) :
      /\ CountOverflow(asked, x) <=> asked * x >= Wrap
      /\ \A k0 \in 1..(Wrap - 1) : \A k1 \in {1, Wrap \div 2, Wrap - 1} :
           asked > 0 => Decode(asked, Encode(asked, x, k0, k1), k0, k1) = (IF x = asked THEN 0 ELSE x)

\* The entry of every small size is the first page of the queue that size's class
\* has, whatever pages came and went (the early return of first_update included).
DirectRight ==
  \A w \in DOMAIN direct :
    LET b == Bin(w * MI_INTPTR_SIZE) IN
    direct[w] = IF b \in Bins /\ w <= MI_SMALL_WSIZE_MAX THEN First(queue[b]) ELSE 0

SizesFit == ClassesTight /\ BlocksInPage /\ HugeFits /\ AlignedForFree /\ WordsSound /\ DirectRight

-----------------------------------------------------------------------------
(* What is in the blocks of a mimalloc heap (alloc.c, alloc-aligned.c, page.c): the  *)
(* zero flag of a page, the padding that detects overflows, aligned pointers into    *)
(* a block, reallocation and zeroing, frees by the owner and by other threads.       *)
(* One page of each size class; the calls of the owner run to completion, MiHeap     *)
(* has their interleaving.  A byte is known by who wrote it last.                    *)

CONSTANTS Classes,     \* block sizes
          PerPage,     \* blocks a page is reserved for; a page extends by one
          Sizes,       \* sizes asked for
          Align,       \* alignment asked for, above a word
          Offsets,     \* offsets of the aligned calls
          Seen,        \* the bytes of each word that are looked at; bytes are independent
          MaxOps       \* calls made

VARIABLES m,           \* memory: [pg, cells, pad, delayed, alarm]
          ptrs,        \* what the program holds: set of [p, align, off, want]
          ops

vars == <<m, ptrs, ops>>

Min2(a, b) == IF a < b THEN a ELSE b

NULL == <<>>
UsableBlock(c) == c - MI_PADDING_SIZE

Bytes(from, n) == {k \in from..(from + n - 1) : k % MI_INTPTR_SIZE \in Seen}

\* A pointer is <<class, index, offset in the block>>; a page starts aligned.
Addr(p) == p[2] * p[1] + p[3]
BlockOf(p) == <<p[1], p[2]>>

\* Bytes o .. o + n - 1 of block b become v.
Fill(mem, b, o, n, v) ==
  [mem EXCEPT !.cells[b] = [k \in DOMAIN @ |-> IF k \in o..(o + n - 1) THEN v ELSE @[k]]]

\* mi_block_set_next
Linked(mem, b) == Fill(mem, b, 0, MI_INTPTR_SIZE, "link")

-----------------------------------------------------------------------------
(* Free lists. *)

\* mi_page_extend_free, by one block; what is_zero_init says of fresh memory is so.
PageExtend(mem, c) ==
  LET pg == mem.pg[c] b == <<c, pg.cap>>
      fresh == [k \in Bytes(0, UsableBlock(c)) |-> IF pg.zinit THEN "zero" ELSE "old"]
      mem1 == [mem EXCEPT !.cells = (b :> fresh) @@ @,
                          !.pad = (b :> [ok |-> FALSE, delta |-> 0]) @@ @,
                          !.pg[c].free = <<pg.cap>>, !.pg[c].cap = @ + 1,
                          !.pg[c].zero = @ /\ pg.zinit]
  IN IF pg.free # <<>> \/ pg.cap >= PerPage THEN mem ELSE Linked(mem1, b)

\* A faulty variant: blocks that were used go back to a page that says they are zero.
CollectStillZero(pg) ==
  LET local == pg.tfree \o pg.local IN
  IF local # <<>> /\ pg.free = <<>>
  THEN [pg EXCEPT !.tfree = <<>>, !.free = local, !.local = <<>>]
  ELSE [pg EXCEPT !.tfree = <<>>, !.local = local]

\* _mi_page_free_collect without force
Collect(pg) ==
  LET local == pg.tfree \o pg.local IN
  IF local # <<>> /\ pg.free = <<>>
  THEN [pg EXCEPT !.tfree = <<>>, !.free = local, !.local = <<>>, !.zero = FALSE]
  ELSE [pg EXCEPT !.tfree = <<>>, !.local = local]

-----------------------------------------------------------------------------
(* Padding. *)

\* mi_verify_padding: the canary and the first bytes after what was asked for.
VerifyPadding(mem, b) ==
  LET pad == mem.pad[b] at == UsableBlock(b[1]) - pad.delta IN
  /\ pad.ok
  /\ \A k \in Bytes(at, Min2(pad.delta, MI_MAX_ALIGN_SIZE)) : mem.cells[b][k] = "fill"

\* mi_padding_shrink, for the link of the list the block goes on.
PaddingShrink(mem, b) ==
  LET bsize == UsableBlock(b[1]) pad == mem.pad[b] IN
  IF ~pad.ok \/ bsize - pad.delta >= MI_INTPTR_SIZE THEN mem
  ELSE [mem EXCEPT !.pad[b].delta = bsize - MI_INTPTR_SIZE]

\* mi_page_usable_size_of
UsableOf(mem, b) == IF mem.pad[b].ok THEN UsableBlock(b[1]) - mem.pad[b].delta ELSE 0

\* _mi_page_ptr_unalign, where the page has aligned pointers.
Unaligned(mem, p) ==
  IF mem.pg[p[1]].aligned
  THEN LET a == Addr(p) - (Addr(p) % p[1]) IN <<p[1], a \div p[1], 0>>
  ELSE p

\* _mi_usable_size
UsableSize(mem, p) ==
  LET q == Unaligned(mem, p) IN UsableOf(mem, BlockOf(q)) - (Addr(p) - Addr(q))

-----------------------------------------------------------------------------
(* Free. *)

\* The debug checks of a free: a report of a double free or of an overflow.
Alarmed(mem, q) ==
  LET pg == mem.pg[q[1]] IN
  \/ q[3] # 0
  \/ \E l \in {pg.free, pg.local, pg.tfree} : \E k \in DOMAIN l : l[k] = q[2]
  \/ ~VerifyPadding(mem, BlockOf(q))

\* mi_free and mi_free_generic by the owner: the bytes and the padding are wiped.
FreeLocal(mem, p) ==
  LET q == Unaligned(mem, p) b == BlockOf(q)
      wiped == Fill([mem EXCEPT !.alarm = @ \/ Alarmed(mem, q), !.pad[b].ok = FALSE,
                                !.pg[b[1]].local = <<b[2]>> \o @], b, 0, b[1], "freed")
  IN Linked(wiped, b)

\* _mi_free_block_mt: to the page's thread_free, or to the heap's delayed list.
FreeMt(mem, p, delayed) ==
  LET q == Unaligned(mem, p) b == BlockOf(q)
      shrunk == PaddingShrink([mem EXCEPT !.alarm = @ \/ q[3] # 0 \/ ~VerifyPadding(mem, b)], b)
      linked == Linked(Fill(shrunk, b, 0, UsableOf(shrunk, b), "freed"), b)
  IN IF delayed THEN [linked EXCEPT !.delayed = <<b>> \o @]
     ELSE [linked EXCEPT !.pg[b[1]].tfree = <<b[2]>> \o @]

\* _mi_heap_delayed_free: each is freed by the owner, its page collected first.
RECURSIVE DelayedFree(_)
DelayedFree(mem) ==
  IF mem.delayed = <<>> THEN mem
  ELSE LET b == Head(mem.delayed) IN
       DelayedFree(FreeLocal([mem EXCEPT !.delayed = Tail(@), !.pg[b[1]] = Collect(@)],
                             <<b[1], b[2], 0>>))

-----------------------------------------------------------------------------
(* Allocation: [mem, p] with p the block, or NULL. *)

\* A page with a free block, for _mi_malloc_generic.
FindPage(mem, c) ==
  LET collected(mem1) == [mem1 EXCEPT !.pg[c] = Collect(@)]
  IN PageExtend(collected(DelayedFree(mem)), c)

\* _mi_page_malloc of block b, the first of the page's free ones.
TakeBlock(mem, b, padsize) ==
  LET c == b[1]
      delta == UsableBlock(c) - (padsize - MI_PADDING_SIZE)
      mem1 == [mem EXCEPT !.pg[c].free = Tail(@), !.pad[b] = [ok |-> TRUE, delta |-> delta]]
      mem2 == IF mem.pg[c].zero THEN mem1 ELSE Fill(mem1, b, 0, padsize, "uninit")
  IN [mem |-> Fill(mem2, b, UsableBlock(c) - delta, Min2(delta, MI_MAX_ALIGN_SIZE), "fill"),
      p |-> <<c, b[2], 0>>]
PageMallocFound(mem, c, padsize) ==
  IF mem.pg[c].free = <<>> THEN [mem |-> mem, p |-> NULL]
  ELSE TakeBlock(mem, <<c, Head(mem.pg[c].free)>>, padsize)
PageMalloc(mem, c, padsize) ==
  PageMallocFound(IF mem.pg[c].free = <<>> THEN FindPage(mem, c) ELSE mem, c, padsize)

\* _mi_block_zero_init
ZeroInit(r, size) ==
  LET b == BlockOf(r.p) IN
  IF r.p = NULL THEN r
  ELSE IF r.mem.pg[r.p[1]].zero /\ size > MI_INTPTR_SIZE
       THEN [r EXCEPT !.mem = Fill(r.mem, b, 0, MI_INTPTR_SIZE, "zero")]
       ELSE [r EXCEPT !.mem = Fill(r.mem, b, 0, UsableSize(r.mem, r.p), "zero")]
Zeroed(r, size, zero) == IF zero THEN ZeroInit(r, size) ELSE r

\* _mi_heap_malloc_zero
Malloc(mem, size, zero) ==
  LET padsize == (IF size = 0 THEN MI_INTPTR_SIZE ELSE size) + MI_PADDING_SIZE
  IN Zeroed(PageMalloc(mem, GoodSize(padsize), padsize), size, zero)

\* The end of mi_heap_malloc_zero_aligned_at: a pointer inside a larger block.
Adjusted(r, off) ==
  LET adjust == (Align - ((Addr(r.p) + off) % Align)) % Align IN
  IF r.p = NULL \/ adjust = 0 THEN r
  ELSE [mem |-> [r.mem EXCEPT !.pg[r.p[1]].aligned = TRUE],
        p |-> <<r.p[1], r.p[2], adjust>>]

MallocAligned(mem, size, off, zero) ==
  LET padsize == size + MI_PADDING_SIZE
      c == GoodSize(padsize)
      free == mem.pg[c].free
  IN IF free # <<>> /\ (Addr(<<c, Head(free), 0>>) + off) % Align = 0
     THEN Zeroed(PageMalloc(mem, c, padsize), size, zero)
     ELSE IF off = 0 /\ Align <= padsize /\ padsize % Align = 0
          THEN Malloc(mem, size, zero)
          ELSE Adjusted(Malloc(mem, size + Align - 1, zero), off)

-----------------------------------------------------------------------------
(* Reallocation. *)

\* memcpy of the first n bytes of block pointer p to q.
Copy(mem, q, p, n) ==
  [mem EXCEPT !.cells[BlockOf(q)] =
     [k \in DOMAIN @ |-> IF k - q[3] \in 0..(n - 1) THEN mem.cells[BlockOf(p)][p[3] + k - q[3]] ELSE @[k]]]

\* Bytes n - 8 .. size - 1 of the new block are cleared before the copy.
ZeroTail(mem, q, n, size) ==
  LET start == IF n >= MI_INTPTR_SIZE THEN n - MI_INTPTR_SIZE ELSE 0
  IN Fill(mem, BlockOf(q), q[3] + start, size - start, "zero")

Moved(mem, r, p, n, newsize, clear) ==
  IF r.p = NULL THEN [mem |-> r.mem, p |-> NULL]
  ELSE LET mem1 == IF clear THEN ZeroTail(r.mem, r.p, n, newsize) ELSE r.mem
       IN [mem |-> FreeLocal(Copy(mem1, r.p, p, Min2(n, newsize)), p), p |-> r.p]

\* _mi_heap_realloc_zero
Realloc(mem, p, newsize, zero) ==
  LET n == UsableSize(mem, p) IN
  IF newsize <= n /\ newsize >= n \div 2 THEN [mem |-> mem, p |-> p]
  ELSE Moved(mem, Malloc(mem, newsize, FALSE), p, n, newsize, zero /\ newsize > n)

\* mi_heap_realloc_zero_aligned_at: a page that says it is zero needs no clearing.
MovedAligned(mem, r, p, n, newsize, zero) ==
  Moved(mem, r, p, n, newsize, zero /\ newsize > n /\ r.p # NULL /\ ~r.mem.pg[r.p[1]].zero)
ReallocAligned(mem, p, newsize, off, zero) ==
  LET n == UsableSize(mem, p)
  IN IF newsize <= n /\ newsize >= n - (n \div 2) /\ (Addr(p) + off) % Align = 0
     THEN [mem |-> mem, p |-> p]
     ELSE MovedAligned(mem, MallocAligned(mem, newsize, off, FALSE), p, n, newsize, zero)

-----------------------------------------------------------------------------
(* The program. *)

Init ==
  /\ \E z \in BOOLEAN :
       m = [pg |-> [c \in Classes |-> [cap |-> 0, free |-> <<>>, local |-> <<>>, tfree |-> <<>>,
                                       zero |-> z, zinit |-> z, aligned |-> FALSE]],
            cells |-> <<>>, pad |-> <<>>, delayed |-> <<>>, alarm |-> FALSE]
  /\ ptrs = {}
  /\ ops = 0

Tick == ops < MaxOps /\ ops' = ops + 1

Contents(n, v) == [k \in Bytes(0, n) |-> v]

\* The program holds r.p with the contents want, in place of the pointer h.
Gets(r, h, al, off, want) ==
  /\ m' = r.mem
  /\ ptrs' = IF r.p = NULL THEN ptrs
             ELSE (ptrs \ h) \cup {[p |-> r.p, align |-> al, off |-> off, want |-> want]}

DoMalloc(size, zero) ==
  /\ Tick
  /\ Gets(Malloc(m, size, zero), {}, 8, 0, Contents(size, IF zero THEN "zero" ELSE "any"))

DoMallocAligned(size, off, zero) ==
  /\ Tick
  /\ Gets(MallocAligned(m, size, off, zero), {}, Align, off,
          Contents(size, IF zero THEN "zero" ELSE "any"))

\* What the program may expect after a move from n usable bytes to newsize.
Expected(want, n, newsize, zero) ==
  [k \in Bytes(0, newsize) |->
     IF k < n THEN (IF k \in DOMAIN want THEN want[k] ELSE "any") ELSE IF zero THEN "zero" ELSE "any"]

Resized(r, h, al, off, want) == Gets(r, {h}, al, off, IF r.p = h.p THEN h.want ELSE want)

DoRealloc(h, newsize, zero) ==
  /\ Tick
  /\ Resized(Realloc(m, h.p, newsize, zero), h, 8, 0, Expected(h.want, UsableSize(m, h.p), newsize, zero))

\* Where the old block is shorter than a word and the new one is of a zero page, the
\* rest of that word still shows the free-list link: nothing is expected of it.
LinkShows(r, n, k) == r.p # NULL /\ r.mem.pg[r.p[1]].zero /\ n < MI_INTPTR_SIZE /\ k \in n..7

ResizedAligned(r, h, off, n, want) ==
  Resized(r, h, Align, off, [k \in DOMAIN want |-> IF LinkShows(r, n, k) THEN "any" ELSE want[k]])
DoReallocAligned(h, newsize, off, zero) ==
  LET n == UsableSize(m, h.p)
  IN /\ Tick
     /\ ResizedAligned(ReallocAligned(m, h.p, newsize, off, zero), h, off, n, Expected(h.want, n, newsize, zero))

DoFree(h, mem) == Tick /\ ptrs' = ptrs \ {h} /\ m' = mem

\* The program writes all the bytes mi_usable_size grants it.
Write(h) ==
  LET n == UsableSize(m, h.p) IN
  /\ Tick
  /\ m' = Fill(m, BlockOf(h.p), h.p[3], n, "data")
  /\ ptrs' = (ptrs \ {h}) \cup {[h EXCEPT !.want = Contents(n, "data")]}

Next ==
  \/ \E size \in Sizes, zero \in BOOLEAN :
       \/ DoMalloc(size, zero)
       \/ \E off \in Offsets : DoMallocAligned(size, off, zero)
       \/ \E h \in ptrs : DoRealloc(h, size, zero)
       \/ \E h \in ptrs, off \in Offsets : DoReallocAligned(h, size, off, zero)
  \/ \E h \in ptrs : DoFree(h, FreeLocal(m, h.p)) \/ Write(h)
  \/ \E h \in ptrs, delayed \in BOOLEAN : DoFree(h, FreeMt(m, h.p, delayed))

Spec == Init /\ [][Next]_vars

-----------------------------------------------------------------------------
\* Whatever was allocated, moved and freed before, a pointer the program holds is
\* aligned as asked, its bytes are those the program or the zeroing put there, no
\* other pointer is into its block, and no check of a free ever reports a program
\* that kept to its bytes (alloc.c, alloc-aligned.c).
BlocksKeepContents ==
  /\ ~m.alarm
  /\ \A h \in ptrs :
       /\ (Addr(h.p) + h.off) % h.align = 0
       /\ DOMAIN h.want \subseteq 0..(UsableSize(m, h.p) - 1)
       /\ VerifyPadding(m, BlockOf(h.p))
       /\ \A k \in DOMAIN h.want :
            h.want[k] = "any" \/ m.cells[BlockOf(h.p)][h.p[3] + k] = h.want[k]
       /\ \A g \in ptrs \ {h} : BlockOf(g.p) # BlockOf(h.p)
=============================================================================
