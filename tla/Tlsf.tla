-------------------------------- MODULE Tlsf --------------------------------
(***************************************************************************)
(* The heap of the user programs: user-test/lib/libc/malloc/malloc.c, a    *)
(* two-level segregated fit allocator.  Addresses and sizes are counted in *)
(* units of ALIGN_SIZE, 16 bytes, and a block is named by the address of   *)
(* its payload; its header takes the unit before it.                       *)
(*                                                                         *)
(* prev_phys_block of a block lies in the last bytes of the block before   *)
(* it, which belong to the program while that one is in use.               *)
(***************************************************************************)
EXTENDS Integers, FiniteSets, SequencesExt

CONSTANTS PoolSize,    \* pool_bytes in units
          SlLog2,      \* SL_INDEX_COUNT_LOG2
          Request,     \* the sizes asked for, rounded up to units
          Align        \* the alignments asked of memalign

VARIABLES heap,        \* the blocks and control_t
          held         \* history: what the program holds, as [ptr, size, align]

vars == <<heap, held>>

First == 1             \* the payload of the pool's first block
Junk == -1             \* what the program wrote over prev_phys_block
MinSize == 2           \* block_size_min
HeaderUnits == 3       \* sizeof(block_header_t), rounded up

(***************************************************************************)
(* Blocks and free lists.  h is a heap.                                    *)
(***************************************************************************)

Fls(n) == CHOOSE k \in 0..n : 2^k <= n /\ n < 2^(k + 1)

mapping_insert(size) ==
  IF size < 2^SlLog2 THEN <<0, size>>
  ELSE LET fl == Fls(size)
       IN <<fl - SlLog2 + 1, size \div 2^(fl - SlLog2) - 2^SlLog2>>

mapping_search(size) ==
  mapping_insert(IF size < 2^SlLog2 THEN size ELSE size + 2^(Fls(size) - SlLog2) - 1)

Index == {mapping_insert(s) : s \in 0..(2 * PoolSize)}

block_next(h, b) == b + h.blk[b].size + 1

block_remove(h, b) ==
  LET i == mapping_insert(h.blk[b].size)
      l == Remove(h.blocks[i], b)
      s == IF l = <<>> THEN h.sl_bitmap \ {i} ELSE h.sl_bitmap
  IN [h EXCEPT !.blocks[i] = l, !.sl_bitmap = s,
               !.fl_bitmap = IF \E j \in s : j[1] = i[1] THEN @ ELSE @ \ {i[1]}]

block_insert(h, b) ==
  LET i == mapping_insert(h.blk[b].size)
  IN [h EXCEPT !.blocks[i] = <<b>> \o @, !.sl_bitmap = @ \cup {i}, !.fl_bitmap = @ \cup {i[1]}]

\* block_mark_as_free links the next block back to this one; while a block is in use the
\* program writes over that link.
block_mark_as_free(h, b) ==
  [h EXCEPT !.blk[b].free = TRUE, !.blk[block_next(h, b)].prev_free = TRUE,
            !.blk[block_next(h, b)].prev = b]

block_mark_as_used(h, b) ==
  [h EXCEPT !.blk[b].free = FALSE, !.blk[block_next(h, b)].prev_free = FALSE,
            !.blk[block_next(h, b)].prev = Junk]

block_can_split(h, b, size) == h.blk[b].size >= HeaderUnits + size

\* block_split: the remaining block is free, the bit about the block before it is the
\* caller's to set.  Gives the new heap; the remaining block is at b + size + 1.
block_split(h, b, size, prev_free) ==
  LET r   == b + size + 1
      new == [size |-> h.blk[b].size - (size + 1), free |-> TRUE, prev_free |-> prev_free,
              prev |-> IF prev_free THEN b ELSE Junk]
      g   == [h EXCEPT !.blk = [a \in DOMAIN @ \cup {r} |->
                IF a = r THEN new ELSE IF a = b THEN [@[b] EXCEPT !.size = size] ELSE @[a]]]
  IN block_mark_as_free(g, r)

\* block_absorb: prev takes in the block behind it, and the one after that links back.
block_absorb(h, prev, b) ==
  LET size == h.blk[prev].size + h.blk[b].size + 1
  IN [h EXCEPT !.blk = [a \in DOMAIN @ \ {b} |->
        CASE a = prev -> [@[a] EXCEPT !.size = size]
          [] a = prev + size + 1 -> [@[a] EXCEPT !.prev = prev]
          [] OTHER -> @[a]]]

block_merge_next(h, b) ==
  LET n == block_next(h, b)
  IN IF h.blk[n].free THEN block_absorb(block_remove(h, n), b, n) ELSE h

\* block_merge_prev: the block it is merged into, and the heap.
block_prev(h, b) == IF h.blk[b].prev_free THEN h.blk[b].prev ELSE b
block_merge_prev(h, b) ==
  LET p == block_prev(h, b)
  IN IF p = b THEN h ELSE block_absorb(block_remove(h, p), p, b)

\* Faulty variant: the block behind is not taken in.
FreeMergesBack(h, b) ==
  LET g == block_mark_as_free(h, b)
  IN block_insert(block_merge_prev(g, b), block_prev(g, b))

tlsf_free(h, b) ==
  LET g == block_mark_as_free(h, b)
      p == block_prev(g, b)
  IN block_insert(block_merge_next(block_merge_prev(g, b), p), p)

(***************************************************************************)
(* Allocation                                                              *)
(***************************************************************************)

\* search_suitable_block: the first list that is not empty, from size's own on.
Suitable(h, size) ==
  LET i == mapping_search(size)
      s == {j \in h.sl_bitmap : j[1] = i[1] /\ j[2] >= i[2]}
      f == {k \in h.fl_bitmap : k > i[1]}
      fl == CHOOSE k \in f : \A m \in f : k <= m
      t == IF s # {} THEN s ELSE IF f = {} THEN {} ELSE {j \in h.sl_bitmap : j[1] = fl}
  IN IF t = {} THEN {} ELSE {CHOOSE j \in t : \A m \in t : j[2] <= m[2]}

block_trim_free(h, b, size) ==
  IF block_can_split(h, b, size)
  THEN block_insert(block_split(h, b, size, TRUE), b + size + 1) ELSE h

block_prepare_used(h, b, size) == block_mark_as_used(block_trim_free(h, b, size), b)

adjust_request_size(size) == IF size < MinSize THEN MinSize ELSE size

\* The blocks block_locate_free may return: none or one.
Located(h, size) == {Head(h.blocks[i]) : i \in Suitable(h, size)}

malloc(n) ==
  \E b \in Located(heap, adjust_request_size(n)) :
    /\ heap' = block_prepare_used(block_remove(heap, b), b, adjust_request_size(n))
    /\ held' = held \cup {[ptr |-> b, size |-> n, align |-> 1]}

AlignUp(x, a) == ((x + a - 1) \div a) * a

\* The aligned address in block b: a gap before it must hold a block of its own.
Aligned(b, align) ==
  LET a == AlignUp(b, align)
  IN IF a > b /\ a - b < HeaderUnits THEN a + align ELSE a

\* block_trim_free_leading gives a gap before address p back as a block; the heap, and the
\* block that is left.
block_trim_free_leading(h, b, p) ==
  IF p > b /\ block_can_split(h, b, p - b)
  THEN <<block_insert(block_split(h, b, p - b - 1, TRUE), b), p>> ELSE <<h, b>>

\* memalign with an alignment of more than a unit.
memalign(align, n) ==
  LET adjust == adjust_request_size(n)
  IN \E b \in Located(heap, AlignUp(adjust + align + HeaderUnits, align)) :
       LET t == block_trim_free_leading(block_remove(heap, b), b, Aligned(b, align))
       IN /\ heap' = block_prepare_used(t[1], t[2], adjust)
          /\ held' = held \cup {[ptr |-> t[2], size |-> n, align |-> align]}

free(a) == heap' = tlsf_free(heap, a.ptr) /\ held' = held \ {a}

\* block_trim_used
block_trim_used(h, b, size) ==
  IF block_can_split(h, b, size)
  THEN LET g == block_split(h, b, size, FALSE)
       IN block_insert(block_merge_next(g, b + size + 1), b + size + 1)
  ELSE h

\* realloc to a size other than 0: in place if the block, or the block with a free one
\* behind it, is large enough; otherwise a copy, and NULL changes nothing.
realloc(a, n) ==
  LET b == a.ptr
      size == heap.blk[b].size
      next == block_next(heap, b)
      adjust == adjust_request_size(n)
      grown == block_mark_as_used(block_merge_next(heap, b), b)
  IN IF adjust > size /\ (~heap.blk[next].free \/ adjust > size + heap.blk[next].size + 1)
     THEN \E c \in Located(heap, adjust) :
            /\ heap' = tlsf_free(block_prepare_used(block_remove(heap, c), c, adjust), b)
            /\ held' = (held \ {a}) \cup {[ptr |-> c, size |-> n, align |-> 1]}
     ELSE /\ heap' = block_trim_used(IF adjust > size THEN grown ELSE heap, b, adjust)
          /\ held' = (held \ {a}) \cup {[a EXCEPT !.size = n]}

(***************************************************************************)
(* Init is do_init_mem: control_construct and tlsf_add_pool, which make    *)
(* one free block of the pool and a used one of size 0 behind it.          *)
(***************************************************************************)

Whole == PoolSize - 2

Init ==
  LET last  == First + Whole + 1
      empty == [blk |-> [b \in {First, last} |->
                  [size |-> IF b = First THEN Whole ELSE 0, free |-> b = First,
                   prev_free |-> b = last, prev |-> IF b = last THEN First ELSE Junk]],
                blocks |-> [i \in Index |-> <<>>], sl_bitmap |-> {}, fl_bitmap |-> {}]
  IN heap = block_insert(empty, First) /\ held = {}

Next ==
  \/ \E n \in Request : malloc(n)
  \/ \E n \in Request, align \in Align : memalign(align, n)
  \/ \E a \in held : free(a)
  \/ \E a \in held, n \in Request : realloc(a, n)

Spec == Init /\ [][Next]_vars

(***************************************************************************)
(* Properties                                                              *)
(***************************************************************************)

Blocks == DOMAIN heap.blk
Last0 == First + Whole + 1

\* The blocks tile the pool from its first byte to the sentinel, no two free blocks are
\* neighbours, every boundary tag tells the state of the block before it, and the link back
\* is right wherever block_merge_prev would follow it.
TagsTell ==
  \A b \in Blocks \ {Last0} :
    LET n == block_next(heap, b)
    IN /\ n \in Blocks /\ heap.blk[b].size >= MinSize
       /\ \A c \in Blocks : ~(b < c /\ c < n)
       /\ heap.blk[n].prev_free = heap.blk[b].free
       /\ heap.blk[b].free => heap.blk[n].prev = b /\ ~heap.blk[n].free

\* The two bitmaps and the lists they summarise hold exactly the free blocks, each once,
\* in the list of its size: search_suitable_block, which trusts the bitmaps, finds one.
ListsTell ==
  /\ \A i \in Index :
       /\ IsInjective(heap.blocks[i])
       /\ Range(heap.blocks[i]) = {b \in Blocks : heap.blk[b].free /\ mapping_insert(heap.blk[b].size) = i}
       /\ i \in heap.sl_bitmap <=> heap.blocks[i] # <<>>
  /\ heap.fl_bitmap = {i[1] : i \in heap.sl_bitmap}

\* The heap is whole after any sequence of malloc, memalign, realloc and free, and comes
\* back in one piece: with nothing held, the pool is one free block again.
HeapWhole ==
  /\ TagsTell /\ ListsTell
  /\ held = {} => Blocks = {First, Last0} /\ heap.blk[First].free

\* Every pointer the program holds is aligned as it asked, to a block in use that is large
\* enough, and no two pointers share a block.
HeldSound ==
  /\ \A a \in held :
       /\ a.ptr \in Blocks /\ ~heap.blk[a.ptr].free
       /\ heap.blk[a.ptr].size >= a.size
       /\ a.ptr % a.align = 0
  /\ Cardinality({a.ptr : a \in held}) = Cardinality(held)
  /\ {b \in Blocks \ {Last0} : ~heap.blk[b].free} = {a.ptr : a \in held}
=============================================================================
