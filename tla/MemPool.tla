------------------------------ MODULE MemPool -------------------------------
EXTENDS Integers, FiniteSets, SequencesExt

(***************************************************************************)
(* The kernel heap: mm/mem_pool.c behind malloc and free of mm/kalloc.c.   *)
(* Small requests are served from pools of equal blocks carved out of      *)
(* pages of the page allocator, large ones by that allocator directly.     *)
(*                                                                         *)
(* malloc is called by system calls, with interrupts masked, by the boot   *)
(* thread in do_user_init, after main has enabled them, and by interrupt   *)
(* handlers (driver/virtio/keyboard.c, mouse.c).  Nothing in the heap      *)
(* masks interrupts, so an allocation of the boot thread is two steps:     *)
(* mem_pool_locate_free finds a block, mem_pool_del_block unlinks it.      *)
(***************************************************************************)

CONSTANTS PageCount, MaxOrder, Request,   \* as in PageAlloc
          Pool,         \* the size classes
          NoPool,
          PerPage,      \* the blocks a page of each class has behind its header
          NoBlock,
          Masked        \* thread context runs with interrupts masked

VARIABLES held,         \* the page allocator's allocations
          free_block,   \* pool->free_block of each class, head first
          owner,        \* header->pool of the pool pages
          free_count,   \* header->free_count
          located,      \* the block the thread has located and not yet unlinked
          users         \* history: how many callers hold each block

vars == <<held, free_block, owner, free_count, located, users>>

PageSource == INSTANCE PageAlloc

Pfn == 0..(PageCount - 1)
Block == {<<p, i>> : p \in Pfn, i \in 1..Max({PerPage[c] : c \in Pool})}
PoolPage(p) == [pfn |-> p, pages |-> 1]

Init ==
  /\ PageSource!Init
  /\ free_block = [c \in Pool |-> <<>>]
  /\ owner = [p \in Pfn |-> NoPool]
  /\ free_count = [p \in Pfn |-> 0]
  /\ located = NoBlock
  /\ users = [b \in Block |-> 0]

(***************************************************************************)
(* mem_pool_alloc                                                          *)
(***************************************************************************)

\* mem_pool_locate_free: the list the block is taken from, and the page that was
\* first carved up for it if the list was empty.  No outcome: out of memory.
Stock(c) ==
  IF free_block[c] # <<>>
  THEN {[list |-> free_block[c], new |-> {}]}
  ELSE {[list |-> [i \in 1..PerPage[c] |-> <<p, i>>], new |-> {p}] : p \in PageSource!Fit(1)}

\* mem_pool_alloc_page's bookkeeping, with taken blocks of its page in use.
Carve(c, s, taken) ==
  /\ held' = held \cup {PoolPage(p) : p \in s.new}
  /\ owner' = [p \in Pfn |-> IF p \in s.new THEN c ELSE owner[p]]
  /\ free_count' = [p \in Pfn |->
       (IF p \in s.new THEN PerPage[c] ELSE free_count[p])
         - Cardinality({b \in taken : b[1] = p})]

\* The thread finds the newest block of the class.
Locate(c) ==
  /\ located = NoBlock
  /\ \E s \in Stock(c) :
       /\ Carve(c, s, {})
       /\ free_block' = [free_block EXCEPT ![c] = s.list]
       /\ located' = Last(s.list)
  /\ UNCHANGED users

\* Faulty variant: the block is handed out and stays linked.
TakeKeepsLinked ==
  /\ located # NoBlock
  /\ free_count' = [free_count EXCEPT ![located[1]] = @ - 1]
  /\ users' = [users EXCEPT ![located] = @ + 1]
  /\ located' = NoBlock
  /\ UNCHANGED <<held, owner, free_block>>

\* mem_pool_prepare_used: it is unlinked and returned.  Only a linked block can be:
\* list_del has nulled the pointers of one that a handler took meanwhile, and the
\* second list_del faults.
Take ==
  /\ located # NoBlock
  /\ LET c == owner[located[1]]
     IN /\ located \in ToSet(free_block[c])
        /\ free_block' = [free_block EXCEPT ![c] = Remove(@, located)]
  /\ free_count' = [free_count EXCEPT ![located[1]] = @ - 1]
  /\ users' = [users EXCEPT ![located] = @ + 1]
  /\ located' = NoBlock
  /\ UNCHANGED <<held, owner>>

(***************************************************************************)
(* mem_pool_free                                                           *)
(***************************************************************************)

\* mem_pool_recycle gives the page back when its count of free blocks is zero.  It
\* looks at the count after it has added one, so it never does.
Returns(n) == n = 0

\* header->free_count++.
Counted(n) == n + 1

Recycle(b) ==
  LET p == b[1]
      c == owner[p]
      n == Counted(free_count[p])
  IN /\ users[b] > 0
     /\ users' = [users EXCEPT ![b] = @ - 1]
     /\ free_block' = [free_block EXCEPT ![c] = Append(@, b)]
     /\ free_count' = [free_count EXCEPT ![p] = n]
     /\ held' = IF Returns(n) THEN held \ {PoolPage(p)} ELSE held
     /\ UNCHANGED owner

(***************************************************************************)
(* Callers                                                                 *)
(***************************************************************************)

\* free of a small block by the thread.
ThreadFree(b) == located = NoBlock /\ Recycle(b) /\ UNCHANGED located

\* malloc and free of more than MEM_POOL_MAX_SIZE bytes.
PagesAlloc(n) ==
  /\ located = NoBlock
  /\ PageSource!Alloc(n)
  /\ UNCHANGED <<free_block, owner, free_count, located, users>>

PagesFree(h) ==
  /\ located = NoBlock
  /\ owner[h.pfn] = NoPool
  /\ PageSource!Free(h)
  /\ UNCHANGED <<free_block, owner, free_count, located, users>>

\* An interrupt is taken between two instructions of the thread, unless they are
\* masked.  The handler's malloc and free run to their end.
IrqTaken == Masked => located = NoBlock

IrqMalloc(c) ==
  /\ IrqTaken
  /\ \E s \in Stock(c) :
       /\ Carve(c, s, {Last(s.list)})
       /\ free_block' = [free_block EXCEPT ![c] = Front(s.list)]
       /\ users' = [users EXCEPT ![Last(s.list)] = @ + 1]
  /\ UNCHANGED located

IrqFree(b) == IrqTaken /\ Recycle(b) /\ UNCHANGED located

Next ==
  \/ \E c \in Pool : Locate(c) \/ IrqMalloc(c)
  \/ Take
  \/ \E b \in Block : ThreadFree(b) \/ IrqFree(b)
  \/ \E n \in Request : PagesAlloc(n)
  \/ \E h \in held : PagesFree(h)

Spec == Init /\ [][Next]_vars

(***************************************************************************)
(* Properties                                                              *)
(***************************************************************************)

\* Two callers never get the same block: what mm/ut/test.c asserts by filling three
\* blocks and reading them back.  A block in use is on no free list, and nobody is
\* about to be handed it.
NoBlockTwice ==
  \A b \in Block :
    /\ users[b] <= 1
    /\ users[b] = 1 => b # located /\ \A c \in Pool : b \notin ToSet(free_block[c])

\* A block in use or on a free list lies in a page the heap still holds, as long as
\* anybody may be given it.
BlocksBacked ==
  \A b \in Block :
    (users[b] > 0 \/ \E c \in Pool : b \in ToSet(free_block[c]))
      => PoolPage(b[1]) \in held /\ owner[b[1]] # NoPool

-----------------------------------------------------------------------------
(***************************************************************************)
(* The size arithmetic of mm/mem_pool.c with the constants the kernel is   *)
(* built with: how a request finds its pool, against the classes that      *)
(* mem_pool_create has set up.                                             *)
(***************************************************************************)

PAGE_SIZE == 4096
HeaderSize == 32                  \* sizeof(mem_pool_header_t)
MEM_POOL_MIN_SIZE == 16
MEM_POOL_MIN_SIZE_LOG2 == 4
MEM_POOL_ALIGN_SIZE_LOG2 == 4
MEM_POOL_S_INDEX_COUNT_LOG2 == 2
MEM_POOL_F_INDEX_COUNT == 8
MEM_POOL_MAX_SIZE == 4096 - 2^9

Fls(n) == CHOOSE k \in 0..31 : 2^k <= n /\ n < 2^(k + 1)

\* The bits of the second index for sizes of this magnitude.
Shift(log2) == LET s == log2 - MEM_POOL_ALIGN_SIZE_LOG2
               IN IF s < MEM_POOL_S_INDEX_COUNT_LOG2 THEN s ELSE MEM_POOL_S_INDEX_COUNT_LOG2

\* mem_pool_create: the classes, and the block size of each.
Created == {<<f, s>> \in (0..(MEM_POOL_F_INDEX_COUNT - 1)) \X (0..3) :
              s < 2^Shift(f + MEM_POOL_MIN_SIZE_LOG2)}

PoolSize(c) == LET log2 == c[1] + MEM_POOL_MIN_SIZE_LOG2
               IN 2^log2 + 2^(log2 - Shift(log2)) * c[2]

\* adjust_request_size.
AdjustRequestSize(n) ==
  LET m == IF n < MEM_POOL_MIN_SIZE THEN MEM_POOL_MIN_SIZE ELSE n
      a == 2^(Fls(m) - Shift(Fls(m)))
  IN ((m + a - 1) \div a) * a

\* The indices mem_pool_locate_free computes from the adjusted size.
IndexOf(n) ==
  LET log2 == Fls(n)
      sh   == Shift(log2)
  IN <<log2 - MEM_POOL_MIN_SIZE_LOG2, (n \div 2^(log2 - sh)) % 2^sh>>

\* mem_pool_alloc up to the choice of the pool.
PoolFor(size) == IndexOf(AdjustRequestSize(size))

\* The class chosen for a size exists and is the smallest that holds it.
Fits(size) ==
  LET pool == PoolFor(size)
  IN /\ pool \in Created
     /\ PoolSize(pool) >= size
     /\ \A c \in Created : PoolSize(c) >= size => PoolSize(pool) <= PoolSize(c)

AllFit == \A size \in 1..MEM_POOL_MAX_SIZE : Fits(size)

\* mem_pool_alloc_page: the blocks of a page behind its header.
BlocksPerPage(c) == (PAGE_SIZE - HeaderSize) \div PoolSize(c)
=============================================================================
