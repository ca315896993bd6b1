------------------------------ MODULE MCMemory ------------------------------
(***************************************************************************)
(* The managers of memory, one in each behaviour: the page allocator over  *)
(* nine pages, the kernel heap with two of its real size classes over      *)
(* three pages (those of 1792 bytes, two blocks to a page, and of 2560     *)
(* bytes, a single block), the heap of a user program over a pool of       *)
(* twenty 16-byte units, and the page tables of two address spaces with    *)
(* seven pages to build them from.  The others stay as initialised.        *)
(***************************************************************************)
EXTENDS Buddy

CONSTANTS Parts, Masked, NoPool, NoBlock

VARIABLES part,
          pages, free_block, owner, free_count, located, users,   \* of MemPool
          heap, ptrs,                                             \* of Tlsf
          tables, free, root, flat, request, machine              \* of PageTable

\* The classes of 1792 and of 2560 bytes, and the blocks behind the header of a page.
MCPool == {<<6, 3>>, <<7, 1>>}
MCPerPage == [c \in MCPool |-> IF c = <<6, 3>> THEN 2 ELSE 1]

Kheap == INSTANCE MemPool WITH PageCount <- 3, MaxOrder <- 1, Request <- {1, 2},
           Pool <- MCPool, PerPage <- MCPerPage, held <- pages

Uheap == INSTANCE Tlsf WITH PoolSize <- 20, SlLog2 <- 1, Request <- {1, 3, 5},
           Align <- {2, 4}, held <- ptrs

\* Mappings that start behind a table's last entry but one, in tables of four entries.
MCExtent == {<<3, 2>>, <<15, 2>>, <<31, 2>>}
Tables == INSTANCE PageTable WITH Radix <- 4, Frame <- 1..7, Space <- {7, 8},
            Extent <- MCExtent, Target <- {100}

kheapVars == <<pages, free_block, owner, free_count, located, users>>
uheapVars == <<heap, ptrs>>
tableVars == <<tables, free, root, flat, request, machine>>
memVars == <<part, vars, kheapVars, uheapVars, tableVars>>

MemInit == part \in Parts /\ Init /\ Kheap!Init /\ Uheap!Init /\ Tables!Init

\* A panic or a fault has stopped the machine.
Stopped == part = "tables" /\ machine # "running" /\ UNCHANGED memVars

MemNext ==
  \/ part = "pages" /\ Next /\ UNCHANGED <<part, kheapVars, uheapVars, tableVars>>
  \/ part = "kheap" /\ Kheap!Next /\ UNCHANGED <<part, vars, uheapVars, tableVars>>
  \/ part = "uheap" /\ Uheap!Next /\ UNCHANGED <<part, vars, kheapVars, tableVars>>
  \/ part = "tables" /\ Tables!Next /\ UNCHANGED <<part, vars, kheapVars, uheapVars>>
  \/ Stopped

MemSpec == MemInit /\ [][MemNext]_memVars

(***************************************************************************)
(* Properties                                                              *)
(***************************************************************************)

\* The page allocator's records describe its memory exactly: the blocks tile it, the
\* lists, bitmap and counts agree on what is free, and when everything has been given back
\* the memory is laid out as buddy_create left it.
PagesAccounted == BlocksTile /\ ListsAgree /\ AllComesBack

\* Two callers of the kernel's malloc never get the same block.
NoBlockTwice == Kheap!NoBlockTwice

\* Both heaps.  A block of the kernel's heap that is in use or on a free list lies in a page
\* the heap still holds; every request gets the smallest class that holds it, through two
\* computations of the logarithm of two different sizes (rounding up may carry into the next
\* power of two), and a page that was carved up has the blocks of its class.  The user heap is
\* whole after any sequence of malloc, memalign, realloc and free: its tags, lists and bitmaps
\* describe the same blocks, every pointer the program holds is aligned as asked and to a
\* block of its own that is large enough, and with nothing held the pool is one free block.
HeapsSound ==
  /\ Kheap!BlocksBacked
  /\ \A p \in DOMAIN owner :
       owner[p] # NoPool => /\ owner[p] \in Kheap!Created
                            /\ Kheap!BlocksPerPage(owner[p]) = MCPerPage[owner[p]]
  /\ part = "kheap" /\ pages = {} => Kheap!AllFit
  /\ Uheap!HeapWhole /\ Uheap!HeldSound

\* The tables of all address spaces are trees that share nothing, walk_addr finds through
\* three levels what each page was last mapped to, whatever maps over mapped pages, unmaps
\* and maps that ran out of pages came between, and unmapping panics only on pages that
\* were never mapped.
TranslationsSound == Tables!TranslationsSound
=============================================================================
