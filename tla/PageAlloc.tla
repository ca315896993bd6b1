----------------------------- MODULE PageAlloc -----------------------------
(***************************************************************************)
(* What the page allocator promises its callers, without lists, bitmaps or *)
(* merging: a request for n pages gets an aligned run of the next power of *)
(* two that nobody holds, and fails only when there is none.  Module Buddy *)
(* implements it and module MemPool builds on it.                          *)
(***************************************************************************)
EXTENDS Integers

CONSTANTS PageCount,   \* the pages managed: numbers 0 to PageCount - 1
          MaxOrder,    \* no block is larger than 2^MaxOrder pages
          Request      \* the page counts callers ask for

VARIABLE held          \* the allocations in use, as [pfn, pages]

Pfn == 0..(PageCount - 1)

\* The size of the block that serves n pages: the least power of two not below n.
BlockSize(n) == CHOOSE s \in {2^k : k \in 0..(MaxOrder + 1)} : n <= s /\ s < 2 * n

Run(p, n) == p..(p + BlockSize(n) - 1)

Taken == UNION {Run(h.pfn, h.pages) : h \in held}

Init == held = {}

\* The starts of the runs that could serve n pages now.
Fit(n) == {p \in Pfn : /\ p % BlockSize(n) = 0
                       /\ Run(p, n) \subseteq Pfn \ Taken}

Alloc(n) == IF Fit(n) = {} THEN UNCHANGED held
            ELSE \E p \in Fit(n) : held' = held \cup {[pfn |-> p, pages |-> n]}

Free(h) == held' = held \ {h}

Next == \/ \E n \in Request : Alloc(n)
        \/ \E h \in held : Free(h)

Spec == Init /\ [][Next]_held
=============================================================================
