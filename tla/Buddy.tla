------------------------------- MODULE Buddy -------------------------------
(***************************************************************************)
(* The page allocator mm/buddy.c.  A block of 2^k pages is described by    *)
(* the page_t of its first page (its head): order k and is_free.  The      *)
(* page_t of every other page has order INVALID_ORDER.  Free heads are     *)
(* kept in one list for each order, with a bitmap of the non-empty lists   *)
(* and a count for each.                                                   *)
(***************************************************************************)
EXTENDS Integers, FiniteSets, SequencesExt

CONSTANTS PageCount,   \* pages managed by the instance: max_pfn + 1
          MaxOrder,    \* MAX_ORDER
          Request      \* the page counts callers ask for

\* buddy_create gives at most one block of MAX_ORDER: the board has 128 MB of RAM,
\* fewer than 2^15 pages, and MAX_ORDER is 20.
ASSUME BuddyAssumption ==
  /\ MaxOrder \in Nat
  /\ PageCount \in 1..(2^(MaxOrder + 1) - 1)
  /\ Request \subseteq 1..2^MaxOrder

VARIABLES map,         \* system->map[pfn].order
          is_free,     \* the pages with flags.is_free set
          page_buddy,  \* the free list of each order, head first
          bitmap,      \* the orders whose bit is set
          count,       \* system->count
          held         \* history: what callers hold, as [pfn, pages]

buddyVars == <<map, is_free, page_buddy, bitmap, count>>
vars == <<buddyVars, held>>

Pfn == 0..(PageCount - 1)
Order == 0..MaxOrder
INVALID_ORDER == -1

\* buddy_fls_sizet and buddy_ffs_sizet.
Fls(n) == CHOOSE k \in 0..n : 2^k <= n /\ n < 2^(k + 1)
Ffs(S) == CHOOSE k \in S : \A j \in S : k <= j

\* Faulty variant: the order rounded down.
OrderRoundedDown(n) == Fls(n)

\* The order of the block that serves a request of n pages.
OrderFor(n) == Fls(n + 2^Fls(n) - 1)

\* The first page of the aligned block of 2^k pages around p, and the first page
\* of its buddy: pfn ^ (1 << k).
Combined(p, k) == p - (p % 2^k)
BuddyPfn(p, k) == LET q == Combined(p, k)
                  IN IF (q \div 2^k) % 2 = 0 THEN q + 2^k ELSE q - 2^k

Span(p, k) == p..(p + 2^k - 1)

\* The greedy layout of buddy_create: the largest block that fits, then the
\* largest that fits behind it.
Layout == [p \in Pfn |->
  LET fits == {k \in Order : /\ (PageCount \div 2^k) % 2 = 1
                             /\ p = (PageCount \div 2^(k + 1)) * 2^(k + 1)}
  IN IF fits = {} THEN INVALID_ORDER ELSE CHOOSE k \in fits : TRUE]

Init ==
  /\ map = Layout
  /\ is_free = {p \in Pfn : Layout[p] # INVALID_ORDER}
  /\ page_buddy = [k \in Order |-> SetToSeq({p \in Pfn : Layout[p] = k})]
  /\ bitmap = {Layout[p] : p \in is_free}
  /\ count = [k \in Order |-> Cardinality({p \in Pfn : Layout[p] = k})]
  /\ held = {}

(***************************************************************************)
(* buddy_alloc_page                                                        *)
(***************************************************************************)

\* The bits buddy_del_page clears when list is what is left of list k.
Cleared(k, list) == IF list = <<>> THEN {k} ELSE {}

\* The orders of the upper halves page_split gives back.
Halves(was, k) == k..(was - 1)

\* page_prepare_used: the head p leaves its list; while it is larger than asked
\* for, page_split makes its upper half a free block of its own.
PrepareUsed(p, k) ==
  LET was  == map[p]
      new  == Halves(was, k)
      half == {p + 2^j : j \in new}
      rest == Remove(page_buddy[was], p)
  IN /\ map' = [q \in Pfn |-> IF q = p THEN k
                              ELSE IF q \in half THEN Fls(q - p) ELSE map[q]]
     /\ is_free' = (is_free \ {p}) \cup half
     /\ page_buddy' = [j \in Order |->
          CASE j = was   -> rest
            [] j \in new -> Append(page_buddy[j], p + 2^j)
            [] OTHER     -> page_buddy[j]]
     /\ bitmap' = (bitmap \ Cleared(was, rest)) \cup new
     /\ count' = [j \in Order |->
          CASE j = was -> count[j] - 1 [] j \in new -> count[j] + 1 [] OTHER -> count[j]]

\* The lists buddy_locate_free may serve order k from: its own when it is not
\* empty, otherwise the first larger one in the bitmap.
Source(k) == IF page_buddy[k] # <<>> THEN {k}
             ELSE LET larger == {j \in bitmap : j >= k}
                  IN IF larger = {} THEN {} ELSE {Ffs(larger)}

\* buddy_alloc_page(n): the newest block of that list, or NULL.
Alloc(n) ==
  LET k == OrderFor(n) IN
  IF Source(k) = {} THEN UNCHANGED vars
  ELSE \E j \in Source(k) :
         LET p == Last(page_buddy[j])
         IN PrepareUsed(p, k) /\ held' = held \cup {[pfn |-> p, pages |-> n]}

(***************************************************************************)
(* buddy_free_page                                                         *)
(***************************************************************************)

\* Faulty variant: no buddy is ever taken in.
MergesNever(p, j) == FALSE

\* The conditions under which page_merge takes in the buddy of order j.
Merges(p, j) == LET b == BuddyPfn(p, j)
                IN b \in Pfn /\ map[b] = j /\ b \in is_free

\* page_merge: the order the loop ends with.
MergedOrder(p) ==
  CHOOSE k \in map[p]..(MaxOrder + 1) :
    /\ \A j \in map[p]..(k - 1) : Merges(p, j)
    /\ k = MaxOrder + 1 \/ ~Merges(p, k)

\* buddy_free_page: the buddies taken in leave their lists, the upper page of each
\* pair becomes invalid, and the merged block goes to the tail of its list.
FreePage(p) ==
  LET k     == MergedOrder(p)
      top   == Combined(p, k)
      taken == map[p]..(k - 1)
      gone  == {Combined(p, j + 1) + 2^j : j \in taken}
      left  == [j \in Order |-> IF j \in taken THEN Remove(page_buddy[j], BuddyPfn(p, j))
                                ELSE page_buddy[j]]
  IN /\ map' = [q \in Pfn |-> IF q = top THEN k
                              ELSE IF q \in gone THEN INVALID_ORDER ELSE map[q]]
     /\ is_free' = (is_free \ {BuddyPfn(p, j) : j \in taken}) \cup {top}
     /\ page_buddy' = [left EXCEPT ![k] = Append(@, top)]
     /\ bitmap' = (bitmap \ UNION {Cleared(j, left[j]) : j \in taken}) \cup {k}
     /\ count' = [j \in Order |->
          CASE j \in taken -> count[j] - 1 [] j = k -> count[j] + 1 [] OTHER -> count[j]]

\* A caller gives back what it holds, once.
Free(h) == FreePage(h.pfn) /\ held' = held \ {h}

Next == \/ \E n \in Request : Alloc(n)
        \/ \E h \in held : Free(h)

Spec == Init /\ [][Next]_vars

(***************************************************************************)
(* Properties                                                              *)
(***************************************************************************)

Heads == {p \in Pfn : map[p] # INVALID_ORDER}

\* Splitting and merging never lose a page or describe it twice: the blocks are
\* aligned to their size and tile the managed memory.
BlocksTile ==
  /\ \A p \in Heads : p % 2^map[p] = 0 /\ Span(p, map[p]) \subseteq Pfn
  /\ \A q \in Pfn : Cardinality({p \in Heads : q \in Span(p, map[p])}) = 1

\* The three records of what is free agree: a list holds the free heads of its
\* order once each, its bit is set when it is not empty, its count is its length
\* (the assertion at the top of buddy_locate_free).
ListsAgree ==
  \A k \in Order :
    /\ ToSet(page_buddy[k]) = {p \in is_free : map[p] = k}
    /\ Len(page_buddy[k]) = Cardinality(ToSet(page_buddy[k]))
    /\ k \in bitmap <=> page_buddy[k] # <<>>
    /\ count[k] = Len(page_buddy[k])

\* The allocator keeps the promise of module PageAlloc: what it hands out is its
\* caller's alone until it is freed, and it fails only when no aligned run of free
\* pages would do, because page_merge leaves no two free buddies apart whatever the
\* order of the frees.
Promise == INSTANCE PageAlloc WITH held <- held
KeepsPromise == Promise!Spec

\* Nothing is lost over time: once everything has been given back the memory is
\* laid out as buddy_create left it.
AllComesBack == held = {} => map = Layout /\ is_free = Heads
=============================================================================
