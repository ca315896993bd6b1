----------------------------- MODULE PageTable -----------------------------
(***************************************************************************)
(* The three-level page tables of arch/vm.c, one per address space, all    *)
(* built from the pages of one allocator that may run out.  An address is  *)
(* a page number, an index is one of Radix digits (512 in the code), and   *)
(* MAXVA is half of what three digits address.  Of the access rights only  *)
(* PTE_U is kept: walk_addr looks at no other.  Pages come from alloc_page *)
(* with whatever their last owner left in them.                            *)
(***************************************************************************)
EXTENDS Integers, FiniteSets, FiniteSetsExt

CONSTANTS Radix,    \* entries of a table
          Frame,    \* the pages alloc_page has, positive numbers
          Space,    \* address spaces
          Extent,   \* the <<first page, number of pages>> that are mapped and unmapped
          Target    \* first physical pages of mappings

VARIABLES tables,   \* the contents of every page in Frame, as a table
          free,     \* the pages alloc_page still has
          root,     \* vmspace_t.pgtbl of each space, NULL before the constructor
          flat,     \* ghost: what each virtual page was last mapped to
          request,  \* ghost: the operation that ended the machine
          machine   \* "running", or what ended it: "panic", "fault"

vars == <<tables, free, root, flat, request, machine>>

NULL == 0
MAXVA == Radix^3 \div 2
Page == 0..(MAXVA - 1)
PX(level, va) == (va \div Radix^level) % Radix

Invalid == [valid |-> FALSE, to |-> 0, user |-> FALSE]
Entry == [valid : BOOLEAN, to : Nat, user : BOOLEAN]
Zeroed == [i \in 0..(Radix - 1) |-> Invalid]
Stale == [i \in 0..(Radix - 1) |-> [valid |-> TRUE, to |-> Min(Frame), user |-> TRUE]]

Never == [ever |-> FALSE, entry |-> Invalid]   \* ghost: a page that was never mapped

Init ==
  /\ tables = [f \in Frame |-> Stale]
  /\ free = Frame
  /\ root = [s \in Space |-> NULL]
  /\ flat = [s \in Space |-> [a \in Page |-> Never]]
  /\ request = [op |-> "none", space |-> NULL, at |-> 0, size |-> 0]
  /\ machine = "running"

Asked(op, s, va, size) ==
  request' = IF machine' = "running" THEN request
             ELSE [op |-> op, space |-> s, at |-> va, size |-> size]

(***************************************************************************)
(* walk                                                                    *)
(***************************************************************************)

\* Faulty variant: the new table is linked as the allocator returned it.
DescendDirty(w, level, va, alloc) ==
  LET f == Min(w.free)
      e == w.tables[w.at][PX(level, va)]
  IN  IF w.at = NULL \/ (~e.valid /\ (~alloc \/ w.free = {})) THEN [w EXCEPT !.at = NULL]
      ELSE IF e.valid THEN [w EXCEPT !.at = e.to]
      ELSE [tables |-> [w.tables EXCEPT ![w.at][PX(level, va)] =
                          [valid |-> TRUE, to |-> f, user |-> FALSE]],
            free   |-> w.free \ {f},
            at     |-> f]

\* One round of walk's loop: from the table w.at to the one below it, made when alloc
\* asks for it; at becomes NULL where walk returns 0.
Descend(w, level, va, alloc) ==
  LET f == Min(w.free)
      e == w.tables[w.at][PX(level, va)]
  IN  IF w.at = NULL \/ (~e.valid /\ (~alloc \/ w.free = {})) THEN [w EXCEPT !.at = NULL]
      ELSE IF e.valid THEN [w EXCEPT !.at = e.to]
      ELSE [tables |-> [w.tables EXCEPT ![f] = Zeroed,
                                        ![w.at][PX(level, va)] =
                          [valid |-> TRUE, to |-> f, user |-> FALSE]],
            free   |-> w.free \ {f},
            at     |-> f]

\* walk: the table that holds the entry of va (the entry itself is PX(0, va) of it).
walk(t, fr, at, va, alloc) ==
  Descend(Descend([tables |-> t, free |-> fr, at |-> at], 2, va, alloc), 1, va, alloc)

walk_addr(pgtbl, va) ==
  LET w == walk(tables, free, pgtbl, va, FALSE)
      e == w.tables[w.at][PX(0, va)]
  IN  IF va >= MAXVA \/ w.at = NULL THEN 0
      ELSE IF ~e.valid \/ ~e.user THEN 0 ELSE e.to

(***************************************************************************)
(* The operations                                                          *)
(***************************************************************************)

\* The constructor of vmspace_t (and pagetable_create): memset clears the page without
\* asking whether there was one.
Create(s) ==
  /\ root[s] = NULL
  /\ IF free = {} THEN machine' = "fault" /\ UNCHANGED <<tables, free, root>>
     ELSE /\ root' = [root EXCEPT ![s] = Min(free)]
          /\ tables' = [tables EXCEPT ![Min(free)] = Zeroed]
          /\ free' = free \ {Min(free)}
          /\ UNCHANGED machine
  /\ Asked("create", s, 0, 0)
  /\ UNCHANGED flat

Loop == [tables : [Frame -> [0..(Radix - 1) -> Entry]], free : SUBSET Frame, pgtbl : Frame,
         a : Nat, last : Nat, pa : Nat, user : BOOLEAN, ret : {"going", "0", "-1", "panic"}]

\* The loop of map_range_in_pgtbl.  A page already mapped is reported and mapped anew.
MapPages[m \in Loop] ==
  LET w == walk(m.tables, m.free, m.pgtbl, m.a, TRUE)
      n == [m EXCEPT !.tables = [w.tables EXCEPT ![w.at][PX(0, m.a)] =
                                  [valid |-> TRUE, to |-> m.pa, user |-> m.user]],
                     !.free = w.free]
  IN  IF m.a >= MAXVA THEN [m EXCEPT !.ret = "panic"]
      ELSE IF w.at = NULL THEN [m EXCEPT !.tables = w.tables, !.free = w.free, !.ret = "-1"]
      ELSE IF m.a = m.last THEN [n EXCEPT !.ret = "0", !.a = @ + 1]
      ELSE MapPages[[n EXCEPT !.a = @ + 1, !.pa = @ + 1]]

\* The loop of unmap_range_in_pgtbl.
UnmapPages[m \in Loop] ==
  LET w == walk(m.tables, m.free, m.pgtbl, m.a, FALSE)
      n == [m EXCEPT !.tables = [w.tables EXCEPT ![w.at][PX(0, m.a)] = Invalid]]
  IN  IF m.a >= MAXVA \/ w.at = NULL THEN [m EXCEPT !.ret = "panic"]
      ELSE IF m.a = m.last THEN [n EXCEPT !.ret = "0", !.a = @ + 1]
      ELSE UnmapPages[[n EXCEPT !.a = @ + 1]]

Start(s, va, size, pa, user) ==
  [tables |-> tables, free |-> free, pgtbl |-> root[s], a |-> va, last |-> va + size - 1,
   pa |-> pa, user |-> user, ret |-> "going"]

Stores(m) ==
  /\ tables' = m.tables
  /\ free' = m.free
  /\ machine' = IF m.ret = "panic" THEN "panic" ELSE machine

\* map_range_in_pgtbl; when a table cannot be had it returns -1 with the pages before that
\* one mapped.
Map(s, va, size, pa, user) ==
  /\ root[s] # NULL
  /\ LET m == MapPages[Start(s, va, size, pa, user)]
     IN  /\ Stores(m)
         /\ flat' = [flat EXCEPT ![s] = [a \in Page |->
                       IF a \in va..(m.a - 1)
                       THEN [ever  |-> TRUE,
                             entry |-> [valid |-> TRUE, to |-> pa + a - va, user |-> user]]
                       ELSE @[a]]]
  /\ Asked("map", s, va, size)
  /\ UNCHANGED root

\* unmap_range_in_pgtbl
Unmap(s, va, size) ==
  /\ root[s] # NULL
  /\ LET m == UnmapPages[Start(s, va, size, 0, FALSE)]
     IN  /\ Stores(m)
         /\ flat' = [flat EXCEPT ![s] = [a \in Page |->
                       IF a \in va..(m.a - 1) THEN [@[a] EXCEPT !.entry = Invalid] ELSE @[a]]]
  /\ Asked("unmap", s, va, size)
  /\ UNCHANGED root

Next ==
  /\ machine = "running"
  /\ \/ \E s \in Space : Create(s)
     \/ \E s \in Space, x \in Extent, pa \in Target, user \in BOOLEAN : Map(s, x[1], x[2], pa, user)
     \/ \E s \in Space, x \in Extent : Unmap(s, x[1], x[2])

Spec == Init /\ [][Next]_vars

(***************************************************************************)
(* Properties                                                              *)
(***************************************************************************)

Upper == {f \in Frame : \E s \in Space : root[s] = f}
Below(F) == {tables[x[1]][x[2]].to :
               x \in {y \in (F \cap Frame) \X (0..(Radix - 1)) : tables[y[1]][y[2]].valid}}
Pointers(f) == {x \in (Upper \cup Below(Upper)) \X (0..(Radix - 1)) :
                  tables[x[1]][x[2]].valid /\ tables[x[1]][x[2]].to = f}

\* The tables of all address spaces are trees that share nothing: a page handed out by
\* alloc_page is the root of one space or the target of exactly one entry of one table,
\* also after a map that ran out of pages half way, and no page still free is in a tree.
TablesAreTrees ==
  /\ Upper \cup Below(Upper) \cup Below(Below(Upper)) = Frame \ free
  /\ \A f \in Frame \ free : Cardinality(Pointers(f)) = IF f \in Upper THEN 0 ELSE 1

\* What walk_addr finds through three levels is what the page was last mapped to, in every
\* space, whatever maps over mapped pages, unmaps and failed maps came between.
TranslationExact ==
  \A s \in Space : root[s] # NULL =>
    \A a \in Page : LET e == flat[s][a].entry
                    IN  walk_addr(root[s], a) = IF e.valid /\ e.user THEN e.to ELSE 0

\* The panic in unmap_range_in_pgtbl is never met for pages that were mapped at some time:
\* tables are never taken away again.
PanicsOnlyOnNeverMapped ==
  machine = "panic" =>
    \E a \in request.at..(request.at + request.size - 1) :
      \/ a >= MAXVA
      \/ request.op = "unmap" /\ ~flat[request.space][a].ever

TranslationsSound == TablesAreTrees /\ TranslationExact /\ PanicsOnlyOnNeverMapped
=============================================================================
