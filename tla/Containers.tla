----------------------------- MODULE Containers -----------------------------
EXTENDS Integers, SequencesExt, FiniteSets, Functions

(***************************************************************************)
(* The red-black tree behind the kernel's timers: lib/rbtree.c and         *)
(* include/rbtree_augmented.h (user-test/lib/libx has the same code), with *)
(* the descent core/timer.c makes before rb_link_node.                     *)
(*                                                                         *)
(* A tree t is a record of the root and, for each node, its children by    *)
(* side, its parent and its colour (the two halves of __rb_parent_color).  *)
(* The code writes every case twice, for the left and the right side; the  *)
(* operators take the side as an argument.                                 *)
(***************************************************************************)

CONSTANTS Node,        \* the timers, numbers
          expires      \* timer->expires of each

VARIABLES tree,
          order        \* history: the timers in the tree, by expiry and then by arrival

rbVars == <<tree, order>>

NULL == 0
Side == {"left", "right"}
Other(s) == IF s = "left" THEN "right" ELSE "left"

RbInit ==
  /\ tree = [root |-> NULL, child |-> [s \in Side |-> [n \in Node |-> NULL]],
             parent |-> [n \in Node |-> NULL], red |-> [n \in Node |-> FALSE]]
  /\ order = <<>>

(***************************************************************************)
(* Stores                                                                  *)
(***************************************************************************)

rb_set_parent_color(t, n, p, red) == [t EXCEPT !.parent[n] = p, !.red[n] = red]

\* The stores that the code guards by if(n).
SetIfAny(t, n, p, red) == IF n = NULL THEN t ELSE rb_set_parent_color(t, n, p, red)

SetChild(t, s, p, n) == [t EXCEPT !.child[s][p] = n]

__rb_change_child(t, old, new, p) ==
  IF p = NULL THEN [t EXCEPT !.root = new]
  ELSE SetChild(t, IF t.child["left"][p] = old THEN "left" ELSE "right", p, new)

__rb_rotate_set_parents(t, old, new, red) ==
  LET p == t.parent[old]
      u == rb_set_parent_color(t, new, p, t.red[old])
  IN __rb_change_child(rb_set_parent_color(u, old, new, red), old, new, p)

IsRed(t, n) == n # NULL /\ t.red[n]

(***************************************************************************)
(* Insertion                                                               *)
(***************************************************************************)

\* Case 3: rotate at the grandparent g; parent is its child on side s.
InsertRotate(t, s, g, parent) ==
  LET o   == Other(s)
      tmp == t.child[o][parent]
      u   == SetChild(SetChild(t, s, g, tmp), o, parent, g)
  IN __rb_rotate_set_parents(SetIfAny(u, tmp, g, FALSE), g, parent, TRUE)

\* Case 2: node is on the inner side, rotate at parent.
InsertTurn(t, s, node, parent) ==
  LET o   == Other(s)
      tmp == t.child[s][node]
      u   == SetChild(SetChild(t, o, parent, tmp), s, node, parent)
  IN rb_set_parent_color(SetIfAny(u, tmp, parent, FALSE), parent, node, TRUE)

RECURSIVE __rb_insert(_, _)
__rb_insert(t, node) ==
  LET parent == t.parent[node]
      g == t.parent[parent]
      s == IF parent # t.child["right"][g] THEN "left" ELSE "right"
      uncle == t.child[Other(s)][g]
      flipped == rb_set_parent_color(rb_set_parent_color(t, uncle, g, FALSE), parent, g, FALSE)
  IN IF parent = NULL THEN rb_set_parent_color(t, node, NULL, FALSE)
     ELSE IF ~t.red[parent] THEN t
     ELSE IF IsRed(t, uncle) THEN __rb_insert([flipped EXCEPT !.red[g] = TRUE], g)
     ELSE IF node = t.child[Other(s)][parent]
       THEN InsertRotate(InsertTurn(t, s, node, parent), s, g, node)
       ELSE InsertRotate(t, s, g, parent)

\* The descent of add_timer: earlier to the left, no earlier to the right.
RECURSIVE Descend(_, _, _)
Descend(t, n, at) ==
  LET s == IF expires[n] < expires[at] THEN "left" ELSE "right"
      next == t.child[s][at]
  IN IF next = NULL THEN <<at, s>> ELSE Descend(t, n, next)

rb_link_node(t, n, p, s) ==
  LET u == [t EXCEPT !.child["left"][n] = NULL, !.child["right"][n] = NULL,
                     !.parent[n] = p, !.red[n] = TRUE]
  IN IF p = NULL THEN [u EXCEPT !.root = n] ELSE SetChild(u, s, p, n)

add_timer(n) ==
  LET at == IF tree.root = NULL THEN <<NULL, "left">> ELSE Descend(tree, n, tree.root)
      i  == Len(SelectSeq(order, LAMBDA m : expires[m] <= expires[n]))
  IN /\ n \notin Range(order)
     /\ tree' = __rb_insert(rb_link_node(tree, n, at[1], at[2]), n)
     /\ order' = InsertAt(order, i + 1, n)

(***************************************************************************)
(* Erasure                                                                 *)
(***************************************************************************)

RECURSIVE Deepest(_, _, _)
Deepest(t, s, n) == IF t.child[s][n] = NULL THEN n ELSE Deepest(t, s, t.child[s][n])

\* Case 2 and 3 of __rb_erase_augmented: both children; the successor takes node's place.
\* Gives the tree and the node to rebalance at.
EraseInner(t, node) ==
  LET child == t.child["right"][node]
      succ  == Deepest(t, "left", child)
      child2 == t.child["right"][succ]
      parent == IF succ = child THEN succ ELSE t.parent[succ]
      u == IF succ = child THEN t
           ELSE [SetChild(SetChild(t, "left", parent, child2), "right", succ, child)
                   EXCEPT !.parent[child] = succ]
      left == t.child["left"][node]
      v == [SetChild(u, "left", succ, left) EXCEPT !.parent[left] = succ]
      w == __rb_change_child(v, node, succ, t.parent[node])
      x == rb_set_parent_color(w, succ, t.parent[node], t.red[node])
  IN IF child2 # NULL THEN <<rb_set_parent_color(x, child2, parent, FALSE), NULL>>
     ELSE <<x, IF t.red[succ] THEN NULL ELSE parent>>

__rb_erase_augmented(t, node) ==
  LET right == t.child["right"][node]
      left  == t.child["left"][node]
      only  == IF left = NULL THEN right ELSE left
      p     == t.parent[node]
      u     == __rb_change_child(t, node, only, p)
  IN IF left # NULL /\ right # NULL THEN EraseInner(t, node)
     ELSE IF only # NULL THEN <<rb_set_parent_color(u, only, p, t.red[node]), NULL>>
     ELSE <<u, IF t.red[node] THEN NULL ELSE p>>

\* Case 1: the sibling is red; rotate at the parent.  The sibling is then its near child.
EraseRedSibling(t, s, parent, sibling) ==
  LET tmp1 == t.child[s][sibling]
      u    == SetChild(SetChild(t, Other(s), parent, tmp1), s, sibling, parent)
  IN __rb_rotate_set_parents(rb_set_parent_color(u, tmp1, parent, FALSE), parent, sibling, TRUE)

\* Case 3: rotate at the sibling, whose near child takes its place.
EraseTurn(t, s, parent, sibling) ==
  LET o    == Other(s)
      tmp2 == t.child[s][sibling]
      tmp1 == t.child[o][tmp2]
      u    == SetChild(SetChild(SetChild(t, s, sibling, tmp1), o, tmp2, sibling), o, parent, tmp2)
  IN SetIfAny(u, tmp1, sibling, FALSE)

\* Case 4: rotate at the parent; far is the sibling's far child.
EraseRotate(t, s, parent, sibling, far) ==
  LET tmp2 == t.child[s][sibling]
      u    == SetChild(SetChild(t, Other(s), parent, tmp2), s, sibling, parent)
      v    == rb_set_parent_color(u, far, sibling, FALSE)
  IN __rb_rotate_set_parents(SetIfAny(v, tmp2, parent, IsRed(v, tmp2)), parent, sibling, FALSE)

RECURSIVE ____rb_erase_color(_, _, _)
____rb_erase_color(t0, node, parent) ==
  LET s    == IF node # t0.child["right"][parent] THEN "left" ELSE "right"
      o    == Other(s)
      sib0 == t0.child[o][parent]
      t    == IF t0.red[sib0] THEN EraseRedSibling(t0, s, parent, sib0) ELSE t0
      sib  == t.child[o][parent]
      near == t.child[s][sib]
      far  == t.child[o][sib]
      flip == rb_set_parent_color(t, sib, parent, TRUE)
  IN IF IsRed(t, far) THEN EraseRotate(t, s, parent, sib, far)
     ELSE IF IsRed(t, near)
       THEN EraseRotate(EraseTurn(t, s, parent, sib), s, parent, near, sib)
     ELSE IF t.red[parent] THEN [flip EXCEPT !.red[parent] = FALSE]
     ELSE IF t.parent[parent] = NULL THEN flip
     ELSE ____rb_erase_color(flip, parent, t.parent[parent])

\* Faulty variant: a black node is taken out and nothing repaired.
EraseUnrepaired(t, node) == __rb_erase_augmented(t, node)[1]

rb_erase(t, node) ==
  LET r == __rb_erase_augmented(t, node)
  IN IF r[2] = NULL THEN r[1] ELSE ____rb_erase_color(r[1], NULL, r[2])

\* A node outside the tree holds nothing that is read before rb_link_node stores to it.
RB_CLEAR_NODE(t, n) ==
  [t EXCEPT !.child["left"][n] = NULL, !.child["right"][n] = NULL,
            !.parent[n] = NULL, !.red[n] = FALSE]

del_timer(n) ==
  /\ n \in Range(order)
  /\ tree' = RB_CLEAR_NODE(rb_erase(tree, n), n)
  /\ order' = SelectSeq(order, LAMBDA m : m # n)

(***************************************************************************)
(* Walks: rb_first and rb_next, rb_last and rb_prev.                       *)
(***************************************************************************)

RECURSIVE Climb(_, _, _)
Climb(t, s, n) ==
  LET p == t.parent[n]
  IN IF p # NULL /\ n = t.child[s][p] THEN Climb(t, s, p) ELSE p

\* rb_next for s = "right", rb_prev for s = "left".
Neighbour(t, s, n) ==
  LET c == t.child[s][n]
  IN IF c # NULL THEN Deepest(t, Other(s), c) ELSE Climb(t, s, n)

RECURSIVE Walk(_, _, _)
Walk(t, s, n) == IF n = NULL THEN <<>> ELSE <<n>> \o Walk(t, s, Neighbour(t, s, n))

\* All nodes from rb_first by rb_next, or from rb_last by rb_prev.
AllBy(t, s) == IF t.root = NULL THEN <<>> ELSE Walk(t, s, Deepest(t, Other(s), t.root))

RbNext == \E n \in Node : add_timer(n) \/ del_timer(n)

RbSpec == RbInit /\ [][RbNext]_rbVars

(***************************************************************************)
(* Properties                                                              *)
(***************************************************************************)

\* Walking the tree with rb_first and rb_next meets every timer in it once, by expiry and
\* equal ones in the order they were added, and rb_last with rb_prev the reverse: what
\* core/timer.c takes as its next timer is the one due first.
TreeIsQueue == AllBy(tree, "right") = order /\ AllBy(tree, "left") = Reverse(order)

RECURSIVE BlackHeight(_)
BlackHeight(n) ==
  IF n = NULL THEN 0
  ELSE LET h == {BlackHeight(tree.child[s][n]) : s \in Side}
       IN IF \E k \in h : h = {k} /\ k >= 0
          THEN (CHOOSE k \in h : TRUE) + (IF tree.red[n] THEN 0 ELSE 1) ELSE -1

\* The tree stays balanced through every insertion and erasure: the root is black, no red
\* node has a red parent, every path down meets as many black nodes, and the parent of
\* each node is the one it hangs from.
Balanced ==
  /\ tree.root # NULL => ~tree.red[tree.root] /\ tree.parent[tree.root] = NULL
  /\ BlackHeight(tree.root) >= 0
  /\ \A n \in Range(order), s \in Side :
       LET c == tree.child[s][n]
       IN c # NULL => tree.parent[c] = n /\ ~(tree.red[c] /\ tree.red[n])

-----------------------------------------------------------------------------
(***************************************************************************)
(* The byte ring of user-test/lib/libx/fifo.c.  in and out are unsigned    *)
(* and run on freely: their difference is the length and their low bits    *)
(* the place in the buffer, also after either has wrapped.                 *)
(***************************************************************************)

CONSTANTS Size,      \* f->size, a power of two
          Wrap,      \* 2^32: in and out are taken modulo this
          Byte,
          MaxPut     \* bound on the length of a put

VARIABLES buffer, in, out,
          fifo       \* history: the bytes put and not yet got, in order

fifoVars == <<buffer, in, out, fifo>>

fifo_len == (in - out) % Wrap

Least(a, b) == IF a < b THEN a ELSE b

FifoInit ==
  /\ buffer \in [0..(Size - 1) -> {CHOOSE b \in Byte : TRUE}]
  /\ in = 0 /\ out = 0 /\ fifo = <<>>

\* fifo_put: up to the end of the buffer, then from its start.
fifo_put(s) ==
  LET len == Least(Len(s), (Size - in + out) % Wrap)
      l   == Least(len, Size - (in % Size))
  IN /\ buffer' = [i \in 0..(Size - 1) |->
          CASE i \in (in % Size)..((in % Size) + l - 1) -> s[i - (in % Size) + 1]
            [] i \in 0..(len - l - 1) -> s[l + i + 1]
            [] OTHER -> buffer[i]]
     /\ in' = (in + len) % Wrap
     /\ fifo' = fifo \o SubSeq(s, 1, len)
     /\ UNCHANGED out

\* What fifo_get copies out for a request of n bytes.
Got(n) ==
  LET len == Least(n, fifo_len)
      l   == Least(len, Size - (out % Size))
  IN [i \in 1..len |-> IF i <= l THEN buffer[(out % Size) + i - 1] ELSE buffer[i - l - 1]]

\* fifo_get: an emptied ring starts again at 0.
fifo_get(n) ==
  LET o == (out + Least(n, fifo_len)) % Wrap
  IN /\ in' = IF o = in THEN 0 ELSE in
     /\ out' = IF o = in THEN 0 ELSE o
     /\ fifo' = SubSeq(fifo, Least(n, Len(fifo)) + 1, Len(fifo))
     /\ UNCHANGED buffer

fifo_reset == in' = 0 /\ out' = 0 /\ fifo' = <<>> /\ UNCHANGED buffer

FifoNext == \/ \E s \in BoundedSeq(Byte, MaxPut) : fifo_put(s)
            \/ \E n \in 1..Size : fifo_get(n)
            \/ fifo_reset

FifoSpec == FifoInit /\ [][FifoNext]_fifoVars

\* The ring is a queue of at most Size bytes: what fifo_get returns next is what was put
\* first, in order, across the end of the buffer and the wrap of in and out.
RingIsQueue == /\ fifo_len <= Size
               /\ Got(Size) = fifo

-----------------------------------------------------------------------------
(***************************************************************************)
(* The cache user-test/lib/libx/lru.c: items in hash chains and in a list  *)
(* from the latest set to the oldest, and a bound on their bytes.  A new   *)
(* item is made before the one it replaces is removed.  A lookup does not  *)
(* move its item.                                                          *)
(***************************************************************************)

CONSTANTS LruKey,
          LruHash,        \* lru_hash of a key, masked by the table's size
          ItemSize,    \* the sizes of items: header, key and value
          MaxBytes     \* l->max_bytes

VARIABLES table,       \* the chain of each slot
          recent,        \* from l->head to l->tail
          curr_bytes,
          stored       \* history: the last call was a lru_set that stored its item

lruVars == <<table, recent, curr_bytes, stored>>

LruInit ==
  /\ table = [s \in {LruHash[k] : k \in LruKey} |-> <<>>]
  /\ recent = <<>> /\ curr_bytes = 0 /\ stored = FALSE

Now == [table |-> table, recent |-> recent, bytes |-> curr_bytes]

Become(s) == table' = s.table /\ recent' = s.recent /\ curr_bytes' = s.bytes

\* lru_hash_search
Found(key) == SelectSeq(table[LruHash[key]], LAMBDA i : i.key = key)

\* lru_remove_item: the chain loses its first item of that key, the list the item.
Without(s, item) ==
  [table |-> [s.table EXCEPT ![LruHash[item.key]] =
                RemoveFirstMatch(@, LAMBDA i : i.key = item.key)],
   recent |-> RemoveFirst(s.recent, item),
   bytes |-> s.bytes - item.nbytes]

\* Faulty variant: an item is taken too many.
EvictsOneMore(s, delta, sz, old) ==
  IF s.bytes + sz - delta <= MaxBytes \/ Len(s.recent) = Len(old) THEN s
  ELSE [table |-> [i \in DOMAIN s.table |-> <<>>], recent |-> <<>>, bytes |-> 0]

\* The loop of lru_alloc_item: items are taken from the tail, or from before it when the
\* tail is the item to be replaced.
RECURSIVE Evict(_, _, _, _)
Evict(s, delta, sz, old) ==
  LET rest == SelectSeq(s.recent, LAMBDA i : <<i>> # old)
  IN IF s.bytes + sz - delta <= MaxBytes \/ rest = <<>> THEN s
     ELSE Evict(Without(s, Last(rest)), delta, sz, old)

\* lru_set.  An item larger than the cache is refused, and so is one without memory, but
\* then what was evicted for it is gone.
lru_set(key, sz) ==
  LET old   == Found(key)
      delta == IF old = <<>> THEN 0 ELSE old[1].nbytes
      room  == Evict(Now, delta, sz, old)
      left  == IF old = <<>> THEN room ELSE Without(room, old[1])
      item  == <<[key |-> key, nbytes |-> sz]>>
  IN \/ /\ sz <= MaxBytes
        /\ Become([table |-> [left.table EXCEPT ![LruHash[key]] = item \o @],
                   recent |-> item \o left.recent,
                   bytes |-> left.bytes + sz])
        /\ stored' = TRUE
     \/ Become(IF sz <= MaxBytes THEN room ELSE Now) /\ stored' = FALSE

lru_remove(key) ==
  /\ Become(IF Found(key) = <<>> THEN Now ELSE Without(Now, Found(key)[1]))
  /\ stored' = FALSE

LruNext == \E key \in LruKey : lru_remove(key) \/ \E sz \in ItemSize : lru_set(key, sz)

LruSpec == LruInit /\ [][LruNext]_lruVars

(***************************************************************************)
(* Properties                                                              *)
(***************************************************************************)

SizeOf(items) == SumFunction([i \in DOMAIN items |-> items[i].nbytes])

\* The chains and the list hold the same items, one for each key, and the bytes counted
\* are theirs and within the bound, whatever was replaced or evicted.
CacheExact ==
  /\ IsInjective([i \in DOMAIN recent |-> recent[i].key])
  /\ \A s \in DOMAIN table :
       /\ ToSet(table[s]) = {i \in ToSet(recent) : LruHash[i.key] = s}
       /\ IsInjective(table[s])
  /\ curr_bytes = SizeOf(recent) /\ curr_bytes <= MaxBytes

\* lru_set gives up the oldest items only, and none that would have had room: what is left
\* behind the new item is the longest part of the list, without the item replaced, that
\* fits beside it.
EvictsOldestOnly ==
  stored' =>
    LET others == SelectSeq(recent, LAMBDA i : i.key # recent'[1].key)
        kept   == Len(recent') - 1
    IN /\ Tail(recent') = SubSeq(others, 1, kept)
       /\ kept < Len(others)
            => SizeOf(SubSeq(others, 1, kept + 1)) + recent'[1].nbytes > MaxBytes

EvictsOldestOnlyProp == [][EvictsOldestOnly]_lruVars

-----------------------------------------------------------------------------
(***************************************************************************)
(* The hash map lib/hmap.c, in which the kernel keeps its file systems,    *)
(* devices and IPC servers by name: a table of chains for the search, and  *)
(* one list of all entries for the walks and for rebuilding the table.  An *)
(* entry is its key; a chain is a sequence, newest first.                  *)
(***************************************************************************)

CONSTANTS Key,       \* the names, numbered in the order of strcmp
          Value,
          Hash,      \* shash of each key
          MinSize    \* the smallest table: 16

VARIABLES hash,      \* m->hash: the chain of each slot 0..size-1
          list,      \* m->list
          value,     \* the value of each entry
          n          \* m->n

hmapVars == <<hash, list, value, n>>

size == Cardinality(DOMAIN hash)

Slot(key, sz) == Hash[key] % sz

HmapInit ==
  /\ hash = [i \in 0..(MinSize - 1) |-> <<>>]
  /\ list = <<>> /\ value = <<>> /\ n = 0

\* Faulty variant: the entries stay where the old mask put them.
Moved(sz) ==
  [i \in 0..(sz - 1) |-> IF i < size THEN hash[i] ELSE <<>>]

\* hmap_resize: a new table, filled from the list.
Rebuilt(sz) ==
  [i \in 0..(sz - 1) |-> Reverse(SelectSeq(list, LAMBDA k : Slot(k, sz) = i))]

\* The tables a call goes on with: if malloc fails the old one stays.
Resized(wanted, sz) == IF wanted THEN {hash, Rebuilt(sz)} ELSE {hash}

Rows(h) == Cardinality(DOMAIN h)

hmap_add(key, v) ==
  IF Contains(hash[Slot(key, size)], key)
  THEN value' = [value EXCEPT ![key] = v] /\ UNCHANGED <<hash, list, n>>
  ELSE \E h \in Resized(n > size \div 2, 2 * size) :
         \/ /\ hash' = [h EXCEPT ![Slot(key, Rows(h))] = <<key>> \o @]
            /\ list' = Append(list, key)
            /\ value' = [k \in DOMAIN value \cup {key} |-> IF k = key THEN v ELSE value[k]]
            /\ n' = n + 1
         \/ hash' = h /\ UNCHANGED <<list, value, n>>   \* no memory for the entry

hmap_remove(key) ==
  \E h \in Resized(size > MinSize /\ n < size \div 2, size \div 2) :
    LET s == Slot(key, Rows(h)) IN
    IF Contains(h[s], key)
    THEN /\ hash' = [h EXCEPT ![s] = Remove(@, key)]
         /\ list' = Remove(list, key)
         /\ value' = [k \in DOMAIN value \ {key} |-> value[k]]
         /\ n' = n - 1
    ELSE hash' = h /\ UNCHANGED <<list, value, n>>

\* hmap_sort orders the list by key; the table does not change.
hmap_sort ==
  /\ list' = SortSeq(list, LAMBDA a, b : a < b)
  /\ UNCHANGED <<hash, value, n>>

\* hmap_clear walks the list.
hmap_clear ==
  /\ hash' = [i \in DOMAIN hash |-> SelectSeq(hash[i], LAMBDA k : ~Contains(list, k))]
  /\ list' = <<>> /\ n' = n - Len(list) /\ value' = <<>>

hmap_search(key) == IF Contains(hash[Slot(key, size)], key) THEN {value[key]} ELSE {}

HmapNext == \/ \E key \in Key, v \in Value : hmap_add(key, v)
            \/ \E key \in Key : hmap_remove(key)
            \/ hmap_sort
            \/ hmap_clear

HmapSpec == HmapInit /\ [][HmapNext]_hmapVars

\* The map a search shows, and the promise that each call changes it at one key only.
HmapPromise == INSTANCE KeyMap WITH content <- [key \in Key |-> hmap_search(key)]

\* The hash map keeps the promise of a map through every growth and shrinking of the
\* table, a failed allocation included: an entry is found under its key, once.
MapKeepsPromise == HmapPromise!Spec

\* The table, the list and the count describe the same entries.
ThreeViewsAgree ==
  /\ n = Len(list) /\ ToSet(list) = DOMAIN value /\ IsInjective(list)
  /\ \A i \in DOMAIN hash : IsInjective(hash[i])
  /\ UNION {ToSet(hash[i]) : i \in DOMAIN hash} = ToSet(list)

-----------------------------------------------------------------------------
(***************************************************************************)
(* The radix tree core/vmo.c makes for the pages of a vmo: lib/radix.c.  A *)
(* node is named by the indices that lead to it from the root, <<>> for    *)
(* the root.                                                               *)
(***************************************************************************)

CONSTANTS Bits,        \* RADIX_NODE_BITS
          Levels,      \* RADIX_LEVELS
          RadixPage         \* the values stored, other than NULL

VARIABLES nodes,       \* the nodes that exist
          values       \* the set of <<node, k, v>> with values[k] = v in node, other than NULL

radixVars == <<nodes, values>>

RadixKey == 0..(2^(Bits * Levels) - 1)

\* index[i]
Index(key, i) == (key \div 2^(Bits * i)) % 2^Bits

\* The node d levels below the root on the way to key.
NodeFor(key, d) == [i \in 1..d |-> Index(key, Levels - i)]

Way(key) == {NodeFor(key, d) : d \in 0..(Levels - 1)}
Leaf(key) == NodeFor(key, Levels - 1)

RadixInit == nodes = {} /\ values = {}

\* radix_set: the nodes missing on the way are made from the root down; when calloc fails,
\* those already made stay and nothing is stored.  radix_clear stores NULL.
radix_set(key, v) ==
  LET missing == Way(key) \ nodes
      at == <<Leaf(key), Index(key, 0)>>
  IN \/ /\ nodes' = nodes \cup missing
        /\ values' = {x \in values : <<x[1], x[2]>> # at} \cup {<<at[1], at[2], p>> : p \in v}
     \/ \E gap \in missing :
          /\ nodes' = nodes \cup {m \in missing : Len(m) < Len(gap)}
          /\ UNCHANGED values

\* radix_get: what is found, none for NULL.
radix_get(key) ==
  IF Way(key) \subseteq nodes
  THEN {x[3] : x \in {y \in values : y[1] = Leaf(key) /\ y[2] = Index(key, 0)}} ELSE {}

RadixNext == \E key \in RadixKey : \/ \E v \in RadixPage : radix_set(key, {v})
                                   \/ radix_set(key, {})

RadixSpec == RadixInit /\ [][RadixNext]_radixVars

RadixPromise == INSTANCE KeyMap WITH Key <- RadixKey, Value <- RadixPage,
                                     content <- [key \in RadixKey |-> radix_get(key)]

\* The tree is a map by page number: radix_set changes what radix_get finds under its own
\* key and under no other, and a call that fails half way changes nothing that is found.
PagesKeepPromise == RadixPromise!Spec
=============================================================================
