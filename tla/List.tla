-------------------------------- MODULE List --------------------------------
EXTENDS Integers, Sequences, SequencesExt, FiniteSets

(***************************************************************************)
(* The doubly linked lists of include/list.h, on which the ready queue,    *)
(* the wait queues, the page lists and the device lists are built: the     *)
(* memory of next and prev pointers as the functions leave it, and beside  *)
(* it what the lists are meant to hold.                                    *)
(***************************************************************************)

CONSTANTS Entry, Head1, NULL

VARIABLES mem,       \* next and prev of every entry and head
          lists,     \* what each head is the list of; of no use in the code
          ready      \* heads that are heads of a list: list_splice and list_replace leave one that is not

Cell == Entry \cup Head1

next(m, x) == m.next[x]
prev(m, x) == m.prev[x]
SetNext(m, x, y) == [m EXCEPT !.next[x] = y]
SetPrev(m, x, y) == [m EXCEPT !.prev[x] = y]
Memory == [next : [Cell -> Cell \cup {NULL}], prev : [Cell -> Cell \cup {NULL}]]

init_list_head(m, l) == SetPrev(SetNext(m, l, l), l, l)
__list_add(m, new, p, n) == SetNext(SetPrev(SetNext(SetPrev(m, n, new), new, n), new, p), p, new)
list_add(m, new, head) == __list_add(m, new, head, next(m, head))
list_add_tail(m, new, head) == __list_add(m, new, prev(m, head), head)

__list_del(m, p, n) == SetNext(SetPrev(m, n, p), p, n)
__list_del_entry(m, e) == __list_del(m, prev(m, e), next(m, e))
list_del(m, e) == SetPrev(SetNext(__list_del_entry(m, e), e, NULL), e, NULL)
list_del_init(m, e) == init_list_head(__list_del_entry(m, e), e)

list_replace(m, old, new) ==
  LET m1 == SetNext(m, new, next(m, old))
      m2 == SetPrev(m1, next(m1, new), new)
      m3 == SetPrev(m2, new, prev(m2, old))
  IN SetNext(m3, prev(m3, new), new)
list_replace_init(m, old, new) == init_list_head(list_replace(m, old, new), old)

list_move(m, e, head) == list_add(__list_del_entry(m, e), e, head)
list_move_tail(m, e, head) == list_add_tail(__list_del_entry(m, e), e, head)
list_bulk_move_tail(m, head, first, last) ==
  LET m1 == SetNext(m, prev(m, first), next(m, last))
      m2 == SetPrev(m1, next(m1, last), prev(m1, first))
      m3 == SetNext(m2, prev(m2, head), first)
      m4 == SetPrev(m3, first, prev(m3, head))
  IN SetPrev(SetNext(m4, last, head), head, last)

list_is_last(m, e, head) == next(m, e) = head
list_empty(m, head) == next(m, head) = head
list_empty_careful(m, head) == next(m, head) = head /\ prev(m, head) = head
list_is_singular(m, head) == ~list_empty(m, head) /\ next(m, head) = prev(m, head)
list_rotate_left(m, head) == IF list_empty(m, head) THEN m ELSE list_move_tail(m, next(m, head), head)

__list_cut_position(m, list, head, entry) ==
  LET new_first == next(m, entry)
      m1 == SetNext(m, list, next(m, head))
      m2 == SetPrev(m1, next(m1, list), list)
      m3 == SetNext(SetPrev(m2, list, entry), entry, list)
  IN SetPrev(SetNext(m3, head, new_first), new_first, head)
list_cut_position(m, list, head, entry) ==
  IF list_empty(m, head) THEN m
  ELSE IF list_is_singular(m, head) /\ next(m, head) # entry /\ head # entry THEN m
  ELSE IF entry = head THEN init_list_head(m, list)
  ELSE __list_cut_position(m, list, head, entry)
list_cut_before(m, list, head, entry) ==
  LET m1 == SetNext(m, list, next(m, head))
      m2 == SetPrev(m1, next(m1, list), list)
      m3 == SetPrev(m2, list, prev(m2, entry))
      m4 == SetNext(m3, prev(m3, list), list)
  IN IF next(m, head) = entry THEN init_list_head(m, list) ELSE SetPrev(SetNext(m4, head, entry), entry, head)

__list_splice(m, list, p, n) ==
  LET first == next(m, list)
      last == prev(m, list)
  IN SetPrev(SetNext(SetNext(SetPrev(m, first, p), p, first), last, n), n, last)
list_splice(m, list, head) == IF list_empty(m, list) THEN m ELSE __list_splice(m, list, head, next(m, head))
list_splice_tail(m, list, head) == IF list_empty(m, list) THEN m ELSE __list_splice(m, list, prev(m, head), head)
list_splice_init(m, list, head) == IF list_empty(m, list) THEN m ELSE init_list_head(list_splice(m, list, head), list)
list_splice_tail_init(m, list, head) == IF list_empty(m, list) THEN m ELSE init_list_head(list_splice_tail(m, list, head), list)

-----------------------------------------------------------------------------
\* The loops over a list, from and to a place; at most as many turns as there are cells.
Loop(Step(_), start, head) ==
  LET turn[x \in [pos : Cell \cup {NULL}, seen : Seq(Cell)]] ==
        IF x.pos \in {head, NULL} \/ Len(x.seen) > Cardinality(Entry) THEN x.seen ELSE turn[[pos |-> Step(x.pos), seen |-> Append(x.seen, x.pos)]]
  IN turn[[pos |-> start, seen |-> <<>>]]
list_for_each(m, head) == Loop(LAMBDA x : next(m, x), next(m, head), head)
list_for_each_prev(m, head) == Loop(LAMBDA x : prev(m, x), prev(m, head), head)
list_for_each_entry_continue(m, pos, head) == Loop(LAMBDA x : next(m, x), next(m, pos), head)
list_for_each_entry_continue_reverse(m, pos, head) == Loop(LAMBDA x : prev(m, x), prev(m, pos), head)
list_for_each_entry_from(m, pos, head) == Loop(LAMBDA x : next(m, x), pos, head)
list_first_entry_or_null(m, head) == IF next(m, head) # head THEN next(m, head) ELSE NULL

\* The loops whose body may remove the entry they are at: n was read before the body.
SafeLoop(m, head, removed, Step(_, _)) ==
  LET turn[x \in [m : Memory, pos : Cell \cup {NULL}, n : Cell \cup {NULL}, seen : Seq(Cell)]] ==
        IF x.pos \in {head, NULL} \/ Len(x.seen) > Cardinality(Entry) THEN [m |-> x.m, seen |-> x.seen]
        ELSE LET m1 == IF x.pos \in removed THEN list_del(x.m, x.pos) ELSE x.m
             IN turn[[m |-> m1, pos |-> x.n, n |-> IF x.n = NULL THEN NULL ELSE Step(m1, x.n), seen |-> Append(x.seen, x.pos)]]
  IN turn[[m |-> m, pos |-> Step(m, head), n |-> Step(m, Step(m, head)), seen |-> <<>>]]
list_for_each_safe(m, head, removed) == SafeLoop(m, head, removed, next)
list_for_each_prev_safe(m, head, removed) == SafeLoop(m, head, removed, prev)

-----------------------------------------------------------------------------
On(h) == {lists[h][i] : i \in DOMAIN lists[h]}
Free == Entry \ UNION {On(h) : h \in Head1}
Without(h, e) == SelectSeq(lists[h], LAMBDA x : x # e)
Set(h, s) == lists' = [lists EXCEPT ![h] = s]
Both(h, s, g, t) == lists' = [lists EXCEPT ![h] = s, ![g] = t]
Place(h, e) == CHOOSE i \in DOMAIN lists[h] : lists[h][i] = e

ListInit == /\ mem = [next |-> [x \in Cell |-> IF x \in Head1 THEN x ELSE NULL],
                      prev |-> [x \in Cell |-> IF x \in Head1 THEN x ELSE NULL]]
            /\ lists = [h \in Head1 |-> <<>>] /\ ready = Head1

Adds == \E h \in ready, e \in Free :
          /\ UNCHANGED ready
          /\ \/ mem' = list_add(mem, e, h) /\ Set(h, <<e>> \o lists[h])
             \/ mem' = list_add_tail(mem, e, h) /\ Set(h, Append(lists[h], e))
Removes == \E h \in ready : \E e \in On(h) :
             /\ UNCHANGED ready /\ Set(h, Without(h, e))
             /\ mem' = list_del(mem, e) \/ mem' = list_del_init(mem, e)
Replaces == \E h \in ready : \E e \in On(h), new \in Free :
              /\ UNCHANGED ready /\ Set(h, [lists[h] EXCEPT ![Place(h, e)] = new])
              /\ mem' = list_replace(mem, e, new) \/ mem' = list_replace_init(mem, e, new)
ReplacesHead == \E h \in ready : \E g \in Head1 \ {h} :
                  /\ lists[g] = <<>> /\ Both(g, lists[h], h, <<>>)
                  /\ \/ mem' = list_replace(mem, h, g) /\ ready' = (ready \cup {g}) \ {h}
                     \/ mem' = list_replace_init(mem, h, g) /\ ready' = ready \cup {g}
Moves == \E h, g \in ready : \E e \in On(h) :
           /\ UNCHANGED ready
           /\ \/ /\ mem' = list_move(mem, e, g)
                 /\ IF h = g THEN Set(h, <<e>> \o Without(h, e)) ELSE Both(h, Without(h, e), g, <<e>> \o lists[g])
              \/ /\ mem' = list_move_tail(mem, e, g)
                 /\ IF h = g THEN Set(h, Append(Without(h, e), e)) ELSE Both(h, Without(h, e), g, Append(lists[g], e))
BulkMoves == \E h \in ready : \E i, j \in DOMAIN lists[h] :
               /\ i <= j /\ UNCHANGED ready
               /\ mem' = list_bulk_move_tail(mem, h, lists[h][i], lists[h][j])
               /\ Set(h, SubSeq(lists[h], 1, i - 1) \o SubSeq(lists[h], j + 1, Len(lists[h])) \o SubSeq(lists[h], i, j))
Rotates == \E h \in ready :
             /\ UNCHANGED ready /\ mem' = list_rotate_left(mem, h)
             /\ Set(h, IF lists[h] = <<>> THEN <<>> ELSE Append(Tail(lists[h]), Head(lists[h])))
\* Up to an entry or before it; the entry may be the head itself.
Cuts == \E h \in ready : \E g \in Head1 \ {h}, e \in On(h) \cup {h} :
          /\ lists[g] = <<>>
          /\ \/ /\ mem' = list_cut_position(mem, g, h, e)
                /\ ready' = IF lists[h] = <<>> THEN ready ELSE ready \cup {g}
                /\ LET k == IF e = h THEN 0 ELSE Place(h, e)
                   IN Both(g, SubSeq(lists[h], 1, k), h, SubSeq(lists[h], k + 1, Len(lists[h])))
             \/ /\ mem' = list_cut_before(mem, g, h, e) /\ ready' = ready \cup {g}
                /\ LET k == IF e = h THEN Len(lists[h]) ELSE Place(h, e) - 1
                   IN Both(g, SubSeq(lists[h], 1, k), h, SubSeq(lists[h], k + 1, Len(lists[h])))
Splices == \E h \in ready : \E g \in ready \ {h} :
             LET left == IF lists[g] = <<>> THEN ready ELSE ready \ {g} IN
             \/ mem' = list_splice(mem, g, h) /\ Both(h, lists[g] \o lists[h], g, <<>>) /\ ready' = left
             \/ mem' = list_splice_tail(mem, g, h) /\ Both(h, lists[h] \o lists[g], g, <<>>) /\ ready' = left
             \/ mem' = list_splice_init(mem, g, h) /\ Both(h, lists[g] \o lists[h], g, <<>>) /\ UNCHANGED ready
             \/ mem' = list_splice_tail_init(mem, g, h) /\ Both(h, lists[h] \o lists[g], g, <<>>) /\ UNCHANGED ready
Readies == \E h \in Head1 \ ready : mem' = init_list_head(mem, h) /\ ready' = ready \cup {h} /\ UNCHANGED lists

ListNext == Adds \/ Removes \/ Replaces \/ ReplacesHead \/ Moves \/ BulkMoves \/ Rotates \/ Cuts \/ Splices \/ Readies
ListSpec == ListInit /\ [][ListNext]_<<mem, lists, ready>>

-----------------------------------------------------------------------------
\* After any sequence of calls, both directions of the pointers list exactly what was added
\* and not removed, in order; emptiness and singularity are told right; a loop continued
\* from an entry sees the rest; and a loop that removes entries as it goes, whichever they
\* are, visits every entry once and leaves the others a list.
ListsLinked ==
  \A h \in ready :
    LET s == lists[h] IN
    /\ list_for_each(mem, h) = s /\ list_for_each_prev(mem, h) = Reverse(s)
    /\ list_empty(mem, h) = (s = <<>>) /\ list_empty_careful(mem, h) = (s = <<>>) /\ list_is_singular(mem, h) = (Len(s) = 1)
    /\ list_first_entry_or_null(mem, h) = IF s = <<>> THEN NULL ELSE s[1]
    /\ \A i \in DOMAIN s :
         /\ list_for_each_entry_continue(mem, s[i], h) = SubSeq(s, i + 1, Len(s))
         /\ list_for_each_entry_continue_reverse(mem, s[i], h) = Reverse(SubSeq(s, 1, i - 1))
         /\ list_for_each_entry_from(mem, s[i], h) = SubSeq(s, i, Len(s))
         /\ list_is_last(mem, s[i], h) = (i = Len(s))
    /\ \A removed \in SUBSET On(h) :
         LET rest == SelectSeq(s, LAMBDA x : x \notin removed) IN
         /\ LET r == list_for_each_safe(mem, h, removed) IN r.seen = s /\ list_for_each(r.m, h) = rest
         /\ LET r == list_for_each_prev_safe(mem, h, removed) IN r.seen = Reverse(s) /\ list_for_each_prev(r.m, h) = Reverse(rest)

-----------------------------------------------------------------------------
(***************************************************************************)
(* The lists with one pointer at their head of include/list.h: a node      *)
(* remembers where the pointer to it is, a head's first or a node's next.  *)
(***************************************************************************)

VARIABLES hmem,      \* first of every head, next and pprev of every node
          chains,    \* what each head is the list of; of no use in the code
          fakes      \* nodes that hlist_add_fake made look hashed

First(h) == <<"first", h>>
NextOf(n) == <<"next", n>>
Nowhere == <<"NULL", NULL>>
At(m, p) == IF p[1] = "first" THEN m.first[p[2]] ELSE m.next[p[2]]
Store(m, p, v) == IF p[1] = "first" THEN [m EXCEPT !.first[p[2]] = v] ELSE [m EXCEPT !.next[p[2]] = v]
SetPprev(m, n, p) == IF n = NULL THEN m ELSE [m EXCEPT !.pprev[n] = p]

init_hlist_node(m, n) == [m EXCEPT !.next[n] = NULL, !.pprev[n] = Nowhere]
hlist_unhashed(m, n) == m.pprev[n] = Nowhere
hlist_empty(m, h) == m.first[h] = NULL

__hlist_del(m, n) == SetPprev(Store(m, m.pprev[n], m.next[n]), m.next[n], m.pprev[n])
hlist_del(m, n) == init_hlist_node(__hlist_del(m, n), n)
hlist_del_init(m, n) == IF hlist_unhashed(m, n) THEN m ELSE init_hlist_node(__hlist_del(m, n), n)

hlist_add_head(m, n, h) ==
  LET first == m.first[h]
      m1 == SetPprev([m EXCEPT !.next[n] = first], first, NextOf(n))
  IN SetPprev([m1 EXCEPT !.first[h] = n], n, First(h))
hlist_add_before(m, n, e) ==
  LET m1 == [m EXCEPT !.pprev[n] = m.pprev[e], !.next[n] = e] IN
  Store(SetPprev(m1, e, NextOf(n)), m1.pprev[n], n)
hlist_add_behind(m, n, e) ==
  LET m1 == [m EXCEPT !.next[n] = m.next[e]]
      m2 == SetPprev([m1 EXCEPT !.next[e] = n], n, NextOf(e))
  IN SetPprev(m2, m2.next[n], NextOf(n))
hlist_add_fake(m, n) == SetPprev(m, n, NextOf(n))
hlist_fake(m, n) == m.pprev[n] = NextOf(n)
hlist_is_singular_node(m, n, h) == m.next[n] = NULL /\ m.pprev[n] = First(h)
hlist_move_list(m, old, new) ==
  LET m1 == [m EXCEPT !.first[new] = m.first[old]] IN [SetPprev(m1, m1.first[new], First(new)) EXCEPT !.first[old] = NULL]

\* A loop from the first; at most as many turns as there are nodes.
hlist_for_each(m, h) ==
  LET turn[x \in [pos : Entry \cup {NULL}, seen : Seq(Entry)]] ==
        IF x.pos = NULL \/ Len(x.seen) > Cardinality(Entry) THEN x.seen
        ELSE turn[[pos |-> m.next[x.pos], seen |-> Append(x.seen, x.pos)]]
  IN turn[[pos |-> m.first[h], seen |-> <<>>]]

-----------------------------------------------------------------------------
Chained(h) == {chains[h][i] : i \in DOMAIN chains[h]}
Unchained == Entry \ (fakes \cup UNION {Chained(h) : h \in Head1})
PlaceOf(h, e) == CHOOSE i \in DOMAIN chains[h] : chains[h][i] = e
HlistSet(h, s) == chains' = [chains EXCEPT ![h] = s]

HlistInit == /\ hmem = [first |-> [h \in Head1 |-> NULL], next |-> [n \in Entry |-> NULL], pprev |-> [n \in Entry |-> Nowhere]]
             /\ chains = [h \in Head1 |-> <<>>] /\ fakes = {}

HlistAdds == \E h \in Head1, n \in Unchained :
               /\ UNCHANGED fakes
               /\ \/ hmem' = hlist_add_head(hmem, n, h) /\ HlistSet(h, <<n>> \o chains[h])
                  \/ \E e \in Chained(h) : \/ hmem' = hlist_add_before(hmem, n, e) /\ HlistSet(h, InsertAt(chains[h], PlaceOf(h, e), n))
                                           \/ hmem' = hlist_add_behind(hmem, n, e) /\ HlistSet(h, InsertAt(chains[h], PlaceOf(h, e) + 1, n))
HlistRemoves == \E h \in Head1 : \E n \in Chained(h) :
                  /\ hmem' = hlist_del(hmem, n) \/ hmem' = hlist_del_init(hmem, n)
                  /\ HlistSet(h, SelectSeq(chains[h], LAMBDA x : x # n)) /\ UNCHANGED fakes
RemovesAgain == \E n \in Unchained : hmem' = hlist_del_init(hmem, n) /\ UNCHANGED <<chains, fakes>>
Fakes == \E n \in Unchained : hmem' = hlist_add_fake(hmem, n) /\ fakes' = fakes \cup {n} /\ UNCHANGED chains
Unfakes == \E n \in fakes : hmem' = hlist_del_init(hmem, n) /\ fakes' = fakes \ {n} /\ UNCHANGED chains
MovesList == \E h \in Head1 : \E g \in Head1 \ {h} :
               /\ chains[g] = <<>> /\ hmem' = hlist_move_list(hmem, h, g)
               /\ chains' = [chains EXCEPT ![g] = chains[h], ![h] = <<>>] /\ UNCHANGED fakes

HlistNext == HlistAdds \/ HlistRemoves \/ RemovesAgain \/ Fakes \/ Unfakes \/ MovesList
HlistSpec == HlistInit /\ [][HlistNext]_<<hmem, chains, fakes>>

-----------------------------------------------------------------------------
\* Every list holds what was added to it, in order; the place a node remembers holds a
\* pointer to that node, so that it can be removed without its head; and a node that is in
\* no list, and is not made to look so, says that it is not hashed.
HlistsLinked ==
  /\ \A h \in Head1 : /\ hlist_for_each(hmem, h) = chains[h]
                      /\ hlist_empty(hmem, h) = (chains[h] = <<>>)
                      /\ \A n \in Chained(h) : /\ At(hmem, hmem.pprev[n]) = n
                                               /\ hlist_is_singular_node(hmem, n, h) = (Len(chains[h]) = 1)
  /\ \A n \in Entry : hlist_unhashed(hmem, n) = (n \in Unchained)
  /\ \A n \in fakes : hlist_fake(hmem, n)
=============================================================================
