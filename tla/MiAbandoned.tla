----------------------------- MODULE MiAbandoned -----------------------------
(* The list of abandoned segments of mimalloc (segment.c): a lock-free stack     *)
(* whose head carries a tag, and a second list of segments that were visited and *)
(* not reclaimed.  A popping thread reads the abandoned_next field of a segment  *)
(* that another thread may pop, reuse and push meanwhile.  A step is one access  *)
(* to a shared word.                                                             *)
EXTENDS Naturals, FiniteSets, Sequences

CONSTANTS Thread, Seg,
          None,       \* NULL
          Tags,       \* values of the tag: 2^22 in the code, more than a run uses here
          MaxOps      \* bound: calls made

VARIABLES abandoned,  \* head and tag
          visited,    \* abandoned_visited
          next,       \* next[s]: s->abandoned_next
          readers,    \* abandoned_readers
          place,      \* place[s]: the thread that owns s, or where it is
          th, ops

vars == <<abandoned, visited, next, readers, place, th, ops>>

Idle == [pc |-> "idle", s |-> None, last |-> None, ts |-> [seg |-> None, tag |-> 0], next |-> None]

\* Segments start out with the threads, in turn.
Init == /\ abandoned = [seg |-> None, tag |-> 0]
        /\ visited = None
        /\ next = [s \in Seg |-> None]
        /\ readers = 0
        /\ place \in [Seg -> Thread]
        /\ th = [t \in Thread |-> Idle]
        /\ ops = 0

\* Faulty variant: the tag stays.
UntaggedSegment(s, ts) == [seg |-> s, tag |-> ts.tag]

\* mi_tagged_segment.
TaggedSegment(s, ts) == [seg |-> s, tag |-> (ts.tag + 1) % Tags]

Go(t, l) == th' = [th EXCEPT ![t] = l]
Call(t) == th[t].pc = "idle" /\ ops < MaxOps /\ ops' = ops + 1

-----------------------------------------------------------------------------
(* mi_abandoned_push, by mi_segment_abandon. *)

Push(t, s) ==
  /\ Call(t) /\ place[s] = t
  /\ Go(t, [Idle EXCEPT !.pc = "push", !.s = s, !.ts = abandoned])
  /\ UNCHANGED <<abandoned, visited, next, readers, place>>

PushLink(t) ==
  /\ th[t].pc = "push"
  /\ next' = [next EXCEPT ![th[t].s] = th[t].ts.seg]
  /\ Go(t, [th[t] EXCEPT !.pc = "pushcas"])
  /\ UNCHANGED <<abandoned, visited, readers, place, ops>>

PushCas(t) ==
  LET l == th[t] IN
  /\ l.pc = "pushcas"
  /\ \/ /\ abandoned = l.ts
        /\ abandoned' = TaggedSegment(l.s, l.ts)
        /\ place' = [place EXCEPT ![l.s] = "listed"]
        /\ Go(t, Idle)
     \/ /\ abandoned # l.ts
        /\ Go(t, [l EXCEPT !.pc = "push", !.ts = abandoned])
        /\ UNCHANGED <<abandoned, place>>
  /\ UNCHANGED <<visited, next, readers, ops>>

\* mi_abandoned_visited_push: the list is only ever taken as a whole, and its head
\* has no tag.
VisitedPush(t, s) ==
  /\ Call(t) /\ place[s] = t
  /\ Go(t, [Idle EXCEPT !.pc = "visit", !.s = s, !.next = visited])
  /\ UNCHANGED <<abandoned, visited, next, readers, place>>

VisitedLink(t) ==
  /\ th[t].pc = "visit"
  /\ next' = [next EXCEPT ![th[t].s] = th[t].next]
  /\ Go(t, [th[t] EXCEPT !.pc = "visitcas"])
  /\ UNCHANGED <<abandoned, visited, readers, place, ops>>

VisitedCas(t) ==
  LET l == th[t] IN
  /\ l.pc = "visitcas"
  /\ \/ /\ visited = l.next
        /\ visited' = l.s
        /\ place' = [place EXCEPT ![l.s] = "listed"]
        /\ Go(t, Idle)
     \/ /\ visited # l.next
        /\ Go(t, [l EXCEPT !.pc = "visit", !.next = visited])
        /\ UNCHANGED <<visited, place>>
  /\ UNCHANGED <<abandoned, next, readers, ops>>

-----------------------------------------------------------------------------
(* mi_abandoned_pop. *)

Pop(t) ==
  /\ Call(t)
  /\ Go(t, [Idle EXCEPT !.pc = IF abandoned.seg = None THEN "grab" ELSE "enter"])
  /\ UNCHANGED <<abandoned, visited, next, readers, place>>

\* mi_abandoned_visited_revisit takes the visited list, or finds none.
Grab(t) ==
  /\ th[t].pc = "grab"
  /\ visited' = None
  /\ Go(t, IF visited = None THEN Idle ELSE [th[t] EXCEPT !.pc = "look", !.s = visited])
  /\ UNCHANGED <<abandoned, next, readers, place, ops>>

\* The last segment of a list no other thread changes.
Last(s) ==
  LET ends == {e \in Seg : next[e] = None}
      after[x \in Seg] == {x} \cup (IF next[x] = None THEN {} ELSE after[next[x]])
  IN CHOOSE e \in ends : e \in after[s]

Look(t) ==
  LET l == th[t] IN
  /\ l.pc = "look"
  /\ Go(t, [l EXCEPT !.ts = abandoned, !.last = Last(l.s),
                     !.pc = IF abandoned.seg = None THEN "swap" ELSE "prepend"])
  /\ UNCHANGED <<abandoned, visited, next, readers, place, ops>>

\* It becomes the abandoned list if that is still empty,
Swap(t) ==
  LET l == th[t] IN
  /\ l.pc = "swap"
  /\ \/ /\ abandoned = l.ts
        /\ abandoned' = TaggedSegment(l.s, l.ts)
        /\ Go(t, [Idle EXCEPT !.pc = "enter"])
     \/ /\ abandoned # l.ts
        /\ Go(t, [l EXCEPT !.pc = "prepend", !.ts = abandoned])
        /\ UNCHANGED abandoned
  /\ UNCHANGED <<visited, next, readers, place, ops>>

\* and is put in front of it otherwise.
Prepend(t) ==
  LET l == th[t] IN
  /\ l.pc = "prepend"
  /\ next' = [next EXCEPT ![l.last] = l.ts.seg]
  /\ Go(t, [l EXCEPT !.pc = "prependcas"])
  /\ UNCHANGED <<abandoned, visited, readers, place, ops>>

PrependCas(t) ==
  LET l == th[t] IN
  /\ l.pc = "prependcas"
  /\ \/ /\ abandoned = l.ts
        /\ abandoned' = TaggedSegment(l.s, l.ts)
        /\ Go(t, [Idle EXCEPT !.pc = "enter"])
     \/ /\ abandoned # l.ts
        /\ Go(t, [l EXCEPT !.pc = "prepend", !.ts = abandoned])
        /\ UNCHANGED abandoned
  /\ UNCHANGED <<visited, next, readers, place, ops>>

\* The pop itself, between two changes of abandoned_readers.
Enter(t) ==
  /\ th[t].pc = "enter"
  /\ readers' = readers + 1
  /\ Go(t, [th[t] EXCEPT !.pc = "load"])
  /\ UNCHANGED <<abandoned, visited, next, place, ops>>

Seen(l, ts) == [l EXCEPT !.pc = IF ts.seg = None THEN "leave" ELSE "read", !.ts = ts]

Load(t) ==
  /\ th[t].pc = "load"
  /\ Go(t, Seen(th[t], abandoned))
  /\ UNCHANGED <<abandoned, visited, next, readers, place, ops>>

ReadNext(t) ==
  /\ th[t].pc = "read"
  /\ Go(t, [th[t] EXCEPT !.pc = "popcas", !.next = next[th[t].ts.seg]])
  /\ UNCHANGED <<abandoned, visited, next, readers, place, ops>>

PopCas(t) ==
  LET l == th[t] IN
  /\ l.pc = "popcas"
  /\ \/ /\ abandoned = l.ts
        /\ abandoned' = TaggedSegment(l.next, l.ts)
        /\ place' = [place EXCEPT ![l.ts.seg] = t]
        /\ Go(t, [l EXCEPT !.pc = "leave", !.s = l.ts.seg])
     \/ /\ abandoned # l.ts
        /\ Go(t, Seen(l, abandoned))
        /\ UNCHANGED <<abandoned, place>>
  /\ UNCHANGED <<visited, next, readers, ops>>

Leave(t) ==
  /\ th[t].pc = "leave"
  /\ readers' = readers - 1
  /\ Go(t, IF th[t].s = None THEN Idle ELSE [th[t] EXCEPT !.pc = "unlink"])
  /\ UNCHANGED <<abandoned, visited, next, place, ops>>

Unlink(t) ==
  /\ th[t].pc = "unlink"
  /\ next' = [next EXCEPT ![th[t].s] = None]
  /\ Go(t, Idle)
  /\ UNCHANGED <<abandoned, visited, readers, place, ops>>

-----------------------------------------------------------------------------
(* What the owner of a segment does with it. *)

\* mi_segment_free: the memory stays mapped in its region, for any thread.
Free(t, s) ==
  /\ Call(t) /\ place[s] = t
  /\ place' = [place EXCEPT ![s] = "free"]
  /\ UNCHANGED <<abandoned, visited, next, readers, th>>

\* mi_segment_init.
Alloc(t, s) ==
  /\ Call(t) /\ place[s] = "free"
  /\ place' = [place EXCEPT ![s] = t]
  /\ next' = [next EXCEPT ![s] = None]
  /\ UNCHANGED <<abandoned, visited, readers, th>>

\* _mi_mem_collect claims the region of a free segment, waits until nobody reads
\* (_mi_abandoned_await_readers) and gives the memory back.
Collect(t, s) ==
  /\ Call(t) /\ place[s] = "free"
  /\ place' = [place EXCEPT ![s] = "claimed"]
  /\ Go(t, [Idle EXCEPT !.pc = "await", !.s = s])
  /\ UNCHANGED <<abandoned, visited, next, readers>>

Unmap(t) ==
  /\ th[t].pc = "await" /\ readers = 0
  /\ place' = [place EXCEPT ![th[t].s] = "unmapped"]
  /\ Go(t, Idle)
  /\ UNCHANGED <<abandoned, visited, next, readers, ops>>

-----------------------------------------------------------------------------
Next ==
  \E t \in Thread :
    \/ \E s \in Seg : Push(t, s) \/ VisitedPush(t, s) \/ Free(t, s) \/ Alloc(t, s) \/ Collect(t, s)
    \/ PushLink(t) \/ PushCas(t) \/ VisitedLink(t) \/ VisitedCas(t)
    \/ Pop(t) \/ Grab(t) \/ Look(t) \/ Swap(t) \/ Prepend(t) \/ PrependCas(t)
    \/ Enter(t) \/ Load(t) \/ ReadNext(t) \/ PopCas(t) \/ Leave(t) \/ Unlink(t) \/ Unmap(t)

Spec == Init /\ [][Next]_vars

-----------------------------------------------------------------------------
\* The segments reached from s in at most |Seg| steps; and whether the list ends.
Chain(s) ==
  LET step[i \in 0..Cardinality(Seg)] ==
        IF i = 0 THEN s ELSE IF step[i-1] = None THEN None ELSE next[step[i-1]]
  IN {step[i] : i \in 0..Cardinality(Seg)} \ {None}

Ends(s) == s = None \/ \E e \in Chain(s) : next[e] = None

\* The lists: the two shared ones, and those a thread took in order to move them.
\* While a thread is moving one, its last segment already points into the
\* abandoned list.
Grabbed == {t \in Thread : th[t].pc \in {"look", "swap", "prepend", "prependcas"}}

Part(t) == LET l == th[t] IN
  IF l.pc = "look" THEN Chain(l.s) ELSE {s \in Chain(l.s) : l.last \in Chain(s)}

\* No abandoned segment is lost, listed twice or listed while a thread owns it,
\* and nobody reads memory that was given back: the tag and the count of readers
\* do what the comment over mi_tagged_segment_ptr says.
AbandonedKept ==
  LET listed == {s \in Seg : place[s] = "listed"}
      parts  == <<Chain(abandoned.seg), Chain(visited)>>
      moving == UNION {Part(t) : t \in Grabbed}
  IN /\ Ends(abandoned.seg) /\ Ends(visited)
     /\ parts[1] \cup parts[2] \cup moving = listed
     /\ parts[1] \cap parts[2] = {} /\ (parts[1] \cup parts[2]) \cap moving = {}
     /\ \A t, u \in Grabbed : t # u => Part(t) \cap Part(u) = {}
     /\ \A t \in Thread : th[t].pc = "read" => place[th[t].ts.seg] # "unmapped"
=============================================================================
