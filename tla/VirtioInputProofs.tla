------------------------- MODULE VirtioInputProofs -------------------------
(***************************************************************************)
(* The input driver's promises, for a ring of any size and any number of   *)
(* events: events are handled in the order the device gave them, each once *)
(* and as it was written, and the ring is full again whenever the handler  *)
(* is done.                                                                *)
(***************************************************************************)
EXTENDS VirtioInput, TLAPS

\* The slot k places before queue->idx in the ring.
Back(k) == IF k <= idx THEN idx - k ELSE idx - k + RingSize

Offered == [more |-> FALSE, what |-> "event"]

\* The slots that are not free.
Held == Len(used) + Len(avail)

InputType ==
  /\ idx \in Slot /\ used \in Seq(Slot) /\ avail \in Seq(Slot)
  /\ desc \in [Slot -> {Free, Offered}] /\ event \in [Slot -> Nat]
  /\ next \in Nat /\ given \in Seq(Nat) /\ handled \in Seq(Nat)
  /\ phase \in {"out", "drain", "refill"}

\* The slots in use lie before idx, the oldest furthest back: those the device has filled,
\* then those it has not.
Ring ==
  /\ Held <= RingSize
  /\ \A i \in 1..Len(used) : used[i] = Back(Held + 1 - i)
  /\ \A i \in 1..Len(avail) : avail[i] = Back(Len(avail) + 1 - i)
  /\ \A k \in 1..RingSize : desc[Back(k)] = IF k <= Held THEN Offered ELSE Free

\* What was given and not handled is in the slots the device has filled, in order.
Log ==
  /\ Len(given) = Len(handled) + Len(used)
  /\ \A i \in 1..Len(handled) : handled[i] = given[i]
  /\ \A i \in 1..Len(used) : event[used[i]] = given[Len(handled) + i]

\* The inductive invariant.
InputInv == InputType /\ Ring /\ Log /\ (phase = "out" => Held = RingSize)

-----------------------------------------------------------------------------
\* The places before idx are the slots, each once.
LEMMA BackFacts ==
  ASSUME InputAssumption, idx \in Slot
  PROVE  /\ RingSize \in Nat /\ RingSize >= 1
         /\ \A k \in 1..RingSize : Back(k) \in Slot
         /\ \A k, l \in 1..RingSize : Back(k) = Back(l) => k = l
         /\ \A s \in Slot : \E k \in 1..RingSize : s = Back(k)
         /\ \A k \in 1..RingSize : After(Back(k), 0) = Back(k)
         /\ After(idx, 0) = idx /\ idx = Back(RingSize)
<1>1. /\ RingSize \in Nat /\ RingSize >= 1
      /\ \A k \in 1..RingSize : Back(k) \in Slot
      /\ \A k, l \in 1..RingSize : Back(k) = Back(l) => k = l
      /\ idx = Back(RingSize)
  BY DEF InputAssumption, Slot, Back
<1>2. ASSUME NEW s \in Slot PROVE \E k \in 1..RingSize : s = Back(k)
  <2>1. CASE s < idx
    <3>1. idx - s \in 1..RingSize /\ s = Back(idx - s)
      BY <1>1, <2>1 DEF Slot, Back
    <3> QED BY <3>1
  <2>2. CASE s >= idx
    <3>1. idx - s + RingSize \in 1..RingSize /\ s = Back(idx - s + RingSize)
      BY <1>1, <2>2 DEF Slot, Back
    <3> QED BY <3>1
  <2> QED BY <1>1, <2>1, <2>2 DEF Slot
<1>3. ASSUME NEW s \in Slot PROVE After(s, 0) = s
  BY <1>1 DEF Slot, After
<1> QED BY <1>1, <1>2, <1>3

\* The indices of a sequence that was extended (the used ring and the log of events).
LEMMA LastIndex ==
  ASSUME NEW n \in Nat
  PROVE  \A i \in 1..n + 1 : i \in 1..n \/ i = n + 1
  OBVIOUS

\* An offered event is one descriptor, in use and without a successor.
LEMMA OfferedFacts ==
  ASSUME InputAssumption
  PROVE  Offered # Free /\ ~Offered.more
<1>1. Offered # Free
  BY DEF InputAssumption, Offered
<1>2. ~Offered.more
  BY DEF Offered
<1> QED BY <1>1, <1>2

\* One turn of the handler's loop clears the slot the device filled first.
LEMMA AcknowledgeFacts ==
  ASSUME InputAssumption, InputType, Ring, Acknowledge
  PROVE  /\ Len(used) >= 1 /\ used' = Tail(used) /\ idx' = idx /\ avail' = avail
         /\ Head(used) = used[1]
         /\ desc' = [s \in Slot |-> IF s = Back(Held) THEN Free ELSE desc[s]]
<1>1. /\ idx \in Slot /\ used # <<>> /\ used \in Seq(Slot) /\ avail \in Seq(Slot)
      /\ used' = Tail(used) /\ idx' = idx /\ avail' = avail
      /\ desc' = [s \in Slot |-> IF s \in Chain(Head(used)) THEN Free ELSE desc[s]]
  BY DEF InputType, Acknowledge
<1>2. Len(used) \in Nat /\ Len(used) >= 1 /\ Head(used) = used[1] /\ Len(avail) \in Nat
  BY <1>1
<1>3. RingSize \in Nat /\ Held \in 1..RingSize
  BY <1>1, <1>2, BackFacts DEF Ring, Held
<1>4. Head(used) = Back(Held)
  <2>1. used[1] = Back(Held + 1 - 1)
    BY <1>2 DEF Ring
  <2>2. Held + 1 - 1 = Held
    BY <1>3
  <2> QED BY <1>2, <2>1, <2>2
<1>5. After(Back(Held), 0) = Back(Held) /\ desc[Back(Held)] = Offered
  <2>1. After(Back(Held), 0) = Back(Held)
    BY <1>1, <1>3, BackFacts
  <2>2. desc[Back(Held)] = Offered
    BY <1>3 DEF Ring
  <2> QED BY <2>1, <2>2
<1> DEFINE h == Back(Held)
           P(n) == /\ \A i \in 0..(n - 2) : desc[After(h, i)] # Free /\ desc[After(h, i)].more
                   /\ \/ desc[After(h, n - 1)] = Free
                      \/ ~desc[After(h, n - 1)].more
<1>6. (CHOOSE n \in 1..RingSize : P(n)) = 1
  <2>1. 1 \in 1..RingSize /\ P(1)
    <3>1. 1 \in 1..RingSize /\ 1 - 1 = 0 /\ 0..(1 - 2) = {}
      BY <1>3
    <3>2. ~desc[After(h, 0)].more
      BY <1>5, OfferedFacts
    <3> QED BY <3>1, <3>2
  <2>2. ASSUME NEW n \in 1..RingSize, P(n) PROVE n = 1
    <3> SUFFICES ASSUME n # 1 PROVE FALSE
      OBVIOUS
    <3>1. 0 \in 0..(n - 2)
      BY <1>3
    <3>2. desc[After(h, 0)].more
      BY <2>2, <3>1
    <3> QED BY <1>5, <3>2, OfferedFacts
  <2> HIDE DEF P
  <2> QED BY <2>1, <2>2
<1>7. Chain(h) = {h}
  <2>1. Chain(h) = {After(h, i) : i \in 0..(1 - 1)}
    BY <1>6 DEF Chain
  <2>2. 0..(1 - 1) = {0}
    OBVIOUS
  <2> QED BY <1>5, <2>1, <2>2
<1> QED BY <1>1, <1>2, <1>4, <1>7

\* virtio_send_command_1 offers the slot at idx when it is free, and does nothing otherwise.
LEMMA SendFacts ==
  ASSUME InputAssumption, InputType, Ring, SendCommand(<<"event">>)
  PROVE  /\ used' = used
         /\ Held < RingSize =>
              /\ Accepted(1) = 1 /\ avail' = Append(avail, idx)
              /\ idx' = IF idx + 1 < RingSize THEN idx + 1 ELSE 0
              /\ desc' = [desc EXCEPT ![idx] = Offered]
         /\ Held = RingSize => Accepted(1) # 1 /\ avail' = avail /\ idx' = idx /\ desc' = desc
<1>1. /\ idx \in Slot /\ RingSize \in Nat /\ RingSize >= 1 /\ After(idx, 0) = idx
      /\ idx = Back(RingSize) /\ desc \in [Slot -> {Free, Offered}]
  BY BackFacts DEF InputType
<1>2. /\ used' = used /\ idx' = After(idx, Accepted(1))
      /\ avail' = IF Accepted(1) = 1 THEN Append(avail, idx) ELSE avail
      /\ desc' = [s \in Slot |->
          IF \E i \in 1..Accepted(1) : s = After(idx, i - 1)
          THEN LET i == CHOOSE i \in 1..Accepted(1) : s = After(idx, i - 1)
               IN [more |-> i < 1, what |-> <<"event">>[i]]
          ELSE desc[s]]
  <2>1. Len(<<"event">>) = 1
    OBVIOUS
  <2> QED BY <2>1 DEF SendCommand
<1>3. desc[idx] = IF RingSize <= Held THEN Offered ELSE Free
  BY <1>1 DEF Ring
<1>4. CASE Held < RingSize
  <2>1. desc[After(idx, 0)] = Free
    <3>1. Held \in Int
      BY DEF Held, InputType
    <3> QED BY <1>1, <1>3, <1>4, <3>1
  <2>2. Accepted(1) = 1
    BY <2>1 DEF Accepted
  <2>3. After(idx, 1) = IF idx + 1 < RingSize THEN idx + 1 ELSE 0
    <3>1. ASSUME NEW n \in Nat, n >= 1 PROVE n % n = 0
      BY <3>1
    <3>2. ASSUME NEW n \in Nat, n >= 1, NEW m \in 0..n - 1 PROVE m % n = m
      BY <3>2
    <3>3. idx + 1 = RingSize \/ idx + 1 \in 0..RingSize - 1
      BY <1>1 DEF Slot
    <3> QED BY <1>1, <3>1, <3>2, <3>3 DEF After
  <2>4. ASSUME NEW s \in Slot
        PROVE  desc'[s] = IF s = idx THEN Offered ELSE desc[s]
    <3>1. 1..Accepted(1) = {1} /\ 1 - 1 = 0
      BY <2>2
    <3>2. (\E i \in 1..Accepted(1) : s = After(idx, i - 1)) <=> s = idx
      BY <1>1, <3>1
    <3>3. CASE s # idx
      BY <1>2, <3>2, <3>3
    <3>4. CASE s = idx
      <4>1. (CHOOSE i \in 1..Accepted(1) : s = After(idx, i - 1)) = 1
        BY <1>1, <3>1, <3>4
      <4>2. (1 < 1) = FALSE /\ <<"event">>[1] = "event"
        OBVIOUS
      <4>3. desc'[s] = [more |-> 1 < 1, what |-> <<"event">>[1]]
        BY <1>2, <3>2, <3>4, <4>1
      <4> QED BY <3>4, <4>2, <4>3, Zenon DEF Offered
    <3> QED BY <3>3, <3>4
  <2>5. desc' = [desc EXCEPT ![idx] = Offered]
    <3>1. desc' = [s \in Slot |-> desc'[s]]
      BY <1>2
    <3>2. desc' = [s \in Slot |-> IF s = idx THEN Offered ELSE desc[s]]
      BY <2>4, <3>1
    <3> QED BY <1>1, <3>2
  <2>6. Held # RingSize
    BY <1>1, <1>4
  <2> QED BY <1>2, <2>2, <2>3, <2>5, <2>6
<1>5. CASE Held = RingSize
  <2>1. desc[After(idx, 0)] # Free
    BY <1>1, <1>3, <1>5, OfferedFacts
  <2>2. Accepted(1) = 0
    BY <2>1 DEF Accepted
  <2>3. After(idx, 0) = idx /\ 1..0 = {}
    BY <1>1
  <2>4. desc' = [s \in Slot |-> desc[s]]
    BY <1>2, <2>2, <2>3
  <2>5. ~(Held < RingSize)
    BY <1>1, <1>5
  <2> QED BY <1>1, <1>2, <2>2, <2>3, <2>4, <2>5
<1>6. Held < RingSize \/ Held = RingSize
  <2>1. Held \in Int
    BY DEF Held, InputType
  <2> QED BY <1>1, <2>1 DEF Ring
<1> QED BY <1>2, <1>4, <1>5, <1>6

-----------------------------------------------------------------------------
\* The invariant holds when probe has filled the ring.
LEMMA InputInitInv ==
  ASSUME InputAssumption, Init
  PROVE  InputInv
<1>1. /\ desc = [s \in Slot |-> Offered] /\ idx = 0 /\ used = <<>> /\ next = 1
      /\ avail = [i \in 1..RingSize |-> i - 1] /\ event = [s \in Slot |-> 0]
      /\ phase = "out" /\ handled = <<>> /\ given = <<>>
  BY DEF Init, Offered, None
<1>2. RingSize \in Nat /\ RingSize >= 1 /\ idx \in Slot
  BY <1>1 DEF InputAssumption, Slot
<1>3. avail \in Seq(Slot) /\ Len(avail) = RingSize
  <2>1. avail \in [1..RingSize -> Slot]
    BY <1>1, <1>2 DEF Slot
  <2> QED BY <1>2, <2>1
<1>4. used \in Seq(Slot) /\ Len(used) = 0 /\ given \in Seq(Nat) /\ handled \in Seq(Nat)
      /\ Len(given) = 0 /\ Len(handled) = 0
  BY <1>1
<1>5. Held = RingSize
  BY <1>2, <1>3, <1>4 DEF Held
<1>6. InputType
  BY <1>1, <1>2, <1>3, <1>4 DEF InputType
<1>7. Ring
  <2>1. \A i \in 1..Len(avail) : avail[i] = Back(Len(avail) + 1 - i)
    BY <1>1, <1>2, <1>3 DEF Back
  <2>2. \A k \in 1..RingSize : desc[Back(k)] = IF k <= Held THEN Offered ELSE Free
    <3>1. \A k \in 1..RingSize : Back(k) \in Slot
      BY <1>2, BackFacts
    <3> QED BY <1>1, <1>5, <3>1
  <2>3. \A i \in 1..Len(used) : used[i] = Back(Held + 1 - i)
    BY <1>4
  <2>4. Held <= RingSize
    BY <1>2, <1>5
  <2> QED BY <2>1, <2>2, <2>3, <2>4 DEF Ring
<1>8. Log
  BY <1>4 DEF Log
<1> QED BY <1>5, <1>6, <1>7, <1>8 DEF InputInv

\* Raising the interrupt, entering the handler and its finding no more filled slots change
\* neither the ring nor what was handled.
LEMMA KeptInv ==
  ASSUME InputInv, UNCHANGED <<queueVars, next, event, handled, given>>,
         phase' \in {"out", "drain", "refill"}, phase' = "out" => phase = "out"
  PROVE  InputInv'
<1>1. /\ desc' = desc /\ idx' = idx /\ avail' = avail /\ used' = used /\ next' = next
      /\ event' = event /\ handled' = handled /\ given' = given
  BY DEF queueVars
<1>2. InputType'
  BY <1>1 DEF InputInv, InputType
<1>3. Held' = Held /\ \A k : Back(k)' = Back(k)
  BY <1>1 DEF Held, Back
<1>4. Ring'
  BY <1>1, <1>3 DEF InputInv, Ring
<1>5. Log'
  BY <1>1 DEF InputInv, Log
<1> QED BY <1>2, <1>3, <1>4, <1>5 DEF InputInv

\* The device fills the slot offered first, if any is, behind those it filled before.
LEMMA DeviceEventInv ==
  ASSUME InputAssumption, InputInv, DeviceEvent
  PROVE  InputInv'
<1>1. /\ InputType /\ Ring /\ Log /\ next' = next + 1 /\ phase' = phase /\ handled' = handled
      /\ phase = "out" => Held = RingSize
  BY DEF InputInv, DeviceEvent
<1>2. /\ idx \in Slot /\ used \in Seq(Slot) /\ avail \in Seq(Slot) /\ next \in Nat
      /\ given \in Seq(Nat) /\ handled \in Seq(Nat) /\ event \in [Slot -> Nat]
      /\ RingSize \in Nat /\ Len(used) \in Nat /\ Len(avail) \in Nat /\ Len(handled) \in Nat
      /\ Len(given) \in Nat
  <2>1. idx \in Slot
    BY <1>1 DEF InputType
  <2>2. RingSize \in Nat /\ RingSize >= 1 /\ idx = Back(RingSize)
    BY <2>1, BackFacts
  <2> QED BY <1>1, <2>1, <2>2 DEF InputType
<1>3. CASE avail = <<>>
  <2>1. /\ desc' = desc /\ idx' = idx /\ avail' = avail /\ used' = used /\ event' = event
        /\ given' = given
    BY <1>3 DEF DeviceEvent, queueVars
  <2>2. InputType'
    BY <1>1, <1>2, <2>1 DEF InputType
  <2>3. Held' = Held /\ \A k : Back(k)' = Back(k)
    BY <2>1 DEF Held, Back
  <2>4. Ring'
    BY <1>1, <2>1, <2>3 DEF Ring
  <2>5. Log'
    BY <1>1, <2>1 DEF Log
  <2> QED BY <1>1, <2>2, <2>3, <2>4, <2>5 DEF InputInv
<1>4. CASE avail # <<>>
  <2>1. /\ event' = [event EXCEPT ![Head(avail)] = next] /\ avail' = Tail(avail)
        /\ used' = Append(used, Head(avail)) /\ given' = Append(given, next)
        /\ desc' = desc /\ idx' = idx
    BY <1>4 DEF DeviceEvent
  <2> DEFINE a == Len(avail)
             u == Len(used)
             h == Head(avail)
  <2>2. /\ a >= 1 /\ h = avail[1] /\ h \in Slot
        /\ avail' \in Seq(Slot) /\ Len(avail') = a - 1
        /\ \A i \in 1..a - 1 : avail'[i] = avail[i + 1]
    BY <1>2, <1>4, <2>1
  <2>3. /\ used' \in Seq(Slot) /\ Len(used') = u + 1 /\ used'[u + 1] = h
        /\ \A i \in 1..u : used'[i] = used[i]
    BY <1>2, <2>1, <2>2
  <2>4. /\ given' \in Seq(Nat) /\ Len(given') = Len(given) + 1 /\ given'[Len(given) + 1] = next
        /\ \A i \in 1..Len(given) : given'[i] = given[i]
    BY <1>2, <2>1
  <2>5. Held = u + a /\ Held' = Held /\ Held \in Nat /\ Held <= RingSize
    <3>1. Held = u + a /\ Held' = u + 1 + (a - 1)
      BY <2>2, <2>3 DEF Held
    <3> QED BY <1>1, <1>2, <2>2, <3>1 DEF Ring
  <2>6. \A k : Back(k)' = Back(k)
    BY <2>1 DEF Back
  <2>7. h = Back(a)
    <3>1. avail[1] = Back(a + 1 - 1)
      BY <1>1, <1>2, <2>2 DEF Ring
    <3>2. a + 1 - 1 = a
      BY <1>2
    <3> QED BY <2>2, <3>1, <3>2
  <2>8. InputType'
    <3>1. event' \in [Slot -> Nat]
      BY <1>2, <2>1
    <3> QED BY <1>1, <1>2, <2>1, <2>2, <2>3, <2>4, <3>1 DEF InputType
  <2>9. Ring'
    <3>1. (\A i \in 1..Len(used) : used[i] = Back(Held + 1 - i))'
      <4>1. \A i \in 1..u : used'[i] = Back(Held + 1 - i)
        BY <1>1, <2>3 DEF Ring
      <4>2. used'[u + 1] = Back(Held + 1 - (u + 1))
        <5>1. Held + 1 - (u + 1) = a
          BY <1>2, <2>5
        <5> QED BY <2>3, <2>7, <5>1
      <4>3. \A i \in 1..u + 1 : i \in 1..u \/ i = u + 1
        BY <1>2, LastIndex
      <4>4. \A i \in 1..u + 1 : used'[i] = Back(Held + 1 - i)
        BY <4>1, <4>2, <4>3
      <4> QED BY <2>3, <2>5, <2>6, <4>4
    <3>2. (\A i \in 1..Len(avail) : avail[i] = Back(Len(avail) + 1 - i))'
      <4>1. ASSUME NEW i \in 1..a - 1 PROVE avail'[i] = Back(a - 1 + 1 - i)
        <5>1. i + 1 \in 1..a /\ a + 1 - (i + 1) = a - 1 + 1 - i
          BY <1>2
        <5>2. avail[i + 1] = Back(a + 1 - (i + 1))
          BY <1>1, <5>1 DEF Ring
        <5> QED BY <2>2, <5>1, <5>2
      <4> QED BY <2>2, <2>6, <4>1
    <3>3. (\A k \in 1..RingSize : desc[Back(k)] = IF k <= Held THEN Offered ELSE Free)'
      BY <1>1, <2>1, <2>5, <2>6 DEF Ring
    <3>4. (Held <= RingSize)'
      BY <2>5
    <3> QED BY <3>1, <3>2, <3>3, <3>4 DEF Ring
  <2>10. Log'
    <3>1. Len(given) = Len(handled) + u
      BY <1>1 DEF Log
    <3>2. (Len(given) = Len(handled) + Len(used))'
      BY <1>1, <1>2, <2>3, <2>4, <3>1
    <3>3. (\A i \in 1..Len(handled) : handled[i] = given[i])'
      BY <1>1, <1>2, <2>4, <3>1 DEF Log
    <3>4. ASSUME NEW i \in 1..u
          PROVE  event'[used'[i]] = given'[Len(handled) + i]
      <4>1. used[i] = Back(Held + 1 - i) /\ Held + 1 - i \in 1..RingSize /\ Held + 1 - i # a
        <5>1. used[i] = Back(Held + 1 - i)
          BY <1>1 DEF Ring
        <5>2. Held + 1 - i \in 1..RingSize /\ Held + 1 - i # a
          BY <1>2, <2>2, <2>5
        <5> QED BY <5>1, <5>2
      <4>2. a \in 1..RingSize
        BY <1>2, <2>2, <2>5
      <4>3. used[i] # h
        <5>1. \A k, l \in 1..RingSize : Back(k) = Back(l) => k = l
          BY <1>2, BackFacts
        <5> QED BY <2>7, <4>1, <4>2, <5>1
      <4>4. used[i] \in Slot /\ event'[used[i]] = event[used[i]]
        BY <1>2, <2>1, <4>3
      <4>5. Len(handled) + i \in 1..Len(given)
        BY <1>2, <3>1
      <4>6. event[used[i]] = given[Len(handled) + i]
        BY <1>1 DEF Log
      <4> QED BY <2>3, <2>4, <4>4, <4>5, <4>6
    <3>5. event'[used'[u + 1]] = given'[Len(handled) + (u + 1)]
      <4>1. event'[h] = next
        BY <1>2, <2>1, <2>2
      <4>2. Len(handled) + (u + 1) = Len(given) + 1
        BY <1>2, <3>1
      <4> QED BY <2>3, <2>4, <4>1, <4>2
    <3>6. (\A i \in 1..Len(used) : event[used[i]] = given[Len(handled) + i])'
      <4>1. \A i \in 1..u + 1 : i \in 1..u \/ i = u + 1
        BY <1>2, LastIndex
      <4> QED BY <1>1, <2>3, <3>4, <3>5, <4>1
    <3> QED BY <3>2, <3>3, <3>6 DEF Log
  <2> QED BY <1>1, <2>5, <2>8, <2>9, <2>10 DEF InputInv
<1> QED BY <1>3, <1>4

\* The handler handles the event of the slot that was filled first and frees the slot.
LEMMA IrqHandleInv ==
  ASSUME InputAssumption, InputInv, IrqHandle
  PROVE  InputInv'
<1>1. /\ InputType /\ Ring /\ Log /\ phase = "drain" /\ phase' = phase /\ Acknowledge
      /\ handled' = Append(handled, event[Head(used)])
      /\ next' = next /\ event' = event /\ given' = given
  BY DEF InputInv, IrqHandle
<1>2. /\ idx \in Slot /\ used \in Seq(Slot) /\ avail \in Seq(Slot) /\ event \in [Slot -> Nat]
      /\ given \in Seq(Nat) /\ handled \in Seq(Nat) /\ desc \in [Slot -> {Free, Offered}]
      /\ RingSize \in Nat /\ Len(used) \in Nat /\ Len(avail) \in Nat /\ Len(handled) \in Nat
      /\ Len(given) \in Nat
  <2>1. idx \in Slot
    BY <1>1 DEF InputType
  <2>2. RingSize \in Nat /\ RingSize >= 1 /\ idx = Back(RingSize)
    BY <2>1, BackFacts
  <2> QED BY <1>1, <2>1, <2>2 DEF InputType
<1> DEFINE u == Len(used)
           n == Len(handled)
<1>3. /\ u >= 1 /\ used' = Tail(used) /\ idx' = idx /\ avail' = avail /\ Head(used) = used[1]
      /\ desc' = [s \in Slot |-> IF s = Back(Held) THEN Free ELSE desc[s]]
  BY <1>1, AcknowledgeFacts
<1>4. /\ used' \in Seq(Slot) /\ Len(used') = u - 1 /\ used[1] \in Slot
      /\ \A i \in 1..u - 1 : used'[i] = used[i + 1]
  BY <1>2, <1>3
<1>5. /\ handled' \in Seq(Nat) /\ Len(handled') = n + 1 /\ handled'[n + 1] = event[used[1]]
      /\ \A i \in 1..n : handled'[i] = handled[i]
  <2>1. event[used[1]] \in Nat
    BY <1>2, <1>4
  <2> QED BY <1>1, <1>2, <1>3, <2>1
<1>6. Held \in Nat /\ Held' = Held - 1 /\ Held >= 1 /\ Held <= RingSize
  <2>1. Held = u + Len(avail) /\ Held' = u - 1 + Len(avail)
    BY <1>3, <1>4 DEF Held
  <2> QED BY <1>1, <1>2, <1>3, <2>1 DEF Ring
<1>7. \A k : Back(k)' = Back(k)
  BY <1>3 DEF Back
<1>8. InputType'
  <2>1. desc' \in [Slot -> {Free, Offered}]
    BY <1>2, <1>3
  <2> QED BY <1>1, <1>3, <1>4, <1>5, <2>1 DEF InputType
<1>9. Ring'
  <2>1. (\A i \in 1..Len(used) : used[i] = Back(Held + 1 - i))'
    <3>1. ASSUME NEW i \in 1..u - 1 PROVE used'[i] = Back(Held - 1 + 1 - i)
      <4>1. i + 1 \in 1..u /\ Held + 1 - (i + 1) = Held - 1 + 1 - i
        BY <1>2, <1>6
      <4>2. used[i + 1] = Back(Held + 1 - (i + 1))
        BY <1>1, <4>1 DEF Ring
      <4> QED BY <1>4, <4>1, <4>2
    <3> QED BY <1>4, <1>6, <1>7, <3>1
  <2>2. (\A i \in 1..Len(avail) : avail[i] = Back(Len(avail) + 1 - i))'
    BY <1>1, <1>3, <1>7 DEF Ring
  <2>3. (\A k \in 1..RingSize : desc[Back(k)] = IF k <= Held THEN Offered ELSE Free)'
    <3>1. ASSUME NEW k \in 1..RingSize
          PROVE  desc'[Back(k)] = IF k <= Held - 1 THEN Offered ELSE Free
      <4>1. Back(k) \in Slot /\ (Back(k) = Back(Held) => k = Held)
        <5>1. Held \in 1..RingSize
          BY <1>2, <1>6
        <5> QED BY <1>2, <5>1, BackFacts
      <4>2. desc[Back(k)] = IF k <= Held THEN Offered ELSE Free
        BY <1>1 DEF Ring
      <4>3. CASE k = Held
        BY <1>3, <1>6, <4>1, <4>3
      <4>4. CASE k # Held
        <5>1. k <= Held - 1 <=> k <= Held
          BY <1>2, <1>6, <4>4
        <5> QED BY <1>3, <4>1, <4>2, <4>4, <5>1
      <4> QED BY <4>3, <4>4
    <3> QED BY <1>6, <1>7, <3>1
  <2>4. (Held <= RingSize)'
    BY <1>2, <1>6
  <2> QED BY <2>1, <2>2, <2>3, <2>4 DEF Ring
<1>10. Log'
  <2>1. /\ Len(given) = n + u /\ (\A i \in 1..n : handled[i] = given[i])
        /\ \A i \in 1..u : event[used[i]] = given[n + i]
    BY <1>1 DEF Log
  <2>2. (Len(given) = Len(handled) + Len(used))'
    BY <1>1, <1>2, <1>4, <1>5, <2>1
  <2>3. (\A i \in 1..Len(handled) : handled[i] = given[i])'
    <3>1. handled'[n + 1] = given[n + 1]
      BY <1>2, <1>3, <1>5, <2>1
    <3>2. \A i \in 1..n + 1 : i \in 1..n \/ i = n + 1
      BY <1>2, LastIndex
    <3> QED BY <1>1, <1>5, <2>1, <3>1, <3>2
  <2>4. (\A i \in 1..Len(used) : event[used[i]] = given[Len(handled) + i])'
    <3>1. ASSUME NEW i \in 1..u - 1 PROVE event[used'[i]] = given[n + 1 + i]
      <4>1. i + 1 \in 1..u /\ n + (i + 1) = n + 1 + i
        BY <1>2
      <4>2. event[used[i + 1]] = given[n + (i + 1)]
        BY <2>1, <4>1
      <4> QED BY <1>4, <4>1, <4>2
    <3> QED BY <1>1, <1>4, <1>5, <3>1
  <2> QED BY <2>2, <2>3, <2>4 DEF Log
<1> QED BY <1>1, <1>8, <1>9, <1>10 DEF InputInv

\* One turn of request_event: a free slot is offered, and there is none when the handler
\* ends.
LEMMA IrqRefillInv ==
  ASSUME InputAssumption, InputInv, IrqRefill
  PROVE  InputInv'
<1>1. /\ InputType /\ Ring /\ Log /\ phase = "refill" /\ SendCommand(<<"event">>)
      /\ next' = next /\ handled' = handled /\ given' = given
      /\ IF Accepted(1) = 1 THEN event' = [event EXCEPT ![idx] = 0] /\ phase' = phase
         ELSE phase' = "out" /\ event' = event
  BY DEF InputInv, IrqRefill, None
<1>2. /\ idx \in Slot /\ used \in Seq(Slot) /\ avail \in Seq(Slot) /\ event \in [Slot -> Nat]
      /\ desc \in [Slot -> {Free, Offered}] /\ RingSize \in Nat /\ RingSize >= 1
      /\ idx = Back(RingSize) /\ Len(used) \in Nat /\ Len(avail) \in Nat
  <2>1. idx \in Slot
    BY <1>1 DEF InputType
  <2>2. RingSize \in Nat /\ RingSize >= 1 /\ idx = Back(RingSize)
    BY <2>1, BackFacts
  <2> QED BY <1>1, <2>1, <2>2 DEF InputType
<1>3. /\ Held \in Nat /\ Held = Len(used) + Len(avail) /\ (Held < RingSize \/ Held = RingSize)
  <2>1. Held = Len(used) + Len(avail)
    BY DEF Held
  <2>2. Held <= RingSize
    BY <1>1 DEF Ring
  <2> QED BY <1>2, <2>1, <2>2
<1>4. CASE Held = RingSize
  <2>1. /\ used' = used /\ avail' = avail /\ idx' = idx /\ desc' = desc /\ phase' = "out"
        /\ event' = event
    BY <1>1, <1>4, SendFacts
  <2>2. Held' = Held /\ \A k : Back(k)' = Back(k)
    BY <2>1 DEF Held, Back
  <2>3. InputType'
    BY <1>1, <2>1 DEF InputType
  <2>4. Ring'
    BY <1>1, <2>1, <2>2 DEF Ring
  <2>5. Log'
    BY <1>1, <2>1 DEF Log
  <2> QED BY <1>4, <2>2, <2>3, <2>4, <2>5 DEF InputInv
<1>5. CASE Held < RingSize
  <2> DEFINE a == Len(avail)
  <2>1. /\ used' = used /\ avail' = Append(avail, idx)
        /\ idx' = IF idx + 1 < RingSize THEN idx + 1 ELSE 0
        /\ desc' = [desc EXCEPT ![idx] = Offered] /\ phase' = "refill"
        /\ event' = [event EXCEPT ![idx] = 0]
    BY <1>1, <1>5, SendFacts
  <2>2. /\ avail' \in Seq(Slot) /\ Len(avail') = a + 1 /\ avail'[a + 1] = idx
        /\ \A i \in 1..a : avail'[i] = avail[i]
    BY <1>2, <2>1
  <2>3. Held' = Held + 1
    <3>1. Held' = Len(used) + (a + 1)
      BY <2>1, <2>2 DEF Held
    <3> QED BY <1>2, <1>3, <3>1
  <2>4. Back(1)' = idx /\ \A k \in 1..RingSize - 1 : Back(k + 1)' = Back(k)
    BY <1>2, <2>1 DEF Back, Slot
  <2>5. \A k \in 1..RingSize - 1 : Back(k) \in Slot /\ Back(k) # idx
    BY <1>2 DEF Back, Slot
  <2>6. InputType'
    <3>1. idx' \in Slot
      BY <1>2, <2>1 DEF Slot
    <3>2. event' \in [Slot -> Nat]
      BY <1>2, <2>1
    <3>3. desc' \in [Slot -> {Free, Offered}]
      BY <1>2, <2>1
    <3> QED BY <1>1, <2>1, <2>2, <3>1, <3>2, <3>3 DEF InputType
  <2>7. Ring'
    <3>1. ASSUME NEW i \in 1..Len(used), NEW m, m = Held + 1 + 1 - i
          PROVE  used[i] = Back(m)'
      <4>1. Held + 1 - i \in 1..RingSize - 1 /\ m = Held + 1 - i + 1
        BY <1>2, <1>3, <1>5, <3>1
      <4>2. used[i] = Back(Held + 1 - i)
        BY <1>1 DEF Ring
      <4> QED BY <2>4, <4>1, <4>2
    <3>2. ASSUME NEW i \in 1..a, NEW m, m = a + 1 + 1 - i
          PROVE  avail'[i] = Back(m)'
      <4>1. a + 1 - i \in 1..RingSize - 1 /\ m = a + 1 - i + 1
        BY <1>2, <1>3, <1>5, <3>2
      <4>2. avail[i] = Back(a + 1 - i)
        BY <1>1 DEF Ring
      <4> QED BY <2>2, <2>4, <4>1, <4>2
    <3>3. ASSUME NEW m, m = a + 1 + 1 - (a + 1) PROVE avail'[a + 1] = Back(m)'
      <4>1. m = 1
        BY <1>2, <3>3
      <4> QED BY <2>2, <2>4, <4>1
    <3>4. (\A i \in 1..Len(used) : used[i] = Back(Held + 1 - i))'
      BY <2>1, <2>3, <3>1 DEF Back
    <3>5. (\A i \in 1..Len(avail) : avail[i] = Back(Len(avail) + 1 - i))'
      <4>1. \A i \in 1..a + 1 : i \in 1..a \/ i = a + 1
        BY <1>2, LastIndex
      <4> QED BY <2>2, <3>2, <3>3, <4>1 DEF Back
    <3>6. (\A k \in 1..RingSize : desc[Back(k)] = IF k <= Held THEN Offered ELSE Free)'
      <4>1. desc'[Back(1)'] = Offered
        BY <1>2, <2>1, <2>4
      <4>2. ASSUME NEW k \in 2..RingSize
            PROVE  desc'[Back(k)'] = IF k <= Held + 1 THEN Offered ELSE Free
        <5>1. k - 1 \in 1..RingSize - 1 /\ k - 1 + 1 = k /\ k - 1 \in 1..RingSize
              /\ (k - 1 <= Held <=> k <= Held + 1)
          BY <1>2, <1>3
        <5>2. Back(k)' = Back(k - 1) /\ Back(k - 1) \in Slot /\ Back(k - 1) # idx
          BY <2>4, <2>5, <5>1
        <5>3. desc[Back(k - 1)] = IF k - 1 <= Held THEN Offered ELSE Free
          BY <1>1, <5>1 DEF Ring
        <5> QED BY <1>2, <2>1, <5>1, <5>2, <5>3
      <4>3. \A k \in 1..RingSize : k = 1 \/ k \in 2..RingSize
        BY <1>2
      <4>4. 1 <= Held + 1
        BY <1>3
      <4> QED BY <2>3, <4>1, <4>2, <4>3, <4>4
    <3>7. (Held <= RingSize)'
      BY <1>2, <1>3, <1>5, <2>3
    <3> QED BY <3>4, <3>5, <3>6, <3>7 DEF Ring
  <2>8. Log'
    <3>1. ASSUME NEW i \in 1..Len(used) PROVE event'[used[i]] = event[used[i]]
      <4>1. Held + 1 - i \in 1..RingSize - 1
        BY <1>2, <1>3, <1>5
      <4>2. used[i] # idx /\ used[i] \in Slot
        BY <1>1, <1>2, <2>5, <4>1 DEF Ring
      <4> QED BY <1>2, <2>1, <4>2
    <3> QED BY <1>1, <2>1, <3>1 DEF Log
  <2> QED BY <2>1, <2>6, <2>7, <2>8 DEF InputInv
<1> QED BY <1>3, <1>4, <1>5

-----------------------------------------------------------------------------
\* Every step of the device and of the handler preserves the invariant.
LEMMA InputStepInv ==
  ASSUME InputAssumption, InputInv, [Next]_vars
  PROVE  InputInv'
<1>1. CASE DeviceEvent
  BY <1>1, DeviceEventInv
<1>2. CASE IrqHandle
  BY <1>2, IrqHandleInv
<1>3. CASE IrqRefill
  BY <1>3, IrqRefillInv
<1>4. CASE DeviceRaise \/ IrqEnter \/ IrqDrained \/ UNCHANGED vars
  <2>1. UNCHANGED <<queueVars, next, event, handled, given>>
    BY <1>4 DEF DeviceRaise, IrqEnter, IrqDrained, vars
  <2>2. phase' \in {"out", "drain", "refill"} /\ (phase' = "out" => phase = "out")
    BY <1>4 DEF DeviceRaise, IrqEnter, IrqDrained, vars, InputInv, InputType
  <2> QED BY <2>1, <2>2, KeptInv
<1> QED BY <1>1, <1>2, <1>3, <1>4 DEF Next, Irq

\* The handlers of keyboard.c and mouse.c handle the events in the order the device gave
\* them, each once and as it was written, however the ring wraps and whatever the device
\* does meanwhile; and request_event leaves no slot of the ring unused.
THEOREM EventsInOrder ==
  ASSUME InputAssumption
  PROVE  Spec => []InputInOrder
<1>1. Init => InputInv
  BY InputInitInv
<1>2. InputInv /\ [Next]_vars => InputInv'
  BY InputStepInv
<1>3. InputInv => InputInOrder
  <2> SUFFICES ASSUME InputInv PROVE InputInOrder
    OBVIOUS
  <2>1. /\ used \in Seq(Slot) /\ avail \in Seq(Slot) /\ handled \in Seq(Nat) /\ Log
        /\ phase = "out" => Held = RingSize
    BY DEF InputInv, InputType
  <2>2. /\ Len(used) \in Nat /\ Len(avail) \in Nat /\ Len(handled) \in Nat
        /\ DOMAIN handled = 1..Len(handled)
    BY <2>1
  <2>3. HandledInOrder
    BY <2>1, <2>2 DEF HandledInOrder, Log
  <2>4. RingRefilled
    BY <2>1, <2>2 DEF RingRefilled, Held
  <2> QED BY <2>3, <2>4 DEF InputInOrder
<1> QED BY <1>1, <1>2, <1>3, PTL DEF Spec
=============================================================================
