------------------------- MODULE VirtioBlockProofs -------------------------
(***************************************************************************)
(* The block driver's promises, for every ring that has room for the       *)
(* requests of one system call and one more: nobody waits for a request    *)
(* the device was never given, the device writes only into frames that     *)
(* still exist, and no descriptor is lost or given back twice.             *)
(***************************************************************************)
EXTENDS VirtioBlock, TLAPS

\* The slot k places before queue->idx in the ring.
Back(k) == IF k <= idx THEN idx - k ELSE idx - k + RingSize

Waiting == pc \in {"wait", "prepare", "poll"}

\* The requests the device has fetched and not given back, and all that hold descriptors.
Worked == IF stage \in {"work", "push"} THEN 1 ELSE 0
Outstanding == Len(used) + Worked + Len(avail)

BlockType ==
  /\ idx \in Slot /\ used \in Seq(Slot) /\ avail \in Seq(Slot)
  /\ desc \in [Slot -> {Free} \cup [more : BOOLEAN, what : {"header", "data", "status"}]]
  /\ pc \in {"user", "submit", "wait", "prepare", "poll"}
  /\ masked \in BOOLEAN /\ pending \in BOOLEAN /\ handling \in BOOLEAN
  /\ left \in Nat /\ status \in {0, 1}
  /\ stage \in {"idle", "work", "push", "raise"}

\* The chains lie one after the other before idx, the oldest furthest back: those given
\* back, then the one the device works on, then the one published; the rest of the ring
\* is free.
Layout ==
  /\ Len(avail) = 1 => avail[1] = Back(3)
  /\ stage \in {"work", "push"} => device = Back(3 * Len(avail) + 3)
  /\ \A i \in 1..Len(used) : used[i] = Back(3 * (Outstanding - i) + 3)
  /\ \A j \in 1..Outstanding :
       /\ desc[Back(3 * j)] = [more |-> TRUE, what |-> "header"]
       /\ desc[Back(3 * j - 1)] = [more |-> TRUE, what |-> "data"]
       /\ desc[Back(3 * j - 2)] = [more |-> FALSE, what |-> "status"]
  /\ \A k \in 3 * Outstanding + 1..RingSize : desc[Back(k)] = Free

\* Only the request that is waited for is published or worked on, and not once its status
\* byte is written.
OnlyLive ==
  /\ Len(avail) <= 1
  /\ Waiting => live = Back(3)
  /\ ~Waiting => live = NoReq
  /\ ~Waiting \/ status = 0 => avail = <<>> /\ stage # "work"
  /\ stage = "work" => avail = <<>>

\* How many chains wait for the handler: at most the one whose interrupt is about to be
\* raised, unless an interrupt is pending or served; and during a system call, which keeps
\* it pending, one from before the call and those the call has made.
Backlog ==
  /\ pc = "user" => ~masked
  /\ masked => ~handling
  /\ pc # "user" => left >= 1
  /\ ~pending /\ ~handling => Len(used) <= IF stage = "raise" THEN 1 ELSE 0
  /\ Outstanding <= PerCall + 1
  /\ masked => Outstanding + left <= PerCall + 1 + IF Waiting THEN 1 ELSE 0

\* The inductive invariant.
BlockInv == BlockType /\ Layout /\ OnlyLive /\ Backlog

-----------------------------------------------------------------------------
\* A slot a few places on, without the remainder (virtio_desc_new wraps queue->idx).
LEMMA AfterFacts ==
  ASSUME RingAssumption, NEW s \in Slot, NEW n \in 0..RingSize
  PROVE  /\ After(s, n) = IF s + n < RingSize THEN s + n ELSE s + n - RingSize
         /\ After(s, n) \in Slot
  BY DEF RingAssumption, Slot, After

\* The places before idx are the slots, each once.
LEMMA BackFacts ==
  ASSUME RingAssumption, idx \in Slot
  PROVE  /\ \A k \in 1..RingSize : Back(k) \in Slot
         /\ \A k, l \in 1..RingSize : Back(k) = Back(l) => k = l
         /\ \A s \in Slot : \E k \in 1..RingSize : s = Back(k)
         /\ \A k \in 1..RingSize : \A n \in 0..k - 1 : After(Back(k), n) = Back(k - n)
         /\ \A n \in 0..RingSize - 1 : After(idx, n) = Back(RingSize - n)
<1>1. /\ \A k \in 1..RingSize : Back(k) \in Slot
      /\ \A k, l \in 1..RingSize : Back(k) = Back(l) => k = l
  BY DEF RingAssumption, Slot, Back
<1>2. ASSUME NEW s \in Slot PROVE \E k \in 1..RingSize : s = Back(k)
  <2>1. CASE s < idx
    <3>1. idx - s \in 1..RingSize /\ s = Back(idx - s)
      BY <2>1 DEF RingAssumption, Slot, Back
    <3> QED BY <3>1
  <2>2. CASE s >= idx
    <3>1. idx - s + RingSize \in 1..RingSize /\ s = Back(idx - s + RingSize)
      BY <2>2 DEF RingAssumption, Slot, Back
    <3> QED BY <3>1
  <2> QED BY <2>1, <2>2 DEF Slot, RingAssumption
<1>3. ASSUME NEW k \in 1..RingSize, NEW n \in 0..k - 1
      PROVE  After(Back(k), n) = Back(k - n)
  <2>1. Back(k) \in Slot /\ n \in 0..RingSize
    BY <1>1 DEF RingAssumption
  <2>2. After(Back(k), n) = IF Back(k) + n < RingSize THEN Back(k) + n ELSE Back(k) + n - RingSize
    BY <2>1, AfterFacts
  <2> QED BY <2>2 DEF RingAssumption, Slot, Back
<1>4. ASSUME NEW n \in 0..RingSize - 1
      PROVE  After(idx, n) = Back(RingSize - n)
  <2>1. n \in 0..RingSize
    BY DEF RingAssumption
  <2>2. After(idx, n) = IF idx + n < RingSize THEN idx + n ELSE idx + n - RingSize
    BY <2>1, AfterFacts
  <2> QED BY <2>2 DEF RingAssumption, Slot, Back
<1> QED BY <1>1, <1>2, <1>3, <1>4

\* How many requests hold descriptors, and the room they leave.
LEMMA OutstandingFacts ==
  ASSUME RingAssumption, BlockType
  PROVE  /\ Worked \in {0, 1} /\ Outstanding \in Nat /\ Len(used) \in Nat /\ Len(avail) \in Nat
         /\ Outstanding = Len(used) + Worked + Len(avail)
         /\ Outstanding <= PerCall => 3 * Outstanding + 3 <= RingSize
         /\ Outstanding <= PerCall + 1 => 3 * Outstanding <= RingSize
<1>1. Len(used) \in Nat /\ Len(avail) \in Nat
  BY DEF BlockType
<1>2. Worked \in {0, 1}
  BY DEF Worked
<1> QED BY <1>1, <1>2 DEF Outstanding, RingAssumption

\* virtio_send_command_3 finds its three slots free and publishes the chain.
LEMMA SendFacts ==
  ASSUME RingAssumption, BlockType, Layout, Outstanding <= PerCall, SendCommand(Buffers)
  PROVE  /\ used' = used /\ avail' = Append(avail, idx)
         /\ idx' \in Slot
         /\ idx' = IF idx + 3 < RingSize THEN idx + 3 ELSE idx + 3 - RingSize
         /\ DOMAIN desc' = Slot
         /\ desc'[Back(RingSize)] = [more |-> TRUE, what |-> "header"]
         /\ desc'[Back(RingSize - 1)] = [more |-> TRUE, what |-> "data"]
         /\ desc'[Back(RingSize - 2)] = [more |-> FALSE, what |-> "status"]
         /\ \A k \in 1..RingSize - 3 : desc'[Back(k)] = desc[Back(k)]
<1>1. idx \in Slot /\ RingSize \in Nat /\ RingSize >= 6
  BY DEF BlockType, RingAssumption
<1>2. /\ After(idx, 0) = Back(RingSize) /\ After(idx, 1) = Back(RingSize - 1)
      /\ After(idx, 2) = Back(RingSize - 2)
  BY <1>1, BackFacts
<1>3. \A i \in 0..2 : desc[After(idx, i)] = Free
  <2>1. 3 * Outstanding + 3 <= RingSize /\ Outstanding \in Nat
    BY OutstandingFacts
  <2>2. \A k \in RingSize - 2..RingSize : desc[Back(k)] = Free
    BY <1>1, <2>1 DEF Layout
  <2> QED BY <1>1, <1>2, <2>2
<1>4. Accepted(3) = 3
  BY <1>3 DEF Accepted
<1>5. Len(Buffers) = 3 /\ Buffers[1] = "header" /\ Buffers[2] = "data" /\ Buffers[3] = "status"
  BY DEF Buffers
<1>6. /\ used' = used /\ avail' = Append(avail, idx) /\ idx' = After(idx, 3)
      /\ desc' = [s \in Slot |->
           IF \E i \in 1..3 : s = After(idx, i - 1)
           THEN LET i == CHOOSE i \in 1..3 : s = After(idx, i - 1)
                IN [more |-> i < 3, what |-> Buffers[i]]
           ELSE desc[s]]
  BY <1>4, <1>5 DEF SendCommand
<1>7. /\ idx' \in Slot
      /\ idx' = IF idx + 3 < RingSize THEN idx + 3 ELSE idx + 3 - RingSize
  BY <1>1, <1>6, AfterFacts
<1>8. /\ Back(RingSize) \in Slot /\ Back(RingSize - 1) \in Slot /\ Back(RingSize - 2) \in Slot
      /\ Back(RingSize) # Back(RingSize - 1) /\ Back(RingSize) # Back(RingSize - 2)
      /\ Back(RingSize - 1) # Back(RingSize - 2)
  BY <1>1 DEF Back, Slot
<1>9. ASSUME NEW n \in 1..3
      PROVE  desc'[After(idx, n - 1)] = [more |-> n < 3, what |-> Buffers[n]]
  <2>1. \A i \in 1..3 : After(idx, n - 1) = After(idx, i - 1) <=> i = n
    BY <1>2, <1>8
  <2>2. (CHOOSE i \in 1..3 : After(idx, n - 1) = After(idx, i - 1)) = n
    BY <2>1
  <2>3. After(idx, n - 1) \in Slot
    BY <1>2, <1>8
  <2> QED BY <1>6, <2>1, <2>2, <2>3
<1>10. /\ desc'[Back(RingSize)] = [more |-> TRUE, what |-> "header"]
       /\ desc'[Back(RingSize - 1)] = [more |-> TRUE, what |-> "data"]
       /\ desc'[Back(RingSize - 2)] = [more |-> FALSE, what |-> "status"]
  <2>1. (1 < 3) = TRUE /\ (2 < 3) = TRUE /\ (3 < 3) = FALSE
    OBVIOUS
  <2>2. /\ desc'[After(idx, 1 - 1)] = [more |-> 1 < 3, what |-> Buffers[1]]
        /\ desc'[After(idx, 2 - 1)] = [more |-> 2 < 3, what |-> Buffers[2]]
        /\ desc'[After(idx, 3 - 1)] = [more |-> 3 < 3, what |-> Buffers[3]]
    BY <1>9
  <2>3. 1 - 1 = 0 /\ 2 - 1 = 1 /\ 3 - 1 = 2
    OBVIOUS
  <2>4. desc'[Back(RingSize)] = [more |-> TRUE, what |-> "header"]
    BY <1>2, <1>5, <2>1, <2>2, <2>3, Zenon
  <2>5. desc'[Back(RingSize - 1)] = [more |-> TRUE, what |-> "data"]
    BY <1>2, <1>5, <2>1, <2>2, <2>3, Zenon
  <2>6. desc'[Back(RingSize - 2)] = [more |-> FALSE, what |-> "status"]
    BY <1>2, <1>5, <2>1, <2>2, <2>3, Zenon
  <2> QED BY <2>4, <2>5, <2>6
<1>11. ASSUME NEW k \in 1..RingSize - 3 PROVE desc'[Back(k)] = desc[Back(k)]
  <2>1. Back(k) \in Slot /\ \A i \in 1..3 : Back(k) # After(idx, i - 1)
    <3>1. Back(k) \in Slot /\ Back(k) # Back(RingSize) /\ Back(k) # Back(RingSize - 1)
            /\ Back(k) # Back(RingSize - 2)
      BY <1>1 DEF Back, Slot
    <3> QED BY <1>2, <3>1
  <2> QED BY <1>6, <2>1
<1> QED BY <1>6, <1>7, <1>10, <1>11

\* A descriptor in use is not a free one, and says whether its chain goes on
\* (VRING_DESC_F_NEXT).
LEMMA DescriptorFacts ==
  ASSUME RingAssumption, NEW d, NEW w \in {"header", "data", "status"}
  PROVE  /\ d = [more |-> TRUE, what |-> w] => d # Free /\ d.more
         /\ d = [more |-> FALSE, what |-> w] => d # Free /\ ~d.more
         /\ \A b \in BOOLEAN : d = [more |-> b, what |-> w]
              => d \in [more : BOOLEAN, what : {"header", "data", "status"}]
<1>1. ASSUME NEW b \in BOOLEAN
      PROVE  [more |-> b, what |-> w] \in [more : BOOLEAN, what : {"header", "data", "status"}]
  OBVIOUS
<1>2. d = [more |-> TRUE, what |-> w] => d # Free
  BY <1>1 DEF RingAssumption
<1>3. d = [more |-> FALSE, what |-> w] => d # Free
  BY <1>1 DEF RingAssumption
<1>4. d = [more |-> TRUE, what |-> w] => d.more
  OBVIOUS
<1>5. d = [more |-> FALSE, what |-> w] => ~d.more
  OBVIOUS
<1> QED BY <1>1, <1>2, <1>3, <1>4, <1>5

\* The interrupt handler clears the three descriptors of the oldest chain and no other.
LEMMA AcknowledgeFacts ==
  ASSUME RingAssumption, BlockType, Layout, Outstanding <= PerCall + 1, Acknowledge
  PROVE  /\ used' = Tail(used) /\ idx' = idx /\ avail' = avail /\ Outstanding >= 1
         /\ Head(used) = Back(3 * Outstanding)
         /\ desc' \in [Slot -> {Free} \cup {desc[s] : s \in Slot}]
         /\ \A k \in 1..RingSize :
              desc'[Back(k)] = IF k \in 3 * Outstanding - 2..3 * Outstanding
                               THEN Free ELSE desc[Back(k)]
<1> DEFINE c == Outstanding
           h == Back(3 * c)
           P(n) == /\ \A i \in 0..(n - 2) : desc[After(h, i)] # Free /\ desc[After(h, i)].more
                   /\ \/ desc[After(h, n - 1)] = Free
                      \/ ~desc[After(h, n - 1)].more
<1>1. /\ idx \in Slot /\ RingSize \in Nat /\ RingSize >= 6 /\ used # <<>> /\ used \in Seq(Slot)
      /\ used' = Tail(used) /\ idx' = idx /\ avail' = avail
      /\ desc' = [s \in Slot |-> IF s \in Chain(Head(used)) THEN Free ELSE desc[s]]
  BY DEF BlockType, RingAssumption, Acknowledge
<1>2. Len(used) >= 1 /\ Head(used) = used[1]
  BY <1>1
<1>3. c \in Nat /\ c >= 1 /\ 3 * c <= RingSize
  BY <1>2, OutstandingFacts
<1>4. Head(used) = h
  <2>1. used[1] = Back(3 * (c - 1) + 3)
    BY <1>2, <1>3, OutstandingFacts DEF Layout
  <2>2. 3 * (c - 1) + 3 = 3 * c
    BY <1>3
  <2> QED BY <1>2, <2>1, <2>2
<1>5. After(h, 0) = Back(3 * c) /\ After(h, 1) = Back(3 * c - 1) /\ After(h, 2) = Back(3 * c - 2)
  <2> HIDE DEF c
  <2>1. 3 * c \in 1..RingSize /\ 0 \in 0..3 * c - 1 /\ 1 \in 0..3 * c - 1 /\ 2 \in 0..3 * c - 1
    BY <1>1, <1>3
  <2>2. \A n \in 0..3 * c - 1 : After(h, n) = Back(3 * c - n)
    BY <1>1, <2>1, BackFacts
  <2>3. 3 * c - 0 = 3 * c
    BY <1>3
  <2> QED BY <2>1, <2>2, <2>3
<1>6. /\ desc[After(h, 0)] = [more |-> TRUE, what |-> "header"]
      /\ desc[After(h, 1)] = [more |-> TRUE, what |-> "data"]
      /\ desc[After(h, 2)] = [more |-> FALSE, what |-> "status"]
  BY <1>3, <1>5 DEF Layout
<1>7. /\ desc[After(h, 0)] # Free /\ desc[After(h, 0)].more
      /\ desc[After(h, 1)] # Free /\ desc[After(h, 1)].more
      /\ desc[After(h, 2)] # Free /\ ~desc[After(h, 2)].more
  BY <1>6, DescriptorFacts
<1>8. (CHOOSE n \in 1..RingSize : P(n)) = 3
  <2>1. 3 \in 1..RingSize /\ P(3)
    BY <1>1, <1>7
  <2>2. ASSUME NEW n \in 1..RingSize, P(n) PROVE n = 3
    <3>1. CASE n = 1
      BY <1>7, <2>2, <3>1
    <3>2. CASE n = 2
      BY <1>7, <2>2, <3>2
    <3>3. CASE n > 3
      <4>1. 2 \in 0..(n - 2)
        BY <1>1, <3>3
      <4> QED BY <1>7, <2>2, <4>1
    <3> QED BY <1>1, <3>1, <3>2, <3>3
  <2> HIDE DEF P
  <2> QED BY <2>1, <2>2
<1>9. Chain(h) = {Back(3 * c), Back(3 * c - 1), Back(3 * c - 2)}
  <2>1. Chain(h) = {After(h, i) : i \in 0..(3 - 1)}
    BY <1>8 DEF Chain
  <2>2. 0..(3 - 1) = {0, 1, 2}
    OBVIOUS
  <2> QED BY <1>5, <2>1, <2>2
<1>10. ASSUME NEW k \in 1..RingSize
       PROVE  desc'[Back(k)] = IF k \in 3 * c - 2..3 * c THEN Free ELSE desc[Back(k)]
  <2> HIDE DEF c, h
  <2>1. Back(k) \in Slot
    BY <1>1, BackFacts
  <2>2. Back(k) \in Chain(h) <=> k \in 3 * c - 2..3 * c
    <3>1. /\ Back(k) = Back(3 * c) <=> k = 3 * c
          /\ Back(k) = Back(3 * c - 1) <=> k = 3 * c - 1
          /\ Back(k) = Back(3 * c - 2) <=> k = 3 * c - 2
      <4>1. 3 * c \in 1..RingSize /\ 3 * c - 1 \in 1..RingSize /\ 3 * c - 2 \in 1..RingSize
        BY <1>1, <1>3
      <4>2. \A l, m \in 1..RingSize : Back(l) = Back(m) => l = m
        BY <1>1, BackFacts
      <4> QED BY <4>1, <4>2
    <3> QED BY <1>1, <1>3, <1>9, <3>1
  <2> QED BY <1>1, <1>4, <2>1, <2>2
<1>11. desc' \in [Slot -> {Free} \cup {desc[s] : s \in Slot}]
  BY <1>1
<1> QED BY <1>1, <1>3, <1>4, <1>10, <1>11

\* Where the slots are counted from after a request was published.
LEMMA BackMoves ==
  ASSUME RingAssumption, idx \in Slot,
         idx' = IF idx + 3 < RingSize THEN idx + 3 ELSE idx + 3 - RingSize
  PROVE  /\ \A k \in 4..RingSize : Back(k)' = Back(k - 3)
         /\ Back(3)' = Back(RingSize) /\ Back(2)' = Back(RingSize - 1)
         /\ Back(1)' = Back(RingSize - 2) /\ Back(3)' = idx
  BY DEF RingAssumption, Slot, Back

-----------------------------------------------------------------------------
\* The invariant holds when the queue has been set up.
LEMMA BlockInitInv ==
  ASSUME RingAssumption, Init
  PROVE  BlockInv
<1>1. /\ desc = [s \in Slot |-> Free] /\ idx = 0 /\ avail = <<>> /\ used = <<>>
      /\ pc = "user" /\ masked = FALSE /\ left = 0 /\ live = NoReq /\ status = 1
      /\ stage = "idle" /\ pending = FALSE /\ handling = FALSE
  BY DEF Init, QueueInit
<1>2. BlockType
  <2>1. idx \in Slot /\ used \in Seq(Slot) /\ avail \in Seq(Slot)
    BY <1>1 DEF RingAssumption, Slot
  <2>2. desc \in [Slot -> {Free} \cup [more : BOOLEAN, what : {"header", "data", "status"}]]
    BY <1>1
  <2> QED BY <1>1, <2>1, <2>2 DEF BlockType
<1>3. Len(avail) = 0 /\ Len(used) = 0 /\ Outstanding = 0
  BY <1>1 DEF Outstanding, Worked
<1>4. Layout
  <2>1. \A k \in 1..RingSize : Back(k) \in Slot
    BY <1>2, BackFacts DEF BlockType
  <2> QED BY <1>1, <1>3, <2>1 DEF Layout
<1>5. OnlyLive
  BY <1>1, <1>3 DEF OnlyLive, Waiting
<1>6. Backlog
  BY <1>1, <1>3 DEF Backlog, Waiting, RingAssumption
<1> QED BY <1>2, <1>4, <1>5, <1>6 DEF BlockInv

\* A step that leaves the rings alone, and the device with the chain it has, leaves the
\* chains where they are.
LEMMA LayoutKept ==
  ASSUME Layout, UNCHANGED queueVars, Worked' = Worked,
         stage' \in {"work", "push"} => stage \in {"work", "push"} /\ device' = device
  PROVE  Layout' /\ Outstanding' = Outstanding /\ \A k : Back(k)' = Back(k)
<1>1. desc' = desc /\ idx' = idx /\ avail' = avail /\ used' = used
  BY DEF queueVars
<1>2. Outstanding' = Outstanding
  BY <1>1 DEF Outstanding
<1>3. \A k : Back(k)' = Back(k)
  BY <1>1 DEF Back
<1>4. /\ (Len(avail) = 1 => avail[1] = Back(3))'
      /\ (stage \in {"work", "push"} => device = Back(3 * Len(avail) + 3))'
      /\ (\A i \in 1..Len(used) : used[i] = Back(3 * (Outstanding - i) + 3))'
  BY <1>1, <1>2, <1>3 DEF Layout
<1>5. /\ (\A j \in 1..Outstanding :
            /\ desc[Back(3 * j)] = [more |-> TRUE, what |-> "header"]
            /\ desc[Back(3 * j - 1)] = [more |-> TRUE, what |-> "data"]
            /\ desc[Back(3 * j - 2)] = [more |-> FALSE, what |-> "status"])'
      /\ (\A k \in 3 * Outstanding + 1..RingSize : desc[Back(k)] = Free)'
  BY <1>1, <1>2, <1>3 DEF Layout
<1> QED BY <1>2, <1>3, <1>4, <1>5 DEF Layout

\* Entering a system call, or a read of the boot thread: no interrupt is pending, so at
\* most one chain is left from before.
LEMMA CallInv ==
  ASSUME RingAssumption, BlockInv, NEW n \in 1..PerCall, NEW m \in BOOLEAN, Call(n, m)
  PROVE  BlockInv'
<1>1. /\ BlockType /\ Layout /\ OnlyLive /\ Backlog
      /\ pc = "user" /\ pc' = "submit" /\ left' = n /\ masked' = m /\ ~handling
      /\ pending => masked
      /\ UNCHANGED queueVars /\ UNCHANGED <<live, status, device, stage, pending, handling>>
  BY DEF BlockInv, Call, ThreadRuns, deviceVars
<1>2. idx' = idx /\ used' = used /\ avail' = avail /\ desc' = desc
  BY <1>1 DEF queueVars
<1>3. Layout' /\ Outstanding' = Outstanding /\ \A k : Back(k)' = Back(k)
  <2>1. Worked' = Worked
    BY <1>1 DEF Worked
  <2> QED BY <1>1, <2>1, LayoutKept
<1>4. BlockType'
  BY <1>1, <1>2 DEF BlockType, RingAssumption
<1>5. OnlyLive'
  BY <1>1, <1>2, <1>3 DEF OnlyLive, Waiting
<1>6. Outstanding <= 1 /\ Outstanding \in Nat
  <2>1. Len(used) <= IF stage = "raise" THEN 1 ELSE 0
    BY <1>1 DEF Backlog
  <2>2. Len(avail) = 0
    BY <1>1 DEF OnlyLive, Waiting
  <2> QED BY <1>1, <2>1, <2>2, OutstandingFacts DEF Worked
<1>7. Backlog'
  BY <1>1, <1>2, <1>3, <1>6 DEF Backlog, Waiting, RingAssumption
<1> QED BY <1>3, <1>4, <1>5, <1>7 DEF BlockInv

\* A request finds room in the ring, whether or not interrupts are masked, and is the only
\* one the device has yet to write for.
LEMMA SubmitInv ==
  ASSUME RingAssumption, BlockInv, Submit
  PROVE  BlockInv'
<1>1. /\ BlockType /\ Layout /\ OnlyLive /\ Backlog /\ SendCommand(Buffers)
      /\ pc = "submit" /\ pc' = "wait" /\ status' = 1 /\ ~handling /\ (pending => masked)
      /\ live' = IF avail' # avail THEN idx ELSE NoReq
      /\ UNCHANGED <<masked, left, device, stage, pending, handling>>
  BY DEF BlockInv, Submit, ThreadRuns, deviceVars
<1>2. /\ avail = <<>> /\ Len(avail) = 0 /\ stage # "work"
  BY <1>1 DEF OnlyLive, Waiting
<1>3. /\ Len(used) \in Nat /\ Outstanding \in Nat /\ Outstanding = Len(used) + Worked
      /\ Worked' = Worked /\ Worked \in {0, 1}
  BY <1>1, <1>2, OutstandingFacts DEF Worked
<1>4. /\ Outstanding <= PerCall
      /\ masked => Outstanding + left <= PerCall + 1
      /\ left \in Nat /\ left >= 1
  <2>1. left \in Nat /\ left >= 1 /\ PerCall \in Nat /\ PerCall >= 1
    BY <1>1 DEF Backlog, BlockType, RingAssumption
  <2>2. CASE masked
    BY <1>1, <1>3, <2>1, <2>2 DEF Backlog, Waiting
  <2>3. CASE ~masked
    <3>1. Len(used) <= IF stage = "raise" THEN 1 ELSE 0
      BY <1>1, <2>3 DEF Backlog
    <3> QED BY <1>1, <1>3, <2>1, <2>3, <3>1 DEF Worked
  <2> QED BY <2>2, <2>3
<1>5. /\ used' = used /\ avail' = Append(avail, idx) /\ idx' \in Slot
      /\ idx' = IF idx + 3 < RingSize THEN idx + 3 ELSE idx + 3 - RingSize
      /\ DOMAIN desc' = Slot
      /\ desc'[Back(RingSize)] = [more |-> TRUE, what |-> "header"]
      /\ desc'[Back(RingSize - 1)] = [more |-> TRUE, what |-> "data"]
      /\ desc'[Back(RingSize - 2)] = [more |-> FALSE, what |-> "status"]
      /\ \A k \in 1..RingSize - 3 : desc'[Back(k)] = desc[Back(k)]
  BY <1>1, <1>4, SendFacts
<1>6. /\ idx \in Slot /\ RingSize \in Nat /\ RingSize >= 6 /\ 3 * Outstanding + 3 <= RingSize
  BY <1>1, <1>4, OutstandingFacts DEF BlockType, RingAssumption
<1>7. /\ \A k \in 4..RingSize : Back(k)' = Back(k - 3)
      /\ Back(3)' = Back(RingSize) /\ Back(2)' = Back(RingSize - 1)
      /\ Back(1)' = Back(RingSize - 2) /\ Back(3)' = idx
  BY <1>5, <1>6, BackMoves
<1>8. /\ avail' = <<idx>> /\ Len(avail') = 1 /\ avail'[1] = idx /\ avail' # avail
      /\ avail' \in Seq(Slot)
  BY <1>2, <1>5, <1>6
<1>9. Outstanding' = Outstanding + 1
  BY <1>3, <1>5, <1>8 DEF Outstanding
<1>10. BlockType'
  <2>1. desc' \in [Slot -> {Free} \cup [more : BOOLEAN, what : {"header", "data", "status"}]]
    <3> DEFINE D == {Free} \cup [more : BOOLEAN, what : {"header", "data", "status"}]
    <3>1. ASSUME NEW s \in Slot PROVE desc'[s] \in D
      <4>1. PICK k \in 1..RingSize : s = Back(k)
        BY <1>6, BackFacts
      <4>2. desc[s] \in D
        BY <1>1 DEF BlockType
      <4>3. CASE k \in 1..RingSize - 3
        BY <1>5, <4>1, <4>2, <4>3
      <4>4. CASE k \in {RingSize, RingSize - 1, RingSize - 2}
        BY <1>5, <4>1, <4>4, DescriptorFacts
      <4> QED BY <1>6, <4>3, <4>4
    <3> HIDE DEF D
    <3>2. desc' = [s \in Slot |-> desc'[s]]
      BY DEF SendCommand, Submit
    <3>3. desc' \in [Slot -> D]
      BY <3>1, <3>2
    <3> QED BY <3>3 DEF D
  <2> QED BY <1>1, <1>5, <1>8, <2>1 DEF BlockType
<1>11. Layout'
  <2>1. (Len(avail) = 1 => avail[1] = Back(3))'
    BY <1>7, <1>8
  <2>2. (stage \in {"work", "push"} => device = Back(3 * Len(avail) + 3))'
    <3>1. stage \in {"work", "push"} => device = Back(3)
      BY <1>1, <1>2 DEF Layout
    <3>2. Back(6)' = Back(3)
      BY <1>6, <1>7
    <3> QED BY <1>1, <1>8, <3>1, <3>2
  <2>3. (\A i \in 1..Len(used) : used[i] = Back(3 * (Outstanding - i) + 3))'
    <3>1. ASSUME NEW i \in 1..Len(used), NEW m, m = 3 * (Outstanding + 1 - i) + 3
          PROVE  used[i] = Back(m)'
      <4>1. used[i] = Back(3 * (Outstanding - i) + 3)
        BY <1>1 DEF Layout
      <4>2. m \in 4..RingSize /\ m - 3 = 3 * (Outstanding - i) + 3
        BY <1>3, <1>6, <3>1
      <4> QED BY <1>7, <4>1, <4>2
    <3>2. \A i \in 1..Len(used) :
            used[i] = IF 3 * (Outstanding + 1 - i) + 3 <= idx' THEN idx' - (3 * (Outstanding + 1 - i) + 3)
                      ELSE idx' - (3 * (Outstanding + 1 - i) + 3) + RingSize
      BY <3>1 DEF Back
    <3>3. /\ used' = used /\ Outstanding' = Outstanding + 1 /\ Outstanding \in Int /\ idx' \in Int
          /\ RingSize \in Int /\ Len(used) \in Nat
      BY <1>3, <1>5, <1>6, <1>9 DEF Slot
    <3> HIDE DEF Outstanding
    <3> QED BY ONLY <3>2, <3>3 DEF Back
  <2>4. (\A j \in 1..Outstanding :
           /\ desc[Back(3 * j)] = [more |-> TRUE, what |-> "header"]
           /\ desc[Back(3 * j - 1)] = [more |-> TRUE, what |-> "data"]
           /\ desc[Back(3 * j - 2)] = [more |-> FALSE, what |-> "status"])'
    <3> SUFFICES ASSUME NEW j \in 1..Outstanding + 1
                 PROVE  /\ desc'[Back(3 * j)'] = [more |-> TRUE, what |-> "header"]
                        /\ desc'[Back(3 * j - 1)'] = [more |-> TRUE, what |-> "data"]
                        /\ desc'[Back(3 * j - 2)'] = [more |-> FALSE, what |-> "status"]
      BY <1>9
    <3>1. CASE j = 1
      BY <1>5, <1>7, <3>1
    <3>2. CASE j > 1
      <4>1. /\ j - 1 \in 1..Outstanding /\ 3 * j \in 4..RingSize /\ 3 * j - 1 \in 4..RingSize
            /\ 3 * j - 2 \in 4..RingSize /\ 3 * j - 3 = 3 * (j - 1)
            /\ 3 * j - 1 - 3 = 3 * (j - 1) - 1 /\ 3 * j - 2 - 3 = 3 * (j - 1) - 2
            /\ 3 * (j - 1) \in 1..RingSize - 3 /\ 3 * (j - 1) - 1 \in 1..RingSize - 3
            /\ 3 * (j - 1) - 2 \in 1..RingSize - 3
        BY <1>3, <1>6, <3>2
      <4>2. /\ Back(3 * j)' = Back(3 * (j - 1)) /\ Back(3 * j - 1)' = Back(3 * (j - 1) - 1)
            /\ Back(3 * j - 2)' = Back(3 * (j - 1) - 2)
        BY <1>7, <4>1
      <4>3. /\ desc[Back(3 * (j - 1))] = [more |-> TRUE, what |-> "header"]
            /\ desc[Back(3 * (j - 1) - 1)] = [more |-> TRUE, what |-> "data"]
            /\ desc[Back(3 * (j - 1) - 2)] = [more |-> FALSE, what |-> "status"]
        BY <1>1, <4>1 DEF Layout
      <4> QED BY <1>5, <4>1, <4>2, <4>3
    <3> QED BY <1>3, <3>1, <3>2
  <2>5. (\A k \in 3 * Outstanding + 1..RingSize : desc[Back(k)] = Free)'
    <3> SUFFICES ASSUME NEW k \in 3 * (Outstanding + 1) + 1..RingSize
                 PROVE  desc'[Back(k)'] = Free
      BY <1>9
    <3>1. k \in 4..RingSize /\ k - 3 \in 3 * Outstanding + 1..RingSize /\ k - 3 \in 1..RingSize - 3
      BY <1>3, <1>6
    <3>2. desc[Back(k - 3)] = Free
      BY <1>1, <3>1 DEF Layout
    <3> QED BY <1>5, <1>7, <3>1, <3>2
  <2> QED BY <2>1, <2>2, <2>3, <2>4, <2>5 DEF Layout
<1>12. OnlyLive'
  BY <1>1, <1>2, <1>7, <1>8 DEF OnlyLive, Waiting
<1>13. Backlog'
  BY <1>1, <1>3, <1>4, <1>5, <1>9 DEF Backlog, Waiting, RingAssumption
<1> QED BY <1>10, <1>11, <1>12, <1>13 DEF BlockInv

\* wait_event: the request returns only when its status byte is written, and so leaves
\* nothing for the device to write.
LEMMA WaitInv ==
  ASSUME RingAssumption, BlockInv, WaitEvent \/ Prepare \/ Poll
  PROVE  BlockInv'
<1>1. /\ BlockType /\ Layout /\ OnlyLive /\ Backlog /\ Waiting
      /\ UNCHANGED queueVars /\ UNCHANGED <<status, device, stage, pending, handling>>
  BY DEF BlockInv, WaitEvent, Prepare, Poll, Return, Waiting, deviceVars
<1>2. \/ /\ status = 0 /\ live' = NoReq /\ left' = left - 1
         /\ \/ left > 1 /\ pc' = "submit" /\ masked' = masked
            \/ ~(left > 1) /\ pc' = "user" /\ masked' = FALSE
      \/ pc' \in {"prepare", "poll"} /\ UNCHANGED <<masked, left, live>>
  BY DEF WaitEvent, Prepare, Poll, Return
<1>3. idx' = idx /\ used' = used /\ avail' = avail /\ desc' = desc
  BY <1>1 DEF queueVars
<1>4. Layout' /\ Outstanding' = Outstanding /\ \A k : Back(k)' = Back(k)
  <2>1. Worked' = Worked
    BY <1>1 DEF Worked
  <2> QED BY <1>1, <2>1, LayoutKept
<1>5. left \in Nat /\ left >= 1
  BY <1>1 DEF BlockType, Backlog, Waiting
<1>6. BlockType'
  <2>1. pc' \in {"user", "submit", "prepare", "poll"} /\ left' \in Nat
    BY <1>2, <1>5
  <2>2. masked' \in BOOLEAN
    BY <1>1, <1>2 DEF BlockType
  <2> QED BY <1>1, <1>3, <2>1, <2>2 DEF BlockType
<1>7. OnlyLive'
  BY <1>1, <1>2, <1>3, <1>4 DEF OnlyLive, Waiting
<1>8. Backlog'
  <2>1. Outstanding \in Nat /\ PerCall \in Nat
    BY <1>1, OutstandingFacts DEF RingAssumption
  <2> QED BY <1>1, <1>2, <1>3, <1>4, <1>5, <2>1 DEF Backlog, Waiting
<1> QED BY <1>4, <1>6, <1>7, <1>8 DEF BlockInv

\* The device takes the published chain.
LEMMA FetchInv ==
  ASSUME RingAssumption, BlockInv, DeviceFetch
  PROVE  BlockInv'
<1>1. /\ BlockType /\ Layout /\ OnlyLive /\ Backlog
      /\ stage = "idle" /\ stage' = "work" /\ device' = Head(avail)
      /\ avail # <<>> /\ avail' = Tail(avail) /\ desc' = desc /\ idx' = idx /\ used' = used
      /\ UNCHANGED <<pc, masked, left, live, status, pending, handling>>
  BY DEF BlockInv, DeviceFetch, Fetch, cpuVars
<1>2. /\ avail \in Seq(Slot) /\ Len(avail) = 1 /\ Head(avail) = avail[1]
      /\ avail' = <<>> /\ Len(avail') = 0 /\ avail' \in Seq(Slot)
  <2>1. avail \in Seq(Slot) /\ Len(avail) <= 1
    BY <1>1 DEF BlockType, OnlyLive
  <2>2. Len(avail) = 1
    <3>1. avail # <<>>
      BY <1>1
    <3>2. Len(avail) \in Nat /\ Len(avail) # 0
      BY ONLY <2>1, <3>1
    <3> QED BY <2>1, <3>2
  <2>3. Head(avail) = avail[1] /\ Tail(avail) = <<>>
    BY <1>1, <2>1, <2>2
  <2>4. Len(<<>>) = 0 /\ <<>> \in Seq(Slot)
    OBVIOUS
  <2> QED BY <1>1, <2>1, <2>2, <2>3, <2>4
<1>3. Worked = 0 /\ Worked' = 1
  BY <1>1 DEF Worked
<1>4. Outstanding' = Outstanding
  <2>1. Len(used) \in Nat
    BY <1>1 DEF BlockType
  <2>2. Outstanding = Len(used) + 0 + 1 /\ Outstanding' = Len(used) + 1 + 0
    BY <1>1, <1>2, <1>3 DEF Outstanding
  <2> QED BY <2>1, <2>2
<1>5. \A k : Back(k)' = Back(k)
  BY <1>1 DEF Back
<1>6. BlockType'
  BY <1>1, <1>2 DEF BlockType
<1>7. Layout'
  <2>1. /\ (Len(avail) = 1 => avail[1] = Back(3))'
        /\ (stage \in {"work", "push"} => device = Back(3 * Len(avail) + 3))'
    BY <1>1, <1>2, <1>5 DEF Layout
  <2>2. /\ (\A i \in 1..Len(used) : used[i] = Back(3 * (Outstanding - i) + 3))'
        /\ (\A k \in 3 * Outstanding + 1..RingSize : desc[Back(k)] = Free)'
    BY <1>1, <1>4, <1>5 DEF Layout
  <2>3. (\A j \in 1..Outstanding :
           /\ desc[Back(3 * j)] = [more |-> TRUE, what |-> "header"]
           /\ desc[Back(3 * j - 1)] = [more |-> TRUE, what |-> "data"]
           /\ desc[Back(3 * j - 2)] = [more |-> FALSE, what |-> "status"])'
    BY <1>1, <1>4, <1>5 DEF Layout
  <2> QED BY <2>1, <2>2, <2>3 DEF Layout
<1>8. OnlyLive'
  BY <1>1, <1>2, <1>5 DEF OnlyLive, Waiting
<1>9. Backlog'
  BY <1>1, <1>4 DEF Backlog, Waiting
<1> QED BY <1>6, <1>7, <1>8, <1>9 DEF BlockInv

\* The device writes the status byte of the request that is waited for.
LEMMA WriteInv ==
  ASSUME RingAssumption, BlockInv, DeviceWrite
  PROVE  BlockInv'
<1>1. /\ BlockType /\ Layout /\ OnlyLive /\ Backlog /\ stage = "work" /\ stage' = "push"
      /\ status' = IF device = live THEN 0 ELSE status
      /\ UNCHANGED queueVars /\ UNCHANGED <<pc, masked, left, live, device, pending, handling>>
  BY DEF BlockInv, DeviceWrite
<1>2. idx' = idx /\ used' = used /\ avail' = avail /\ desc' = desc
  BY <1>1 DEF queueVars
<1>3. Layout' /\ Outstanding' = Outstanding /\ \A k : Back(k)' = Back(k)
  <2>1. Worked' = Worked
    BY <1>1 DEF Worked
  <2> QED BY <1>1, <2>1, LayoutKept
<1>4. BlockType'
  BY <1>1, <1>2 DEF BlockType
<1>5. OnlyLive'
  BY <1>1, <1>2, <1>3 DEF OnlyLive, Waiting
<1>6. Backlog'
  BY <1>1, <1>2, <1>3 DEF Backlog, Waiting
<1> QED BY <1>3, <1>4, <1>5, <1>6 DEF BlockInv

\* The device gives the chain back: it is the newest of those the handler finds.
LEMMA PushInv ==
  ASSUME RingAssumption, BlockInv, DevicePush
  PROVE  BlockInv'
<1>1. /\ BlockType /\ Layout /\ OnlyLive /\ Backlog
      /\ stage = "push" /\ stage' = "raise" /\ device' = device
      /\ used' = Append(used, device) /\ desc' = desc /\ idx' = idx /\ avail' = avail
      /\ UNCHANGED <<pc, masked, left, live, status, pending, handling>>
  BY DEF BlockInv, DevicePush, Push, cpuVars
<1>2. /\ used \in Seq(Slot) /\ Len(used) \in Nat /\ Len(avail) \in Nat
      /\ Outstanding = Len(used) + 1 + Len(avail) /\ 3 * Outstanding <= RingSize
      /\ idx \in Slot /\ RingSize \in Nat /\ PerCall \in Nat
  <2>1. Worked = 1
    BY <1>1 DEF Worked
  <2> QED BY <1>1, <2>1, OutstandingFacts DEF BlockType, Backlog, RingAssumption
<1>3. device = Back(3 * Len(avail) + 3) /\ device \in Slot
  <2>1. device = Back(3 * Len(avail) + 3)
    BY <1>1 DEF Layout
  <2>2. 3 * Len(avail) + 3 \in 1..RingSize
    BY <1>2
  <2> QED BY <1>2, <2>1, <2>2, BackFacts
<1>4. /\ used' \in Seq(Slot) /\ Len(used') = Len(used) + 1 /\ used'[Len(used) + 1] = device
      /\ \A i \in 1..Len(used) : used'[i] = used[i]
  BY <1>1, <1>2, <1>3
<1>5. Outstanding' = Outstanding
  <2>1. Worked' = 0
    BY <1>1 DEF Worked
  <2>2. Outstanding' = Len(used) + 1 + 0 + Len(avail)
    BY <1>1, <1>4, <2>1 DEF Outstanding
  <2> QED BY <1>2, <2>2
<1>6. \A k : Back(k)' = Back(k)
  BY <1>1 DEF Back
<1>7. BlockType'
  BY <1>1, <1>4 DEF BlockType
<1>8. Layout'
  <2>1. /\ (Len(avail) = 1 => avail[1] = Back(3))'
        /\ (stage \in {"work", "push"} => device = Back(3 * Len(avail) + 3))'
    BY <1>1, <1>6 DEF Layout
  <2>2. (\A i \in 1..Len(used) : used[i] = Back(3 * (Outstanding - i) + 3))'
    <3>1. \A i \in 1..Len(used) : used'[i] = Back(3 * (Outstanding - i) + 3)
      BY <1>1, <1>4 DEF Layout
    <3>2. used'[Len(used) + 1] = Back(3 * (Outstanding - (Len(used) + 1)) + 3)
      <4>1. Outstanding - (Len(used) + 1) = Len(avail)
        BY <1>2
      <4> QED BY <1>3, <1>4, <4>1
    <3>3. \A i \in 1..Len(used) + 1 : used'[i] = Back(3 * (Outstanding - i) + 3)
      <4>1. \A i \in 1..Len(used) + 1 : i \in 1..Len(used) \/ i = Len(used) + 1
        BY <1>2
      <4> QED BY <3>1, <3>2, <4>1
    <3> QED BY <1>4, <1>5, <1>6, <3>3
  <2>3. (\A k \in 3 * Outstanding + 1..RingSize : desc[Back(k)] = Free)'
    BY <1>1, <1>5, <1>6 DEF Layout
  <2>4. (\A j \in 1..Outstanding :
           /\ desc[Back(3 * j)] = [more |-> TRUE, what |-> "header"]
           /\ desc[Back(3 * j - 1)] = [more |-> TRUE, what |-> "data"]
           /\ desc[Back(3 * j - 2)] = [more |-> FALSE, what |-> "status"])'
    BY <1>1, <1>5, <1>6 DEF Layout
  <2> QED BY <2>1, <2>2, <2>3, <2>4 DEF Layout
<1>9. OnlyLive'
  BY <1>1, <1>6 DEF OnlyLive, Waiting
<1>10. Backlog'
  BY <1>1, <1>2, <1>4, <1>5 DEF Backlog, Waiting
<1> QED BY <1>7, <1>8, <1>9, <1>10 DEF BlockInv

\* The device raises its interrupt, the CPU takes it, and the handler returns when it finds
\* no chain.
LEMMA RaiseEnterExitInv ==
  ASSUME RingAssumption, BlockInv, DeviceRaise \/ IrqEnter \/ IrqExit
  PROVE  BlockInv'
<1>1. /\ BlockType /\ Layout /\ OnlyLive /\ Backlog
      /\ UNCHANGED queueVars /\ UNCHANGED <<pc, masked, left, live, status>>
  BY DEF BlockInv, DeviceRaise, IrqEnter, IrqExit, cpuVars
<1>2. \/ stage = "raise" /\ stage' = "idle" /\ pending' = TRUE /\ handling' = handling
      \/ ~masked /\ handling' = TRUE /\ pending' = FALSE /\ UNCHANGED <<device, stage>>
      \/ used = <<>> /\ handling' = FALSE /\ UNCHANGED <<device, stage, pending>>
  BY DEF DeviceRaise, IrqEnter, IrqExit, deviceVars
<1>3. idx' = idx /\ used' = used /\ avail' = avail /\ desc' = desc
  BY <1>1 DEF queueVars
<1>4. Layout' /\ Outstanding' = Outstanding /\ \A k : Back(k)' = Back(k)
  <2>1. Worked' = Worked
    BY <1>2 DEF Worked
  <2>2. stage' \in {"work", "push"} => stage \in {"work", "push"} /\ device' = device
    BY <1>2
  <2> QED BY <1>1, <2>1, <2>2, LayoutKept
<1>5. BlockType'
  BY <1>1, <1>2, <1>3 DEF BlockType
<1>6. OnlyLive'
  BY <1>1, <1>2, <1>3, <1>4 DEF OnlyLive, Waiting
<1>7. Backlog'
  <2>1. used = <<>> => Len(used) = 0
    OBVIOUS
  <2> QED BY <1>1, <1>2, <1>3, <1>4, <2>1 DEF Backlog, Waiting
<1> QED BY <1>4, <1>5, <1>6, <1>7 DEF BlockInv

\* One turn of the interrupt handler's loop gives the oldest chain back.
LEMMA ReclaimInv ==
  ASSUME RingAssumption, BlockInv, IrqReclaim
  PROVE  BlockInv'
<1>1. /\ BlockType /\ Layout /\ OnlyLive /\ Backlog /\ handling /\ Acknowledge
      /\ UNCHANGED <<pc, masked, left, live, status, device, stage, pending, handling>>
  BY DEF BlockInv, IrqReclaim, deviceVars
<1>2. Outstanding <= PerCall + 1
  BY <1>1 DEF Backlog
<1>3. /\ used' = Tail(used) /\ idx' = idx /\ avail' = avail /\ Outstanding >= 1
      /\ desc' \in [Slot -> {Free} \cup {desc[s] : s \in Slot}]
      /\ \A k \in 1..RingSize :
           desc'[Back(k)] = IF k \in 3 * Outstanding - 2..3 * Outstanding
                            THEN Free ELSE desc[Back(k)]
  BY <1>1, <1>2, AcknowledgeFacts
<1>4. /\ used \in Seq(Slot) /\ used # <<>> /\ Len(used) \in Nat /\ Len(avail) \in Nat
      /\ Outstanding \in Nat /\ 3 * Outstanding <= RingSize
      /\ Outstanding = Len(used) + Worked + Len(avail) /\ Worked \in {0, 1} /\ Worked' = Worked
      /\ RingSize \in Nat /\ PerCall \in Nat
  BY <1>1, <1>2, OutstandingFacts DEF BlockType, RingAssumption, Acknowledge, Worked
<1>5. /\ used' \in Seq(Slot) /\ Len(used') = Len(used) - 1
      /\ \A i \in 1..Len(used) - 1 : used'[i] = used[i + 1]
  BY <1>3, <1>4
<1>6. Outstanding' = Outstanding - 1
  <2>1. Outstanding' = Len(used) - 1 + Worked + Len(avail)
    BY <1>3, <1>4, <1>5 DEF Outstanding
  <2> QED BY <1>4, <2>1
<1>7. \A k : Back(k)' = Back(k)
  BY <1>3 DEF Back
<1>8. BlockType'
  <2>1. desc' \in [Slot -> {Free} \cup [more : BOOLEAN, what : {"header", "data", "status"}]]
    <3>1. {desc[s] : s \in Slot}
            \subseteq {Free} \cup [more : BOOLEAN, what : {"header", "data", "status"}]
      BY <1>1 DEF BlockType
    <3> QED BY <1>3, <3>1
  <2> QED BY <1>1, <1>3, <1>5, <2>1 DEF BlockType
<1>9. Layout'
  <2>1. /\ (Len(avail) = 1 => avail[1] = Back(3))'
        /\ (stage \in {"work", "push"} => device = Back(3 * Len(avail) + 3))'
    BY <1>1, <1>3, <1>7 DEF Layout
  <2>2. (\A i \in 1..Len(used) : used[i] = Back(3 * (Outstanding - i) + 3))'
    <3>1. \A i \in 1..Len(used) - 1 : used'[i] = Back(3 * (Outstanding - 1 - i) + 3)
      <4> TAKE i \in 1..Len(used) - 1
      <4>1. i + 1 \in 1..Len(used) /\ Outstanding - (i + 1) = Outstanding - 1 - i
        BY <1>4
      <4>2. used[i + 1] = Back(3 * (Outstanding - (i + 1)) + 3)
        BY <1>1, <4>1 DEF Layout
      <4> QED BY <1>5, <4>1, <4>2
    <3> QED BY <1>5, <1>6, <1>7, <3>1
  <2>3. (\A j \in 1..Outstanding :
           /\ desc[Back(3 * j)] = [more |-> TRUE, what |-> "header"]
           /\ desc[Back(3 * j - 1)] = [more |-> TRUE, what |-> "data"]
           /\ desc[Back(3 * j - 2)] = [more |-> FALSE, what |-> "status"])'
    <3> SUFFICES ASSUME NEW j \in 1..Outstanding - 1
                 PROVE  /\ desc'[Back(3 * j)] = [more |-> TRUE, what |-> "header"]
                        /\ desc'[Back(3 * j - 1)] = [more |-> TRUE, what |-> "data"]
                        /\ desc'[Back(3 * j - 2)] = [more |-> FALSE, what |-> "status"]
      BY <1>6, <1>7
    <3>1. /\ 3 * j \in 1..RingSize /\ 3 * j - 1 \in 1..RingSize /\ 3 * j - 2 \in 1..RingSize
          /\ 3 * j < 3 * Outstanding - 2 /\ j \in 1..Outstanding
      BY <1>4
    <3>2. /\ desc'[Back(3 * j)] = desc[Back(3 * j)]
          /\ desc'[Back(3 * j - 1)] = desc[Back(3 * j - 1)]
          /\ desc'[Back(3 * j - 2)] = desc[Back(3 * j - 2)]
      <4>1. \A k \in {3 * j, 3 * j - 1, 3 * j - 2} : k \notin 3 * Outstanding - 2..3 * Outstanding
        BY <1>4, <3>1
      <4> QED BY <1>3, <3>1, <4>1
    <3> QED BY <1>1, <3>1, <3>2 DEF Layout
  <2>4. (\A k \in 3 * Outstanding + 1..RingSize : desc[Back(k)] = Free)'
    <3> SUFFICES ASSUME NEW k \in 3 * (Outstanding - 1) + 1..RingSize
                 PROVE  desc'[Back(k)] = Free
      BY <1>6, <1>7
    <3>1. k \in 1..RingSize
      BY <1>3, <1>4
    <3>2. CASE k \in 3 * Outstanding - 2..3 * Outstanding
      BY <1>3, <3>1, <3>2
    <3>3. CASE k \in 3 * Outstanding + 1..RingSize
      <4>1. desc[Back(k)] = Free
        BY <1>1, <3>3 DEF Layout
      <4> QED BY <1>3, <1>4, <3>1, <3>3, <4>1
    <3> QED BY <1>4, <3>1, <3>2, <3>3
  <2> QED BY <2>1, <2>2, <2>3, <2>4 DEF Layout
<1>10. OnlyLive'
  BY <1>1, <1>3, <1>7 DEF OnlyLive, Waiting
<1>11. Backlog'
  BY <1>1, <1>2, <1>4, <1>6 DEF Backlog, Waiting
<1> QED BY <1>8, <1>9, <1>10, <1>11 DEF BlockInv

-----------------------------------------------------------------------------
\* Every step of the callers, of the device and of the handler preserves the invariant.
LEMMA BlockStepInv ==
  ASSUME RingAssumption, BlockInv, [Next]_vars
  PROVE  BlockInv'
<1>1. CASE \E n \in 1..PerCall, m \in BOOLEAN : Call(n, m)
  BY <1>1, CallInv
<1>2. CASE Submit
  BY <1>2, SubmitInv
<1>3. CASE WaitEvent \/ Prepare \/ Poll
  BY <1>3, WaitInv
<1>4. CASE DeviceFetch
  BY <1>4, FetchInv
<1>5. CASE DeviceWrite
  BY <1>5, WriteInv
<1>6. CASE DevicePush
  BY <1>6, PushInv
<1>7. CASE DeviceRaise \/ IrqEnter \/ IrqExit
  BY <1>7, RaiseEnterExitInv
<1>8. CASE IrqReclaim
  BY <1>8, ReclaimInv
<1>9. CASE UNCHANGED vars
  <2>1. UNCHANGED queueVars /\ UNCHANGED <<pc, masked, left, live, status, device, stage, pending, handling>>
    BY <1>9 DEF vars, cpuVars, deviceVars
  <2>2. idx' = idx /\ used' = used /\ avail' = avail /\ desc' = desc
    BY <2>1 DEF queueVars
  <2>3. Worked' = Worked
    BY <2>1 DEF Worked
  <2>4. Layout' /\ Outstanding' = Outstanding /\ \A k : Back(k)' = Back(k)
    BY <2>1, <2>3, LayoutKept DEF BlockInv
  <2>5. BlockType'
    BY <2>1, <2>2 DEF BlockInv, BlockType
  <2>6. OnlyLive'
    BY <2>1, <2>2, <2>4 DEF BlockInv, OnlyLive, Waiting
  <2>7. Backlog'
    BY <2>1, <2>2, <2>4 DEF BlockInv, Backlog, Waiting
  <2> QED BY <2>4, <2>5, <2>6, <2>7 DEF BlockInv
<1> QED BY <1>1, <1>2, <1>3, <1>4, <1>5, <1>6, <1>7, <1>8, <1>9 DEF Next, Thread, Device, Irq

\* The invariant holds in every behaviour.
LEMMA BlockInvariance ==
  ASSUME RingAssumption
  PROVE  Spec => []BlockInv
<1>1. Init => BlockInv
  BY BlockInitInv
<1>2. BlockInv /\ [Next]_vars => BlockInv'
  BY BlockStepInv
<1> QED BY <1>1, <1>2, PTL DEF Spec

\* virtio_block_read and _write never poll for a request that found the ring full, and the
\* device never writes into the buffer or the status byte of a call that has returned.
THEOREM RequestsStayLive ==
  ASSUME RingAssumption
  PROVE  Spec => []BlockRequestsLive
<1>1. BlockInv => BlockRequestsLive
  <2> SUFFICES ASSUME BlockInv PROVE BlockRequestsLive
    OBVIOUS
  <2>1. /\ idx \in Slot /\ avail \in Seq(Slot) /\ RingSize \in Nat /\ RingSize >= 6
        /\ OnlyLive /\ Layout
    BY DEF BlockInv, BlockType, RingAssumption
  <2>2. RequestSent
    <3>1. 3 \in 1..RingSize
      BY <2>1
    <3>2. Back(3) \in Slot
      BY <2>1, <3>1, BackFacts
    <3> QED BY <2>1, <3>2 DEF RequestSent, OnlyLive, Waiting, RingAssumption
  <2>3. ASSUME NEW i \in DOMAIN avail PROVE avail[i] = live
    <3>1. DOMAIN avail = 1..Len(avail) /\ Len(avail) \in Nat
      BY <2>1
    <3>2. Len(avail) = 1 /\ i = 1
      BY <2>1, <3>1 DEF OnlyLive
    <3>3. Waiting
      <4>1. avail # <<>>
        BY <3>2
      <4> QED BY <2>1, <4>1 DEF OnlyLive
    <3> QED BY <2>1, <3>2, <3>3 DEF Layout, OnlyLive
  <2>4. stage = "work" => device = live
    <3> SUFFICES ASSUME stage = "work" PROVE device = live
      OBVIOUS
    <3>1. avail = <<>> /\ Waiting
      BY <2>1 DEF OnlyLive
    <3>2. Len(avail) = 0
      BY <3>1
    <3> QED BY <2>1, <3>1, <3>2 DEF OnlyLive, Layout
  <2> QED BY <2>2, <2>3, <2>4 DEF BlockRequestsLive, DeviceWritesLiveFrame
<1> QED BY <1>1, BlockInvariance, PTL

\* The descriptors in use are those of the chains published, worked on or given back, three
\* for each and in order: virtio_send_command_3 and the interrupt handler lose none and
\* give none back twice, although the handler may come long after the call has returned.
THEOREM ChainsStayWhole ==
  ASSUME RingAssumption
  PROVE  Spec => []ChainsAccounted
<1>1. BlockInv => ChainsAccounted
  <2> SUFFICES ASSUME BlockInv PROVE ChainsAccounted
    OBVIOUS
  <2> DEFINE c == Outstanding
             heads == {avail[i] : i \in DOMAIN avail} \cup {used[i] : i \in DOMAIN used}
                        \cup (IF stage \in {"work", "push"} THEN {device} ELSE {})
             three(h) == {After(h, 0), After(h, 1), After(h, 2)}
  <2>1. /\ idx \in Slot /\ RingSize \in Nat /\ Layout /\ Len(avail) <= 1
        /\ c \in Nat /\ Len(used) \in Nat /\ Len(avail) \in Nat
        /\ c = Len(used) + Worked + Len(avail) /\ Worked \in {0, 1} /\ 3 * c <= RingSize
        /\ DOMAIN avail = 1..Len(avail) /\ DOMAIN used = 1..Len(used)
    <3>1. BlockType /\ Layout /\ Len(avail) <= 1 /\ Outstanding <= PerCall + 1
      BY DEF BlockInv, OnlyLive, Backlog
    <3>2. DOMAIN avail = 1..Len(avail) /\ DOMAIN used = 1..Len(used)
      BY <3>1 DEF BlockType
    <3> QED BY <3>1, <3>2, OutstandingFacts DEF BlockType, RingAssumption
  <2>2. heads = {Back(3 * j) : j \in 1..c}
    <3>1. ASSUME NEW h \in heads PROVE \E j \in 1..c : h = Back(3 * j)
      <4>1. CASE \E i \in DOMAIN avail : h = avail[i]
        <5>1. Len(avail) = 1 /\ h = avail[1]
          BY <2>1, <4>1
        <5>2. h = Back(3 * 1) /\ 1 \in 1..c
          BY <2>1, <5>1 DEF Layout
        <5> QED BY <5>2
      <4>2. CASE \E i \in DOMAIN used : h = used[i]
        <5>1. PICK i \in 1..Len(used) : h = used[i]
          BY <2>1, <4>2
        <5>2. h = Back(3 * (c - i) + 3)
          BY <2>1, <5>1 DEF Layout
        <5>3. c - i + 1 \in 1..c /\ 3 * (c - i) + 3 = 3 * (c - i + 1)
          BY <2>1
        <5> QED BY <5>2, <5>3
      <4>3. CASE stage \in {"work", "push"} /\ h = device
        <5>1. h = Back(3 * Len(avail) + 3) /\ Worked = 1
          BY <2>1, <4>3 DEF Layout, Worked
        <5>2. Len(avail) + 1 \in 1..c /\ 3 * Len(avail) + 3 = 3 * (Len(avail) + 1)
          BY <2>1, <5>1
        <5> QED BY <5>1, <5>2
      <4> QED BY <4>1, <4>2, <4>3
    <3>2. ASSUME NEW j \in 1..c PROVE Back(3 * j) \in heads
      <4>1. CASE j <= Len(avail)
        <5>1. j = 1 /\ Len(avail) = 1 /\ 3 * j = 3
          BY <2>1, <4>1
        <5>2. avail[1] = Back(3 * j) /\ 1 \in DOMAIN avail
          BY <2>1, <5>1 DEF Layout
        <5> QED BY <5>2
      <4>2. CASE j > Len(avail) /\ j <= Len(avail) + Worked
        <5>1. j = Len(avail) + 1 /\ Worked = 1 /\ 3 * j = 3 * Len(avail) + 3
          BY <2>1, <4>2
        <5>2. stage \in {"work", "push"}
          BY <5>1 DEF Worked
        <5>3. device = Back(3 * j)
          BY <2>1, <5>1, <5>2 DEF Layout
        <5> QED BY <5>2, <5>3
      <4>3. CASE j > Len(avail) + Worked
        <5>1. c + 1 - j \in 1..Len(used) /\ 3 * (c - (c + 1 - j)) + 3 = 3 * j
          BY <2>1, <4>3
        <5>2. used[c + 1 - j] = Back(3 * (c - (c + 1 - j)) + 3)
          BY <2>1, <5>1 DEF Layout
        <5>3. used[c + 1 - j] = Back(3 * j) /\ c + 1 - j \in DOMAIN used
          BY <2>1, <5>1, <5>2
        <5> QED BY <5>3
      <4> QED BY <2>1, <4>1, <4>2, <4>3
    <3> HIDE DEF heads, c
    <3> QED BY <3>1, <3>2
  <2> HIDE DEF heads, c
  <2>3. ASSUME NEW j \in 1..c
        PROVE  /\ After(Back(3 * j), 0) = Back(3 * j) /\ After(Back(3 * j), 1) = Back(3 * j - 1)
               /\ After(Back(3 * j), 2) = Back(3 * j - 2)
               /\ 3 * j \in 1..RingSize /\ 3 * j - 1 \in 1..RingSize /\ 3 * j - 2 \in 1..RingSize
    <3>1. /\ 3 * j \in 1..RingSize /\ 3 * j - 1 \in 1..RingSize /\ 3 * j - 2 \in 1..RingSize
          /\ 0 \in 0..3 * j - 1 /\ 1 \in 0..3 * j - 1 /\ 2 \in 0..3 * j - 1 /\ 3 * j - 0 = 3 * j
      BY <2>1
    <3>2. \A n \in 0..3 * j - 1 : After(Back(3 * j), n) = Back(3 * j - n)
      BY <2>1, <3>1, BackFacts
    <3> QED BY <3>1, <3>2
  <2>4. ASSUME NEW j \in 1..c
        PROVE  /\ desc[Back(3 * j)] = [more |-> TRUE, what |-> "header"]
               /\ desc[Back(3 * j - 1)] = [more |-> TRUE, what |-> "data"]
               /\ desc[Back(3 * j - 2)] = [more |-> FALSE, what |-> "status"]
    BY <2>1 DEF Layout, c
  <2>5. InFlight = UNION {three(h) : h \in heads}
    <3>1. ASSUME NEW s \in InFlight PROVE \E h \in heads : s \in three(h)
      <4>1. s \in Slot /\ desc[s] # Free
        BY DEF InFlight
      <4>2. PICK k \in 1..RingSize : s = Back(k)
        BY <2>1, <4>1, BackFacts
      <4>3. k <= 3 * c
        BY <2>1, <4>1, <4>2 DEF Layout, c
      <4>4. \E j \in 1..c : k = 3 * j \/ k = 3 * j - 1 \/ k = 3 * j - 2
        <5>1. (k + 2) \div 3 \in 1..c
          BY <2>1, <4>3
        <5>2. LET j == (k + 2) \div 3 IN k = 3 * j \/ k = 3 * j - 1 \/ k = 3 * j - 2
          BY <2>1
        <5> QED BY <5>1, <5>2
      <4>5. PICK j \in 1..c : k = 3 * j \/ k = 3 * j - 1 \/ k = 3 * j - 2
        BY <4>4
      <4>6. Back(3 * j) \in heads /\ s \in three(Back(3 * j))
        BY <2>2, <2>3, <4>2, <4>5
      <4> QED BY <4>6
    <3>2. ASSUME NEW h \in heads, NEW s \in three(h) PROVE s \in InFlight
      <4>1. PICK j \in 1..c : h = Back(3 * j)
        BY <2>2
      <4>2. s \in {Back(3 * j), Back(3 * j - 1), Back(3 * j - 2)}
        BY <2>3, <4>1
      <4>3. s \in Slot
        <5>1. \A k \in 1..RingSize : Back(k) \in Slot
          BY <2>1, BackFacts
        <5> QED BY <2>3, <4>2, <5>1
      <4>4. desc[s] # Free
        BY <2>4, <4>2, DescriptorFacts
      <4> QED BY <4>3, <4>4 DEF InFlight
    <3> HIDE DEF three
    <3> QED BY <3>1, <3>2
  <2>6. ASSUME NEW h \in heads, NEW i \in 0..2
        PROVE  desc[After(h, i)] = [more |-> i < 2, what |-> Buffers[i + 1]]
    <3>1. PICK j \in 1..c : h = Back(3 * j)
      BY <2>2
    <3>2. /\ desc[After(h, 0)] = [more |-> TRUE, what |-> "header"]
          /\ desc[After(h, 1)] = [more |-> TRUE, what |-> "data"]
          /\ desc[After(h, 2)] = [more |-> FALSE, what |-> "status"]
      BY <2>3, <2>4, <3>1
    <3>3. Buffers[1] = "header" /\ Buffers[2] = "data" /\ Buffers[3] = "status"
      BY DEF Buffers
    <3>4. CASE i = 0
      <4>1. (i < 2) = TRUE /\ i + 1 = 1
        BY <3>4
      <4> QED BY <3>2, <3>3, <3>4, <4>1, Zenon
    <3>5. CASE i = 1
      <4>1. (i < 2) = TRUE /\ i + 1 = 2
        BY <3>5
      <4> QED BY <3>2, <3>3, <3>5, <4>1, Zenon
    <3>6. CASE i = 2
      <4>1. (i < 2) = FALSE /\ i + 1 = 3
        BY <3>6
      <4> QED BY <3>2, <3>3, <3>6, <4>1, Zenon
    <3> QED BY <3>4, <3>5, <3>6
  <2> QED BY <2>5, <2>6 DEF ChainsAccounted, heads
<1> QED BY <1>1, BlockInvariance, PTL
=============================================================================
