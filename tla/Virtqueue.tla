----------------------------- MODULE Virtqueue -----------------------------
(***************************************************************************)
(* The split virtqueue of driver/virtio/virtio.c: a ring of descriptors    *)
(* filled in order by virtio_desc_new, the heads of finished chains        *)
(* published in the avail ring, and the used ring through which the device *)
(* gives chains back.  A descriptor is free when its flags are zero.       *)
(***************************************************************************)
EXTENDS Integers, Sequences

CONSTANTS RingSize,    \* VIRTIO_RING_SIZE
          Free         \* a descriptor with flags zero

VARIABLES desc,        \* the descriptors: Free, or [more, what]; more is
                       \* VRING_DESC_F_NEXT and what the driver's buffer
          idx,         \* queue->idx, the slot virtio_desc_new tries next
          avail,       \* heads published and not yet fetched by the device
          used         \* heads given back and not yet acknowledged

queueVars == <<desc, idx, avail, used>>

Slot == 0..(RingSize - 1)
After(s, n) == (s + n) % RingSize

QueueInit ==
  /\ desc = [s \in Slot |-> Free]
  /\ idx = 0
  /\ avail = <<>>
  /\ used = <<>>

\* How many of n buffers virtio_desc_new accepts in a row: it stops at the first
\* slot that is not free.
Accepted(n) == CHOOSE k \in 0..n : /\ \A i \in 0..(k - 1) : desc[After(idx, i)] = Free
                                   /\ k = n \/ desc[After(idx, k)] # Free

\* virtio_send_command_n on the buffers bs: descriptors written before a failure
\* stay written, and only a complete chain is published.
SendCommand(bs) ==
  LET n == Len(bs)
      k == Accepted(n)
  IN /\ desc' = [s \in Slot |->
          IF \E i \in 1..k : s = After(idx, i - 1)
          THEN LET i == CHOOSE i \in 1..k : s = After(idx, i - 1)
               IN [more |-> i < n, what |-> bs[i]]
          ELSE desc[s]]
     /\ idx' = After(idx, k)
     /\ avail' = IF k = n THEN Append(avail, idx) ELSE avail
     /\ UNCHANGED used

\* Faulty variant: the flags are looked at after the descriptor was cleared, as in
\* virtio_desc_del.
ChainCutShort(h) == {h}

\* The chain of h: virtio_device_irq_handler copies each descriptor before it
\* clears it and follows next while F_NEXT is set.
Chain(h) ==
  LET len == CHOOSE n \in 1..RingSize :
               /\ \A i \in 0..(n - 2) : desc[After(h, i)] # Free /\ desc[After(h, i)].more
               /\ \/ desc[After(h, n - 1)] = Free
                  \/ ~desc[After(h, n - 1)].more
  IN {After(h, i) : i \in 0..(len - 1)}

\* One turn of the handler's outer loop.
Acknowledge ==
  /\ used # <<>>
  /\ desc' = [s \in Slot |-> IF s \in Chain(Head(used)) THEN Free ELSE desc[s]]
  /\ used' = Tail(used)
  /\ UNCHANGED <<idx, avail>>

\* The device takes the oldest published chain (external).
Fetch == avail # <<>> /\ avail' = Tail(avail) /\ UNCHANGED <<desc, idx, used>>

\* The device gives the chain back (external).
Push(h) == used' = Append(used, h) /\ UNCHANGED <<desc, idx, avail>>
=============================================================================
