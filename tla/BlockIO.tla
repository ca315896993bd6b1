------------------------------ MODULE BlockIO ------------------------------
(***************************************************************************)
(* block_read and block_write of driver/block.c: a byte range is cut into  *)
(* the rest of its first block, whole blocks and the beginning of its last *)
(* one; partial blocks go through a bounce buffer.  Each call of the       *)
(* device's read or write may fail, and what was done before it counts.    *)
(***************************************************************************)
EXTENDS Integers

CONSTANTS BlkSz, BlkCnt,   \* block_size, block_count
          MaxCount         \* bound on the caller's count

VARIABLES op,          \* "read" or "write"
          offset, asked,   \* the caller's arguments
          count, blkno, ret,
          disk,        \* the bytes of the device, named by where they come from
          mem,         \* the bytes of the caller's buffer, likewise
          stage,       \* "call", "head", "middle", "tail" or "done"
          ops,         \* device calls made
          failed       \* one of them failed

vars == <<op, offset, asked, count, blkno, ret, disk, mem, stage, ops, failed>>

Capacity == BlkSz * BlkCnt
Bytes == 0..(Capacity - 1)
OnDisk(i) == <<"disk", i>>
InMem(i) == <<"mem", i>>
Smaller(a, b) == IF a < b THEN a ELSE b

Init ==
  /\ op \in {"read", "write"}
  /\ offset \in 0..(Capacity + 1) /\ asked \in 0..MaxCount
  /\ count = asked /\ blkno = 0 /\ ret = 0
  /\ disk = [i \in Bytes |-> OnDisk(i)]
  /\ mem = [i \in 0..(MaxCount - 1) |-> InMem(i)]
  /\ stage = "call" /\ ops = 0 /\ failed = FALSE

Finish == stage' = "done" /\ UNCHANGED <<count, blkno, ret, disk, mem>>

\* The checks of the arguments, and count cut to what the device holds.
Enter ==
  /\ stage = "call"
  /\ UNCHANGED <<op, offset, asked, ops, failed>>
  /\ IF asked = 0 \/ offset >= Capacity THEN Finish
     ELSE /\ count' = Smaller(asked, Capacity - offset)
          /\ blkno' = offset \div BlkSz
          /\ stage' = "head"
          /\ UNCHANGED <<ret, disk, mem>>

\* Faulty variant: the block is not read first.
WriteThroughBlind(at, len) ==
  disk' = [i \in Bytes |->
    IF i \div BlkSz = blkno
    THEN IF (i % BlkSz) \in at..(at + len - 1) THEN mem[ret + (i % BlkSz) - at] ELSE <<"zero", 0>>
    ELSE disk[i]]

\* len bytes at position at of block blkno become those of the caller's buffer at ret,
\* through a copy of the block.
WriteThrough(at, len) ==
  LET p == [i \in 0..(BlkSz - 1) |-> disk[blkno * BlkSz + i]]
      q == [i \in 0..(BlkSz - 1) |-> IF i \in at..(at + len - 1) THEN mem[ret + i - at] ELSE p[i]]
  IN disk' = [i \in Bytes |-> IF i \div BlkSz = blkno THEN q[i % BlkSz] ELSE disk[i]]

\* n whole blocks from blkno on.
WriteBlocks(n) ==
  disk' = [i \in Bytes |->
    IF i \div BlkSz \in blkno..(blkno + n - 1) THEN mem[ret + i - blkno * BlkSz] ELSE disk[i]]

\* len bytes from position at of block blkno on, into the caller's buffer.
ReadTo(at, len) ==
  mem' = [i \in DOMAIN mem |->
    IF i \in ret..(ret + len - 1) THEN disk[blkno * BlkSz + at + i - ret] ELSE mem[i]]

\* A stage moves len bytes unless one of its device calls fails: then the call returns
\* what the earlier stages moved.
Advance(len, n, calls, then) ==
  \/ ops' = ops + calls /\ count' = count - len /\ ret' = ret + len /\ blkno' = blkno + n
     /\ stage' = then /\ UNCHANGED failed
  \/ /\ \E k \in 1..calls : ops' = ops + k
     /\ stage' = "done" /\ failed' = TRUE
     /\ UNCHANGED <<count, blkno, ret>>

\* A partial block: one device call to read, two to write.
Partial(at, len, then) ==
  /\ Advance(len, 1, IF op = "read" THEN 1 ELSE 2, then)
  /\ IF ret' = ret THEN UNCHANGED <<disk, mem>>
     ELSE IF op = "read" THEN ReadTo(at, len) /\ UNCHANGED disk
     ELSE WriteThrough(at, len) /\ UNCHANGED mem

Skip(then) == stage' = then /\ UNCHANGED <<count, blkno, ret, disk, mem, ops, failed>>

Head ==
  LET tmp == offset % BlkSz
  IN /\ stage = "head"
     /\ UNCHANGED <<op, offset, asked>>
     /\ IF tmp > 0 THEN Partial(tmp, Smaller(BlkSz - tmp, count), "middle") ELSE Skip("middle")

Middle ==
  LET n == count \div BlkSz
  IN /\ stage = "middle"
     /\ UNCHANGED <<op, offset, asked>>
     /\ IF n = 0 THEN Skip("tail")
        ELSE /\ Advance(n * BlkSz, n, 1, "tail")
             /\ IF ret' = ret THEN UNCHANGED <<disk, mem>>
                ELSE IF op = "read" THEN ReadTo(0, n * BlkSz) /\ UNCHANGED disk
                ELSE WriteBlocks(n) /\ UNCHANGED mem

Tail ==
  /\ stage = "tail"
  /\ UNCHANGED <<op, offset, asked>>
  /\ IF count > 0 THEN Partial(0, count, "done") ELSE Skip("done")

Next == Enter \/ Head \/ Middle \/ Tail

Spec == Init /\ [][Next]_vars

(***************************************************************************)
(* Properties                                                              *)
(***************************************************************************)

Moved == 0..(ret - 1)

\* What is reported as moved is moved, and nothing else is touched, at every stage and
\* so also when a device call fails: block_read fills the first ret bytes of the buffer
\* with the device's bytes from offset on; block_write puts the first ret bytes of the
\* buffer there and keeps every other byte, the rest of a partly written block included.
MovedExactly ==
  /\ op = "read" =>
       /\ mem = [i \in DOMAIN mem |-> IF i \in Moved THEN OnDisk(offset + i) ELSE InMem(i)]
       /\ disk = [i \in Bytes |-> OnDisk(i)]
  /\ op = "write" =>
       disk = [i \in Bytes |-> IF i - offset \in Moved THEN InMem(i - offset) ELSE OnDisk(i)]

\* A call that meets no failure moves all that is asked for and lies on the device; the
\* driver is asked at most three times to read and five times to write.
MovesAll ==
  /\ stage = "done" /\ ~failed
       => ret = IF offset < Capacity THEN Smaller(asked, Capacity - offset) ELSE 0
  /\ ops <= IF op = "read" THEN 3 ELSE 5
=============================================================================
