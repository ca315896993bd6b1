----------------------------- MODULE MCDrivers -----------------------------
(***************************************************************************)
(* The device drivers, one in each behaviour: block requests over a ring   *)
(* of ten descriptors, input events over a ring of three, display commands *)
(* over a ring of eighteen, and byte ranges over a disk of four blocks.    *)
(* The drivers share nothing but the code of the virtqueue, so the ring's  *)
(* variables are those of the driver that runs; those of the others are 0. *)
(***************************************************************************)
EXTENDS Integers, Sequences

CONSTANTS BlockRing,   \* VIRTIO_RING_SIZE in the block driver's instance
          PerCall,     \* the most block requests of one system call
          Free, NoReq

VARIABLES part,
          desc, idx, avail, used, pending, device, stage,          \* of more than one
          pc, masked, left, live, status, queued, handling,        \* of VirtioBlock
          next, event, toRaise, phase, handled, given,             \* of VirtioInput
          todo, created, surface, presented, notified, setup, resource, shown,
          refused,                                                 \* of VirtioGpu
          op, offset, asked, count, blkno, ret, disk, mem, ops, failed   \* of BlockIO

Block == INSTANCE VirtioBlock WITH RingSize <- BlockRing
Input == INSTANCE VirtioInput WITH RingSize <- 3, MaxEvents <- 7
Gpu == INSTANCE VirtioGpu WITH RingSize <- 18, MaxFrames <- 3
Range == INSTANCE BlockIO WITH BlkSz <- 3, BlkCnt <- 4, MaxCount <- 13

\* What the theorems about the block and the input drivers assume of the rings and of a call.
ASSUME DriverAssumption == Block!RingAssumption /\ Input!InputAssumption

shared == <<desc, idx, avail, used, pending, device, stage>>
blockOnly == <<pc, masked, left, live, status, queued, handling>>
inputOnly == <<next, event, toRaise, phase, handled, given>>
gpuOnly == <<todo, created, surface, presented, notified, setup, resource, shown, refused>>
rangeOnly == <<op, offset, asked, count, blkno, ret, disk, mem, ops, failed>>
driverVars == <<part, shared, blockOnly, inputOnly, gpuOnly, rangeOnly>>

BlockOff == /\ pc = 0 /\ masked = 0 /\ left = 0 /\ live = 0 /\ status = 0 /\ queued = 0
            /\ handling = 0
InputOff == next = 0 /\ event = 0 /\ toRaise = 0 /\ phase = 0 /\ handled = 0 /\ given = 0
GpuOff == /\ todo = 0 /\ created = 0 /\ surface = 0 /\ presented = 0 /\ notified = 0
          /\ setup = 0 /\ resource = 0 /\ shown = 0 /\ refused = 0
RangeOff == /\ op = 0 /\ offset = 0 /\ asked = 0 /\ count = 0 /\ blkno = 0 /\ ret = 0
            /\ disk = 0 /\ mem = 0 /\ ops = 0 /\ failed = 0

DriverInit ==
  \/ part = "block" /\ Block!Init /\ InputOff /\ GpuOff /\ RangeOff
  \/ part = "input" /\ Input!Init /\ BlockOff /\ GpuOff /\ RangeOff /\ device = 0 /\ stage = 0
  \/ part = "gpu" /\ Gpu!Init /\ BlockOff /\ InputOff /\ RangeOff /\ stage = 0
  \/ /\ part = "range" /\ Range!Init /\ BlockOff /\ InputOff /\ GpuOff
     /\ desc = 0 /\ idx = 0 /\ avail = 0 /\ used = 0 /\ device = 0 /\ pending = 0

\* A step of one driver.
InBlock == part = "block" /\ UNCHANGED <<part, inputOnly, gpuOnly, rangeOnly>>
InInput == part = "input" /\ UNCHANGED <<part, blockOnly, gpuOnly, rangeOnly, device, stage>>
InGpu == part = "gpu" /\ UNCHANGED <<part, blockOnly, inputOnly, rangeOnly, stage>>
InRange ==
  part = "range" /\ UNCHANGED <<part, desc, idx, avail, used, pending, device, blockOnly, inputOnly, gpuOnly>>

DriverNext ==
  \/ InBlock /\ Block!Next
  \/ InInput /\ Input!Next
  \/ InGpu /\ Gpu!Next
  \/ InRange /\ Range!Next

\* The fairness of each driver's specification: the CPU runs, the device answers what it
\* was given, and an interrupt that is raised and not masked is taken.
DriverSpec ==
  /\ DriverInit /\ [][DriverNext]_driverVars
  /\ WF_driverVars(InBlock /\ Block!Thread) /\ WF_driverVars(InBlock /\ Block!Device)
  /\ WF_driverVars(InBlock /\ Block!Irq)
  /\ WF_driverVars(InInput /\ Input!DeviceRaise) /\ WF_driverVars(InInput /\ Input!Irq)
  /\ WF_driverVars(InGpu /\ Gpu!Send) /\ WF_driverVars(InGpu /\ Gpu!IrqReclaim)
  /\ WF_driverVars(InGpu /\ (Gpu!DeviceFetch \/ Gpu!DeviceDone))

(***************************************************************************)
(* Properties                                                              *)
(***************************************************************************)

\* Nobody polls for a block request the device was never given, and the device writes into
\* a buffer or a status byte only while its caller still waits.
BlockRequestsLive == part = "block" => Block!BlockRequestsLive

\* Descriptors are neither lost nor given back twice by the block driver, and no device
\* is given part of a chain, although the display driver goes on after a full ring.
ChainsWhole == /\ part = "block" => Block!ChainsAccounted
               /\ part = "gpu" => Gpu!WholeChains

\* Input events are handled in the order the device gave them, each once and as it was
\* written, and the ring is full of empty events again when the handler is done.
InputInOrder == part = "input" => Input!InputInOrder

\* The screen shows the last frame presented, or a later one, whenever the device has
\* caught up and no command found the ring full.
LastFrameShown == part = "gpu" => Gpu!LastFrameShown

\* block_read and block_write move exactly what they report, at every stage and so also
\* when a device call fails, and all that was asked for when none does.
RangeMoved == part = "range" => Range!MovedExactly /\ Range!MovesAll

\* Every block request returns, every input event is handled, also one that arrives while
\* the handler is finishing, and every frame presented is shown unless the ring was full.
DriversServe ==
  /\ (part = "block" /\ pc # "user") ~> (part = "block" /\ pc = "user")
  /\ \A i \in 1..7 :
       (part = "input" /\ Len(given) >= i) ~> (part = "input" /\ Len(handled) >= i)
  /\ \A f \in 1..3 :
       (part = "gpu" /\ presented >= f) ~> (part = "gpu" /\ (shown >= f \/ refused))
=============================================================================
