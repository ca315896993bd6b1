---------------------------- MODULE VirtioBlock ----------------------------
(***************************************************************************)
(* Block requests: driver/virtio/block.c over the virtqueue, with          *)
(* wait_event of include/core/waitqueue.h, the device, and the interrupt   *)
(* handler.                                                                *)
(*                                                                         *)
(* A request is named by the head of its chain.  Its status byte and its   *)
(* wait queue entry live on the stack of virtio_block_read, which does not *)
(* sleep: wait_event polls the status.  The handler, which gives the       *)
(* descriptors back, may come long after the caller has returned.          *)
(*                                                                         *)
(* A system call (sys_block_read, sys_block_write) makes up to PerCall     *)
(* requests with interrupts masked: five for an unaligned write, two       *)
(* blocks read, three written (driver/block.c).  The boot thread reads     *)
(* with interrupts enabled.                                                *)
(***************************************************************************)
EXTENDS Virtqueue

CONSTANTS PerCall,     \* the most requests of one system call
          NoReq

VARIABLES pc,          \* where the CPU is in thread context
          masked,      \* sstatus.SIE is off: a system call
          left,        \* requests the caller has yet to make
          live,        \* the request being waited for
          status,      \* its status byte
          queued,      \* its entry is on vblk->wq_head
          device,      \* the request the device works on
          stage,       \* what the device does next with it
          pending,     \* the device's interrupt is raised
          handling     \* the interrupt handler is running

cpuVars == <<pc, masked, left, live, status, queued>>
deviceVars == <<device, stage, pending>>
vars == <<queueVars, cpuVars, deviceVars, handling>>

Buffers == <<"header", "data", "status">>

\* The ring holds every request of a call and the one the device may still be
\* giving back from before: 18 of 128 descriptors.
RingAssumption ==
  /\ PerCall \in Nat \ {0} /\ RingSize \in Nat /\ RingSize >= 3 * (PerCall + 1)
  /\ NoReq \notin Slot
  /\ Free \notin [more : BOOLEAN, what : {"header", "data", "status"}]

Init ==
  /\ QueueInit
  /\ pc = "user" /\ masked = FALSE /\ left = 0
  /\ live = NoReq /\ status = 1 /\ queued = FALSE
  /\ device = NoReq /\ stage = "idle" /\ pending = FALSE
  /\ handling = FALSE

\* A pending interrupt is taken before the next instruction unless it is masked.
ThreadRuns == ~handling /\ (pending => masked)

\* A system call, or a read of the boot thread.
Call(n, m) ==
  /\ ThreadRuns /\ pc = "user"
  /\ pc' = "submit" /\ left' = n /\ masked' = m
  /\ UNCHANGED <<queueVars, live, status, queued, deviceVars, handling>>

\* virtio_block_read or _write up to virtio_mmio_notify.  The result of
\* virtio_send_command_3 is not looked at.
Submit ==
  /\ ThreadRuns /\ pc = "submit"
  /\ SendCommand(Buffers)
  /\ pc' = "wait" /\ status' = 1
  /\ live' = IF avail' # avail THEN idx ELSE NoReq
  /\ UNCHANGED <<masked, left, queued, deviceVars, handling>>

\* The request returns blkcnt; the caller makes the next one or is done.
Return ==
  /\ live' = NoReq /\ left' = left - 1
  /\ IF left > 1 THEN pc' = "submit" /\ UNCHANGED masked
     ELSE pc' = "user" /\ masked' = FALSE
  /\ UNCHANGED <<queueVars, status, deviceVars, handling>>

\* The first test of wait_event.
WaitEvent ==
  /\ ThreadRuns /\ pc = "wait"
  /\ IF status = 0 THEN Return /\ UNCHANGED queued
     ELSE /\ pc' = "prepare"
          /\ UNCHANGED <<queueVars, masked, left, live, status, queued, deviceVars, handling>>

\* prepare_to_wait_queue: the entry is linked unless it still is.
Prepare ==
  /\ ThreadRuns /\ pc = "prepare"
  /\ queued' = TRUE /\ pc' = "poll"
  /\ UNCHANGED <<queueVars, masked, left, live, status, deviceVars, handling>>

\* Faulty variant: the loop is left whatever the status.
PollOnce ==
  /\ ThreadRuns /\ pc = "poll"
  /\ Return /\ queued' = FALSE

\* The test in the loop; thread_resume(thread_self()) does nothing to a running
\* thread.
Poll ==
  /\ ThreadRuns /\ pc = "poll"
  /\ IF status = 0 THEN Return /\ queued' = FALSE
     ELSE /\ pc' = "prepare"
          /\ UNCHANGED <<queueVars, masked, left, live, status, queued, deviceVars, handling>>

\* The device (external) takes one request at a time, writes the status byte, gives
\* the chain back and raises its interrupt.
DeviceFetch ==
  /\ stage = "idle" /\ Fetch
  /\ device' = Head(avail) /\ stage' = "work"
  /\ UNCHANGED <<cpuVars, pending, handling>>

DeviceWrite ==
  /\ stage = "work"
  /\ status' = IF device = live THEN 0 ELSE status
  /\ stage' = "push"
  /\ UNCHANGED <<queueVars, pc, masked, left, live, queued, device, pending, handling>>

DevicePush ==
  /\ stage = "push" /\ Push(device)
  /\ stage' = "raise"
  /\ UNCHANGED <<cpuVars, device, pending, handling>>

DeviceRaise ==
  /\ stage = "raise"
  /\ pending' = TRUE /\ stage' = "idle" /\ device' = NoReq
  /\ UNCHANGED <<queueVars, cpuVars, handling>>

\* do_IRQ to irq_handler: the interrupt is acknowledged first.
IrqEnter ==
  /\ pending /\ ~masked /\ ~handling
  /\ handling' = TRUE /\ pending' = FALSE
  /\ UNCHANGED <<queueVars, cpuVars, device, stage>>

\* A chain is given back.  free_desc frees the header and looks at the status byte:
\* that of a live request, or whatever has become of the stack of one that has
\* returned.  When it reads zero, wake_up unlinks the entries of the queue.
IrqReclaim ==
  /\ handling /\ Acknowledge
  /\ IF Head(used) = live
     THEN queued' = IF status = 0 THEN FALSE ELSE queued
     ELSE queued' \in {FALSE, queued}
  /\ UNCHANGED <<pc, masked, left, live, status, deviceVars, handling>>

IrqExit ==
  /\ handling /\ used = <<>>
  /\ handling' = FALSE
  /\ UNCHANGED <<queueVars, cpuVars, deviceVars>>

Thread == Submit \/ WaitEvent \/ Prepare \/ Poll
Device == DeviceFetch \/ DeviceWrite \/ DevicePush \/ DeviceRaise
Irq == IrqEnter \/ IrqReclaim \/ IrqExit

Next == \/ \E n \in 1..PerCall, m \in BOOLEAN : Call(n, m)
        \/ Thread
        \/ Device
        \/ Irq

Spec == Init /\ [][Next]_vars

\* The CPU runs, the device answers what it was given, and an interrupt that is
\* raised and not masked is taken.
FairSpec == Spec /\ WF_vars(Thread) /\ WF_vars(Device) /\ WF_vars(Irq)

(***************************************************************************)
(* Properties                                                              *)
(***************************************************************************)

InFlight == {s \in Slot : desc[s] # Free}

\* Nobody polls for a request the device was never given: the ring has room for
\* three descriptors whenever a request is made, although chains are given back
\* only when interrupts are next unmasked.
RequestSent == pc \in {"wait", "prepare", "poll"} => live # NoReq

\* The device writes into a buffer or a status byte only while its caller still
\* waits: no chain it has yet to work on belongs to a request that has returned.
DeviceWritesLiveFrame ==
  /\ \A i \in DOMAIN avail : avail[i] = live
  /\ stage = "work" => device = live

\* Both: nobody polls for a block request the device was never given, and the device
\* writes into a buffer or a status byte only while its caller (virtio_block_read or
\* _write) still waits.
BlockRequestsLive == RequestSent /\ DeviceWritesLiveFrame

\* Descriptors are neither lost nor given back twice: the slots in use are the
\* chains of the requests published, worked on or given back.
ChainsAccounted ==
  LET heads == {avail[i] : i \in DOMAIN avail} \cup {used[i] : i \in DOMAIN used}
                 \cup (IF stage \in {"work", "push"} THEN {device} ELSE {})
  IN /\ InFlight = UNION {{After(h, 0), After(h, 1), After(h, 2)} : h \in heads}
     /\ \A h \in heads : \A i \in 0..2 : desc[After(h, i)] = [more |-> i < 2, what |-> Buffers[i + 1]]

\* Every call returns: no request is lost and no wake-up is needed.
CallReturns == (pc # "user") ~> (pc = "user")
=============================================================================
