----------------------------- MODULE VirtioGpu -----------------------------
(***************************************************************************)
(* The display: driver/virtio/gpu.c over the control virtqueue, called     *)
(* through core/sys/framebuffer.c.  A system call sends a few commands and *)
(* notifies the device; nobody waits for an answer, and nobody looks at    *)
(* the result of virtio_send_command_2.  The interrupt handler gives the   *)
(* descriptors back and frees the buffers.                                 *)
(*                                                                         *)
(* The program draws into the surface, which the device reads: the picture *)
(* is the number of the last frame drawn.                                  *)
(***************************************************************************)
EXTENDS Virtqueue

CONSTANT MaxFrames     \* bound on the frames of a behaviour

VARIABLES todo,        \* the commands the system call has yet to send
          created,     \* sys_framebuffer_create was called
          surface,     \* the frame in surface->pixels
          presented,   \* the last frame whose present has returned
          notified,    \* the device was notified and has not yet found the ring empty
          device,      \* the chain the device works on, and its command
          setup,       \* the commands of create the device has carried out
          resource,    \* the frame in the device's copy
          shown,       \* the frame on the screen
          pending,     \* the interrupt is raised
          refused      \* history: a command found no descriptors

vars == <<queueVars, todo, created, surface, presented, notified, device, setup, resource,
          shown, pending, refused>>

Idle == -1
None == 0

\* A command's buffers: the request, for attach_backing its memory entry, the response.
Buffers(c) == IF c = "attach_backing" THEN <<c, "mem_entry", "response">> ELSE <<c, "response">>

CreateCommands == <<"get_display_info", "create_2d_resource", "attach_backing", "set_scanout",
                    "transfer_to_host_2d", "flush_resource">>

\* Faulty variant: the screen is flushed before the frame is there.
PresentFlushesFirst == <<"flush_resource", "transfer_to_host_2d">>

PresentCommands == <<"transfer_to_host_2d", "flush_resource">>

Init ==
  /\ QueueInit
  /\ todo = <<>> /\ created = FALSE /\ surface = None /\ presented = None
  /\ notified = FALSE /\ device = Idle /\ setup = <<>> /\ resource = None /\ shown = None
  /\ pending = FALSE /\ refused = FALSE

displayVars == <<device, setup, resource, shown>>

\* virtio_framebuffer_create and _present up to their first command.
Create ==
  /\ todo = <<>> /\ ~created
  /\ todo' = CreateCommands /\ created' = TRUE
  /\ UNCHANGED <<queueVars, surface, presented, notified, displayVars, pending, refused>>

Present ==
  /\ todo = <<>> /\ created /\ presented < surface
  /\ todo' = PresentCommands
  /\ UNCHANGED <<queueVars, created, surface, presented, notified, displayVars, pending, refused>>

\* One command.  After the last one the device is notified and the call returns.
Send ==
  /\ todo # <<>>
  /\ SendCommand(Buffers(Head(todo)))
  /\ refused' = (refused \/ avail' = avail)
  /\ todo' = Tail(todo)
  /\ IF Len(todo) = 1 THEN notified' = TRUE /\ presented' = surface
     ELSE UNCHANGED <<notified, presented>>
  /\ UNCHANGED <<created, surface, displayVars, pending>>

\* The program draws the next frame (external).
Draw ==
  /\ todo = <<>> /\ created /\ surface < MaxFrames
  /\ surface' = surface + 1
  /\ UNCHANGED <<queueVars, todo, created, presented, notified, displayVars, pending, refused>>

\* The device (external): it works through the ring from a notification until it finds
\* the ring empty, one command after the other.
DeviceFetch ==
  /\ notified /\ device = Idle
  /\ IF avail = <<>> THEN notified' = FALSE /\ UNCHANGED <<queueVars, device>>
     ELSE Fetch /\ device' = Head(avail) /\ UNCHANGED notified
  /\ UNCHANGED <<todo, created, surface, presented, setup, resource, shown, pending, refused>>

\* It carries the command out, gives the chain back and raises the interrupt.
DeviceDone ==
  /\ device # Idle
  /\ LET c == desc[device].what IN
     /\ setup' = IF c \in {"create_2d_resource", "attach_backing", "set_scanout"}
                 THEN Append(setup, c) ELSE setup
     /\ resource' = IF c = "transfer_to_host_2d" THEN surface ELSE resource
     /\ shown' = IF c = "flush_resource" /\ Len(setup) = 3 THEN resource ELSE shown
  /\ Push(device)
  /\ device' = Idle /\ pending' = TRUE
  /\ UNCHANGED <<todo, created, surface, presented, notified, refused>>

\* The interrupt handler, outside system calls: acknowledge, then every chain used.
IrqReclaim ==
  /\ todo = <<>> /\ pending /\ Acknowledge
  /\ pending' = (Len(used) > 1)
  /\ UNCHANGED <<todo, created, surface, presented, notified, displayVars, refused>>

Next == Create \/ Present \/ Send \/ Draw \/ DeviceFetch \/ DeviceDone \/ IrqReclaim

Spec == Init /\ [][Next]_vars

\* A system call runs to its end, the device works, and interrupts are served.
FairSpec == Spec /\ WF_vars(Send) /\ WF_vars(DeviceFetch \/ DeviceDone) /\ WF_vars(IrqReclaim)

(***************************************************************************)
(* Properties                                                              *)
(***************************************************************************)

Quiet == todo = <<>> /\ ~notified

\* As long as every command found its descriptors, the screen shows the last frame that
\* was presented, or a later one the program has begun, whenever the device has caught up:
\* no present is lost among the commands in the ring, though none is waited for.
LastFrameShown ==
  Quiet /\ ~refused /\ created => shown >= presented /\ setup = SubSeq(CreateCommands, 2, 4)

\* A command without descriptors leaves the rest of its call unsent, but never a chain
\* that the device is given in part.
WholeChains ==
  \A i \in DOMAIN avail :
    LET c == desc[avail[i]].what
        n == Len(Buffers(c))
    IN \A j \in 0..(n - 1) : desc[After(avail[i], j)] = [more |-> j < n - 1, what |-> Buffers(c)[j + 1]]

\* Every frame presented is shown, unless the ring was full.
FramesShown == \A f \in 1..MaxFrames : (presented >= f) ~> (shown >= f \/ refused)
=============================================================================
