---------------------------- MODULE VirtioInput ----------------------------
(***************************************************************************)
(* Keyboard and mouse: driver/virtio/keyboard.c and mouse.c, which are the *)
(* same program over the event virtqueue.  Every descriptor offers the     *)
(* device an empty event.  The handler acknowledges the interrupt, handles *)
(* what the device has filled, and offers new events until the ring is     *)
(* full.  The heap the events come from is left to MemPool.                *)
(***************************************************************************)
EXTENDS Virtqueue

CONSTANT MaxEvents     \* bound on the events of a behaviour

VARIABLES next,        \* the event that happens next
          event,       \* what the device wrote into each slot's buffer
          toRaise,     \* a filled event was pushed, its interrupt not yet raised
          pending,     \* the interrupt is raised
          phase,       \* of the handler: "out", "drain" or "refill"
          handled,     \* events handled, in order
          given        \* events the device gave, in order

vars == <<queueVars, next, event, toRaise, pending, phase, handled, given>>

None == 0

\* The ring is not empty, and an offered event is told from a free descriptor.
InputAssumption == RingSize \in Nat \ {0} /\ Free # [more |-> FALSE, what |-> "event"]

\* Probe: the handler is not installed yet and the loop of request_event fills the ring.
Init ==
  /\ desc = [s \in Slot |-> [more |-> FALSE, what |-> "event"]]
  /\ idx = 0 /\ avail = [i \in 1..RingSize |-> i - 1] /\ used = <<>>
  /\ next = 1 /\ event = [s \in Slot |-> None]
  /\ toRaise = FALSE /\ pending = FALSE /\ phase = "out"
  /\ handled = <<>> /\ given = <<>>

\* The device (external) writes an event into the oldest buffer offered, and drops it
\* when there is none; it raises its interrupt afterwards.
DeviceEvent ==
  /\ next <= MaxEvents
  /\ next' = next + 1
  /\ IF avail = <<>> THEN UNCHANGED <<queueVars, event, toRaise, given>>
     ELSE /\ event' = [event EXCEPT ![Head(avail)] = next]
          /\ avail' = Tail(avail)
          /\ used' = Append(used, Head(avail))
          /\ toRaise' = TRUE
          /\ given' = Append(given, next)
          /\ UNCHANGED <<desc, idx>>
  /\ UNCHANGED <<pending, phase, handled>>

DeviceRaise ==
  /\ toRaise
  /\ pending' = TRUE /\ toRaise' = FALSE
  /\ UNCHANGED <<queueVars, next, event, phase, handled, given>>

\* irq_handler: the interrupt is acknowledged before the used ring is looked at.
IrqEnter ==
  /\ phase = "out" /\ pending
  /\ phase' = "drain" /\ pending' = FALSE
  /\ UNCHANGED <<queueVars, next, event, toRaise, handled, given>>

\* One turn of virtio_device_irq_handler with free_desc.
IrqHandle ==
  /\ phase = "drain" /\ Acknowledge
  /\ handled' = Append(handled, event[Head(used)])
  /\ UNCHANGED <<next, event, toRaise, pending, phase, given>>

IrqDrained ==
  /\ phase = "drain" /\ used = <<>>
  /\ phase' = "refill"
  /\ UNCHANGED <<queueVars, next, event, toRaise, pending, handled, given>>

\* Faulty variant: one event is offered however many were handled.
IrqRefillOnce ==
  /\ phase = "refill"
  /\ SendCommand(<<"event">>)
  /\ event' = IF Accepted(1) = 1 THEN [event EXCEPT ![idx] = None] ELSE event
  /\ phase' = "out"
  /\ UNCHANGED <<next, toRaise, pending, handled, given>>

\* Faulty variant: the interrupt is acknowledged at the end.
IrqRefillAcks ==
  /\ phase = "refill"
  /\ SendCommand(<<"event">>)
  /\ IF Accepted(1) = 1
     THEN event' = [event EXCEPT ![idx] = None] /\ UNCHANGED <<phase, pending>>
     ELSE phase' = "out" /\ pending' = FALSE /\ UNCHANGED event
  /\ UNCHANGED <<next, toRaise, handled, given>>

\* One turn of request_event: it ends, and the handler with it, when the ring is full.
IrqRefill ==
  /\ phase = "refill"
  /\ SendCommand(<<"event">>)
  /\ IF Accepted(1) = 1
     THEN event' = [event EXCEPT ![idx] = None] /\ UNCHANGED phase
     ELSE phase' = "out" /\ UNCHANGED event
  /\ UNCHANGED <<next, toRaise, pending, handled, given>>

Irq == IrqEnter \/ IrqHandle \/ IrqDrained \/ IrqRefill

Next == DeviceEvent \/ DeviceRaise \/ Irq

Spec == Init /\ [][Next]_vars

\* A pushed event raises its interrupt and a raised interrupt is served: the CPU
\* returns to user mode, with interrupts enabled, again and again.
FairSpec == Spec /\ WF_vars(DeviceRaise) /\ WF_vars(Irq)

(***************************************************************************)
(* Properties                                                              *)
(***************************************************************************)

\* Events are handled in the order the device gave them, each once and as it was
\* written, however the ring wraps and whatever the device does during the handler.
HandledInOrder ==
  /\ Len(handled) <= Len(given)
  /\ \A i \in DOMAIN handled : handled[i] = given[i]

\* When the handler is done every slot again offers an event or holds one to be
\* handled: the ring does not shrink over time.
RingRefilled == phase = "out" => Len(avail) + Len(used) = RingSize

\* Both.
InputInOrder == HandledInOrder /\ RingRefilled

\* Every event the device gives is handled, also one that arrives while the handler
\* is finishing.
EventsHandled == \A i \in 1..MaxEvents : (Len(given) >= i) ~> (Len(handled) >= i)
=============================================================================
