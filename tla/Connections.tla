---------------------------- MODULE Connections -----------------------------
EXTENDS Integers, Sequences, SequencesExt, FiniteSets, FiniteSetsExt

(***************************************************************************)
(* One address space (core/vmspace.c): the list of regions and the page    *)
(* table beneath it.  Addresses are page numbers; a page table entry is a  *)
(* page of a vmo.  Access rights are left out: `prot | PROT_EXEC' and its  *)
(* likes are never zero, so every user mapping gets all of them.           *)
(***************************************************************************)

CONSTANTS Page,      \* the page numbers of user space
          NoFrame    \* an entry that maps nothing

EmptySpace == [vmr_list |-> <<>>, pgtbl |-> [a \in Page |-> NoFrame]]

Covers(r, a) == r.start <= a /\ a < r.start + r.size

\* check_vmr_intersect looks at the first and the last page of the new region only: a
\* region that begins before an old one and ends behind it is not seen.
Intersects(list, new) ==
  \E r \in Range(list) : Covers(r, new.start) \/ Covers(r, new.start + new.size - 1)

\* add_vmr_to_vmspace: list_add puts the region first; on an intersection it is left out.
AddVmr(list, new) == IF Intersects(list, new) THEN list ELSE <<new>> \o list

\* find_vmr_for_va
FindVmr(list, a) == SelectInSeq(list, LAMBDA r : Covers(r, a))

\* fill_page_table: the whole vmo, over whatever was mapped there.
Fill(pgtbl, va, vmo) ==
  [a \in Page |-> IF a \in va..(va + vmo.size - 1) THEN <<vmo.id, a - va>> ELSE pgtbl[a]]

\* vmspace_map_range_user of the whole of vmo.  add_vmr_to_vmspace reports an overlap as
\* FALSE, which the test for a negative result does not see: the page table is filled
\* all the same, at once for a VMO_DATA.
MapRange(space, va, vmo) ==
  [vmr_list |-> AddVmr(space.vmr_list, [start |-> va, size |-> vmo.size, vmo |-> vmo.id]),
   pgtbl    |-> IF vmo.type = "VMO_DATA" THEN Fill(space.pgtbl, va, vmo) ELSE space.pgtbl]

\* ... and what it returns: TRUE, as an int.
MapRangeResult == 1

-----------------------------------------------------------------------------
(***************************************************************************)
(* What the programs share: the slot tables that name kernel objects       *)
(* (core/process.c), memory objects and their mappings (core/vmo.c), and   *)
(* the registration of IPC servers and clients (core/ipc/{server,client}.c *)
(* with the library around it, user-test/lib/ipc.c).  Each action is one   *)
(* system call, which nothing interrupts.                                  *)
(***************************************************************************)

CONSTANTS Server, Client, Spare,   \* processes: the server, its clients, unused ones
          MaxSlots,                \* MAX_SLOTS_SIZE
          StackBase, StackSize, BufBase, BufSize,  \* the server's ipc_vm_config
          ClientBufBase, ClientBufSize,            \* the client's
          MapAddr, VmoSize,        \* arguments of the programs' own mappings
          MaxVmo, MaxSent          \* bounds: vmos and transfers the programs make

Proc == {Server} \cup Client \cup Spare

ASSUME LayoutAssumption ==
  /\ Server \notin Client \cup Spare /\ Client \cap Spare = {}
  /\ {MaxSlots, StackSize, BufSize, ClientBufSize} \subseteq Nat \ {0} /\ MaxSlots > 2

VARIABLES slots,     \* slots[p]: the objects of p's slot table, slot 0 first
          space,     \* space[p]: its vmspace
          vmos,      \* number of vmos made by sys_vmo_create, and by registrations
          named,     \* the server's name is in the map
          conn_bmp,  \* its connection bitmap, as a set of bit numbers
          conns,     \* the ipc_connection_t's, in the order of creation
          icb,       \* icb[p]: the conn_cap p's library holds, NoCap before
          sent,      \* capabilities sent with calls: <<client, slot, slot in the server>>
          panic      \* an assertion of the kernel has failed

vars == <<slots, space, vmos, named, conn_bmp, conns, icb, sent, panic>>

NoCap == -2

Object(kind, id) == [kind |-> kind, id |-> id]
ProcessObj(p) == Object("process", p)
Vmo(id, size, type) == [kind |-> "vmo", id |-> id, size |-> size, type |-> type]

\* The object in slot s of a table, as slot_get returns it.
SlotGet(table, s) == IF s \in 0..(Len(table) - 1) THEN table[s + 1] ELSE Object("null", 0)

\* slot_alloc and slot_install: slots are never emptied, so the first free one is the
\* next one; a full table gives -1 and stays as it is.
SlotAlloc(table) == IF Len(table) < MaxSlots THEN Len(table) ELSE -1

\* Faulty variant: the last slot is handed out again when the table is full.
InstallOverLast(table, obj) ==
  IF Len(table) < MaxSlots THEN Append(table, obj) ELSE [table EXCEPT ![MaxSlots] = obj]

Install(table, obj) == IF SlotAlloc(table) = -1 THEN table ELSE Append(table, obj)

\* A new process: its slots 0 and 1 hold itself and its vmspace.
NewTable(p) == <<ProcessObj(p), Object("vmspace", p)>>

Init ==
  /\ slots = [p \in Proc |-> IF p \in Spare THEN <<>> ELSE NewTable(p)]
  /\ space = [p \in Proc |-> EmptySpace]
  /\ vmos = [user |-> 0, ipc |-> 0]
  /\ named = FALSE /\ conn_bmp = {} /\ conns = <<>>
  /\ icb = [p \in Client |-> NoCap]
  /\ sent = {} /\ panic = FALSE
-----------------------------------------------------------------------------
\* sys_process_create: the new process goes into a slot of its creator.
SysProcessCreate(p, q) ==
  /\ ~panic /\ slots[q] = <<>>
  /\ slots' = [slots EXCEPT ![p] = Install(@, ProcessObj(q)), ![q] = NewTable(q)]
  /\ UNCHANGED <<space, vmos, named, conn_bmp, conns, icb, sent, panic>>

\* sys_vmo_create: without a free slot the object is deleted again.
SysVmoCreate(p, size, type) ==
  /\ ~panic /\ vmos.user < MaxVmo
  /\ vmos' = [vmos EXCEPT !.user = @ + 1]
  /\ slots' = [slots EXCEPT ![p] = Install(@, Vmo(<<"user", vmos.user>>, size, type))]
  /\ UNCHANGED <<space, named, conn_bmp, conns, icb, sent, panic>>

\* The programs choose where they map, and choose addresses they do not use yet.
Unused(q, addr, size) ==
  \A a \in addr..(addr + size - 1) : FindVmr(space[q].vmr_list, a) = 0

\* sys_vmo_map of the vmo in slot s into the process in slot t: any result of the mapping
\* but 0 is returned as -1; else another process would get a copy of the capability.
SysVmoMap(p, t, s, addr) ==
  LET target == SlotGet(slots[p], t)
      vmo == SlotGet(slots[p], s)
      q == target.id
  IN /\ ~panic /\ target.kind = "process" /\ vmo.kind = "vmo" /\ Unused(q, addr, vmo.size)
     /\ space' = [space EXCEPT ![q] = MapRange(@, addr, vmo)]
     /\ slots' = IF MapRangeResult = 0 /\ q # p THEN [slots EXCEPT ![q] = Install(@, vmo)]
                 ELSE slots
     /\ UNCHANGED <<vmos, named, conn_bmp, conns, icb, sent, panic>>

\* sys_register_named_server, once per server.
RegisterNamedServer ==
  /\ ~panic /\ ~named
  /\ named' = TRUE /\ conn_bmp' = {}
  /\ UNCHANGED <<slots, space, vmos, conns, icb, sent, panic>>

\* ffs: 0 when no bit is set, else the number of the lowest set bit, counted from 1.
Ffs(bmp) == IF bmp = {} THEN 0 ELSE Min(bmp) + 1

\* What create_connection returns, from the tables of the client and of the server before
\* the connection goes into them.
Returned(cl, sv) == SlotAlloc(cl)

\* create_connection: a stack for the server thread and a buffer for both sides, placed
\* by the index found in the bitmap, and the connection, named in both processes.  The
\* copy of a capability that could not be allocated is an assertion failure; a full
\* table of the server goes unnoticed.
CreateConnection(p) ==
  LET conn_idx == Ffs(conn_bmp)
      size == Min({BufSize, ClientBufSize})
      stack == Vmo(<<"stack", vmos.ipc>>, StackSize, "VMO_DATA")
      buf == Vmo(<<"buf", vmos.ipc>>, size, "VMO_DATA")
      stack_at == StackBase + conn_idx * StackSize
      buf_at == BufBase + conn_idx * BufSize
      conn == Object("conn", Len(conns) + 1)
      cl == Install(slots[p], buf)
      sv == Install(Install(slots[Server], stack), buf)
  IN /\ conn_bmp' = conn_bmp \cup {conn_idx}
     /\ vmos' = [vmos EXCEPT !.ipc = @ + 1]
     /\ space' = [space EXCEPT ![p] = MapRange(@, ClientBufBase, buf),
                               ![Server] = MapRange(MapRange(@, stack_at, stack), buf_at, buf)]
     /\ panic' = (SlotAlloc(cl) = -1)
     /\ conns' = IF panic' THEN conns
                 ELSE Append(conns, [client |-> p, stack |-> stack_at, server_buf |-> buf_at,
                                     client_buf |-> ClientBufBase, mem |-> vmos.ipc,
                                     cap |-> SlotAlloc(cl), server_cap |-> SlotAlloc(sv)])
     /\ slots' = [slots EXCEPT ![p] = Install(cl, conn),
                               ![Server] = IF panic' THEN sv ELSE Install(sv, conn)]
     /\ icb' = IF panic' THEN icb ELSE [icb EXCEPT ![p] = Returned(cl, sv)]

\* sys_register_client_by_name returns 0 when the name is unknown.
SysRegisterClientByName(p) ==
  \/ named /\ CreateConnection(p)
  \/ /\ ~named
     /\ icb' = [icb EXCEPT ![p] = 0]
     /\ UNCHANGED <<slots, space, vmos, conn_bmp, conns, panic>>

\* do_vfs_init of the client's library, once per program: any result that is not
\* negative is kept as the connection's capability.
RegisterClientByName(p) ==
  /\ ~panic /\ icb[p] = NoCap
  /\ SysRegisterClientByName(p)
  /\ UNCHANGED <<named, sent>>

\* sys_ipc_call with one capability in the message: ipc_send_cap copies it to the server.
SendCap(p, s) ==
  /\ ~panic /\ SlotGet(slots[p], icb[p]).kind = "conn" /\ Cardinality(sent) < MaxSent
  /\ s < Len(slots[p])
  /\ sent' = sent \cup {<<p, s, SlotAlloc(slots[Server])>>}
  /\ slots' = [slots EXCEPT ![Server] = Install(@, slots[p][s + 1])]
  /\ UNCHANGED <<space, vmos, named, conn_bmp, conns, icb, panic>>

Next ==
  \/ \E p \in Client, q \in Spare : SysProcessCreate(p, q)
  \/ \E p \in Client, n \in VmoSize, y \in {"VMO_DATA", "VMO_ANONYM"} : SysVmoCreate(p, n, y)
  \/ \E p \in Client, t, s \in 0..(MaxSlots - 1), a \in MapAddr : SysVmoMap(p, t, s, a)
  \/ RegisterNamedServer
  \/ \E p \in Client : RegisterClientByName(p)
  \/ \E p \in Client, s \in 0..(MaxSlots - 1) : SendCap(p, s)

Spec == Init /\ [][Next]_vars
-----------------------------------------------------------------------------
\* Every connection has memory of its own: the client and the server see the same pages
\* as its buffer, and the server thread's stack is the one made for it.  Registrations
\* share the server's address space and are kept apart by conn_bmp alone.
ConnectionMemory ==
  \A i \in DOMAIN conns :
    LET c == conns[i] IN
    /\ \A k \in 0..(Min({BufSize, ClientBufSize}) - 1) :
         /\ space[c.client].pgtbl[c.client_buf + k] = <<<<"buf", c.mem>>, k>>
         /\ space[Server].pgtbl[c.server_buf + k] = <<<<"buf", c.mem>>, k>>
    /\ \A k \in 0..(StackSize - 1) :
         space[Server].pgtbl[c.stack + k] = <<<<"stack", c.mem>>, k>>

\* A capability once handed out names its object for good, also when a table fills up:
\* the connection in its client's and its server's table, and whatever was sent.
CapsStayValid ==
  /\ \A i \in DOMAIN conns :
       /\ SlotGet(slots[conns[i].client], conns[i].cap) = Object("conn", i)
       /\ conns[i].server_cap # -1 =>
            SlotGet(slots[Server], conns[i].server_cap) = Object("conn", i)
  /\ \A x \in sent : x[3] # -1 => SlotGet(slots[Server], x[3]) = SlotGet(slots[x[1]], x[2])

\* A program that registered after the server can call: the capability it holds is a
\* connection of its own.  The 0 it holds after an earlier attempt, which the library
\* takes for success, never becomes one.
ClientCanCall ==
  \A p \in Client : icb[p] \notin {NoCap, 0} <=>
    \E i \in DOMAIN conns : conns[i].client = p /\ SlotGet(slots[p], icb[p]) = Object("conn", i)

\* The list of regions tells the truth about what vmspace_map_range_user put into the page
\* table: an entry lies in a region of the list and is the page of that region's vmo.  The
\* registrations' mappings lie side by side, so a test that takes neighbours for overlaps
\* would leave mapped pages out of the list.
RegionsMatch ==
  \A p \in Proc, a \in Page :
    LET f == FindVmr(space[p].vmr_list, a)
        r == space[p].vmr_list[f]
    IN /\ space[p].pgtbl[a] # NoFrame => f # 0
       /\ f # 0 => space[p].pgtbl[a] \in {NoFrame, <<r.vmo, a - r.start>>}
=============================================================================
