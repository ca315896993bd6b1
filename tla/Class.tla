------------------------------- MODULE Class -------------------------------
(***************************************************************************)
(* The kernel's objects with single inheritance (core/class/class.c) and   *)
(* the devices made from the device tree with them (core/device.c).  An    *)
(* object is one block of memory: from object_t down to its own class, a   *)
(* head with the class and the next class down, then that class's members. *)
(* A pointer is the offset of the members of one of its classes; a head    *)
(* takes one unit, members take `size' units, those of object_t none.      *)
(***************************************************************************)
EXTENDS Integers, Sequences, SequencesExt, FiniteSets

CONSTANTS Class,       \* indices of the class table, in the linker's order: 0..n
          Object_t, Device_t,
          Size,        \* sizes of members
          Name,        \* the names devices have in the device tree
          Anonymous,   \* no name
          MaxDevices   \* bound: entries of the device tree

VARIABLES table,     \* parent_type and size of every class, as the program declares them
          devices,   \* ghost: every object made so far, in order
          named,     \* device_map
          booting    \* "entries", "done", or "panic"

vars == <<table, devices, named, booting>>

NULL == -1

\* ghost: the classes from object_t down to t
Chain(tbl, t) ==
  LET c[n \in 0..Cardinality(Class)] ==
        IF n = 0 THEN <<t>> ELSE IF c[n - 1][1] = Object_t THEN c[n - 1]
                                 ELSE <<tbl[c[n - 1][1]].parent>> \o c[n - 1]
  IN  c[Cardinality(Class)]

\* Tables a program can declare: every class but object_t descends from object_t.
Tables ==
  {tbl \in [Class -> [parent : Class, size : Size]] :
     /\ tbl[Object_t] = [parent |-> Object_t, size |-> 0]
     /\ tbl[Device_t].parent = Object_t
     /\ \A t \in Class : Chain(tbl, t)[1] = Object_t}

Init ==
  /\ table \in Tables
  /\ devices = <<>>
  /\ named = [n \in Name |-> NULL]
  /\ booting = "entries"

(***************************************************************************)
(* Classes and objects                                                     *)
(***************************************************************************)

\* set_class_table_info
full_size[t \in Class] ==
  (IF t = Object_t THEN 0 ELSE full_size[table[t].parent]) + 1 + table[t].size

\* get_class_child: do_class_init appends the classes to their parents' lists in the order
\* of the table, object_t to its own.
get_class_child(t) ==
  SetToSortSeq({c \in Class : table[c].parent = t}, <)

Zero == [kind |-> "zero", type |-> NULL, child |-> NULL]
Cell == [kind : {"zero", "head", "body"}, type : Class \cup {NULL}, child : Class \cup {NULL}]
Building == [type : Class, child : Class, at : Int, mem : Seq(Cell), made : Seq(Class)]

\* get_parent_obj_from_head_info
ParentObject(t, at) == at - 1 - table[table[t].parent].size

\* object_init: the head, the parent's part, then this class's initial members (memcpy)
\* and its constructor.  object_t has neither.  Offset 0 of the block is mem[1].
object_init[o \in Building] ==
  LET headed == [o.mem EXCEPT ![o.at] = [kind |-> "head", type |-> o.type, child |-> o.child]]
      up     == object_init[[type  |-> table[o.type].parent, child |-> o.type,
                             at    |-> ParentObject(o.type, o.at),
                             mem   |-> headed, made |-> o.made]]
  IN  IF o.type = Object_t THEN [o EXCEPT !.mem = headed]
      ELSE [o EXCEPT !.mem  = [i \in DOMAIN up.mem |->
                                 IF i \in (o.at + 1)..(o.at + table[o.type].size)
                                 THEN [kind |-> "body", type |-> o.type, child |-> NULL]
                                 ELSE up.mem[i]],
                     !.made = Append(up.made, o.type)]

\* new_class_object, when calloc succeeds
new_class_object(t) ==
  object_init[[type |-> t, child |-> t, at |-> full_size[t] - table[t].size,
               mem  |-> [i \in 1..full_size[t] |-> Zero], made |-> <<>>]]

Ending == [at : Nat, mem : Seq(Cell), ended : Seq(Class)]

\* object_exit: the classes whose destructors run, from the class of this pointer up.
object_exit[x \in Ending] ==
  LET t    == x.mem[x.at].type
      here == Append(x.ended, t)
  IN  IF t = Object_t THEN here
      ELSE object_exit[[x EXCEPT !.at = ParentObject(t, x.at), !.ended = here]]

\* delete_class_object: where it calls free
DeleteBase(mem, at) == at - full_size[mem[at].type] + table[mem[at].type].size

Casting == [at : Nat, mem : Seq(Cell), type : Class]

\* class_cast: down to the last class of the object, or the one asked for, ...
CastDown[x \in Casting] ==
  LET h == x.mem[x.at]
  IN  IF h.type = x.type \/ h.type = h.child THEN x.at
      ELSE CastDown[[x EXCEPT !.at = @ + table[h.type].size + 1]]

\* ... then up again.
CastUp[x \in Casting] ==
  LET h == x.mem[x.at]
  IN  IF h.type = x.type THEN x.at
      ELSE IF h.type = Object_t THEN NULL
      ELSE CastUp[[x EXCEPT !.at = ParentObject(h.type, @)]]

class_cast(type, mem, at) ==
  CastUp[[at |-> CastDown[[at |-> at, mem |-> mem, type |-> type]], mem |-> mem, type |-> type]]

(***************************************************************************)
(* Devices                                                                 *)
(***************************************************************************)

\* register_device: the children of a class, then theirs.
register_device[t \in Class] ==
  get_class_child(t) \o FlattenSeq([i \in 1..Len(get_class_child(t)) |->
                                      register_device[get_class_child(t)[i]]])

\* One entry of the device tree in do_device_init: the class by its tag, a new object, its
\* probe, and the name.  The object of a failed probe is deleted through its device_t part
\* and is entered under its name all the same.
Entry(tag, ok, name) ==
  /\ booting = "entries"
  /\ Len(devices) < MaxDevices
  /\ LET found == Contains(register_device[Device_t], tag)
         obj   == new_class_object(tag)
         dev   == class_cast(Device_t, obj.mem, obj.at)
         used  == name # Anonymous /\ named[name] # NULL
     IN  IF ~found THEN booting' = "panic" /\ UNCHANGED <<devices, named>>
         ELSE /\ devices' = Append(devices,
                   [type |-> tag, mem |-> obj.mem, at |-> obj.at, made |-> obj.made, dev |-> dev,
                    live |-> ok, probed |-> ok,
                    ended |-> IF ok THEN <<>> ELSE
                                object_exit[[at |-> dev, mem |-> obj.mem, ended |-> <<>>]],
                    freed |-> IF ok THEN NULL ELSE DeleteBase(obj.mem, dev)])
              /\ booting' = IF used THEN "panic" ELSE booting
              /\ named' = IF name = Anonymous \/ used THEN named
                          ELSE [named EXCEPT ![name] = Len(devices) + 1]
  /\ UNCHANGED table

\* calloc finds no memory: panic.
EntryNoMemory(tag) ==
  /\ booting = "entries"
  /\ Contains(register_device[Device_t], tag)
  /\ booting' = "panic"
  /\ UNCHANGED <<table, devices, named>>

BootDone == booting = "entries" /\ booting' = "done" /\ UNCHANGED <<table, devices, named>>

Next ==
  \/ \E tag \in Class, ok \in BOOLEAN, name \in Name \cup {Anonymous} : Entry(tag, ok, name)
  \/ \E tag \in Class : EntryNoMemory(tag)
  \/ BootDone

Spec == Init /\ [][Next]_vars

(***************************************************************************)
(* Properties                                                              *)
(***************************************************************************)

\* ghost: where the members of class c lie in an object of a class below it
Offset(c) == full_size[c] - table[c].size

\* An object is laid out once and for all: every unit of its block is the head or a member
\* of exactly one of its classes, constructors ran from the top down, and class_cast turns
\* a pointer to any part of it into a pointer to any other part, and into NULL for every
\* class the object does not have.
CastsExact ==
  \A i \in DOMAIN devices :
    LET d     == devices[i]
        chain == Chain(table, d.type)
    IN  /\ d.made = Tail(chain)
        /\ \A k \in DOMAIN d.mem : d.mem[k].kind # "zero"
        /\ \A c \in Range(chain) : \A t \in Class :
             class_cast(t, d.mem, Offset(c)) = IF t \in Range(chain) THEN Offset(t) ELSE NULL

\* Deleting an object through the pointer to one of its parents frees the block it was
\* allocated as, after the destructors of that parent and the classes above it.
DeletesWhole ==
  \A i \in DOMAIN devices :
    ~devices[i].live => devices[i].freed = 0 /\ devices[i].ended = Reverse(Chain(table, Device_t))

\* Every class below device_t, at any depth, is found by its tag exactly once, no other is,
\* and a name leads to a device whose probe ran on that entry: a live one unless the probe
\* failed.
DevicesFound ==
  /\ IsInjective(register_device[Device_t])
  /\ Range(register_device[Device_t]) =
       {t \in Class \ {Device_t} : Device_t \in Range(Chain(table, t))}
  /\ \A n \in Name : named[n] # NULL => LET d == devices[named[n]] IN d.live \/ ~d.probed

ObjectsSound == CastsExact /\ DeletesWhole /\ DevicesFound
=============================================================================
