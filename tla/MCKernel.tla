------------------------------ MODULE MCKernel ------------------------------
(* Instances of Kernel for TLC: the boot thread, /idle, two programs and two *)
(* server threads; two futex keys of one vmspace that share a hash bucket.   *)
EXTENDS Kernel, TLC

CONSTANTS main, idle, appA, appB, spare, srv1, srv2, c1, c2, k1, k2

MCThread == {main, idle, appA, appB, spare, srv1, srv2}
MCBoot == <<idle, appA, appB>>
MCConn == {c1, c2}
MCTarget == (c1 :> srv1) @@ (c2 :> srv2)
MCKey == {k1, k2}
MCKeysOf == [t \in MCThread |-> MCKey]
MCBucket == [k \in MCKey |-> 0]
\* The smaller instance of the liveness run: one connection, one futex key.
LiveThread == {main, idle, appA, appB, srv1}
LiveTarget == c1 :> srv1
LiveKeysOf == [t \in LiveThread |-> {k1}]
LiveBucket == k1 :> 0
=============================================================================
