----------------------------- MODULE IndexPool -----------------------------
(***************************************************************************)
(* What a caller may expect of ecx_getindex and ecx_setbufstat(EMPTY),     *)
(* without buffers, frames or mutexes: a pool of indices.  A thread takes  *)
(* one that nobody has, has it for itself and gives it back; it has one at *)
(* a time.  Once the pool is broken it promises nothing any more.          *)
(***************************************************************************)
CONSTANTS Indices, Users

VARIABLES
  holders,  \* who has each index: nobody or one user, unless the pool is broken
  broken    \* has the pool been broken?

Init ==
  /\ holders = [i \in Indices |-> {}]
  /\ broken = FALSE

Take(u, i) ==
  /\ ~broken /\ broken' = FALSE
  /\ \A j \in Indices : u \notin holders[j]
  /\ holders[i] = {}
  /\ holders' = [holders EXCEPT ![i] = {u}]

Give(u, i) ==
  /\ ~broken /\ broken' = FALSE
  /\ holders[i] = {u}
  /\ holders' = [holders EXCEPT ![i] = {}]

Broken == broken' = TRUE

Next == (\E u \in Users, i \in Indices : Take(u, i) \/ Give(u, i)) \/ Broken

Spec == Init /\ [][Next]_<<holders, broken>>
=============================================================================
