----------------------------- MODULE ErrorRing -----------------------------
(***************************************************************************)
(* The error list of soem/ethercatmain.c: a ring of EC_MAXELIST + 1        *)
(* places, one of which stays free, and the flag ecaterror by which an     *)
(* application sees that there is something to pop.  What an error says is *)
(* abstracted to a name.                                                   *)
(***************************************************************************)
EXTENDS Integers, Sequences

CONSTANT EC_MAXELIST   \* errors the ring holds, 64 in the code

ASSUME RingAssumption == EC_MAXELIST \in Nat \ {0}

Places == 0 .. EC_MAXELIST

Ring(errors) ==
  [head : Places, tail : Places, ecaterror : BOOLEAN, Error : [Places -> errors]]

EmptyRing(none) ==
  [head |-> 0, tail |-> 0, ecaterror |-> FALSE, Error |-> [i \in Places |-> none]]

\* variant: the end of the array is looked for one place too far
FollowingLong(i) == IF i > EC_MAXELIST THEN 0 ELSE i + 1

\* an index moved on by one, around the end of the array
Following(i) == IF i + 1 > EC_MAXELIST THEN 0 ELSE i + 1

\* variant: the tail does not give way to the head
PushKeepingTail(r, e) ==
  [r EXCEPT !.Error[r.head] = e, !.head = Following(@), !.ecaterror = TRUE]

\* ecx_pusherror: the oldest error gives way to the new one in a full ring
ecx_pusherror(r, e) ==
  [r EXCEPT !.Error[r.head] = e,
            !.head = Following(@),
            !.tail = IF Following(r.head) = @ THEN Following(@) ELSE @,
            !.ecaterror = TRUE]

\* ecx_iserror
ecx_iserror(r) == r.head # r.tail

\* ecx_poperror: the flag goes down when there was nothing left to pop
ecx_poperror(r) ==
  IF ecx_iserror(r) THEN [r EXCEPT !.tail = Following(@)] ELSE [r EXCEPT !.ecaterror = FALSE]

-----------------------------------------------------------------------------
\* the errors in the ring, the oldest first
Count(r) ==
  IF r.tail <= r.head THEN r.head - r.tail ELSE r.head - r.tail + EC_MAXELIST + 1

Place(r, i) ==
  IF r.tail + i - 1 > EC_MAXELIST THEN r.tail + i - 2 - EC_MAXELIST ELSE r.tail + i - 1

Contents(r) == [i \in 1 .. Count(r) |-> r.Error[Place(r, i)]]
=============================================================================
