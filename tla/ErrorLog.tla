----------------------------- MODULE ErrorLog -----------------------------
(***************************************************************************)
(* What a caller may expect of ecx_pusherror and ecx_poperror: a queue of  *)
(* at most Capacity errors.  A push to a full queue drops the oldest one,  *)
(* a pop takes the oldest one.                                             *)
(***************************************************************************)
EXTENDS Naturals, Sequences

CONSTANTS Errors, Capacity

VARIABLE log

Init == log = <<>>

Push(e) == log' = IF Len(log) = Capacity THEN Append(Tail(log), e) ELSE Append(log, e)

Pop == log # <<>> /\ log' = Tail(log)

Next == (\E e \in Errors : Push(e)) \/ Pop

Spec == Init /\ [][Next]_log
=============================================================================
