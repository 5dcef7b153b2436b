-------------------------------- MODULE Foe --------------------------------
(***************************************************************************)
(* File access over EtherCAT, soem/ethercatfoe.c: a file goes packet by    *)
(* packet, each acknowledged with its number, and ends with a packet that  *)
(* is not full.  An answer carries op (data, ack, busy, error), packet,    *)
(* len, off and of.                                                        *)
(***************************************************************************)
EXTENDS Transfer

MaxPacket == MbxL - 12

FoeMail(o, op) == [type |-> "foe", op |-> op, obj |-> o.obj, sub |-> o.sub, packet |-> o.packet,
                   len |-> 0, off |-> o.got]

\* ---------------------------------------------------------------- FOEread
FOEreadRequest(o) == FoeMail(o, IF o.phase = "init" THEN "read" ELSE "ack")

\* without a place for its acknowledgement the transfer is over
FOEreadSent(o, wkc) ==
  IF wkc > 0 /\ o.more THEN Receiving(o)
  ELSE Finished(IF wkc > 0 THEN o ELSE GaveUp(o), wkc)

FOEreadAnswer(o, wkc, m) ==
  IF wkc <= 0 THEN Finished(GaveUp(o), wkc)
  ELSE IF ~(m.type = "foe" /\ m.op = "data" /\ m.packet = o.packet + 1 /\ m.len <= o.size - o.got)
       THEN Finished(o, -1)
  ELSE Sending([Stored(o, m, m.len) EXCEPT !.packet = @ + 1, !.phase = "acks",
                                           !.more = m.len = MaxPacket])

\* --------------------------------------------------------------- FOEwrite
\* a last packet that is full is followed by an empty one
FinalZero(rest, len) == rest = 0 /\ len = MaxPacket

FOEwriteRequest(o) ==
  IF o.phase = "init" THEN FoeMail(o, "write")
  ELSE [FoeMail(o, "data") EXCEPT !.len = o.seg, !.off = o.got - o.seg]

FOEwriteSent(o, wkc) == IF wkc > 0 THEN Receiving(o) ELSE Finished(GaveUp(o), wkc)

\* the packet sent last is acknowledged: the next one, if there is one
NextPacket(o) ==
  LET len == Lesser(o.size - o.got, MaxPacket)
  IN  Sending([o EXCEPT !.phase = "data", !.seg = len, !.got = @ + len, !.packet = @ + 1,
                        !.zero = FinalZero(o.size - o.got - len, len)])

\* A slave that is busy gets its packet counted back; but the loop ends, for
\* there is nothing in it that sends the packet again.
Busy(o, wkc) ==
  Finished(IF o.packet = 0 THEN [o EXCEPT !.busy = TRUE]
           ELSE [o EXCEPT !.busy = TRUE, !.zero = @ \/ o.got = o.size, !.got = @ - o.seg,
                          !.packet = @ - 1], wkc)

FOEwriteAnswer(o, wkc, m) ==
  IF wkc <= 0 THEN Finished(GaveUp(o), wkc)
  ELSE IF m.type = "foe" /\ m.op = "ack" /\ m.packet = o.packet
       THEN IF o.got < o.size \/ o.zero THEN NextPacket(o) ELSE Finished(o, wkc)
  ELSE IF m.type = "foe" /\ m.op = "busy" THEN Busy(o, wkc)
  ELSE Finished(o, -1)
=============================================================================
