-------------------------------- MODULE Soe --------------------------------
(***************************************************************************)
(* Servo drive profile over EtherCAT, soem/ethercatsoe.c: an IDN of a      *)
(* drive is read or written in fragments, of which all but the last are    *)
(* marked incomplete.  Drive number and element flags are in sub.          *)
(***************************************************************************)
EXTENDS Transfer

MaxFragment == MbxL - 10

SoeMail(o, op) == [type |-> "soe", op |-> op, obj |-> o.obj, sub |-> o.sub, incomplete |-> FALSE,
                   len |-> 0, off |-> o.got]

NoResponse(o, wkc) == ecx_packeterror(Finished(GaveUp(o), wkc))

\* an answer with an error is told from one that does not belong here
SoEunexpected(o, m) ==
  IF m.type = "soe" /\ m.op = "readres" /\ m.error THEN ecx_SoEerror(Finished(o, 0))
  ELSE ecx_packeterror(Finished(o, 0))

Expected(o, m, op) == m.type = "soe" /\ m.op = op /\ ~m.error /\ m.sub = o.sub

\* ---------------------------------------------------------------- SoEread
SoEreadRequest(o) == SoeMail(o, "readreq")

SoEreadSent(o, wkc) == IF wkc > 0 THEN Receiving(o) ELSE Finished(GaveUp(o), wkc)

\* what does not fit the buffer of the caller is left out
SoEreadAnswer(o, wkc, m) ==
  IF wkc <= 0 THEN NoResponse(o, wkc)
  ELSE IF ~Expected(o, m, "readres") THEN SoEunexpected(o, m)
  ELSE LET stored == Stored(o, m, Lesser(m.len, o.size - o.got))
       IN  Quiet(IF m.incomplete THEN Receiving(stored) ELSE Finished(stored, wkc))

\* --------------------------------------------------------------- SoEwrite
\* The caller's data moves on with the request, whether it is sent or not.
SoEwriteRequest(o) ==
  LET len == Lesser(o.size - o.got, MaxFragment)
  IN  [op   |-> [o EXCEPT !.got = @ + len, !.more = o.size - o.got > MaxFragment],
       mail |-> [SoeMail(o, "writereq") EXCEPT !.len = len,
                                               !.incomplete = o.size - o.got > MaxFragment]]

\* A fragment that could not be sent is passed over.  Behind one that was, the
\* mailbox must be taken before the next; the answer comes behind the last.
SoEwriteSent(o, wkc) ==
  IF wkc > 0 THEN (IF o.more THEN [o EXCEPT !.pc = "emptying"] ELSE Receiving(o))
  ELSE IF o.more THEN Sending(GaveUp(o)) ELSE Finished(GaveUp(o), wkc)

SoEwriteEmpty(o, wkc) == IF wkc > 0 THEN Sending([o EXCEPT !.ret = wkc]) ELSE Receiving(o)

SoEwriteAnswer(o, wkc, m) ==
  IF wkc <= 0
  THEN ecx_packeterror(IF o.more THEN Sending(GaveUp(o)) ELSE Finished(GaveUp(o), wkc))
  ELSE IF Expected(o, m, "writeres") THEN Quiet(Finished(o, wkc))
  ELSE SoEunexpected(o, m)
=============================================================================
