-------------------------------- MODULE Coe --------------------------------
(***************************************************************************)
(* CANopen over EtherCAT, soem/ethercatcoe.c.  Each procedure is two or    *)
(* three operators: the mailbox it sends next, what it does once that is   *)
(* sent, and what it makes of the answer.  An answer is a record           *)
(*   service  sdores, sdoreq (an abort), sdoinfo or txpdo                  *)
(*   cmd      the command or opcode, obj and sub what it is about          *)
(*   exp, total, length, unused, off, of, last, left   the data it carries *)
(***************************************************************************)
EXTENDS Transfer, TLC

CONSTANTS
  EC_MAXODLIST,   \* object indexes the list of the caller holds, 1024
  EC_MAXNAME      \* characters it has for a name, 40

\* data of the first mailbox of an SDO transfer and of one segment
MaxInit == MbxL - 16
MaxSeg  == MaxInit + 7

SdoRequest(o, kind, fields) ==
  Over(fields, [type |-> "coe", kind |-> kind, obj |-> o.obj, ca |-> o.ca,
                sub |-> IF o.ca /\ o.sub > 1 THEN 1 ELSE o.sub])

IsSdoAnswer(m) == m.type = "coe" /\ m.service = "sdores"

\* an answer that is not what the call waits for ends it: the slave aborted, or
\* something unexpected came
Unexpected(o, m) ==
  IF m.cmd = "abort" THEN ecx_SDOerror(Finished(o, 0)) ELSE ecx_packeterror(Finished(GaveUp(o), 0))

TooSmall(o) == ecx_packeterror(Finished(o, 0))

\* ---------------------------------------------------------------- SDOread
SDOreadRequest(o) ==
  IF o.phase = "init" THEN SdoRequest(o, "up", [toggle |-> FALSE])
  ELSE SdoRequest(o, "segup", [toggle |-> o.toggle])

\* A segment that could not be asked for, or was not answered, is not asked for
\* again: the loop goes on to the next toggle.
SegmentMissed(o, wkc) == Sending(GaveUp([o EXCEPT !.toggle = ~@, !.ret = wkc]))

SDOreadSent(o, wkc) ==
  IF wkc > 0 THEN Receiving(o)
  ELSE IF o.phase = "init" THEN Finished(GaveUp(o), wkc) ELSE SegmentMissed(o, wkc)

\* expedited, normal, or the first part of a segmented answer
SDOreadFirst(o, m) ==
  IF ~(IsSdoAnswer(m) /\ m.obj = o.obj) THEN Unexpected(o, m)
  ELSE IF m.exp
       THEN IF o.size >= m.total THEN Quiet(Finished(Stored(o, m, m.total), 1)) ELSE TooSmall(o)
  ELSE IF m.total > o.size THEN TooSmall(o)
  ELSE IF m.length - 10 < m.total
       THEN Quiet(Sending([Stored(o, m, m.length - 10) EXCEPT !.phase = "segments"]))
  ELSE Quiet(Finished(Stored(o, m, m.total), 1))

\* variant: the unused bytes of the last segment are taken for data
SegmentDataFull(m) == m.length - 3

\* the data of a segment: the last one may be filled up to seven bytes
SegmentData(m) ==
  IF m.last /\ m.length - 3 = 7 THEN 7 - m.unused ELSE m.length - 3

SDOreadSegment(o, m) ==
  IF ~(IsSdoAnswer(m) /\ m.cmd = "seg") THEN Unexpected(o, m)
  ELSE IF m.last THEN Quiet(Finished(Stored(o, m, SegmentData(m)), 1))
  ELSE Quiet(Sending([Stored(o, m, SegmentData(m)) EXCEPT !.toggle = ~@]))

SDOreadAnswer(o, wkc, m) ==
  IF wkc > 0 THEN (IF o.phase = "init" THEN SDOreadFirst(o, m) ELSE SDOreadSegment(o, m))
  ELSE IF o.phase = "init" THEN Quiet(Finished(GaveUp(o), wkc)) ELSE Quiet(SegmentMissed(o, wkc))

\* --------------------------------------------------------------- SDOwrite
\* A small parameter is written expedited; of a larger one as much as fits the
\* mailbox.  The caller's data moves on with the request, sent or not.
SDOwriteFirst(o) ==
  LET expedited == o.size <= 4 /\ ~o.ca
      len == IF expedited THEN o.size ELSE Lesser(o.size, MaxInit)
  IN  [op   |-> [o EXCEPT !.got = len, !.more = len < o.size],
       mail |-> SdoRequest(o, "down",
                  [total |-> o.size, length |-> 10 + (IF expedited THEN 0 ELSE len),
                   exp |-> expedited, off |-> 0])]

\* the next segment: the last one may be shorter than the smallest mailbox
SDOwriteSegment(o) ==
  LET rest == o.size - o.got
      len  == Lesser(rest, MaxSeg)
      last == rest <= MaxSeg
      short == last /\ len < 7
  IN  [op   |-> [o EXCEPT !.got = @ + len, !.more = ~last],
       mail |-> SdoRequest(o, "segdown",
                  [toggle |-> o.toggle, last |-> last, off |-> o.got,
                   length |-> IF short THEN 10 ELSE len + 3, unused |-> IF short THEN 7 - len ELSE 0])]

SDOwriteRequest(o) == IF o.phase = "init" THEN SDOwriteFirst(o) ELSE SDOwriteSegment(o)

\* behind a segment, answered or not: the next one, with the other toggle
SegmentDone(o, wkc) ==
  IF o.more THEN Sending([o EXCEPT !.toggle = ~@, !.ret = wkc]) ELSE Finished(o, wkc)

SDOwriteSent(o, wkc) ==
  IF wkc > 0 THEN Receiving(o)
  ELSE IF o.phase = "init" THEN Finished(GaveUp(o), wkc) ELSE SegmentDone(GaveUp(o), wkc)

SDOwriteAnswer(o, wkc, m) ==
  IF wkc <= 0
  THEN Quiet(IF o.phase = "init" THEN Finished(GaveUp(o), wkc) ELSE SegmentDone(GaveUp(o), wkc))
  ELSE IF o.phase = "init"
  THEN IF IsSdoAnswer(m) /\ m.obj = o.obj /\ m.sub = (IF o.ca /\ o.sub > 1 THEN 1 ELSE o.sub)
       THEN Quiet(IF o.more THEN Sending([o EXCEPT !.phase = "segments"]) ELSE Finished(o, wkc))
       ELSE Unexpected(o, m)
  ELSE IF IsSdoAnswer(m) /\ m.cmd = "segdown" THEN Quiet(SegmentDone(o, wkc)) ELSE Unexpected(o, m)

\* ---------------------------------------------------------- RxPDO, TxPDO
RxPDORequest(o) ==
  [op   |-> [o EXCEPT !.got = Lesser(o.size, MbxL - 8)],
   mail |-> [type |-> "coe", kind |-> "rxpdo", obj |-> o.obj, len |-> Lesser(o.size, MbxL - 8)]]

TxPDORequest(o) == [type |-> "coe", kind |-> "txpdo", obj |-> o.obj, sub |-> o.sub]

TxPDOAnswer(o, wkc, m) ==
  IF wkc <= 0 THEN Quiet(Finished(GaveUp(o), wkc))
  ELSE IF ~(m.type = "coe" /\ m.service = "txpdo") THEN Unexpected(o, m)
  ELSE IF o.size >= m.length - 2 THEN Quiet(Finished(Stored(o, m, m.length - 2), wkc))
  ELSE TooSmall(o)

\* --------------------------- readODlist, readODdescription, readOEsingle
ODlistRequest(o) == [type |-> "coe", kind |-> "info", cmd |-> "ODlist", obj |-> o.obj, sub |-> o.sub]

ODdescriptionRequest(o) == [ODlistRequest(o) EXCEPT !.cmd = "ODdescription"]

OEsingleRequest(o) == [ODlistRequest(o) EXCEPT !.cmd = "OEsingle"]

InfoUnexpected(o, m) ==
  IF m.cmd = "infoerror" THEN ecx_SDOinfoerror(Finished(o, 0)) ELSE ecx_packeterror(Finished(GaveUp(o), 0))

\* Fragments of a list behind the first that are waited for.
MaxFragments == 128

\* The list comes in fragments, which packet counts; got counts its entries.  A
\* list too long for the caller is cut off, with an error for every fragment too many.
ODlistAnswer(o, wkc, m) ==
  IF wkc <= 0 THEN Quiet(Finished(GaveUp(o), wkc))
  ELSE IF ~(m.type = "coe" /\ m.cmd = "ODlist") THEN InfoUnexpected(o, m)
  ELSE LET entries == (m.length - (IF o.phase = "init" THEN 8 ELSE 6)) \div 2
           taken   == Lesser(entries, EC_MAXODLIST - o.got)
           stored  == [Stored(o, m, taken) EXCEPT !.phase = "fragments", !.packet = @ + 1]
           next    == IF m.left > 0 /\ o.packet < MaxFragments THEN Receiving(stored) ELSE Finished(stored, wkc)
       IN  IF o.got + entries > EC_MAXODLIST THEN ecx_SDOinfoerror(next) ELSE Quiet(next)

\* The name of an object is what follows 12 bytes of its description; one that is too
\* long is cut, and nobody is told.
NameOf(m) == Lesser((m.length - 12) % 65536, EC_MAXNAME)

ODdescriptionAnswer(o, wkc, m) ==
  IF wkc <= 0 THEN Quiet(Finished(GaveUp(o), wkc))
  ELSE IF m.type = "coe" /\ m.cmd = "ODdescription"
  THEN Quiet(Finished([o EXCEPT !.got = NameOf(m)], wkc))
  ELSE InfoUnexpected(o, m)

\* that of an entry is what follows 16, as a number with a sign
EntryNameOf(m) ==
  LET n == ((m.length - 16 + 32768) % 65536) - 32768
  IN  IF n < 0 THEN 0 ELSE Lesser(n, EC_MAXNAME)

OEsingleAnswer(o, wkc, m) ==
  IF wkc <= 0 THEN Quiet(Finished(GaveUp(o), wkc))
  ELSE IF m.type = "coe" /\ m.cmd = "OEsingle"
  THEN Quiet(Finished([o EXCEPT !.got = EntryNameOf(m)], wkc))
  ELSE InfoUnexpected(o, m)
=============================================================================
