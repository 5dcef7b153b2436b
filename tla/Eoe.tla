------------------------------- MODULE Eoe -------------------------------
(***************************************************************************)
(* Ethernet over EtherCAT, soem/ethercateoe.c: an Ethernet frame is sent   *)
(* in fragments, each of which carries the number of its frame, its own    *)
(* number and its offset in blocks of 32 bytes; the first one carries the  *)
(* size of the frame in blocks instead.                                    *)
(***************************************************************************)
EXTENDS Transfer

Blocks(bytes) == (bytes + 31) \div 32

\* ---------------------------------------------------------------- EOEsend
EOEsendRequest(o, frameno) ==
  LET maxdata == MbxL - 10
      rest    == o.size - o.got
      len     == IF rest > maxdata THEN (maxdata \div 32) * 32 ELSE rest
      off     == IF o.packet > 0 THEN o.got \div 32 ELSE Blocks(o.size)
  IN  [op   |-> [o EXCEPT !.more = len # rest, !.seg = len],
       mail |-> [type |-> "eoe", kind |-> "frag", port |-> o.sub, frag |-> o.packet,
                 frame |-> frameno % 16, offset |-> off, last |-> len = rest, stamp |-> FALSE,
                 len |-> len, off |-> o.got, of |-> <<o.obj, o.sub>>]]

\* the next fragment goes out only if this one is in the mailbox
EOEsendSent(o, wkc) ==
  IF o.more /\ wkc > 0
  THEN Sending([o EXCEPT !.got = @ + o.seg, !.packet = @ + 1])
  ELSE Finished([o EXCEPT !.got = @ + o.seg], wkc)

\* ---------------------------------------------------------------- EOErecv
\* a fragment behind the first: of the same frame, at the offset reached
Continues(o, m) == o.frame = m.frame /\ o.got = m.offset * 32

\* a first fragment: it fits the buffer and is for this port
Begins(o, m) == m.offset * 32 <= o.size /\ m.port = o.sub

EOErecvAnswer(o, wkc, m) ==
  IF wkc <= 0 THEN Finished(o, wkc)
  ELSE IF m.type # "eoe" THEN Finished(o, -1)
  ELSE IF (o.packet # m.frag /\ m.frag > 0)
          \/ (o.packet = 0 /\ ~Begins(o, m)) \/ (o.packet # 0 /\ ~Continues(o, m))
       THEN Finished(o, -1)
  ELSE LET begun  == IF o.packet = 0 THEN [o EXCEPT !.frame = m.frame] ELSE o
           stored == IF o.got + m.len <= o.size
                     THEN [Stored(begun, m, m.len) EXCEPT !.packet = @ + 1] ELSE begun
       IN  IF m.last
           THEN Finished([stored EXCEPT !.got = IF m.stamp THEN @ - 4 ELSE @], wkc)
           ELSE Receiving(stored)

\* -------------------------------------------------------- EOEreadfragment
\* The working variables the hook keeps between fragments; frames is the
\* history of the frames that were reported complete.
NoFragments == [frag |-> 0, size |-> 0, offset |-> 0, frame |-> 0, of |-> {}, ends |-> 0,
                complete |-> {}]

Restarted(rx) == [rx EXCEPT !.frag = 0, !.size = 0, !.offset = 0, !.frame = 0]

\* variant: a fragment with the right number is at the right place
MisplacedFrame(rx, m) == rx.frame # m.frame

\* a fragment the frame cannot go on with: of another one, or elsewhere in it
Misplaced(rx, m) == rx.frame # m.frame \/ rx.offset # m.offset * 32

\* the fragment is copied if it is inside the frame and the buffer
CopyFragment(rx, m, room) ==
  IF rx.offset + m.len <= rx.size /\ rx.offset + m.len <= room
  THEN [rx EXCEPT !.offset = @ + m.len, !.frag = @ + 1,
                  !.of = @ \cup {<<m.of, m.off = rx.offset>>}]
  ELSE rx

ecx_EOEreadfragment(rx, m, room) ==
  IF m.type # "eoe" THEN rx
  ELSE LET known == IF rx.frag # m.frag THEN Restarted(rx) ELSE rx
       IN  IF rx.frag # m.frag /\ m.frag > 0 THEN known
           ELSE IF known.frag # 0 /\ Misplaced(known, m) THEN Restarted(known)
           ELSE LET begun == IF known.frag = 0
                             THEN [known EXCEPT !.size = m.offset * 32, !.offset = 0, !.frame = m.frame, !.of = {}]
                             ELSE known
                    copied == CopyFragment(begun, m, room)
                IN  IF m.last
                    THEN [Restarted(copied) EXCEPT !.ends = copied.offset - (IF m.stamp THEN 4 ELSE 0),
                                                   !.complete = copied.of]
                    ELSE copied

\* ------------------------------------------------- EOEsetIp and EOEgetIp
EOEsetIpRequest(o) == [type |-> "eoe", kind |-> "setip", obj |-> o.obj]

EOEgetIpRequest(o) == [type |-> "eoe", kind |-> "getip", obj |-> o.obj, sub |-> o.sub]

\* the word of an answer that is its result: in a fragment it is frameinfo2
Result(m) == IF m.kind = "initresp" THEN m.result ELSE IF m.kind = "frag" THEN 1 ELSE 0

EOEsetIpAnswer(o, wkc, m) ==
  Finished(o, IF wkc <= 0 THEN wkc
              ELSE IF m.type # "eoe" THEN -1
              ELSE IF m.kind # "initresp" \/ Result(m) # 0 THEN 0 - Result(m) ELSE wkc)

\* The answer is len bytes long, and its flags lead to need of them: a DNS name
\* counts 32, however short it is.  The parameters are taken over all the same.
EOEgetIpAnswer(o, wkc, m) ==
  IF wkc <= 0 THEN Finished(o, wkc)
  ELSE IF m.type # "eoe" \/ m.kind # "getipresp" THEN Finished(o, -1)
  ELSE Finished([o EXCEPT !.got = Lesser(m.len, m.need)], IF m.need > m.len THEN -1 ELSE wkc)
=============================================================================
