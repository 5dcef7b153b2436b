----------------------------- MODULE Transfer -----------------------------
(***************************************************************************)
(* What the mailbox procedures of soem have in common: a call is a record  *)
(* that moves between sending a mailbox, receiving one and being done.     *)
(* Data is abstracted to where it belongs: a mailbox carries len bytes of  *)
(* an object from offset off on.                                           *)
(***************************************************************************)
EXTENDS Integers, Sequences

CONSTANTS
  MbxL,      \* slavelist[].mbx_l: bytes of the mailbox the slave receives with
  ObjSize    \* environment: the bytes of each object of the slave

ASSUME MailboxAssumption == MbxL \in 42 .. 1486

Lesser(a, b) == IF a <= b THEN a ELSE b

\* a mailbox with some fields given, and the rest as in another
Over(fields, rest) ==
  [f \in DOMAIN fields \cup DOMAIN rest |-> IF f \in DOMAIN fields THEN fields[f] ELSE rest[f]]

NoMail  == [type |-> "none"]
NoError == "none"

\* A call as it starts.  A job says which procedure, on which object, with how
\* many bytes (the room of the caller where the procedure reads).
Call(job) ==
  [proc |-> job.proc, obj |-> job.obj, sub |-> job.sub, ca |-> job.ca, size |-> job.size,
   pc |-> "drain",       \* drain, send, sending, receiving, done
   phase |-> "init",     \* the request itself, or what follows it
   got |-> 0,            \* bytes taken over or sent so far
   packet |-> 0,         \* prevpacket, sendpacket, fragment number
   seg |-> 0,            \* segmentdata, bytes of the packet sent last
   toggle |-> FALSE, more |-> TRUE, zero |-> TRUE,   \* toggle, NotLast, dofinalzero
   frame |-> 15,         \* rxframeno, 0xff as four bits
   ret |-> 0,            \* what the procedure returns
   whole |-> TRUE,       \* history: was every byte taken over from its place?
   gaveup |-> FALSE,     \* history: did a send or a receive of the call fail?
   busy |-> FALSE,       \* history: did the slave answer that it is busy?
   stray |-> FALSE]      \* history: was a fragment taken for an answer, now or before?

Step(o, err) == [op |-> o, err |-> err]
Quiet(o)     == Step(o, NoError)

\* the call goes on as o, with an entry in the list of errors: a packet that is not
\* the answer asked for, or an error the slave has answered
ecx_packeterror(o)  == Step(o, "packet")
ecx_SDOerror(o)     == Step(o, "sdo")
ecx_SDOinfoerror(o) == Step(o, "sdoinfo")
ecx_SoEerror(o)     == Step(o, "soe")

Sending(o)      == [o EXCEPT !.pc = "send"]
Receiving(o)    == [o EXCEPT !.pc = "receiving"]
Finished(o, wkc) == [o EXCEPT !.pc = "done", !.ret = wkc]
GaveUp(o)       == [o EXCEPT !.gaveup = TRUE]

\* bytes from offset off on are copied behind those the call has already
Stored(o, m, len) ==
  [o EXCEPT !.got = @ + len,
            !.whole = @ /\ (len = 0 \/ (m.off = o.got /\ m.of = <<o.obj, o.sub>>))]
=============================================================================
