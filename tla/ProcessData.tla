---------------------------- MODULE ProcessData ----------------------------
(***************************************************************************)
(* The exchange of process data of soem/ethercatmain.c over the layout of  *)
(* IoMap: ecx_main_send_processdata cuts the image into datagrams, sends   *)
(* each in a frame of its own and pushes its index on context->idxstack;   *)
(* ecx_receive_processdata_group pulls the indices, waits for the answers, *)
(* puts the inputs together in the image and adds up the working counters. *)
(*                                                                         *)
(* The two calls share idxstack, without a lock, with those of any other   *)
(* thread.  Their accesses to it are separate actions.  Of the port only   *)
(* what NicPort shows is used: getindex gives out a free index, and an     *)
(* answer is that of the datagram sent last with its index.                *)
(*                                                                         *)
(* What a byte of the image holds is abstracted to the number of the send  *)
(* it stems from.                                                          *)
(***************************************************************************)
EXTENDS IoMap

CONSTANTS
  Threads,     \* threads that exchange process data
  EC_MAXBUF,   \* receive buffers and places of idxstack, 16
  Networks,    \* the networks: [slaves, map, hasdc]
  MaxSends,    \* bound: calls of send
  MaxUpsets    \* bound: frames lost, slaves falling silent

Slots == 0 .. EC_MAXBUF - 1

ASSUME ProcessDataAssumption ==
  EC_MAXBUF \in Nat \ {0} /\ MaxSends \in Nat /\ MaxUpsets \in Nat

SlaveSizes == [Obits : Nat, Ibits : Nat, blockLRW : BOOLEAN,
               outSM : Seq([start : Nat, len : Nat]), inSM : Seq([start : Nat, len : Nat])]

ASSUME NetworksAssumption ==
  \A n \in Networks :
    /\ n.slaves \in Seq(SlaveSizes)
    /\ n.map \in {"plain", "aligned", "overlap"} /\ n.hasdc \in BOOLEAN

VARIABLES
  net,        \* the network the program runs on
  group,      \* grouplist[0], as IoMap computes it
  datagrams,  \* the datagrams the send loop goes through
  image,      \* stamp of every cell of the IOmap
  written,    \* stamp of the outputs the application wrote last
  serial,     \* calls of send so far
  used,       \* indices not EMPTY
  lastidx,    \* index given out last
  pushed, pulled, stack,  \* context->idxstack
  back,       \* answers of the slaves on their way back
  answering,  \* environment: the slaves that answer
  pc,         \* where each thread is
  call,       \* each thread's call of send: its number, the next datagram
  idx,        \* index a thread has obtained for its datagram
  pos,        \* place of the stack a thread has pulled
  wkc,        \* working counter summed up so far, EC_NOFRAME without an answer
  got,        \* history: what a thread's receive has pulled
  upsets      \* upsets so far

shared == <<used, lastidx, pushed, pulled, stack, back>>
fixed  == <<net, group, datagrams>>
local  == <<pc, call, idx, pos, wkc, got>>
vars   == <<fixed, shared, local, image, written, serial, answering, upsets>>

EC_NOFRAME == -1
Garbage    == -1   \* stamp of a byte that is not the cell's own

-----------------------------------------------------------------------------
(***************************************************************************)
(* The datagrams of ecx_main_send_processdata: cmd, logical address and    *)
(* length, the offset in the IOmap where the answer is saved, and whether  *)
(* an FRMW datagram for the distributed clock follows in the same frame.   *)
(***************************************************************************)
blockLRW(n) == \E i \in DOMAIN n.slaves : n.slaves[i].blockLRW

\* the bytes of the segments first .. k
BytesOf(size, first, k) == Sums(size)[k] - Sums(size)[first - 1]

\* The do-while loop over the segments from first on ends when length bytes
\* are sent or the segments are at an end.
LastSegment(g, first, size, length) ==
  LET ends(k) == BytesOf(size, first, k) = length \/ k = Len(g.IOsegment)
  IN  CHOOSE k \in first .. Len(g.IOsegment) : ends(k) /\ \A j \in first .. k - 1 : ~ends(j)

Segmented(g, cmd, first, size, LogAddr, data, length) ==
  [i \in 1 .. LastSegment(g, first, size, length) - first + 1 |->
     LET k == first + i - 1
         before == BytesOf(size, first, k - 1)
     IN  [cmd |-> cmd, log |-> LogAddr + before, len |-> size[k], data |-> data + before, dc |-> FALSE]]

\* variant: the offset of the inputs in the segment they share with the outputs
\* is not taken off
LRDUncut(g) ==
  IF g.Ibytes = 0 THEN <<>>
  ELSE Segmented(g, "LRD", g.Isegment, g.IOsegment, g.Obytes, g.Obytes, g.Ibytes)

LRD(g) ==
  IF g.Ibytes = 0 THEN <<>>
  ELSE Segmented(g, "LRD", g.Isegment,
                 [g.IOsegment EXCEPT ![g.Isegment] = @ - g.Ioffset],
                 g.Obytes, g.Obytes, g.Ibytes)

LWR(g) ==
  IF g.Obytes = 0 THEN <<>>
  ELSE Segmented(g, "LWR", 1,
                 [k \in DOMAIN g.IOsegment |-> Lesser(g.IOsegment[k], g.Obytes - Sums(g.IOsegment)[k - 1])],
                 0, 0, g.Obytes)

\* variant: the answer is always saved where the frame was read from
LRWInPlace(g, overlap) ==
  Segmented(g, "LRW", 1, g.IOsegment, 0, 0,
            IF overlap THEN Larger(g.Obytes, g.Ibytes) ELSE g.Obytes + g.Ibytes)

\* with an overlapping map the answer is saved where the inputs are
LRW(g, overlap) ==
  Segmented(g, "LRW", 1, g.IOsegment, 0, IF overlap THEN g.inputs ELSE 0,
            IF overlap THEN Larger(g.Obytes, g.Ibytes) ELSE g.Obytes + g.Ibytes)

Datagrams(n, g) ==
  LET all == IF Larger(g.Obytes, g.Ibytes) = 0 THEN <<>>
             ELSE IF blockLRW(n) THEN LRD(g) \o LWR(g)
             ELSE LRW(g, n.map = "overlap")
  IN  [i \in DOMAIN all |-> [all[i] EXCEPT !.dc = n.hasdc /\ i = 1]]

Group(n) == IF n.map = "overlap" THEN ecx_config_overlap_map_group(n.slaves)
            ELSE ecx_main_config_map_group(n.slaves, n.map = "aligned")

\* variant: the outputs are expected to count once
expectedWKCOnce == outputsWKC(net.slaves) + inputsWKC(net.slaves)

expectedWKC == 2 * outputsWKC(net.slaves) + inputsWKC(net.slaves)

-----------------------------------------------------------------------------
(***************************************************************************)
(* The slaves.  A cell is a byte of one slave's outputs or inputs, or the  *)
(* part of a shared byte that is the slave's, at its logical address.      *)
(***************************************************************************)
Slaves == DOMAIN net.slaves
OutBytes(s) == Occupied(group.outAt[s], net.slaves[s].Obits)
InBytes(s)  == Occupied(group.inAt[s], net.slaves[s].Ibits)
OutCells == UNION {{[dir |-> "out", slave |-> s, log |-> b] : b \in OutBytes(s)} : s \in Slaves}
InCells  == UNION {{[dir |-> "in", slave |-> s, log |-> b] : b \in InBytes(s)} : s \in Slaves}

\* where a cell is kept in the IOmap
Place(c) == IF c.dir = "in" THEN c.log + group.inputs ELSE c.log

Covers(d, b) == d.log <= b /\ b < d.log + d.len
Reads(d, s)  == d.cmd \in {"LRD", "LRW"} /\ \E b \in InBytes(s) : Covers(d, b)
Writes(d, s) == d.cmd \in {"LWR", "LRW"} /\ \E b \in OutBytes(s) : Covers(d, b)

\* A slave adds one to the counter of a datagram it could be read or written
\* by, and to that of an LRW three, or two for a write alone.
Counter(d, heard) ==
  LET n(op(_, _)) == Cardinality({s \in heard : op(d, s)})
  IN  n(Reads) + (IF d.cmd = "LRW" THEN 2 ELSE 1) * n(Writes)

\* what the answer to datagram d of a call holds for cell c after it has passed
\* the slaves in heard; an LRD leaves with zeros, an LRW with the image
Answer(d, heard, no, c) ==
  CASE c.dir = "in" /\ c.slave \in heard -> no
    [] c.dir = "in" /\ c.slave \notin heard /\ d.cmd = "LRD" -> 0
    [] c.dir = "in" /\ c.slave \notin heard /\ d.cmd # "LRD" ->
         IF net.map = "overlap" THEN Garbage ELSE image[c]
    [] c.dir = "out" ->
         IF \E s \in heard : c.log \in InBytes(s) THEN Garbage ELSE image[c]

-----------------------------------------------------------------------------
Init ==
  /\ net \in Networks
  /\ group = Group(net)
  /\ datagrams = Datagrams(net, group)
  /\ image = [c \in OutCells \cup InCells |-> 0]
  /\ written = 0
  /\ serial = 0
  /\ used = {}
  /\ lastidx = 0
  /\ pushed = 0 /\ pulled = 0
  /\ stack = [i \in Slots |-> [idx |-> 0, d |-> 1, no |-> 0]]
  /\ back = {}
  /\ answering = Slaves
  /\ pc = [t \in Threads |-> "idle"]
  /\ call = [t \in Threads |-> [no |-> 0, d |-> 1]]
  /\ idx = [t \in Threads |-> 0]
  /\ pos = [t \in Threads |-> 0]
  /\ wkc = [t \in Threads |-> EC_NOFRAME]
  /\ got = [t \in Threads |-> <<>>]
  /\ upsets = 0

Goto(t, label) == pc' = [pc EXCEPT ![t] = label]

\* the application writes the outputs in the image between two exchanges
WriteOutputs ==
  /\ \A t \in Threads : pc[t] = "idle"
  /\ written # serial + 1
  /\ written' = serial + 1
  /\ image' = [c \in DOMAIN image |-> IF c.dir = "out" THEN written' ELSE image[c]]
  /\ UNCHANGED <<fixed, shared, local, serial, answering, upsets>>

-----------------------------------------------------------------------------
(***************************************************************************)
(* ecx_main_send_processdata                                               *)
(***************************************************************************)
StartSend(t) ==
  /\ pc[t] = "idle"
  /\ serial < MaxSends
  /\ serial' = serial + 1
  /\ call' = [call EXCEPT ![t] = [no |-> serial + 1, d |-> 1]]
  /\ Goto(t, IF datagrams = <<>> THEN "sent" ELSE "send")
  /\ UNCHANGED <<fixed, shared, image, written, answering, idx, pos, wkc, got, upsets>>

\* ecx_getindex: the first unused index after the last one, if there is one
NextIndex ==
  LET at(k) == IF lastidx + k < EC_MAXBUF THEN lastidx + k ELSE lastidx + k - EC_MAXBUF
      free  == {k \in 1 .. EC_MAXBUF : at(k) \notin used}
  IN  at(IF free = {} THEN 1 ELSE Min(free))

\* getindex, setupdatagram, adddatagram and outframe; the frame passes the slaves
SendDatagram(t) ==
  /\ pc[t] = "send"
  /\ LET d == datagrams[call[t].d]
     IN  back' = {f \in back : f.idx # NextIndex} \cup
                 {[idx |-> NextIndex, d |-> call[t].d, heard |-> answering,
                   holds |-> [c \in DOMAIN image |-> Answer(d, answering, call[t].no, c)]]}
  /\ idx' = [idx EXCEPT ![t] = NextIndex]
  /\ used' = used \cup {NextIndex}
  /\ lastidx' = NextIndex
  /\ Goto(t, "push")
  /\ UNCHANGED <<fixed, image, written, serial, pushed, pulled, stack, answering, call, pos,
                 wkc, got, upsets>>

\* the loop goes on with the next datagram, if there is one
NextDatagram(t) ==
  /\ call' = [call EXCEPT ![t].d = @ + 1]
  /\ Goto(t, IF call[t].d = Len(datagrams) THEN "sent" ELSE "send")

\* variant: nobody looks whether the stack is full
PushEntryAnyway(t) ==
  /\ pc[t] = "push"
  /\ stack' = [stack EXCEPT ![pushed] = [idx |-> idx[t], d |-> call[t].d, no |-> call[t].no]]
  /\ Goto(t, "count")
  /\ UNCHANGED <<fixed, image, written, serial, used, lastidx, pushed, pulled, back, answering,
                 call, idx, pos, wkc, got, upsets>>

\* ecx_pushindex: the entry is written, then counted
PushEntry(t) ==
  /\ pc[t] = "push" /\ pushed < EC_MAXBUF
  /\ stack' = [stack EXCEPT ![pushed] = [idx |-> idx[t], d |-> call[t].d, no |-> call[t].no]]
  /\ Goto(t, "count")
  /\ UNCHANGED <<fixed, image, written, serial, used, lastidx, pushed, pulled, back, answering,
                 call, idx, pos, wkc, got, upsets>>

PushCount(t) ==
  /\ pc[t] = "count"
  /\ pushed' = pushed + 1
  /\ NextDatagram(t)
  /\ UNCHANGED <<fixed, image, written, serial, used, lastidx, pulled, stack, back, answering,
                 idx, pos, wkc, got, upsets>>

\* the stack is full: the index is not pushed, and nobody is told
PushFull(t) ==
  /\ pc[t] = "push" /\ pushed >= EC_MAXBUF
  /\ NextDatagram(t)
  /\ UNCHANGED <<fixed, shared, image, written, serial, answering, idx, pos, wkc, got, upsets>>

-----------------------------------------------------------------------------
(***************************************************************************)
(* ecx_receive_processdata_group, after a send or without one              *)
(***************************************************************************)
StartReceive(t) ==
  /\ pc[t] \in {"idle", "sent"}
  /\ Goto(t, "pull")
  /\ UNCHANGED <<fixed, shared, image, written, serial, answering, call, idx, pos, wkc, got,
                 upsets>>

\* ecx_pullindex: the place is read, then counted
PullPlace(t) ==
  /\ pc[t] = "pull" /\ pulled < pushed
  /\ pos' = [pos EXCEPT ![t] = pulled]
  /\ Goto(t, "pulled")
  /\ UNCHANGED <<fixed, shared, image, written, serial, answering, call, idx, wkc, got, upsets>>

PullCount(t) ==
  /\ pc[t] = "pulled"
  /\ pulled' = pulled + 1
  /\ Goto(t, "wait")
  /\ UNCHANGED <<fixed, image, written, serial, used, lastidx, pushed, stack, back, answering,
                 call, idx, pos, wkc, got, upsets>>

PullNone(t) ==
  /\ pc[t] = "pull" /\ pulled >= pushed
  /\ Goto(t, "clear")
  /\ UNCHANGED <<fixed, shared, image, written, serial, answering, call, idx, pos, wkc, got,
                 upsets>>

\* The counter an answer adds: an LWR counts twice.  Behind a datagram of the
\* clock ecx_waitinframe returns the counter of that one, so the counter of
\* the process data is read from the frame, and starts the sum anew.
Added(sum, f, dc) ==
  LET d     == datagrams[f.d]
      times == IF d.cmd = "LWR" THEN 2 ELSE 1
      wkc2  == IF d.dc THEN Cardinality(f.heard) ELSE Counter(d, f.heard)
  IN  IF dc THEN times * Counter(d, f.heard)
      ELSE (IF sum = EC_NOFRAME THEN 0 ELSE sum) + times * wkc2

\* the bytes of an answer are copied to where the stack says; an LWR's are not
Copied(f, e) ==
  LET d == datagrams[e.d]
      into(c) == datagrams[f.d].cmd # "LWR" /\ d.data <= Place(c) /\ Place(c) < d.data + d.len
  IN  [c \in DOMAIN image |->
         IF ~into(c) THEN image[c]
         ELSE IF datagrams[f.d].log + Place(c) - d.data = c.log THEN f.holds[c] ELSE Garbage]

\* the answer comes back in time: it is copied and counted, its buffer released
Answered(t) ==
  /\ pc[t] = "wait"
  /\ LET e == stack[pos[t]]
     IN  /\ \E f \in back :
              /\ f.idx = e.idx
              /\ back' = back \ {f}
              /\ image' = Copied(f, e)
              /\ wkc' = [wkc EXCEPT ![t] = Added(@, f, datagrams[e.d].dc)]
         /\ used' = used \ {e.idx}
         /\ got' = [got EXCEPT ![t] = Append(@, [no |-> e.no, d |-> e.d])]
  /\ Goto(t, "pull")
  /\ UNCHANGED <<fixed, written, serial, lastidx, pushed, pulled, stack, answering, call, idx,
                 pos, upsets>>

\* variant: the buffer of an answer that did not come is not released
NoAnswerKept(t) ==
  /\ pc[t] = "wait"
  /\ LET e == stack[pos[t]]
     IN  /\ \A f \in back : f.idx # e.idx
         /\ got' = [got EXCEPT ![t] = Append(@, [no |-> e.no, d |-> e.d])]
  /\ Goto(t, "pull")
  /\ UNCHANGED <<fixed, shared, image, written, serial, answering, call, idx, pos, wkc, upsets>>

NoAnswer(t) ==
  /\ pc[t] = "wait"
  /\ LET e == stack[pos[t]]
     IN  /\ \A f \in back : f.idx # e.idx
         /\ used' = used \ {e.idx}
         /\ got' = [got EXCEPT ![t] = Append(@, [no |-> e.no, d |-> e.d])]
  /\ Goto(t, "pull")
  /\ UNCHANGED <<fixed, image, written, serial, lastidx, pushed, pulled, stack, back, answering,
                 call, idx, pos, wkc, upsets>>

\* ecx_clearindex and return; what the caller got is forgotten
Clear(t) ==
  /\ pc[t] = "clear"
  /\ pushed' = 0 /\ pulled' = 0
  /\ call' = [call EXCEPT ![t] = [no |-> 0, d |-> 1]]
  /\ idx' = [idx EXCEPT ![t] = 0]
  /\ pos' = [pos EXCEPT ![t] = 0]
  /\ wkc' = [wkc EXCEPT ![t] = EC_NOFRAME]
  /\ got' = [got EXCEPT ![t] = <<>>]
  /\ Goto(t, "idle")
  /\ UNCHANGED <<fixed, image, written, serial, used, lastidx, stack, back, answering, upsets>>

-----------------------------------------------------------------------------
Upset == upsets < MaxUpsets /\ upsets' = upsets + 1

LoseFrame ==
  /\ \E f \in back : back' = back \ {f}
  /\ Upset
  /\ UNCHANGED <<fixed, local, image, written, serial, used, lastidx, pushed, pulled, stack,
                 answering>>

FallSilent(s) ==
  /\ s \in answering
  /\ answering' = answering \ {s}
  /\ Upset
  /\ UNCHANGED <<fixed, shared, local, image, written, serial>>

SendStep(t) ==
  StartSend(t) \/ SendDatagram(t) \/ PushEntry(t) \/ PushCount(t) \/ PushFull(t)

ReceiveStep(t) ==
  \/ StartReceive(t) \/ PullPlace(t) \/ PullCount(t) \/ PullNone(t)
  \/ Answered(t) \/ NoAnswer(t) \/ Clear(t)

Next ==
  \/ WriteOutputs
  \/ \E t \in Threads : SendStep(t) \/ ReceiveStep(t)
  \/ LoseFrame
  \/ \E s \in Slaves : FallSilent(s)

Spec == Init /\ [][Next]_vars
-----------------------------------------------------------------------------
Datagram == [cmd : {"LRD", "LWR", "LRW"}, log : Nat, len : Nat, data : Nat, dc : BOOLEAN]

LayoutTyped ==
  /\ net \in Networks
  /\ datagrams \in Seq(Datagram) /\ \A i \in DOMAIN datagrams : datagrams[i].dc => i = 1
  /\ group.inputs \in Nat /\ \A s \in Slaves : group.outAt[s] \in Nat /\ group.inAt[s] \in Nat

TypeOK ==
  /\ LayoutTyped
  /\ image \in [OutCells \cup InCells -> Garbage .. MaxSends + 1]
  /\ written \in 0 .. MaxSends + 1
  /\ serial \in 0 .. MaxSends
  /\ used \subseteq Slots
  /\ lastidx \in Slots
  /\ pushed \in 0 .. EC_MAXBUF /\ pulled \in 0 .. EC_MAXBUF
  /\ \A i \in Slots : stack[i].idx \in Slots /\ stack[i].d \in DOMAIN datagrams \cup {1}
  /\ answering \subseteq Slaves
  /\ \A f \in back : f.idx \in Slots /\ f.d \in DOMAIN datagrams /\ f.heard \subseteq Slaves
  /\ pc \in [Threads -> {"idle", "send", "push", "count", "sent", "pull", "pulled", "wait", "clear"}]
  /\ idx \in [Threads -> Slots]
  /\ pos \in [Threads -> Slots]
  /\ \A t \in Threads : wkc[t] >= EC_NOFRAME
  /\ upsets \in 0 .. MaxUpsets

-----------------------------------------------------------------------------
(***************************************************************************)
(* The layout.                                                             *)
(***************************************************************************)

\* the segment list is long enough, and no slave is larger than a segment
Fits ==
  /\ Total(group.IOsegment) = IF net.map = "overlap" THEN Larger(group.Obytes, group.Ibytes)
                                                     ELSE group.size
  /\ \A s \in Slaves : Bytes(net.slaves[s].Obits) < MaxSegment
                       /\ Bytes(net.slaves[s].Ibits) < MaxSegment

\* the datagrams fit into the receive buffers and into idxstack
Indexed == Len(datagrams) <= EC_MAXBUF

\* i is the only one of the datagrams with property P
Only(i, P(_)) == \A j \in DOMAIN datagrams : P(datagrams[j]) <=> j = i

(***************************************************************************)
(* An answer copied into the image puts a byte in its own place or leaves  *)
(* it alone, and is never put over outputs that a slave may have changed   *)
(* in the frame on its way.                                                *)
(***************************************************************************)
SavedInPlace ==
  \A c \in OutCells \cup InCells : \A i \in DOMAIN datagrams :
    LET d == datagrams[i]
    IN  d.cmd # "LWR" /\ d.data <= Place(c) /\ Place(c) < d.data + d.len =>
          /\ d.log + Place(c) - d.data = c.log
          /\ c.dir = "out" => \A s \in Slaves : c.log \notin InBytes(s)

(***************************************************************************)
(* Every byte of a slave's outputs is sent in exactly one datagram, and    *)
(* every byte of its inputs is read in exactly one, whose answer is saved  *)
(* where the slave's inputs are: whatever the segments are, the one that   *)
(* outputs and inputs share included.  No datagram exceeds a frame, nor,   *)
(* unless outputs and inputs overlap, the IOmap.                           *)
(***************************************************************************)
DatagramsTile ==
  Fits =>
    /\ \A s \in Slaves : \A b \in OutBytes(s) :
         \E i \in DOMAIN datagrams : Only(i, LAMBDA d : d.cmd \in {"LWR", "LRW"} /\ Covers(d, b))
    /\ \A s \in Slaves : \A b \in InBytes(s) :
         \E i \in DOMAIN datagrams : /\ Only(i, LAMBDA d : d.cmd \in {"LRD", "LRW"} /\ Covers(d, b))
                                     /\ datagrams[i].data - datagrams[i].log = group.inputs
    /\ SavedInPlace
    /\ \A i \in DOMAIN datagrams :
         /\ datagrams[i].len <= MaxSegment
         /\ net.map # "overlap" => datagrams[i].data + datagrams[i].len <= group.size

(***************************************************************************)
(* What ec_groupt says of IOsegment: datagrams must not break a sync       *)
(* manager in two.                                                         *)
(***************************************************************************)
SmNotBroken == \A s \in Slaves : \A i, j \in DOMAIN datagrams :
  /\ Reads(datagrams[i], s) /\ Reads(datagrams[j], s) => i = j
  /\ Writes(datagrams[i], s) /\ Writes(datagrams[j], s) => i = j

(***************************************************************************)
(* The same where it holds: if every slave starts at a byte of its own.    *)
(***************************************************************************)
WholeBytes == net.map # "plain" \/ \A s \in Slaves :
  net.slaves[s].Obits \notin 1 .. 7 /\ net.slaves[s].Ibits \notin 1 .. 7

AlignedNotBroken == Fits /\ WholeBytes => SmNotBroken

(***************************************************************************)
(* The FMMUs of a slave map its data to its sync managers one to one, in   *)
(* order, as long as it needs no more than two.                            *)
(***************************************************************************)
MapsOneToOne(start, bits, sms) ==
  LET fs    == Fmmus(start, bits, sms)
      upto  == [k \in 0 .. Len(sms) |-> Total([j \in 1 .. k |-> sms[j].len])]
      phys(b) == {f.phys + b - f.log : f \in {g \in fs : g.log <= b /\ b < g.log + g.len}}
      sm(b) == CHOOSE k \in DOMAIN sms : upto[k - 1] <= b /\ b < upto[k]
  IN  \A b \in 0 .. Bytes(bits) - 1 :
        phys(b + start \div 8) = {sms[sm(b)].start + b - upto[sm(b) - 1]}

FmmusMap == \A s \in Slaves :
  LET m == net.slaves[s]
  IN  /\ m.Obits > 7 /\ Len(LastOfRun(m.outSM)) <= 2 => MapsOneToOne(group.outAt[s], m.Obits, m.outSM)
      /\ m.Ibits > 7 /\ Len(LastOfRun(m.inSM)) <= 2 => MapsOneToOne(group.inAt[s], m.Ibits, m.inSM)

-----------------------------------------------------------------------------
(***************************************************************************)
(* The exchange, by one thread.                                            *)
(***************************************************************************)
Returning(t) == pc[t] = "clear"

(***************************************************************************)
(* When a receive returns the expected working counter, every input in the *)
(* image is of this exchange: whatever frames are lost and slaves fall     *)
(* silent, and however slaves are spread over datagrams.                   *)
(***************************************************************************)
CounterMeansFresh == Fits /\ WholeBytes /\ Indexed =>
  \A t \in Threads : Returning(t) /\ wkc[t] >= expectedWKC =>
    \A c \in InCells : image[c] = call[t].no

(***************************************************************************)
(* The other way round: without a loss or a silent slave the counter is    *)
(* exactly the expected one, be it counted by LRW or by LRD and LWR, with  *)
(* or without a datagram of the clock behind it.                           *)
(***************************************************************************)
CounterReached == Fits /\ WholeBytes /\ Indexed =>
  \A t \in Threads : Returning(t) /\ call[t].no # 0 /\ upsets = 0 /\ datagrams # <<>>
    => wkc[t] = expectedWKC

\* Whether the expected counter comes back tells whether all inputs are new, in both
\* directions.
CounterTellsFresh == CounterMeansFresh /\ CounterReached

(***************************************************************************)
(* What ecx_send_overlap_processdata_group says: inputs and outputs are    *)
(* transmitted in the overlapped IOmap, by LRD and LWR if LRW is not       *)
(* allowed, and the inputs are gathered by the receive.                    *)
(***************************************************************************)
InputsGathered ==
  \A t \in Threads : Returning(t) /\ call[t].no # 0 /\ upsets = 0 =>
    \A c \in InCells : image[c] = call[t].no

(***************************************************************************)
(* Putting the answers into the image never touches the outputs: it holds  *)
(* what the application wrote, whatever comes back or is lost, as long as  *)
(* each datagram has an index of its own.                                  *)
(***************************************************************************)
OutputsKept == Fits /\ Indexed => \A c \in OutCells : image[c] = written

(***************************************************************************)
(* Between two exchanges no index is in use and the stack is empty.        *)
(***************************************************************************)
IndicesReturned ==
  Indexed /\ (\A t \in Threads : pc[t] = "idle") => used = {} /\ pushed = 0 /\ pulled = 0

(***************************************************************************)
(* What ecx_receive_processdata_group says of its loop: it reads the same  *)
(* number of frames as send, the very ones its caller sent.                *)
(***************************************************************************)
ReadsWhatItSent == Indexed =>
  \A t \in Threads : Returning(t) /\ call[t].no # 0 =>
    got[t] = [i \in DOMAIN datagrams |-> [no |-> call[t].no, d |-> i]]
=============================================================================
