------------------------------- MODULE VxPort -------------------------------
(***************************************************************************)
(* The network port on VxWorks, non-redundant (oshw/vxworks/nicdrv.c).     *)
(* Indices, statuses and the two loops around a transmission are those of  *)
(* NicPort, but no thread reads a socket: the network task tNet0 calls     *)
(* mux_rx_callback for each frame, which posts the packet block holding it *)
(* in the message queue of the frame's index.  A queue has room for one.   *)
(* The thread that owns the index takes the block, copies the frame into   *)
(* its rxbuf and frees the block.                                          *)
(*                                                                         *)
(* The driver holds a block while it fills it; one that muxSend accepted   *)
(* is back in the pool once it is sent, and here at once.                  *)
(***************************************************************************)
EXTENDS NicPort

CONSTANTS
  Blocks,  \* the packet blocks (mBlk tuples) of the network pool
  NoPost   \* nothing posted

Posts == [block : Blocks, frame : Frames]

ASSUME VxAssumption == NoPost \notin Posts

VARIABLES
  pool,    \* the free blocks
  queue,   \* msgQId: what is in the queue of each index
  hand,    \* the block a thread took from its queue and has not freed yet
  tNet0,   \* where mux_rx_callback is
  posting, \* the block mux_rx_callback was called with
  msgQs,   \* the queues: "ready", "drained" by ecx_closenic, or "deleted"
  leaked   \* history: blocks nobody can free any more

vxvars == <<pool, queue, hand, tNet0, posting, msgQs, leaked>>

VxTypeOK ==
  /\ pool \subseteq Blocks
  /\ queue \in [Slots -> Posts \cup {NoPost}]
  /\ hand \in [Threads -> Posts \cup {NoPost}]
  /\ tNet0 \in {"idle", "post", "trash", "repost"}
  /\ posting \in Posts \cup {NoPost}
  /\ msgQs \in {"ready", "drained", "deleted"}
  /\ leaked \subseteq Blocks

\* ecx_setupnic
VxInit ==
  /\ pool = Blocks
  /\ queue = [i \in Slots |-> NoPost]
  /\ hand = [t \in Threads |-> NoPost]
  /\ tNet0 = "idle"
  /\ posting = NoPost
  /\ msgQs = "ready"
  /\ leaked = {}

-----------------------------------------------------------------------------
(***************************************************************************)
(* Sending.  What is left in the queue of the index was abandoned by an    *)
(* earlier transmission: its block is used for the new frame.              *)
(***************************************************************************)
\* bound: transactions and retransmissions together
SendsLeft == serial + resends < MaxTxn

VxGetIndex(t) ==
  /\ \/ StartGetIndex(t) /\ SendsLeft /\ msgQs = "ready"   \* nobody starts on a closed port
     \/ FindIndex(t)
     \/ ClaimIndex(t)
  /\ UNCHANGED vxvars

\* ecx_outframe: the status before and, if the frame did not leave, after
VxMark(t) == (MarkTx(t) \/ MarkEmpty(t)) /\ UNCHANGED vxvars

Reclaim(i) ==
  /\ pool' = pool \cup {b \in Blocks : queue[i] # NoPost /\ queue[i].block = b}
  /\ queue' = [queue EXCEPT ![i] = NoPost]

\* ec_outfram_send; it fails for want of a block, or in muxSend
VxTransmit(t) ==
  /\ Transmit(t)
  /\ Reclaim(idx[t]) /\ pool' # {}
  /\ UNCHANGED <<hand, tNet0, posting, msgQs, leaked>>

VxTransmitFails(t) ==
  /\ TransmitFails(t)
  /\ Reclaim(idx[t])
  /\ UNCHANGED <<hand, tNet0, posting, msgQs, leaked>>

-----------------------------------------------------------------------------
(***************************************************************************)
(* mux_rx_callback, between whose calls of the message queue the owner of  *)
(* the index goes on.                                                      *)
(***************************************************************************)
portvarsButNet == <<rxbufstat, rxbuf, lastidx, getindex_mutex, rx_mutex, pc, idx, seen, serial, txn,
                    sends, resends, held, result, mishap>>

\* somebody waits for the frame
Arrive ==
  /\ tNet0 = "idle" /\ pool # {}
  /\ \E f \in net :
       /\ rxbufstat[f.idx] = "TX"
       /\ net' = net \ {f}
       /\ LET b == CHOOSE b \in pool : TRUE
          IN  pool' = pool \ {b} /\ posting' = [block |-> b, frame |-> f]
  /\ tNet0' = "post"
  /\ UNCHANGED <<portvarsButNet, queue, hand, msgQs, leaked>>

\* nobody does: it returns FALSE, and the network task frees the block
ArriveStrange ==
  /\ tNet0 = "idle" /\ pool # {}
  /\ \E f \in net : rxbufstat[f.idx] # "TX" /\ net' = net \ {f}
  /\ UNCHANGED <<portvarsButNet, vxvars>>

Returns == tNet0' = "idle" /\ posting' = NoPost /\ UNCHANGED <<vars, hand, msgQs, leaked>>

\* msgQSend with NO_WAIT
CanPost == msgQs # "deleted" /\ queue[posting.frame.idx] = NoPost

Post ==
  /\ tNet0 \in {"post", "repost"} /\ CanPost
  /\ queue' = [queue EXCEPT ![posting.frame.idx] = posting]
  /\ Returns /\ UNCHANGED pool

\* the queue is full: the newest frame is wanted, so what is there is thrown away
Overrun ==
  /\ tNet0 = "post" /\ ~CanPost /\ msgQs # "deleted"
  /\ tNet0' = "trash"
  /\ UNCHANGED <<vars, pool, queue, hand, posting, msgQs, leaked>>

\* variant: what is thrown away is not freed
TrashKept ==
  /\ tNet0 = "trash"
  /\ queue' = [queue EXCEPT ![posting.frame.idx] = NoPost]
  /\ tNet0' = "repost"
  /\ UNCHANGED <<vars, pool, hand, posting, msgQs, leaked>>

\* unless the owner has taken it meanwhile
Trash ==
  /\ tNet0 = "trash"
  /\ Reclaim(posting.frame.idx)
  /\ tNet0' = "repost"
  /\ UNCHANGED <<vars, hand, posting, msgQs, leaked>>

\* it returns FALSE: the queue is gone, or is full again
Refused ==
  /\ \/ tNet0 = "post" /\ msgQs = "deleted"
     \/ tNet0 = "repost" /\ ~CanPost
  /\ pool' = pool \cup {posting.block}
  /\ Returns /\ UNCHANGED queue

VxCallback == Arrive \/ ArriveStrange \/ Post \/ Overrun \/ Trash \/ Refused

-----------------------------------------------------------------------------
(***************************************************************************)
(* ecx_inframe and ecx_recvpkt.                                            *)
(***************************************************************************)
VxTake(t) ==
  /\ pc[t] = "poll" /\ queue[idx[t]] # NoPost
  /\ hand' = [hand EXCEPT ![t] = queue[idx[t]]]
  /\ queue' = [queue EXCEPT ![idx[t]] = NoPost]
  /\ Goto(t, "recv")
  /\ UNCHANGED <<rxbufstat, rxbuf, lastidx, getindex_mutex, rx_mutex, idx, seen, serial, txn, sends,
                 resends, held, result, net, mishap, pool, tNet0, posting, msgQs, leaked>>

\* nothing came for the timeout of msgQReceive, or the queue is gone
VxTakeNone(t) ==
  /\ pc[t] = "poll" /\ queue[idx[t]] = NoPost
  /\ Goto(t, "timers")
  /\ UNCHANGED <<rxbufstat, rxbuf, lastidx, getindex_mutex, rx_mutex, idx, seen, serial, txn, sends,
                 resends, held, result, net, mishap, vxvars>>

VxCopy(t) ==
  /\ pc[t] = "recv"
  /\ rxbuf' = [rxbuf EXCEPT ![idx[t]] = hand[t].frame]
  /\ result' = [result EXCEPT ![t] = hand[t].frame]
  /\ rxbufstat' = [rxbufstat EXCEPT ![idx[t]] = "COMPLETE"]
  /\ pool' = pool \cup {hand[t].block}
  /\ hand' = [hand EXCEPT ![t] = NoPost]
  /\ Goto(t, "done")
  /\ UNCHANGED <<lastidx, getindex_mutex, rx_mutex, idx, seen, serial, txn, sends, resends, held, net,
                 mishap, queue, tNet0, posting, msgQs, leaked>>

-----------------------------------------------------------------------------
(***************************************************************************)
(* ecx_waitinframe_red and ecx_srconfirm.  A frame is late when it is on   *)
(* the wire or in tNet0's hands; one in the queue will be reclaimed.       *)
(***************************************************************************)
VxLate(t) ==
  IF (\E f \in net : f.txn = txn[t]) \/ (posting # NoPost /\ posting.frame.txn = txn[t])
  THEN mishap \cup {"late"} ELSE mishap

VxLookAgain(t) == LookAgain(t) /\ UNCHANGED vxvars

VxResend(t) ==
  /\ pc[t] = "timers" /\ resends < MaxResends /\ SendsLeft
  /\ resends' = resends + 1
  /\ mishap' = VxLate(t)
  /\ Goto(t, "send")
  /\ UNCHANGED <<rxbufstat, rxbuf, lastidx, getindex_mutex, rx_mutex, idx, seen, serial, txn, sends,
                 held, result, net, vxvars>>

VxGiveUp(t) ==
  /\ pc[t] = "timers"
  /\ mishap' = VxLate(t)
  /\ Goto(t, "done")
  /\ UNCHANGED <<rxbufstat, rxbuf, lastidx, getindex_mutex, rx_mutex, idx, seen, serial, txn, sends,
                 resends, held, result, net, vxvars>>

\* ecx_setbufstat
VxRelease(t) == Release(t) /\ UNCHANGED vxvars

-----------------------------------------------------------------------------
(***************************************************************************)
(* ecx_closenic empties each queue and deletes it, before it unbinds the   *)
(* callback; what is posted in between is lost with its block.             *)
(* Transactions under way go on without queues.  (The bound SendsLeft      *)
(* closes the port no later than before the last transmission.)            *)
(***************************************************************************)
QueuedBlocks == {b \in Blocks : \E i \in Slots : queue[i] # NoPost /\ queue[i].block = b}

CloseDrain ==
  /\ SendsLeft
  /\ msgQs = "ready" /\ msgQs' = "drained"
  /\ pool' = pool \cup QueuedBlocks
  /\ queue' = [i \in Slots |-> NoPost]
  /\ UNCHANGED <<vars, hand, tNet0, posting, leaked>>

CloseDelete ==
  /\ msgQs = "drained" /\ msgQs' = "deleted"
  /\ leaked' = leaked \cup QueuedBlocks
  /\ queue' = [i \in Slots |-> NoPost]
  /\ UNCHANGED <<vars, pool, hand, tNet0, posting>>

VxThreadStep(t) ==
  \/ VxGetIndex(t) \/ VxMark(t) \/ VxTransmit(t) \/ VxTransmitFails(t)
  \/ VxTake(t) \/ VxTakeNone(t) \/ VxCopy(t)
  \/ VxLookAgain(t) \/ VxResend(t) \/ VxGiveUp(t) \/ VxRelease(t)

VxNext ==
  \/ \E t \in Threads : VxThreadStep(t)
  \/ VxCallback
  \/ LoseFrame /\ UNCHANGED vxvars
  \/ CloseDrain \/ CloseDelete

-----------------------------------------------------------------------------
(***************************************************************************)
(* Threads, callback and ecx_closenic pass packet blocks on without a      *)
(* lock, across queues that overrun and are reclaimed, drained and         *)
(* deleted.  Still every block is in one place only, so that none is freed *)
(* twice or filled while in use, and none is lost, except in a queue that  *)
(* is deleted.                                                             *)
(***************************************************************************)
Posted(b) == \E i \in Slots : queue[i] # NoPost /\ queue[i].block = b
Taken(b) == \E t \in Threads : hand[t] # NoPost /\ hand[t].block = b
Arrived0(b) == posting # NoPost /\ posting.block = b

BlocksKept ==
  /\ \A b \in Blocks : b \in pool \/ Posted(b) \/ Taken(b) \/ Arrived0(b) \/ b \in leaked
  /\ \A b \in pool \cup leaked : ~Posted(b) /\ ~Taken(b) /\ ~Arrived0(b)
  /\ \A b \in Blocks : ~(Posted(b) /\ Taken(b)) /\ ~(Posted(b) /\ Arrived0(b)) /\ ~(Taken(b) /\ Arrived0(b))
  /\ \A i, j \in Slots : queue[i] # NoPost /\ queue[j] # NoPost /\ queue[i].block = queue[j].block => i = j
  /\ \A t, u \in Threads : hand[t] # NoPost /\ hand[u] # NoPost /\ hand[t].block = hand[u].block => t = u
  /\ pool \cap leaked = {} /\ (leaked # {} => msgQs = "deleted")

-----------------------------------------------------------------------------
(***************************************************************************)
(* The inductive invariant: that of NicPort, where nothing is ever stored  *)
(* for another thread, and what is in queues and hands.                    *)
(***************************************************************************)
PostInv ==
  /\ \A t \in Threads : pc[t] # "store" /\ (pc[t] = "recv" <=> hand[t] # NoPost)
  /\ \A i \in Slots : rxbufstat[i] # "RCVD"
  /\ tNet0 = "idle" <=> posting = NoPost
  /\ \A i \in Slots : queue[i] # NoPost => queue[i].frame.idx = i /\ msgQs # "deleted"
  /\ \A t \in Threads : hand[t] # NoPost => hand[t].frame.idx = idx[t]

\* the frames in blocks
Inside(f) ==
  \/ posting # NoPost /\ posting.frame = f
  \/ \E i \in Slots : queue[i] # NoPost /\ queue[i].frame = f
  \/ \E t \in Threads : hand[t] # NoPost /\ hand[t].frame = f

VxTxnInv == \A f \in Frames : Inside(f) => f.txn <= serial /\ \A t \in Threads : Flight(f, t)

\* nothing is late: an answer that is not in the queue of its index any more,
\* or not yet, is the only one of a transaction that waits for it
VxLoneInv ==
  /\ posting # NoPost => /\ \E t \in Threads : posting.frame.txn = txn[t]
                         /\ \A f \in net : f.txn # posting.frame.txn
  /\ \A t \in Threads : Owning(t) =>
       /\ pc[t] \in {"send", "wire", "done", "recv"} \/ (pc[t] \in {"poll", "timers"} /\ queue[idx[t]] # NoPost)
            => /\ \A f \in net : f.txn # txn[t]
               /\ posting # NoPost => posting.frame.txn # txn[t]
       /\ pc[t] \in {"poll", "timers"} /\ queue[idx[t]] # NoPost => queue[idx[t]].frame.txn = txn[t]
       /\ pc[t] = "recv" => hand[t].frame.txn = txn[t]

VxInv == VxTypeOK /\ PostInv /\ BlocksKept /\ VxTxnInv /\ (mishap = {} => VxLoneInv)
=============================================================================
