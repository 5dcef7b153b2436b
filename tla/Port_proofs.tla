---------------------------- MODULE Port_proofs ----------------------------
(***************************************************************************)
(* Proofs about the network port as it is set up: what holds on Linux      *)
(* without redundancy and on VxWorks, and that with redundancy the answers *)
(* of the ring are those of the whole line, for any number of slaves,      *)
(* tries and upsets.                                                       *)
(*                                                                         *)
(* On VxWorks most steps look to the variables shared with NicPort like    *)
(* steps of NicPort: mux_rx_callback takes a frame from the wire as if it  *)
(* were lost, and what is done with the blocks is not seen.  The rest is   *)
(* proved here.                                                            *)
(***************************************************************************)
EXTENDS Port, NicPort_proofs

\* the steps of a thread that NicPort does not have
OwnStep(t) == VxTakeNone(t) \/ VxCopy(t) \/ VxResend(t) \/ VxGiveUp(t)

\* Every step is one of NicPort or one of those.
LEMMA VxStepIs ==
  ASSUME PostInv, [VxNext]_<<vars, vxvars>>, VxTypeOK, TypeOK
  PROVE  [Next]_vars \/ \E t \in Threads : OwnStep(t)
<1>1. ASSUME NEW t \in Threads, VxThreadStep(t) PROVE Next \/ OwnStep(t)
  <2>1. CASE VxGetIndex(t) \/ VxMark(t) \/ VxTransmit(t) \/ VxTransmitFails(t) \/ VxLookAgain(t) \/ VxRelease(t)
    BY <2>1 DEF VxGetIndex, VxMark, VxTransmit, VxTransmitFails, VxLookAgain, VxRelease, Next, ThreadStep
  <2>2. CASE VxTake(t)
    <3>1. rxbufstat[idx[t]] # "RCVD"
      BY DEF PostInv, TypeOK
    <3>2. NotStored(t)
      BY <2>2, <3>1 DEF VxTake, NotStored
    <3> QED
      BY <3>2 DEF Next, ThreadStep, InFrame
  <2>3. CASE VxTakeNone(t) \/ VxCopy(t) \/ VxResend(t) \/ VxGiveUp(t)
    BY <2>3 DEF OwnStep
  <2> QED
    BY <1>1, <2>1, <2>2, <2>3 DEF VxThreadStep
<1>2. CASE Arrive \/ ArriveStrange \/ LoseFrame
  <2>1. LoseFrame
    BY <1>2 DEF Arrive, ArriveStrange, LoseFrame, portvarsButNet
  <2> QED
    BY <2>1 DEF Next
<1>3. CASE Post \/ Overrun \/ Trash \/ Refused \/ CloseDrain \/ CloseDelete \/ UNCHANGED <<vars, vxvars>>
  BY <1>3 DEF Post, Overrun, Trash, Refused, CloseDrain, CloseDelete, Returns
<1> QED
  BY <1>1, <1>2, <1>3 DEF VxNext, VxCallback

\* What such a step changes of what it shares with NicPort.
LEMMA OwnStepIs ==
  ASSUME TypeOK, VxTypeOK, PostInv, NEW t \in Threads, OwnStep(t)
  PROVE  /\ Owning(t) /\ pc[t] \in {"poll", "recv", "timers"}
         /\ pc' = [pc EXCEPT ![t] = pc'[t]] /\ pc'[t] \in {"timers", "done", "send"}
         /\ UNCHANGED <<lastidx, getindex_mutex, rx_mutex, idx, seen, serial, txn, sends, held, net>>
         /\ pc[t] = "recv" => /\ pc'[t] = "done"
                              /\ hand[t] \in Posts /\ hand[t].frame \in Frames /\ hand[t].frame.idx = idx[t]
                              /\ rxbufstat' = [rxbufstat EXCEPT ![idx[t]] = "COMPLETE"]
                              /\ rxbuf' = [rxbuf EXCEPT ![idx[t]] = hand[t].frame]
                              /\ result' = [result EXCEPT ![t] = hand[t].frame]
                              /\ UNCHANGED <<resends, mishap>>
         /\ pc[t] # "recv" => UNCHANGED <<rxbufstat, rxbuf, result>>
         /\ pc'[t] = "send" => resends' = resends + 1 /\ resends < MaxResends
         /\ pc'[t] # "send" => resends' = resends
         /\ mishap' \in {mishap, mishap \cup {"late"}}
<1>1. pc[t] = "recv" => hand[t] \in Posts /\ hand[t].frame \in Frames /\ hand[t].frame.idx = idx[t]
  BY DEF PostInv, VxTypeOK, Posts
<1> QED
  BY <1>1 DEF OwnStep, VxTakeNone, VxCopy, VxResend, VxGiveUp, VxLate, Goto, TypeOK, Owning

\* They keep the invariant of the indices.
LEMMA OwnStepNic ==
  ASSUME NicInv, VxTypeOK, PostInv, NEW t \in Threads, OwnStep(t)
  PROVE  NicInv' /\ (TableIntact' <=> TableIntact)
<1> USE NicAssumption
<1>0. TypeOK /\ MutexInv /\ LocalInv
  BY DEF NicInv
<1>1. /\ Owning(t) /\ pc[t] \in {"poll", "recv", "timers"}
      /\ pc'[t] \in {"timers", "done", "send"} /\ \A u \in Threads : u # t => pc'[u] = pc[u]
      /\ pc' \in [Threads -> Labels] /\ idx[t] \in Slots
      /\ UNCHANGED <<lastidx, getindex_mutex, rx_mutex, idx, seen, serial, txn, sends, held, net>>
      /\ mishap' \in {mishap, mishap \cup {"late"}}
      /\ pc'[t] = "send" => resends' = resends + 1 /\ resends < MaxResends
      /\ pc'[t] # "send" => resends' = resends
  BY <1>0, OwnStepIs DEF TypeOK, Labels
<1>2. TypeOK'
  <2>1. rxbufstat' \in [Slots -> Status] /\ rxbuf' \in [Slots -> Frames \cup {NoFrame}]
        /\ result' \in [Threads -> Frames \cup {NoFrame}]
    BY <1>0, OwnStepIs DEF TypeOK, Status
  <2>2. resends' \in 0 .. MaxResends /\ mishap' \subseteq Mishaps
    BY <1>0, <1>1 DEF TypeOK, Mishaps
  <2> QED
    BY <1>0, <1>1, <2>1, <2>2 DEF TypeOK
<1>3. MutexInv'
  BY <1>0, <1>1 DEF MutexInv
<1>4. LocalInv'
  <2>1. resends \in Nat /\ \A u \in Threads : sends[u] \in Nat
    BY <1>0 DEF TypeOK
  <2> QED
    BY <1>0, <1>1, <2>1 DEF LocalInv
<1>5. TableIntact' <=> TableIntact
  BY <1>1 DEF TableIntact
<1>6. ASSUME TableIntact PROVE TableInv'
  <2>1. TableInv
    BY <1>6 DEF NicInv
  <2>2. \A u \in Threads : Owning(u)' <=> Owning(u)
    BY <1>1 DEF Owning
  <2>3. \A i : Owned(i)' <=> Owned(i)
    BY <1>1, <2>2 DEF Owned
  <2>4. Owned(idx[t])
    BY <1>1 DEF Owned
  <2>5. \A i \in Slots : rxbufstat'[i] # "EMPTY" <=> rxbufstat[i] # "EMPTY"
    BY <1>0, <1>1, <2>1, <2>4, OwnStepIs DEF TypeOK, TableInv
  <2>6. \A u \in Threads : (pc'[u] \in {"search", "found", "store"} => pc'[u] = pc[u]) /\ idx[u] \in Slots
    BY <1>0, <1>1 DEF TypeOK
  <2> QED
    BY <1>1, <2>1, <2>2, <2>3, <2>5, <2>6 DEF TableInv
<1> QED
  BY <1>2, <1>3, <1>4, <1>5, <1>6 DEF NicInv

\* And that of the answers: what a thread copies is what its queue held.
LEMMA OwnStepAnswer ==
  ASSUME NicInv, AnswerInv, VxInv, NEW t \in Threads, OwnStep(t)
  PROVE  AnswerInv'
<1>0. /\ TypeOK /\ TxnInv /\ VxTypeOK /\ PostInv /\ NicInv' /\ (TableIntact' <=> TableIntact)
      /\ \A u \in Threads : idx[u] \in Slots
  BY OwnStepNic DEF NicInv, AnswerInv, VxInv, TypeOK
<1>1. /\ Owning(t) /\ pc[t] \in {"poll", "recv", "timers"}
      /\ pc'[t] \in {"timers", "done", "send"} /\ \A u \in Threads : u # t => pc'[u] = pc[u]
      /\ UNCHANGED <<idx, serial, txn, sends, held, net>>
      /\ \A u \in Threads : u # t => result'[u] = result[u]
      /\ result[t] = NoFrame /\ (pc'[t] # "done" => result'[t] = NoFrame)
      /\ mishap' \in {mishap, mishap \cup {"late"}}
  BY <1>0, OwnStepIs DEF TypeOK, TxnInv
<1>2. /\ pc[t] # "recv" => UNCHANGED <<rxbufstat, rxbuf, result>>
      /\ pc[t] = "recv" => /\ pc'[t] = "done" /\ mishap' = mishap
                           /\ rxbufstat'[idx[t]] = "COMPLETE" /\ rxbuf'[idx[t]] = hand[t].frame
                           /\ result'[t] = hand[t].frame
                           /\ \A i \in Slots : i # idx[t] => rxbufstat'[i] = rxbufstat[i] /\ rxbuf'[i] = rxbuf[i]
  BY <1>0, OwnStepIs DEF TypeOK
<1>3. /\ \A u \in Threads : (Owning(u)' <=> Owning(u)) /\ pc[u] # "store" /\ pc'[u] # "store"
      /\ \A f, u : u \in Threads => (Flight(f, u)' <=> Flight(f, u))
  BY <1>0, <1>1 DEF Owning, Flight, PostInv
<1>4. TxnInv'
  BY <1>0, <1>1, <1>3 DEF TxnInv
<1>5. ASSUME TableIntact PROVE BufferInv'
  <2>1. BufferInv /\ TableInv
    BY <1>5 DEF AnswerInv, NicInv
  <2>2. \A u \in Threads : u # t /\ Owning(u) => idx[u] # idx[t]
    BY <1>1, <2>1 DEF TableInv
  <2>3. sends[t] # 0 \/ rxbufstat[idx[t]] \in {"TX", "RCVD", "COMPLETE"}
    BY <1>1, <2>1 DEF BufferInv
  <2>4. rxbufstat[idx[t]] \in {"TX", "RCVD", "COMPLETE"}
    BY <1>1, <2>1 DEF BufferInv
  <2>5. rxbufstat'[idx[t]] \in {"TX", "RCVD", "COMPLETE"}
    BY <1>2, <2>4
  <2>6. ASSUME NEW u \in Threads, u # t, Owning(u)
        PROVE  rxbufstat'[idx[u]] = rxbufstat[idx[u]] /\ rxbuf'[idx[u]] = rxbuf[idx[u]]
    BY <1>0, <1>2, <2>2, <2>6
  <2>7. \A u \in Threads : pc'[u] = "done" => Owning(u)
    BY <1>3 DEF Owning
  <2> QED
    BY <1>1, <1>2, <1>3, <2>1, <2>5, <2>6, <2>7 DEF BufferInv
<1>6. ASSUME mishap' = {} PROVE LoneInv'
  <2>1. mishap = {} /\ LoneInv /\ VxLoneInv /\ TableInv /\ BufferInv
    BY <1>1, <1>6 DEF AnswerInv, NicInv, VxInv, TableIntact
  <2>2. \A u \in Threads : u # t /\ Owning(u) => idx[u] # idx[t]
    BY <1>1, <2>1 DEF TableInv
  <2>3. \A u \in Threads : /\ StillTravelling(u) <=> (\E f \in net : f.txn = txn[u])
                           /\ StillTravelling(u)' <=> StillTravelling(u)
    BY <1>1, <1>3 DEF StillTravelling
  <2>4. pc'[t] # "timers" => ~StillTravelling(t)
    <3>1. CASE pc[t] = "recv"
      BY <1>1, <2>1, <2>3, <3>1 DEF VxLoneInv
    <3>2. CASE pc[t] # "recv" /\ pc'[t] # "timers"
      <4>1. VxResend(t) \/ VxGiveUp(t)
        BY <1>0, <3>2 DEF OwnStep, VxTakeNone, VxCopy, Goto, TypeOK
      <4>2. mishap' = VxLate(t)
        BY <4>1 DEF VxResend, VxGiveUp
      <4> QED
        BY <1>6, <2>1, <2>3, <4>2 DEF VxLate
    <3> QED
      BY <3>1, <3>2
  <2>5. pc[t] = "recv" => hand[t].frame.txn = txn[t]
    BY <1>1, <2>1 DEF VxLoneInv
  <2>6. ASSUME NEW u \in Threads, u # t, Owning(u)
        PROVE  /\ rxbufstat'[idx[u]] = rxbufstat[idx[u]] /\ rxbuf'[idx[u]] = rxbuf[idx[u]]
               /\ result'[u] = result[u] /\ pc'[u] = pc[u]
    BY <1>0, <1>1, <1>2, <2>2, <2>6
  <2>7. /\ pc'[t] \in {"send", "wire", "done"} \/ rxbufstat'[idx[t]] \in {"RCVD", "COMPLETE"}
             => ~StillTravelling(t)
        /\ pc'[t] # "wire"
        /\ rxbufstat'[idx[t]] = "RCVD" => rxbuf'[idx[t]].txn = txn[t]
        /\ result'[t] # NoFrame => result'[t].txn = txn[t]
    <3>1. CASE pc[t] = "recv"
      BY <1>1, <1>2, <2>4, <2>5, <3>1
    <3>2. CASE pc[t] # "recv"
      <4>1. rxbufstat'[idx[t]] = rxbufstat[idx[t]] /\ rxbufstat[idx[t]] # "RCVD" /\ result'[t] = NoFrame
        BY <1>0, <1>1, <1>2, <3>2 DEF PostInv
      <4>2. rxbufstat[idx[t]] = "COMPLETE" => ~StillTravelling(t)
        BY <1>1, <2>1 DEF LoneInv
      <4> QED
        BY <1>1, <2>4, <4>1, <4>2
    <3> QED
      BY <3>1, <3>2
  <2> QED
    BY <1>1, <1>3, <2>1, <2>3, <2>6, <2>7 DEF LoneInv
<1> QED
  BY <1>0, <1>1, <1>4, <1>5, <1>6 DEF AnswerInv

-----------------------------------------------------------------------------
(***************************************************************************)
(* The blocks.                                                             *)
(***************************************************************************)
LEMMA NextVxType ==
  ASSUME TypeOK, VxTypeOK, PostInv, [VxNext]_<<vars, vxvars>>
  PROVE  VxTypeOK'
<1> USE DEF VxTypeOK
<1>1. ASSUME NEW t \in Threads, VxThreadStep(t) PROVE VxTypeOK'
  <2>1. CASE VxTransmit(t) \/ VxTransmitFails(t)
    <3>1. Reclaim(idx[t]) /\ UNCHANGED <<hand, tNet0, posting, msgQs, leaked>>
      BY <2>1 DEF VxTransmit, VxTransmitFails
    <3> QED
      BY <3>1 DEF Reclaim
  <2>2. CASE VxTake(t)
    <3>1. queue[idx[t]] \in Posts
      BY <2>2 DEF VxTake, TypeOK
    <3> QED
      BY <2>2, <3>1 DEF VxTake
  <2>3. CASE VxCopy(t)
    <3>1. hand[t] \in Posts
      BY <2>3 DEF VxCopy, PostInv
    <3> QED
      BY <2>3, <3>1 DEF VxCopy, Posts
  <2> QED
    BY <1>1, <2>1, <2>2, <2>3 DEF VxThreadStep, VxGetIndex, VxMark, VxLookAgain, VxRelease, VxTakeNone,
       VxResend, VxGiveUp, vxvars
<1>2. CASE Arrive
  <2>1. PICK f \in net, b \in pool : pool' = pool \ {b} /\ posting' = [block |-> b, frame |-> f]
    BY <1>2 DEF Arrive
  <2>2. posting' \in Posts
    BY <2>1 DEF Posts, TypeOK
  <2> QED
    BY <1>2, <2>1, <2>2 DEF Arrive
<1>3. CASE Post \/ Refused
  <2>1. posting \in Posts /\ posting.block \in Blocks
    BY <1>3 DEF Post, Refused, PostInv, Posts
  <2> QED
    BY <1>3, <2>1 DEF Post, Refused, Returns
<1>4. CASE Overrun \/ Trash
  BY <1>4 DEF Overrun, Trash, Reclaim
<1>5. CASE CloseDrain \/ CloseDelete
  BY <1>5 DEF CloseDrain, CloseDelete, QueuedBlocks
<1>6. CASE ArriveStrange \/ (LoseFrame /\ UNCHANGED vxvars) \/ UNCHANGED <<vars, vxvars>>
  BY <1>6 DEF ArriveStrange, vxvars
<1> QED
  BY <1>1, <1>2, <1>3, <1>4, <1>5, <1>6 DEF VxNext, VxCallback

(***************************************************************************)
(* Where the blocks are, as the callback and the threads pass them on.     *)
\* Frames in blocks have the index of a queue.
LEMMA PostIs ==
  ASSUME NEW p \in Posts
  PROVE  /\ p.block \in Blocks /\ p.frame \in Frames /\ p.frame.idx \in Slots /\ p # NoPost
         /\ p.frame.txn \in Nat
BY VxAssumption, NicAssumption DEF Posts, Frames

(***************************************************************************)
(* What is in a queue or in a thread's hands has its index.                *)
(***************************************************************************)
LEMMA NextPostInv ==
  ASSUME TypeOK, VxTypeOK, PostInv, [VxNext]_<<vars, vxvars>>
  PROVE  PostInv'
<1> USE VxAssumption
<1>0. /\ \A i \in Slots : queue[i] \in Posts \cup {NoPost}
      /\ \A t \in Threads : hand[t] \in Posts \cup {NoPost} /\ idx[t] \in Slots
      /\ DOMAIN queue = Slots /\ DOMAIN hand = Threads /\ DOMAIN pc = Threads
      /\ DOMAIN rxbufstat = Slots /\ DOMAIN idx = Threads
  BY DEF VxTypeOK, TypeOK
<1>1. ASSUME NEW t \in Threads, VxGetIndex(t) \/ VxMark(t) \/ VxLookAgain(t) \/ VxRelease(t)
                                 \/ VxTakeNone(t) \/ VxResend(t) \/ VxGiveUp(t)
      PROVE  PostInv'
  <2>1. /\ UNCHANGED vxvars /\ pc[t] # "recv" /\ pc'[t] \notin {"recv", "store"}
        /\ \A u \in Threads : u # t => pc'[u] = pc[u] /\ idx'[u] = idx[u]
        /\ rxbufstat' = rxbufstat \/ \E s \in {"EMPTY", "ALLOC", "TX"} : rxbufstat' = [rxbufstat EXCEPT ![idx[t]] = s]
    BY <1>0, <1>1 DEF VxGetIndex, VxMark, VxLookAgain, VxRelease, VxTakeNone, VxResend, VxGiveUp, Goto,
       StartGetIndex, FindIndex, ClaimIndex, MarkTx, MarkEmpty, LookAgain, Release, vxvars
  <2>2. \A i \in Slots : rxbufstat'[i] # "RCVD"
    BY <1>0, <2>1 DEF PostInv
  <2>3. hand[t] = NoPost
    BY <2>1 DEF PostInv
  <2> QED
    BY <2>1, <2>2, <2>3 DEF PostInv, vxvars
<1>2. ASSUME NEW t \in Threads, VxTransmit(t) \/ VxTransmitFails(t) PROVE PostInv'
  <2>1. /\ UNCHANGED <<rxbufstat, idx, hand, tNet0, posting, msgQs>>
        /\ queue' = [queue EXCEPT ![idx[t]] = NoPost]
        /\ pc[t] = "wire" /\ pc'[t] \in {"poll", "failed"} /\ \A u \in Threads : u # t => pc'[u] = pc[u]
    BY <1>0, <1>2 DEF VxTransmit, VxTransmitFails, Transmit, TransmitFails, Reclaim, Goto
  <2> QED
    BY <1>0, <2>1 DEF PostInv
<1>3. ASSUME NEW t \in Threads, VxTake(t) PROVE PostInv'
  BY <1>0, <1>3 DEF VxTake, PostInv, Goto
<1>4. ASSUME NEW t \in Threads, VxCopy(t) PROVE PostInv'
  BY <1>0, <1>4 DEF VxCopy, PostInv, Goto
<1>5. CASE Arrive
  <2>1. PICK f \in net, b \in pool : posting' = [block |-> b, frame |-> f]
    BY <1>5 DEF Arrive
  <2>2. posting' # NoPost
    BY <2>1 DEF Posts, TypeOK, VxTypeOK
  <2> QED
    BY <1>5, <2>2 DEF Arrive, portvarsButNet, PostInv
<1>6. CASE Post
  <2>1. posting \in Posts
    BY <1>6 DEF Post, PostInv, VxTypeOK
  <2> QED
    BY <1>0, <1>6, <2>1 DEF Post, CanPost, Returns, PostInv, vars
<1>7. CASE Refused
  BY <1>7 DEF Refused, Returns, PostInv, vars
<1>8. CASE Overrun \/ Trash
  BY <1>0, <1>8 DEF Overrun, Trash, Reclaim, PostInv, vars
<1>9. CASE CloseDrain \/ CloseDelete
  BY <1>0, <1>9 DEF CloseDrain, CloseDelete, PostInv, vars
<1>10. CASE ArriveStrange \/ (LoseFrame /\ UNCHANGED vxvars) \/ UNCHANGED <<vars, vxvars>>
  BY <1>10 DEF ArriveStrange, LoseFrame, portvarsButNet, vxvars, vars, PostInv
<1> QED
  BY <1>1, <1>2, <1>3, <1>4, <1>5, <1>6, <1>7, <1>8, <1>9, <1>10 DEF VxNext, VxCallback, VxThreadStep

\* Taking what is in a queue back to the pool (Reclaim).
LEMMA ReclaimKeeps ==
  ASSUME VxTypeOK, BlocksKept, NEW i \in Slots, Reclaim(i), UNCHANGED <<hand, posting, leaked, msgQs>>
  PROVE  BlocksKept'
<1> USE VxAssumption
<1>1. /\ queue' = [queue EXCEPT ![i] = NoPost] /\ DOMAIN queue = Slots
      /\ pool' = pool \cup {b \in Blocks : queue[i] # NoPost /\ queue[i].block = b}
  BY DEF Reclaim, VxTypeOK
<1>2. \A b : Taken(b)' = Taken(b) /\ Arrived0(b)' = Arrived0(b)
  BY DEF Taken, Arrived0
<1>3. \A b : Posted(b)' <=> Posted(b) /\ ~(queue[i] # NoPost /\ queue[i].block = b)
  BY <1>1 DEF Posted, BlocksKept
<1>4. \A b \in Blocks : queue[i] # NoPost /\ queue[i].block = b => Posted(b)
  BY DEF Posted
<1>5. pool \subseteq Blocks /\ leaked \subseteq Blocks
  BY DEF VxTypeOK
<1> QED
  BY <1>1, <1>2, <1>3, <1>4, <1>5 DEF BlocksKept

(***************************************************************************)
(* Every hand-over of a block takes it from one place to another.          *)
(***************************************************************************)
LEMMA NextBlocksKept ==
  ASSUME TypeOK, VxTypeOK, PostInv, BlocksKept, [VxNext]_<<vars, vxvars>>
  PROVE  BlocksKept'
<1> USE VxAssumption
<1>0. /\ DOMAIN queue = Slots /\ DOMAIN hand = Threads /\ \A t \in Threads : idx[t] \in Slots
      /\ pool \subseteq Blocks /\ leaked \subseteq Blocks
      /\ \A i \in Slots : queue[i] # NoPost => queue[i].block \in Blocks
      /\ \A t \in Threads : hand[t] # NoPost => hand[t].block \in Blocks
      /\ posting # NoPost => posting.block \in Blocks /\ posting.frame.idx \in Slots
  BY PostIs DEF VxTypeOK, TypeOK
<1>1. ASSUME NEW t \in Threads, VxTransmit(t) \/ VxTransmitFails(t) PROVE BlocksKept'
  BY <1>0, <1>1, ReclaimKeeps DEF VxTransmit, VxTransmitFails
<1>2. CASE Trash
  BY <1>0, <1>2, ReclaimKeeps DEF Trash, PostInv
<1>3. ASSUME NEW t \in Threads, VxTake(t) PROVE BlocksKept'
  <2>1. /\ hand[t] = NoPost /\ queue[idx[t]] # NoPost /\ idx[t] \in Slots
        /\ hand' = [hand EXCEPT ![t] = queue[idx[t]]] /\ queue' = [queue EXCEPT ![idx[t]] = NoPost]
        /\ UNCHANGED <<pool, posting, leaked, msgQs>>
    BY <1>0, <1>3 DEF VxTake, PostInv
  <2> DEFINE b == queue[idx[t]].block
  <2>2. \A c : /\ Posted(c)' <=> Posted(c) /\ c # b
               /\ Taken(c)' <=> Taken(c) \/ c = b
               /\ Arrived0(c)' <=> Arrived0(c)
    BY <1>0, <2>1 DEF Posted, Taken, Arrived0, BlocksKept
  <2>3. Posted(b) /\ b \in Blocks
    BY <1>0, <2>1 DEF Posted
  <2>4. b \notin pool \cup leaked /\ ~Taken(b) /\ ~Arrived0(b)
    BY <2>3 DEF BlocksKept
  <2>5. \A u \in Threads : hand[u] # NoPost => hand[u].block # b
    BY <2>4 DEF Taken
  <2> QED
    BY <1>0, <2>1, <2>2, <2>3, <2>4, <2>5 DEF BlocksKept
<1>4. ASSUME NEW t \in Threads, VxCopy(t) PROVE BlocksKept'
  <2>1. /\ hand[t] # NoPost /\ hand' = [hand EXCEPT ![t] = NoPost] /\ pool' = pool \cup {hand[t].block}
        /\ UNCHANGED <<queue, posting, leaked, msgQs>>
    BY <1>4 DEF VxCopy, PostInv
  <2> DEFINE b == hand[t].block
  <2>2. \A c : /\ Posted(c)' <=> Posted(c)
               /\ Taken(c)' <=> Taken(c) /\ c # b
               /\ Arrived0(c)' <=> Arrived0(c)
    BY <1>0, <2>1 DEF Posted, Taken, Arrived0, BlocksKept
  <2>3. Taken(b) /\ b \in Blocks
    BY <1>0, <2>1 DEF Taken
  <2> QED
    BY <1>0, <2>1, <2>2, <2>3 DEF BlocksKept
<1>5. CASE Arrive
  <2>1. PICK f \in net, b \in pool : posting' = [block |-> b, frame |-> f] /\ pool' = pool \ {b}
    BY <1>5 DEF Arrive
  <2>2. posting = NoPost /\ posting' # NoPost /\ posting'.block = b
    BY <1>5, <2>1 DEF Arrive, PostInv, Posts, TypeOK, VxTypeOK
  <2>3. UNCHANGED <<queue, hand, leaked, msgQs>>
    BY <1>5 DEF Arrive
  <2>4. \A c : /\ Posted(c)' <=> Posted(c)
               /\ Taken(c)' <=> Taken(c)
               /\ Arrived0(c)' <=> c = b
    BY <2>2, <2>3 DEF Posted, Taken, Arrived0
  <2>5. \A c : ~Arrived0(c)
    BY <2>2 DEF Arrived0
  <2> QED
    BY <2>1, <2>3, <2>4, <2>5 DEF BlocksKept
<1>6. CASE Post
  <2>1. /\ posting # NoPost /\ queue' = [queue EXCEPT ![posting.frame.idx] = posting]
        /\ queue[posting.frame.idx] = NoPost /\ posting' = NoPost /\ UNCHANGED <<pool, hand, leaked, msgQs>>
    BY <1>6 DEF Post, CanPost, Returns, PostInv
  <2> DEFINE b == posting.block
  <2>2. \A c : /\ Posted(c)' <=> Posted(c) \/ c = b
               /\ Taken(c)' <=> Taken(c)
               /\ ~Arrived0(c)'
               /\ Arrived0(c) <=> c = b
    BY <1>0, <2>1 DEF Posted, Taken, Arrived0
  <2>3. b \in Blocks /\ ~Posted(b)
    BY <1>0, <2>1, <2>2 DEF BlocksKept
  <2>4. \A i \in Slots : queue[i] # NoPost => queue[i].block # b
    BY <2>3 DEF Posted
  <2> QED
    BY <1>0, <2>1, <2>2, <2>3, <2>4 DEF BlocksKept
<1>7. CASE Refused
  <2>1. posting # NoPost /\ posting' = NoPost /\ pool' = pool \cup {posting.block}
        /\ UNCHANGED <<queue, hand, leaked, msgQs>>
    BY <1>7 DEF Refused, Returns, PostInv
  <2> DEFINE b == posting.block
  <2>2. \A c : /\ Posted(c)' <=> Posted(c)
               /\ Taken(c)' <=> Taken(c)
               /\ ~Arrived0(c)'
               /\ Arrived0(c) <=> c = b
    BY <2>1 DEF Posted, Taken, Arrived0
  <2> QED
    BY <1>0, <2>1, <2>2 DEF BlocksKept
<1>8. CASE CloseDrain \/ CloseDelete
  <2>1. /\ \A i \in Slots : queue'[i] = NoPost
        /\ UNCHANGED <<hand, posting>>
        /\ \/ pool' = pool \cup QueuedBlocks /\ leaked' = leaked /\ msgQs = "ready"
           \/ leaked' = leaked \cup QueuedBlocks /\ pool' = pool /\ msgQs' = "deleted"
    BY <1>8 DEF CloseDrain, CloseDelete
  <2>2. \A c : /\ ~Posted(c)'
               /\ Taken(c)' <=> Taken(c)
               /\ Arrived0(c)' <=> Arrived0(c)
    BY <2>1 DEF Posted, Taken, Arrived0
  <2>3. QueuedBlocks = {b \in Blocks : Posted(b)}
    BY DEF QueuedBlocks, Posted
  <2>4. pool' \cup leaked' = pool \cup leaked \cup QueuedBlocks
    BY <2>1
  <2>5. pool' \cap leaked' = {} /\ (leaked' # {} => msgQs' = "deleted")
    BY <2>1, <2>3 DEF BlocksKept
  <2> QED
    BY <2>1, <2>2, <2>3, <2>4, <2>5 DEF BlocksKept
<1>9. ASSUME UNCHANGED vxvars \/ Overrun PROVE BlocksKept'
  BY <1>9 DEF vxvars, Overrun, BlocksKept, Posted, Taken, Arrived0
<1> QED
  BY <1>1, <1>2, <1>3, <1>4, <1>5, <1>6, <1>7, <1>8, <1>9 DEF VxNext, VxCallback, VxThreadStep, VxGetIndex, VxMark,
     VxLookAgain, VxRelease, VxTakeNone, VxResend, VxGiveUp, ArriveStrange

-----------------------------------------------------------------------------
(***************************************************************************)
(* The frames in blocks.                                                   *)
(***************************************************************************)

\* A frame of a live transaction stays one, wherever it is.
LEMMA FlightStays ==
  ASSUME TypeOK, LocalInv, VxTypeOK, PostInv, [VxNext]_<<vars, vxvars>>,
         NEW f \in Frames, f.txn <= serial, \A t \in Threads : Flight(f, t)
  PROVE  f.txn <= serial' /\ \A t \in Threads : Flight(f, t)'
<1> USE NicAssumption
<1>0. /\ serial \in Nat /\ f.txn \in Nat \ {0} /\ DOMAIN pc = Threads /\ DOMAIN txn = Threads /\ DOMAIN idx = Threads
      /\ DOMAIN sends = Threads /\ \A t \in Threads : sends[t] \in Nat
  BY DEF TypeOK, Frames
\* a step that changes at most the place of a thread that owns its index
<1>1. ASSUME UNCHANGED <<serial, txn, idx>>,
             \A t \in Threads : (Owning(t)' <=> Owning(t)) /\ (sends[t] # 0 => sends'[t] # 0)
      PROVE  f.txn <= serial' /\ \A t \in Threads : Flight(f, t)'
  BY <1>1 DEF Flight
<1>2. ASSUME NEW t \in Threads, StartGetIndex(t)
      PROVE  f.txn <= serial' /\ \A u \in Threads : Flight(f, u)'
  <2>1. serial' = serial + 1 /\ txn'[t] = serial + 1 /\ UNCHANGED <<idx, sends>>
        /\ \A u \in Threads : u # t => txn'[u] = txn[u] /\ pc'[u] = pc[u]
    BY <1>0, <1>2 DEF StartGetIndex, Goto
  <2>2. \A u \in Threads : u # t => (Owning(u)' <=> Owning(u))
    BY <2>1 DEF Owning
  <2> QED
    BY <1>0, <2>1, <2>2 DEF Flight
<1>3. ASSUME NEW t \in Threads, FindIndex(t) \/ ClaimIndex(t)
      PROVE  f.txn <= serial' /\ \A u \in Threads : Flight(f, u)'
  <2>1. ~Owning(t) /\ UNCHANGED <<serial, txn, sends>>
        /\ \A u \in Threads : u # t => idx'[u] = idx[u] /\ pc'[u] = pc[u]
    BY <1>0, <1>3 DEF FindIndex, ClaimIndex, Goto, Owning
  <2>2. f.txn # txn[t] /\ \A u \in Threads : u # t => (Owning(u)' <=> Owning(u))
    BY <2>1 DEF Flight, Owning
  <2> QED
    BY <2>1, <2>2 DEF Flight
<1>4. ASSUME NEW t \in Threads, Release(t)
      PROVE  f.txn <= serial' /\ \A u \in Threads : Flight(f, u)'
  <2>1. UNCHANGED serial /\ txn'[t] = 0
        /\ \A u \in Threads : u # t => idx'[u] = idx[u] /\ pc'[u] = pc[u] /\ txn'[u] = txn[u] /\ sends'[u] = sends[u]
    BY <1>0, <1>4 DEF Release, Goto
  <2>2. \A u \in Threads : u # t => (Owning(u)' <=> Owning(u))
    BY <2>1 DEF Owning
  <2> QED
    BY <1>0, <2>1, <2>2 DEF Flight
<1>5. ASSUME NEW t \in Threads, MarkTx(t) \/ MarkEmpty(t) \/ Transmit(t) \/ TransmitFails(t) \/ LookAgain(t)
                                 \/ VxTake(t) \/ OwnStep(t)
      PROVE  f.txn <= serial' /\ \A u \in Threads : Flight(f, u)'
  <2>1. UNCHANGED <<serial, txn, idx>> /\ Owning(t) /\ (\E label \in {"send", "wire", "failed", "poll", "recv", "timers", "done"} : Goto(t, label))
        /\ (sends' = sends \/ sends' = [sends EXCEPT ![t] = @ + 1])
    BY <1>5 DEF MarkTx, MarkEmpty, Transmit, TransmitFails, LookAgain, VxTake, OwnStep, VxTakeNone, VxCopy, VxResend,
       VxGiveUp, Owning
  <2>2. \A u \in Threads : Owning(u)' <=> Owning(u)
    BY <1>0, <2>1 DEF Goto, Owning
  <2>3. \A u \in Threads : sends[u] # 0 => sends'[u] # 0
    BY <1>0, <2>1
  <2> QED
    BY <1>1, <2>1, <2>2, <2>3
<1>6. ASSUME UNCHANGED <<pc, serial, txn, idx, sends>>
      PROVE  f.txn <= serial' /\ \A t \in Threads : Flight(f, t)'
  BY <1>1, <1>6 DEF Owning
<1>7. ASSUME NEW t \in Threads, VxThreadStep(t)
      PROVE  f.txn <= serial' /\ \A u \in Threads : Flight(f, u)'
  BY <1>2, <1>3, <1>4, <1>5, <1>7 DEF VxThreadStep, VxGetIndex, VxMark, VxTransmit, VxTransmitFails, VxLookAgain,
     VxRelease, OwnStep
<1>8. CASE VxCallback \/ LoseFrame \/ CloseDrain \/ CloseDelete \/ UNCHANGED <<vars, vxvars>>
  <2>1. UNCHANGED <<pc, serial, txn, idx, sends>>
    BY <1>8 DEF VxCallback, Arrive, ArriveStrange, Post, Overrun, Trash, Refused, Returns, LoseFrame, CloseDrain,
       CloseDelete, portvarsButNet, vars
  <2> QED
    BY <1>6, <2>1
<1> QED
  BY <1>7, <1>8 DEF VxNext

\* Blocks are filled from the wire only.
LEMMA InsideCameIn ==
  ASSUME TypeOK, VxTypeOK, PostInv, [VxNext]_<<vars, vxvars>>, NEW f \in Frames, Inside(f)'
  PROVE  Inside(f) \/ f \in net
<1> USE VxAssumption
<1>0. DOMAIN queue = Slots /\ DOMAIN hand = Threads /\ \A t \in Threads : idx[t] \in Slots
  BY DEF VxTypeOK, TypeOK
<1>1. CASE Arrive
  <2>1. PICK g \in net, b \in pool : posting' = [block |-> b, frame |-> g]
    BY <1>1 DEF Arrive
  <2> QED
    BY <1>1, <2>1 DEF Arrive, Inside
<1>2. CASE Post
  BY <1>0, <1>2 DEF Post, CanPost, Returns, PostInv, Inside
<1>3. ASSUME NEW t \in Threads, VxTake(t) PROVE Inside(f)
  BY <1>0, <1>3 DEF VxTake, Inside
<1>4. ASSUME NEW t \in Threads, VxCopy(t) PROVE Inside(f)
  BY <1>0, <1>4 DEF VxCopy, Inside
<1>5. ASSUME NEW i \in Slots, Reclaim(i), UNCHANGED <<hand, posting>> PROVE Inside(f)
  BY <1>0, <1>5 DEF Reclaim, Inside
<1>6. CASE Refused \/ Overrun \/ CloseDrain \/ CloseDelete
  BY <1>0, <1>6 DEF Refused, Returns, Overrun, CloseDrain, CloseDelete, Inside
<1>7. CASE Trash
  BY <1>5, <1>7, PostIs DEF Trash, PostInv, VxTypeOK
<1>8. ASSUME UNCHANGED vxvars PROVE Inside(f)
  BY <1>8 DEF vxvars, Inside
<1> QED
  BY <1>0, <1>1, <1>2, <1>3, <1>4, <1>5, <1>6, <1>7, <1>8 DEF VxNext, VxCallback, VxThreadStep, VxGetIndex, VxMark,
     VxTransmit, VxTransmitFails, VxLookAgain, VxRelease, VxTakeNone, VxResend, VxGiveUp, ArriveStrange

\* So a frame in a block is numbered, and has the index of its transaction.
LEMMA NextVxTxnInv ==
  ASSUME TypeOK, LocalInv, TxnInv, VxTypeOK, PostInv, VxTxnInv, [VxNext]_<<vars, vxvars>>
  PROVE  VxTxnInv'
<1>1. ASSUME NEW f \in Frames, Inside(f)' PROVE f.txn <= serial /\ \A t \in Threads : Flight(f, t)
  BY <1>1, InsideCameIn DEF VxTxnInv, TxnInv
<1> QED
  BY <1>1, FlightStays DEF VxTxnInv

(***************************************************************************)
(* While nothing is late, an answer in a queue is the only one of the      *)
(* transaction that polls the queue, and the last sent.                    *)
(***************************************************************************)
LEMMA NextVxLoneInv ==
  ASSUME NicInv, AnswerInv, VxInv, [VxNext]_<<vars, vxvars>>, mishap = {}, mishap' = {}
  PROVE  VxLoneInv'
<1> USE VxAssumption, NicAssumption
<1>0. /\ TypeOK /\ LocalInv /\ TableInv /\ TxnInv /\ LoneInv /\ VxTypeOK /\ PostInv /\ VxTxnInv /\ VxLoneInv
      /\ DOMAIN queue = Slots /\ DOMAIN hand = Threads /\ DOMAIN pc = Threads /\ DOMAIN txn = Threads
      /\ DOMAIN idx = Threads /\ \A t \in Threads : idx[t] \in Slots
  BY DEF NicInv, AnswerInv, VxInv, TableIntact, TypeOK, VxTypeOK
\* the transaction of a frame in tNet0's hands owns the index
<1>p. posting # NoPost => /\ posting.frame.idx \in Slots /\ posting.frame.txn \in Nat /\ posting.frame.txn <= serial
                         /\ \A t \in Threads : posting.frame.txn = txn[t] => Owning(t) /\ posting.frame.idx = idx[t]
  BY <1>0, PostIs DEF VxTypeOK, VxTxnInv, Inside, Flight
<1>u. \A t, u \in Threads : t # u /\ Owning(t) /\ Owning(u) => idx[t] # idx[u] /\ txn[t] # txn[u]
  BY <1>0 DEF TableInv, TxnInv, LocalInv, Owning
<1>l. /\ posting # NoPost => /\ \E t \in Threads : posting.frame.txn = txn[t]
                             /\ \A f \in net : f.txn # posting.frame.txn
      /\ \A t \in Threads : Owning(t) =>
           /\ pc[t] \in {"send", "wire", "done", "recv"} \/ (pc[t] \in {"poll", "timers"} /\ queue[idx[t]] # NoPost)
               => /\ \A f \in net : f.txn # txn[t]
                  /\ posting # NoPost => posting.frame.txn # txn[t]
           /\ pc[t] \in {"poll", "timers"} /\ queue[idx[t]] # NoPost => queue[idx[t]].frame.txn = txn[t]
           /\ pc[t] = "recv" => hand[t].frame.txn = txn[t]
  BY <1>0 DEF VxLoneInv
<1>1. ASSUME NEW t \in Threads, StartGetIndex(t) \/ FindIndex(t) \/ Release(t), UNCHANGED vxvars PROVE VxLoneInv'
  <2>1. /\ ~Owning(t)' /\ UNCHANGED <<net, queue, hand, posting>>
        /\ \A u \in Threads : u # t => pc'[u] = pc[u] /\ idx'[u] = idx[u] /\ txn'[u] = txn[u]
        /\ ~Owning(t) \/ pc[t] = "done"
    BY <1>0, <1>1 DEF StartGetIndex, FindIndex, Release, Goto, Owning, vxvars
  <2>2. \A u \in Threads : u # t => (Owning(u)' <=> Owning(u))
    BY <2>1 DEF Owning
  <2>3. posting # NoPost => \E u \in Threads : u # t /\ posting.frame.txn = txn[u]
    BY <1>p, <1>l, <2>1
  <2> QED
    BY <1>l, <2>1, <2>2, <2>3 DEF VxLoneInv
<1>2. ASSUME NEW t \in Threads, ClaimIndex(t), UNCHANGED vxvars PROVE VxLoneInv'
  <2>1. /\ ~Owning(t) /\ pc'[t] = "send" /\ UNCHANGED <<net, queue, hand, posting, idx, txn>>
        /\ \A u \in Threads : u # t => pc'[u] = pc[u]
    BY <1>0, <1>2 DEF ClaimIndex, Goto, Owning, vxvars
  <2>2. \A u \in Threads : u # t => (Owning(u)' <=> Owning(u))
    BY <2>1 DEF Owning
  <2>3. /\ \A f \in net : f.txn # txn[t]
        /\ posting # NoPost => posting.frame.txn # txn[t]
    BY <1>0, <1>p, <2>1 DEF TxnInv, Flight
  <2> QED
    BY <1>l, <2>1, <2>2, <2>3 DEF VxLoneInv
\* a step of an owner after which its condition is not stronger
<1>3. ASSUME NEW t \in Threads, NEW label, Goto(t, label), Owning(t), UNCHANGED <<net, queue, hand, posting, idx, txn>>,
             label \in {"send", "wire", "done"} => /\ \A f \in net : f.txn # txn[t]
                                                   /\ posting # NoPost => posting.frame.txn # txn[t],
             label \in {"poll", "timers"} => queue[idx[t]] = NoPost \/ pc[t] \in {"poll", "timers"},
             label \in {"send", "wire", "done", "poll", "timers"}
      PROVE  VxLoneInv'
  <2>1. pc'[t] = label /\ \A u \in Threads : u # t => pc'[u] = pc[u]
    BY <1>0, <1>3 DEF Goto
  <2>2. \A u \in Threads : Owning(u)' <=> Owning(u)
    BY <1>3, <2>1 DEF Owning
  <2> QED
    BY <1>l, <1>3, <2>1, <2>2 DEF VxLoneInv
<1>4. ASSUME NEW t \in Threads, MarkTx(t) \/ LookAgain(t), UNCHANGED vxvars PROVE VxLoneInv'
  <2>1. Owning(t) /\ UNCHANGED <<net, queue, hand, posting, idx, txn>>
        /\ \/ pc[t] = "send" /\ Goto(t, "wire")
           \/ pc[t] = "timers" /\ Goto(t, "poll")
    BY <1>4 DEF MarkTx, LookAgain, Owning, vxvars
  <2> QED
    BY <1>l, <1>3, <2>1
<1>5. ASSUME NEW t \in Threads, VxTakeNone(t) \/ VxResend(t) \/ VxGiveUp(t) PROVE VxLoneInv'
  <2>1. Owning(t) /\ UNCHANGED <<net, queue, hand, posting, idx, txn>>
        /\ \/ pc[t] = "poll" /\ Goto(t, "timers")
           \/ (Goto(t, "send") \/ Goto(t, "done")) /\ mishap' = VxLate(t)
    BY <1>5 DEF VxTakeNone, VxResend, VxGiveUp, Owning, vxvars
  <2>2. mishap' = VxLate(t) => /\ \A f \in net : f.txn # txn[t]
                               /\ posting # NoPost => posting.frame.txn # txn[t]
    BY DEF VxLate
  <2> QED
    BY <1>3, <2>1, <2>2
<1>6. ASSUME NEW t \in Threads, MarkEmpty(t) \/ TransmitFails(t) PROVE FALSE
  BY <1>0, <1>6 DEF MarkEmpty, TransmitFails, LocalInv
<1>7. ASSUME NEW t \in Threads, VxTransmit(t) PROVE VxLoneInv'
  <2>1. /\ pc[t] = "wire" /\ Owning(t) /\ pc'[t] = "poll" /\ UNCHANGED <<hand, posting, idx, txn>>
        /\ net' = net \cup {[idx |-> idx[t], txn |-> txn[t], nth |-> sends[t] + 1]}
        /\ queue' = [queue EXCEPT ![idx[t]] = NoPost]
        /\ \A u \in Threads : u # t => pc'[u] = pc[u]
    BY <1>0, <1>7 DEF VxTransmit, Transmit, Reclaim, Goto, Owning
  <2>2. \A u \in Threads : Owning(u)' <=> Owning(u)
    BY <2>1 DEF Owning
  <2>3. \A f \in net' : f \in net \/ f.txn = txn[t]
    BY <2>1
  <2>4. \A u \in Threads : u # t /\ Owning(u) => queue'[idx[u]] = queue[idx[u]] /\ txn[u] # txn[t]
    BY <1>0, <1>u, <2>1
  <2>5. queue'[idx[t]] = NoPost
    BY <1>0, <2>1
  <2> QED
    BY <1>l, <2>1, <2>2, <2>3, <2>4, <2>5 DEF VxLoneInv
<1>8. ASSUME NEW t \in Threads, VxTake(t) PROVE VxLoneInv'
  <2>1. /\ pc[t] = "poll" /\ Owning(t) /\ pc'[t] = "recv" /\ UNCHANGED <<net, posting, idx, txn>>
        /\ queue[idx[t]] # NoPost /\ hand'[t] = queue[idx[t]] /\ queue' = [queue EXCEPT ![idx[t]] = NoPost]
        /\ \A u \in Threads : u # t => pc'[u] = pc[u] /\ hand'[u] = hand[u]
    BY <1>0, <1>8 DEF VxTake, Goto, Owning
  <2>2. \A u \in Threads : Owning(u)' <=> Owning(u)
    BY <2>1 DEF Owning
  <2>3. \A u \in Threads : u # t /\ Owning(u) => queue'[idx[u]] = queue[idx[u]]
    BY <1>0, <1>u, <2>1
  <2> QED
    BY <1>l, <2>1, <2>2, <2>3 DEF VxLoneInv
<1>9. ASSUME NEW t \in Threads, VxCopy(t) PROVE VxLoneInv'
  <2>1. /\ pc[t] = "recv" /\ Owning(t) /\ pc'[t] = "done" /\ UNCHANGED <<net, posting, idx, txn, queue>>
        /\ \A u \in Threads : u # t => pc'[u] = pc[u] /\ hand'[u] = hand[u]
    BY <1>0, <1>9 DEF VxCopy, Goto, Owning
  <2>2. \A u \in Threads : Owning(u)' <=> Owning(u)
    BY <2>1 DEF Owning
  <2> QED
    BY <1>l, <2>1, <2>2 DEF VxLoneInv
<1>10. CASE Arrive
  <2>1. PICK f \in net, b \in pool : posting' = [block |-> b, frame |-> f] /\ net' = net \ {f}
    BY <1>10 DEF Arrive
  <2>2. /\ \E t \in Threads : f.txn = txn[t]
        /\ \A g \in net' : g.txn # f.txn
    BY <1>0, <2>1 DEF LoneInv
  <2>3. posting'.frame = f /\ UNCHANGED <<pc, idx, txn, queue, hand>>
    BY <1>10, <2>1 DEF Arrive, portvarsButNet
  <2>4. \A u \in Threads : Owning(u)' <=> Owning(u)
    BY <2>3 DEF Owning
  <2> QED
    BY <1>l, <2>1, <2>2, <2>3, <2>4 DEF VxLoneInv
<1>11. CASE Post
  <2>1. /\ posting # NoPost /\ posting' = NoPost /\ UNCHANGED <<net, pc, idx, txn, hand>>
        /\ queue[posting.frame.idx] = NoPost /\ queue' = [queue EXCEPT ![posting.frame.idx] = posting]
    BY <1>0, <1>11 DEF Post, CanPost, Returns, PostInv, vars
  <2>2. PICK t \in Threads : posting.frame.txn = txn[t] /\ Owning(t) /\ posting.frame.idx = idx[t]
    BY <1>l, <1>p, <2>1
  <2>3. queue'[idx[t]] = posting /\ \A u \in Threads : u # t /\ Owning(u) => queue'[idx[u]] = queue[idx[u]]
    BY <1>0, <1>u, <2>1, <2>2
  <2>4. \A f \in net : f.txn # txn[t]
    BY <1>l, <2>1, <2>2
  <2>5. \A u \in Threads : Owning(u)' <=> Owning(u)
    BY <2>1 DEF Owning
  <2> QED
    BY <1>l, <2>1, <2>2, <2>3, <2>4, <2>5 DEF VxLoneInv
<1>12. CASE Overrun \/ Trash \/ Refused \/ CloseDrain \/ CloseDelete \/ ArriveStrange \/ (LoseFrame /\ UNCHANGED vxvars)
            \/ UNCHANGED <<vars, vxvars>>
  <2>1. /\ net' \subseteq net /\ posting' \in {posting, NoPost} /\ UNCHANGED <<pc, idx, txn, hand>>
        /\ \A i \in Slots : queue'[i] \in {queue[i], NoPost}
    BY <1>0, <1>12 DEF Overrun, Trash, Reclaim, Refused, Returns, CloseDrain, CloseDelete, ArriveStrange, LoseFrame,
       portvarsButNet, vars, vxvars
  <2>2. \A u \in Threads : Owning(u)' <=> Owning(u)
    BY <2>1 DEF Owning
  <2> QED
    BY <1>0, <1>l, <2>1, <2>2 DEF VxLoneInv
<1> QED
  BY <1>1, <1>2, <1>4, <1>5, <1>6, <1>7, <1>8, <1>9, <1>10, <1>11, <1>12 DEF VxNext, VxCallback, VxThreadStep,
     VxGetIndex, VxMark, VxTransmitFails, VxLookAgain, VxRelease

-----------------------------------------------------------------------------
LEMMA InitVxInv == Init /\ VxInit => VxInv
<1> SUFFICES ASSUME Init, VxInit PROVE VxInv
  OBVIOUS
<1>1. VxTypeOK /\ PostInv
  BY VxAssumption DEF Init, VxInit, VxTypeOK, PostInv
<1>2. BlocksKept
  BY DEF VxInit, BlocksKept, Posted, Taken, Arrived0
<1>3. VxTxnInv /\ VxLoneInv
  BY DEF Init, VxInit, VxTxnInv, Inside, VxLoneInv, Owning
<1> QED
  BY <1>1, <1>2, <1>3 DEF VxInv

\* A step of a thread NicPort does not have neither takes an index nor gives one back.
LEMMA OwnPoolStep ==
  ASSUME NicInv, VxTypeOK, PostInv, NEW t \in Threads, OwnStep(t)
  PROVE  UNCHANGED <<Holders, ~TableIntact>>
<1>1. TypeOK /\ Owning(t) /\ UNCHANGED idx /\ pc' = [pc EXCEPT ![t] = pc'[t]] /\ pc'[t] \in {"timers", "done", "send"}
  BY OwnStepIs DEF NicInv
<1>2. \A u \in Threads : Owning(u)' <=> Owning(u)
  BY <1>1 DEF TypeOK, Owning
<1>3. Holders' = Holders
  BY <1>1, <1>2 DEF Holders
<1> QED
  BY <1>3, OwnStepNic

(***************************************************************************)
(* Every step keeps the three invariants, and is one of the pool of        *)
(* indices.                                                                *)
(***************************************************************************)
LEMMA NextVxInv ==
  ASSUME NicInv, AnswerInv, VxInv, [VxNext]_<<vars, vxvars>>
  PROVE  NicInv' /\ AnswerInv' /\ VxInv' /\ [Pool!Next]_<<Holders, ~TableIntact>>
<1>1. TypeOK /\ LocalInv /\ TxnInv /\ VxTypeOK /\ PostInv /\ BlocksKept /\ VxTxnInv
  BY DEF NicInv, AnswerInv, VxInv
<1>2. CASE [Next]_vars
  <2>1. NicInv' /\ AnswerInv' /\ [Pool!Next]_<<Holders, ~TableIntact>> /\ mishap \subseteq mishap'
    BY <1>2, NextNicAnswer, PoolStep, MishapsStay
  <2> QED
    BY <1>1, <2>1, NextVxType, NextPostInv, NextBlocksKept, NextVxTxnInv, NextVxLoneInv DEF VxInv
<1>3. ASSUME NEW t \in Threads, OwnStep(t)
      PROVE  NicInv' /\ AnswerInv' /\ VxInv' /\ [Pool!Next]_<<Holders, ~TableIntact>>
  <2>1. NicInv' /\ AnswerInv'
    BY <1>1, <1>3, OwnStepNic, OwnStepAnswer
  <2>2. UNCHANGED <<Holders, ~TableIntact>>
    BY <1>1, <1>3, OwnPoolStep
  <2>3. mishap' = {} => mishap = {}
    BY <1>1, <1>3, OwnStepIs
  <2> QED
    BY <1>1, <2>1, <2>2, <2>3, NextVxType, NextPostInv, NextBlocksKept, NextVxTxnInv, NextVxLoneInv DEF VxInv
<1> QED
  BY <1>1, <1>2, <1>3, VxStepIs

-----------------------------------------------------------------------------

\* What a slave or a cut cable makes of a frame: it keeps its origin and its number.
LEMMA ArrivedIs ==
  ASSUME NEW f \in RingFrames, f.at \in {"out0", "out1"}
  PROVE  /\ Arrived(f) \in RingFrames
         /\ Arrived(f).from = f.from
         /\ f.at = "out0" => /\ Arrived(f).at = IF cut = {} THEN "in1" ELSE "in0"
                             /\ Arrived(f).by = f.by \cup InFront
                             /\ Arrived(f).twice <=> f.twice \/ f.by \cap InFront # {}
         /\ f.at = "out1" => /\ Arrived(f).at = IF cut = {} THEN "in0" ELSE "in1"
                             /\ Arrived(f).by = f.by \cup Behind
                             /\ Arrived(f).twice <=> f.twice \/ f.by \cap Behind # {}
<1>1. InFront \subseteq Ring /\ Behind \subseteq Ring
  BY DEF InFront, Behind
<1>2. f.at = "out0" => Arrived(f) = Processed(f, IF cut = {} THEN "in1" ELSE "in0", InFront)
  BY DEF Arrived
<1>3. f.at = "out1" => Arrived(f) = Processed(f, IF cut = {} THEN "in0" ELSE "in1", Behind)
  BY DEF Arrived
<1>4. ASSUME NEW at \in Spots, NEW slaves \in SUBSET Ring
      PROVE  /\ Processed(f, at, slaves) \in RingFrames
             /\ Processed(f, at, slaves).from = f.from
             /\ Processed(f, at, slaves).at = at
             /\ Processed(f, at, slaves).by = f.by \cup slaves
             /\ Processed(f, at, slaves).twice <=> f.twice \/ f.by \cap slaves # {}
  <2>1. f.by \cup slaves \in SUBSET Ring /\ (f.twice \/ f.by \cap slaves # {}) \in BOOLEAN
    BY DEF RingFrames
  <2> QED
    BY <2>1 DEF Processed, RingFrames
<1> QED
  BY <1>1, <1>2, <1>3, <1>4 DEF Spots

\* A step of a frame along the line (Travel), and where it is lost instead.
LEMMA TravelIs ==
  ASSUME RedTypeOK, Travel
  PROVE  \E f \in line :
           /\ f \in RingFrames /\ f.at \in {"out0", "out1"}
           /\ line' = (line \ {f}) \cup (IF LinkDown(f) THEN {} ELSE {Arrived(f)})
BY DEF RedTypeOK, Travel

\* What ecx_outframe_red sends.
LEMMA FrameIs ==
  ASSUME NEW at \in Spots, NEW from \in {"primary", "secondary"}, NEW by \in SUBSET Ring, NEW nth \in Nat
  PROVE  /\ Frame(at, from, by, nth) \in RingFrames
         /\ Frame(at, from, by, nth).at = at /\ Frame(at, from, by, nth).from = from
         /\ Frame(at, from, by, nth).by = by /\ ~Frame(at, from, by, nth).twice
BY DEF Frame, RingFrames

\* Nothing was received: no frame is like that.
LEMMA NothingIs ==
  /\ Nothing.from = "none" /\ Nothing.by = {} /\ ~Nothing.twice /\ Nothing \notin RingFrames
BY DEF Nothing, Frame, RingFrames, Spots

\* Upsets are counted up to their bound.
LEMMA UpsetType ==
  ASSUME RedTypeOK, NEW kind \in {"lost", "late", "cable"}, Upset(kind)
  PROVE  /\ upsets' = upsets + 1 /\ upsets' \in 0 .. MaxUpsets
         /\ recabled \in 0 .. upsets' /\ recabled + 1 \in 0 .. upsets'
         /\ troubles' \subseteq {"lost", "late", "cable"} /\ kind \in troubles'
BY RedAssumption DEF RedTypeOK, Upset

LEMMA WaitType ==
  ASSUME RedTypeOK, \/ WaitEnds(From(0) # "none" /\ From(1) # "none")
                    \/ WaitEnds(From(1) # "none")
  PROVE  /\ upsets' \in 0 .. MaxUpsets /\ recabled \in 0 .. upsets'
         /\ troubles' \subseteq {"lost", "late", "cable"} /\ troubles \subseteq troubles'
<1>1. UNCHANGED <<upsets, troubles>> \/ Upset("late")
  BY DEF WaitEnds
<1>2. CASE UNCHANGED <<upsets, troubles>>
  BY <1>2 DEF RedTypeOK
<1>3. CASE Upset("late")
  BY <1>3, UpsetType DEF Upset
<1> QED
  BY <1>1, <1>2, <1>3

\* What a wait that ended leaves unread is late, or was lost.
LEMMA WaitIs ==
  /\ WaitEnds(From(0) # "none" /\ From(1) # "none")
       => (From(0) # "none" /\ From(1) # "none") \/ line = {} \/ "late" \in troubles'
  /\ WaitEnds(From(1) # "none") => From(1) # "none" \/ line = {} \/ "late" \in troubles'
BY DEF WaitEnds, Upset

\* The port starts idle (ecx_setupnic).
LEMMA InitRedInv == RedInit => RedInv
<1> SUFFICES ASSUME RedInit PROVE RedInv
  OBVIOUS
<1>1. RedTypeOK
  <2>1. 0 \in 0 .. MaxTries /\ 0 \in 0 .. MaxUpsets /\ 0 \in 0 .. 0
    BY RedAssumption
  <2>2. stacks \in [0 .. 1 -> RingFrames \cup {Nothing}]
    BY DEF RedInit
  <2> QED
    BY <2>1, <2>2 DEF RedInit, RedTypeOK
<1>2. Spotted /\ TxInv /\ FreshInv /\ OnceInv /\ DummyInv /\ CalmInv
  BY NothingIs DEF RedInit, Spotted, TxInv, FreshInv, OnceInv, DummyInv, CalmInv, Data, Dummy, Part
<1> QED
  BY <1>1, <1>2 DEF RedInv

-----------------------------------------------------------------------------
\* The types of the variables, and which socket a received frame was read from.
LEMMA NextRedType == RedTypeOK /\ Spotted /\ [RedNext]_redvars => RedTypeOK' /\ Spotted'
<1> SUFFICES ASSUME RedTypeOK, Spotted, [RedNext]_redvars PROVE RedTypeOK' /\ Spotted'
  OBVIOUS
<1> USE RedAssumption
<1>s. ASSUME NEW data \in SUBSET Ring, NEW earlier \in SUBSET RingFrames,
             tries' \in 0 .. MaxTries, Sent(data, earlier)
      PROVE  /\ line' \subseteq RingFrames /\ place' = "both"
             /\ stacks' \in [0 .. 1 -> RingFrames \cup {Nothing}] /\ Spotted'
  <2>1. /\ Frame("out0", "primary", data, 2 * tries') \in RingFrames
        /\ Frame("out1", "secondary", {}, 2 * tries') \in RingFrames
    BY <1>s, FrameIs DEF Spots
  <2> QED
    BY <1>s, <2>1 DEF Sent, Spotted
<1>1. CASE SendRed
  <2>1. tries' = 1 /\ Sent({}, {}) /\ txdata' = {} /\ answer' = Nothing /\ recabled' = 0
        /\ troubles' = {} /\ UNCHANGED <<cut, upsets>> /\ confirm' \in BOOLEAN
    BY <1>1 DEF SendRed
  <2>2. line' \subseteq RingFrames /\ place' = "both" /\ Spotted'
        /\ stacks' \in [0 .. 1 -> RingFrames \cup {Nothing}]
    BY <1>s, <2>1
  <2> QED
    BY <2>1, <2>2 DEF RedTypeOK
<1>2. ASSUME NEW k \in 0 .. 1, ReadStack(k) PROVE RedTypeOK' /\ Spotted'
  BY <1>2, NothingIs DEF ReadStack, RedTypeOK, Spotted
<1>3. CASE TakeSwapped
  BY <1>3, WaitType DEF TakeSwapped, Answers, RedTypeOK, Spotted, From
<1>4. CASE SendOn
  <2>1. Combined \in SUBSET Ring
    BY DEF Combined, RedTypeOK, RingFrames, From, Nothing, Frame
  <2>2. Frame("out1", "primary", Combined, 2 * tries + 1) \in RingFrames
    BY <2>1, FrameIs DEF Spots, RedTypeOK
  <2> QED
    BY <1>4, <2>1, <2>2, WaitType DEF SendOn, RedTypeOK, Spotted
<1>5. CASE TakePrimary
  BY <1>5, WaitType DEF TakePrimary, Answers, RedTypeOK, Spotted
<1>6. CASE TakeResent
  BY <1>6, WaitType DEF TakeResent, Answers, RedTypeOK, Spotted
<1>7. CASE RetryRed
  <2>1. tries' \in 0 .. MaxTries /\ Sent(txdata, line) /\ txdata \in SUBSET Ring
        /\ line \in SUBSET RingFrames
        /\ UNCHANGED <<cut, txdata, confirm, answer, upsets, troubles, recabled>>
    BY <1>7 DEF RetryRed, RedTypeOK
  <2>2. line' \subseteq RingFrames /\ place' = "both" /\ Spotted'
        /\ stacks' \in [0 .. 1 -> RingFrames \cup {Nothing}]
    BY <1>s, <2>1
  <2> QED
    BY <2>1, <2>2 DEF RedTypeOK
<1>8. CASE ReturnRed
  BY <1>8 DEF ReturnRed, RedTypeOK, Spotted
<1>9. CASE Travel
  <2>1. line' \subseteq RingFrames
    BY <1>9, TravelIs, ArrivedIs DEF RedTypeOK
  <2> QED
    BY <1>9, <2>1 DEF Travel, RedTypeOK, Spotted
<1>10. CASE LoseRing
  BY <1>10, UpsetType DEF LoseRing, RedTypeOK, Spotted
<1>11. CASE CutOrMend
  BY <1>11, UpsetType DEF CutOrMend, RedTypeOK, Spotted
<1>12. CASE UNCHANGED redvars
  BY <1>12 DEF redvars, RedTypeOK, Spotted
<1> QED
  BY <1>1, <1>2, <1>3, <1>4, <1>5, <1>6, <1>7, <1>8, <1>9, <1>10, <1>11, <1>12 DEF RedNext

(***************************************************************************)
(* What is in txbuf is what the caller put there until the primary answer  *)
(* is copied into it, and then that answer.                                *)
(***************************************************************************)
LEMMA NextTxInv == RedTypeOK /\ TxInv /\ [RedNext]_redvars => TxInv'
<1> SUFFICES ASSUME RedTypeOK, TxInv, [RedNext]_redvars PROVE TxInv'
  OBVIOUS
<1>0. /\ \A k \in 0 .. 1 : stacks[k] \in RingFrames \cup {Nothing}
      /\ \A k \in 0 .. 1 : From(k) = "none" <=> stacks[k] = Nothing
  BY NothingIs DEF RedTypeOK, From, RingFrames
<1>1. CASE SendRed
  BY <1>1 DEF SendRed, Sent, TxInv
<1>2. ASSUME NEW k \in 0 .. 1, ReadStack(k) PROVE TxInv'
  BY <1>2 DEF ReadStack, TxInv, RedTypeOK
<1>3. CASE TakeSwapped
  BY <1>0, <1>3, NothingIs DEF TakeSwapped, Answers, TxInv, From
<1>4. CASE SendOn
  <2>1. place' = "resent" /\ stacks'[0] = stacks[0] /\ txdata' = Combined
    BY <1>4 DEF SendOn, RedTypeOK
  <2>2. From(0) \in {"none", "primary"} /\ (From(0) = "none" => txdata = {})
    BY <1>4 DEF SendOn, Torn, TxInv
  <2>3. Combined = stacks[0].by
    BY <1>0, <2>2, NothingIs DEF Combined
  <2> QED
    BY <2>1, <2>2, <2>3 DEF TxInv, Dummy, From
<1>5. CASE TakePrimary
  BY <1>5 DEF TakePrimary, Answers, TxInv
<1>6. CASE TakeResent
  BY <1>0, <1>6, NothingIs DEF TakeResent, Answers, TxInv
<1>7. CASE RetryRed
  BY <1>7 DEF RetryRed, Sent, TxInv
<1>8. CASE ReturnRed
  BY <1>8 DEF ReturnRed, TxInv
<1>9. CASE Travel \/ LoseRing \/ CutOrMend \/ UNCHANGED redvars
  BY <1>9 DEF Travel, LoseRing, CutOrMend, redvars, TxInv
<1> QED
  BY <1>1, <1>2, <1>3, <1>4, <1>5, <1>6, <1>7, <1>8, <1>9 DEF RedNext

(***************************************************************************)
(* No slave has processed a datagram that has not left yet, nor a dummy    *)
(* that went all the way round.                                            *)
(***************************************************************************)
LEMMA NextFreshInv == RedTypeOK /\ TxInv /\ FreshInv /\ [RedNext]_redvars => FreshInv'
<1> SUFFICES ASSUME RedTypeOK, TxInv, FreshInv, [RedNext]_redvars PROVE FreshInv'
  OBVIOUS
<1>s. ASSUME tries' \in Nat, Sent({}, {}) \/ Sent({}, line)
      PROVE  FreshInv'
  <2> DEFINE data == Frame("out0", "primary", {}, 2 * tries')
             dummy == Frame("out1", "secondary", {}, 2 * tries')
  <2>1. /\ data.at = "out0" /\ data.from = "primary" /\ data.by = {}
        /\ dummy.at = "out1" /\ dummy.from = "secondary" /\ dummy.by = {}
    BY DEF Frame
  <2>2. line' \subseteq line \cup {data, dummy} /\ stacks'[0] = Nothing
    BY <1>s DEF Sent
  <2> QED
    BY <2>1, <2>2, NothingIs DEF FreshInv, Data, Dummy
<1>1. CASE SendRed
  BY <1>s, <1>1 DEF SendRed
<1>2. ASSUME NEW k \in 0 .. 1, ReadStack(k) PROVE FreshInv'
  BY <1>2 DEF ReadStack, FreshInv, RedTypeOK
<1>3. CASE SendOn
  <2>1. Data(Frame("out1", "primary", Combined, 2 * tries + 1))
    BY DEF Frame, Data
  <2>2. Frame("out1", "primary", Combined, 2 * tries + 1).at = "out1"
    BY DEF Frame
  <2>3. stacks'[0] = stacks[0]
    BY <1>3 DEF SendOn, RedTypeOK
  <2> QED
    BY <1>3, <2>1, <2>2, <2>3 DEF SendOn, FreshInv, Data, Dummy
<1>4. CASE TakeSwapped \/ TakePrimary \/ TakeResent \/ ReturnRed
  BY <1>4 DEF TakeSwapped, TakePrimary, TakeResent, ReturnRed, FreshInv
<1>5. CASE RetryRed
  <2>1. tries' \in Nat /\ txdata = {} /\ Sent(txdata, line)
    BY <1>5 DEF RetryRed, TxInv, RedTypeOK
  <2> QED
    BY <1>s, <2>1
<1>6. CASE Travel
  <2>1. PICK f \in line : /\ f \in RingFrames /\ f.at \in {"out0", "out1"}
                          /\ line' = (line \ {f}) \cup (IF LinkDown(f) THEN {} ELSE {Arrived(f)})
    BY <1>6, TravelIs
  <2>2. Arrived(f).at = "in0" /\ Dummy(Arrived(f)) => Arrived(f).by = {}
    BY <2>1, ArrivedIs DEF FreshInv, Data, Dummy, Behind
  <2>3. Arrived(f).at \in {"in0", "in1"}
    BY <2>1, ArrivedIs
  <2> QED
    BY <1>6, <2>1, <2>2, <2>3 DEF Travel, FreshInv
<1>7. CASE LoseRing \/ CutOrMend \/ UNCHANGED redvars
  BY <1>7 DEF LoseRing, CutOrMend, redvars, FreshInv
<1> QED
  BY <1>1, <1>2, <1>3, <1>4, <1>5, <1>6, <1>7 DEF RedNext

(***************************************************************************)
(* A change of one cable: the slaves in front of the cuts before are not   *)
(* behind those after it.                                                  *)
(***************************************************************************)
LEMMA PartKept ==
  ASSUME RedTypeOK, NEW by, Part(by), recabled = 0, recabled' = 1, CutOrMend
  PROVE  Part(by)'
<1>1. PICK c \in Cables : cut' = IF c \in cut THEN cut \ {c} ELSE cut \cup {c}
  BY DEF CutOrMend
<1>2. by = {} \/ (cut # {} /\ by \subseteq InFront)
  BY DEF Part
<1>3. ASSUME by \subseteq InFront, cut # {}, NEW s \in by, s \in Behind' PROVE FALSE
  <2>1. s \in Ring /\ (\A d \in cut : s <= d) /\ cut' # {} /\ (\A d \in cut' : s > d)
    BY <1>3 DEF InFront, Behind
  <2>2. PICK d : d \in cut /\ d \in cut'
    BY <1>1, <1>3, <2>1
  <2>3. s <= d /\ s > d /\ s \in Int /\ d \in Int
    BY <2>1, <2>2, RedAssumption DEF Ring, RedTypeOK, Cables
  <2> QED
    BY <2>3
<1> QED
  BY <1>2, <1>3 DEF Part

\* The slaves on the two sides of the cuts are different ones.
LEMMA Sides ==
  ASSUME RedTypeOK
  PROVE  /\ InFront \subseteq Ring /\ Behind \subseteq Ring
         /\ cut # {} => InFront \cap Behind = {}
         /\ cut = {} => InFront = Ring /\ Behind = {}
<1>1. ASSUME cut # {}, NEW s \in InFront, s \in Behind PROVE FALSE
  <2>1. PICK c \in cut : TRUE
    BY <1>1
  <2>2. s \in Int /\ c \in Int /\ s <= c /\ s > c
    BY <1>1, <2>1, RedAssumption DEF InFront, Behind, Ring, Cables, RedTypeOK
  <2> QED
    BY <2>2
<1> QED
  BY <1>1 DEF InFront, Behind

(***************************************************************************)
(* No frame meets a slave a second time, unless the cables change twice:   *)
(* what goes on from the secondary socket has only been in front of the    *)
(* cut, and what of it comes back there has turned round at the cut.       *)
(***************************************************************************)
LEMMA NextOnceInv ==
  RedTypeOK /\ TxInv /\ FreshInv /\ OnceInv /\ [RedNext]_redvars => OnceInv'
<1> SUFFICES ASSUME RedTypeOK, TxInv, FreshInv, OnceInv, [RedNext]_redvars, recabled' <= 1
             PROVE  OnceInv'
  BY DEF OnceInv
<1>p. Part({})'
  BY DEF Part
<1>s. ASSUME tries' \in Nat, NEW earlier \in SUBSET line, Sent({}, earlier)
      PROVE  /\ \A f \in line' : f \in earlier \/ (~f.twice /\ f.by = {})
             /\ stacks'[0] = Nothing /\ stacks'[1] = Nothing
  <2>1. /\ ~Frame("out0", "primary", {}, 2 * tries').twice
        /\ Frame("out0", "primary", {}, 2 * tries').by = {}
        /\ ~Frame("out1", "secondary", {}, 2 * tries').twice
        /\ Frame("out1", "secondary", {}, 2 * tries').by = {}
    BY DEF Frame
  <2> QED
    BY <1>s, <2>1 DEF Sent
<1>1. CASE SendRed
  <2>1. tries' \in Nat /\ Sent({}, {}) /\ answer' = Nothing
    BY <1>1 DEF SendRed
  <2> QED
    BY <1>p, <1>s, <2>1, NothingIs DEF OnceInv, Data
<1>2. CASE RetryRed
  <2>1. /\ tries' \in Nat /\ txdata = {} /\ Sent(txdata, line)
        /\ UNCHANGED <<cut, answer, recabled>>
    BY <1>2 DEF RetryRed, TxInv, RedTypeOK
  <2>2. \A by : Part(by)' <=> Part(by)
    BY <2>1 DEF Part, InFront, Behind
  <2> QED
    BY <1>p, <1>s, <2>1, <2>2, NothingIs DEF OnceInv, Data
<1>3. CASE CutOrMend
  <2>1. /\ UNCHANGED <<line, stacks, answer>> /\ recabled = 0 /\ recabled' = 1
    BY <1>3 DEF CutOrMend, RedTypeOK
  <2>2. \A by : Part(by) => Part(by)'
    BY <1>3, <2>1, PartKept
  <2> QED
    BY <2>1, <2>2 DEF OnceInv
<1>4. ASSUME UNCHANGED <<cut, recabled>>,
             \/ \E k \in 0 .. 1 : ReadStack(k)
             \/ TakeSwapped \/ SendOn \/ TakePrimary \/ TakeResent \/ ReturnRed
             \/ Travel \/ LoseRing \/ UNCHANGED redvars
      PROVE OnceInv'
  <2>0. recabled <= 1 /\ \A by : Part(by)' <=> Part(by)
    BY <1>4 DEF Part, InFront, Behind
  <2>1. ASSUME NEW k \in 0 .. 1, ReadStack(k) PROVE OnceInv'
    BY <2>0, <2>1, NothingIs DEF ReadStack, OnceInv, RedTypeOK, Data
  <2>2. CASE TakeSwapped \/ TakePrimary \/ TakeResent
    BY <2>0, <2>2 DEF TakeSwapped, TakePrimary, TakeResent, Answers, OnceInv
  <2>3. CASE SendOn
    <3> DEFINE onward == Frame("out1", "primary", Combined, 2 * tries + 1)
    <3>1. onward.by = Combined /\ ~onward.twice
      BY DEF Frame
    <3>2. /\ line' = line \cup {onward} /\ stacks'[0] = stacks[0] /\ stacks'[1] = Nothing
          /\ answer' = answer
      BY <2>3 DEF SendOn, RedTypeOK
    <3>3. Part(Combined)
      <4>1. From(0) # "primary" => Combined = {}
        BY <2>3 DEF SendOn, Combined, TxInv
      <4> QED
        BY <1>p, <2>0, <4>1 DEF Combined, OnceInv, From, Data
    <3> HIDE DEF onward
    <3> QED
      BY <2>0, <3>1, <3>2, <3>3, NothingIs DEF OnceInv
  <2>4. CASE Travel
    <3>1. PICK f \in line : /\ f \in RingFrames /\ f.at \in {"out0", "out1"}
                            /\ line' = (line \ {f}) \cup (IF LinkDown(f) THEN {} ELSE {Arrived(f)})
      BY <2>4, TravelIs
    <3>2. f.at = "out0" => Data(f) /\ f.by = {}
      BY <3>1 DEF FreshInv
    <3>3. ~f.twice /\ (f.at = "out1" => Part(f.by)) /\ f.by \subseteq Ring
      BY <2>0, <3>1 DEF OnceInv, RingFrames
    <3>4. /\ Arrived(f).at \in {"in0", "in1"} /\ ~Arrived(f).twice
          /\ Arrived(f).at = "in0" => Part(Arrived(f).by)
      <4>1. recabled \in {0, 1}
        BY <2>0 DEF RedTypeOK
      <4>2. CASE f.at = "out0"
        BY <3>1, <3>2, <3>3, <4>1, <4>2, ArrivedIs, Sides DEF Part
      <4>3. CASE f.at = "out1"
        <5>1. f.by \cap Behind = {}
          BY <3>3, <4>1, <4>3, Sides DEF Part
        <5>2. cut = {} => f.by \cup Behind = f.by
          BY Sides
        <5> QED
          BY <3>1, <3>3, <4>3, <5>1, <5>2, ArrivedIs
      <4> QED
        BY <3>1, <4>2, <4>3
    <3> QED
      BY <2>0, <2>4, <3>1, <3>4 DEF Travel, OnceInv
  <2>5. CASE ReturnRed \/ LoseRing \/ UNCHANGED redvars
    BY <2>0, <2>5 DEF ReturnRed, LoseRing, redvars, OnceInv
  <2> QED
    BY <1>4, <2>1, <2>2, <2>3, <2>4, <2>5
<1>5. UNCHANGED <<cut, recabled>> \/ SendRed \/ RetryRed \/ CutOrMend
  BY DEF RedNext, ReadStack, TakeSwapped, SendOn, TakePrimary, TakeResent, ReturnRed, Travel,
         LoseRing, redvars
<1> QED
  BY <1>1, <1>2, <1>3, <1>4, <1>5 DEF RedNext

(***************************************************************************)
(* There is one dummy, and none any more when the datagram is sent on: it  *)
(* cannot be taken for the answer of the second part of the line.          *)
(***************************************************************************)
LEMMA NextDummyInv ==
  RedTypeOK /\ TxInv /\ FreshInv /\ DummyInv /\ [RedNext]_redvars => DummyInv'
<1> SUFFICES ASSUME RedTypeOK, TxInv, FreshInv, DummyInv, [RedNext]_redvars, "late" \notin troubles'
             PROVE  DummyInv'
  BY DEF DummyInv
<1>0. /\ \A k \in 0 .. 1 : stacks[k] \in RingFrames \cup {Nothing}
      /\ \A k \in 0 .. 1 : From(k) = "none" <=> stacks[k] = Nothing
      /\ \A k \in 0 .. 1 : From(k) \in {"none", "primary", "secondary"}
  BY NothingIs DEF RedTypeOK, From, RingFrames
<1>s. ASSUME tries' \in Nat, NEW data, Sent(data, {}) PROVE DummyInv'
  <2> DEFINE first == Frame("out0", "primary", data, 2 * tries')
             second == Frame("out1", "secondary", {}, 2 * tries')
  <2>1. ~Dummy(first) /\ Dummy(second)
    BY DEF Frame, Dummy
  <2>2. line' = {first, second} /\ place' = "both" /\ stacks'[0] = Nothing /\ stacks'[1] = Nothing
    BY <1>s DEF Sent
  <2> HIDE DEF first, second
  <2> QED
    BY <2>1, <2>2, NothingIs DEF DummyInv, Dummy
<1>1. CASE SendRed
  BY <1>s, <1>1 DEF SendRed
<1>2. CASE RetryRed
  <2>1. /\ tries' \in Nat /\ Sent(txdata, line) /\ place = "done" /\ answer = Nothing
        /\ "late" \notin troubles
    BY <1>2 DEF RetryRed, RedTypeOK
  <2>2. line = {}
    BY <2>1 DEF DummyInv
  <2> QED
    BY <1>s, <2>1, <2>2
<1>3. ASSUME NEW k \in 0 .. 1, ReadStack(k) PROVE DummyInv'
  <2>1. PICK f \in line : /\ line' = line \ {f} /\ stacks' = [stacks EXCEPT ![k] = f]
                          /\ place \in {"both", "resent"} /\ (place = "resent" => k = 1)
                          /\ UNCHANGED <<place, answer, troubles>>
    BY <1>3 DEF ReadStack
  <2>2. stacks'[k] = f /\ \A j \in 0 .. 1 : j # k => stacks'[j] = stacks[j]
    BY <2>1 DEF RedTypeOK
  <2> QED
    BY <2>1, <2>2 DEF DummyInv
<1>4. CASE TakeSwapped
  <2>1. place' = "done" /\ answer' = stacks[1] /\ From(1) = "primary"
    BY <1>4 DEF TakeSwapped, Answers
  <2> QED
    BY <2>1, NothingIs DEF DummyInv, Dummy, From
<1>5. CASE SendOn
  <2>1. /\ place = "both" /\ Torn /\ "late" \notin troubles
        /\ line' = line \cup {Frame("out1", "primary", Combined, 2 * tries + 1)}
        /\ place' = "resent" /\ stacks'[1] = Nothing
    BY <1>5, WaitType DEF SendOn, RedTypeOK
  <2>2. \A f \in line : ~Dummy(f)
    BY <2>1 DEF DummyInv, Torn, From, Dummy
  <2>3. ~Dummy(Frame("out1", "primary", Combined, 2 * tries + 1))
    BY DEF Frame, Dummy
  <2> QED
    BY <2>1, <2>2, <2>3, NothingIs DEF DummyInv, Dummy
<1>6. CASE TakePrimary
  <2>1. /\ place' = "done" /\ answer' = stacks[0] /\ line' = line
        /\ (From(0) # "none" /\ From(1) # "none") \/ line = {}
    BY <1>6, WaitIs DEF TakePrimary, Answers
  <2> QED
    BY <1>0, <2>1 DEF DummyInv, FreshInv
<1>7. CASE TakeResent
  <2>1. /\ place = "resent" /\ place' = "done" /\ line' = line /\ "late" \notin troubles
        /\ answer' = (IF From(1) # "none" THEN stacks[1] ELSE stacks[0])
        /\ From(1) # "none" \/ line = {}
    BY <1>7, WaitIs, WaitType DEF TakeResent, Answers
  <2>2. ~Dummy(stacks[0]) /\ ~Dummy(stacks[1])
    BY <2>1 DEF DummyInv, TxInv
  <2> QED
    BY <1>0, <2>1, <2>2 DEF DummyInv
<1>8. CASE ReturnRed
  BY <1>8 DEF ReturnRed, DummyInv
<1>9. CASE Travel
  <2>1. PICK f \in line : /\ f \in RingFrames /\ f.at \in {"out0", "out1"}
                          /\ line' = (line \ {f}) \cup (IF LinkDown(f) THEN {} ELSE {Arrived(f)})
    BY <1>9, TravelIs
  <2>2. Dummy(Arrived(f)) <=> Dummy(f)
    BY <2>1, ArrivedIs DEF Dummy
  <2>3. UNCHANGED <<stacks, place, answer, troubles>>
    BY <1>9 DEF Travel
  <2> QED
    BY <2>1, <2>2, <2>3 DEF DummyInv
<1>10. CASE LoseRing
  BY <1>10 DEF LoseRing, Upset, DummyInv
<1>11. CASE CutOrMend \/ UNCHANGED redvars
  BY <1>11 DEF CutOrMend, Upset, redvars, DummyInv
<1> QED
  BY <1>1, <1>2, <1>3, <1>4, <1>5, <1>6, <1>7, <1>8, <1>9, <1>10, <1>11 DEF RedNext

(***************************************************************************)
(* With at most one cable cut, the slaves are those in front of it and     *)
(* those behind it, and a cut of the last cable leaves all in front.       *)
(***************************************************************************)
LEMMA TwoParts ==
  ASSUME RedTypeOK, OneCut
  PROVE  /\ cut # {} => InFront \cup Behind = Ring
         /\ 0 \in cut => InFront = {}
         /\ Last \in cut => InFront = Ring /\ 0 \notin cut
<1>1. \A c \in cut : cut = {c} /\ c \in 0 .. Last
  BY DEF OneCut, RedTypeOK, Cables
<1>2. ASSUME NEW c \in cut PROVE InFront = {s \in Ring : s <= c} /\ Behind = {s \in Ring : s > c}
  BY <1>1, <1>2 DEF InFront, Behind
<1>3. ASSUME cut # {} PROVE InFront \cup Behind = Ring
  <2>1. PICK c \in cut : TRUE
    BY <1>3
  <2>2. \A s \in Ring : s <= c \/ s > c
    BY <1>1, <2>1, RedAssumption DEF Ring
  <2> QED
    BY <1>2, <2>1, <2>2
<1>4. ASSUME 0 \in cut PROVE InFront = {}
  <2>1. InFront = {s \in Ring : s <= 0}
    BY <1>2, <1>4
  <2> QED
    BY <2>1, RedAssumption DEF Ring
<1>5. ASSUME Last \in cut PROVE InFront = Ring /\ 0 \notin cut
  <2>1. InFront = {s \in Ring : s <= Last} /\ cut = {Last}
    BY <1>1, <1>2, <1>5
  <2> QED
    BY <2>1, RedAssumption DEF Ring
<1> QED
  BY <1>3, <1>4, <1>5

(***************************************************************************)
(* While nothing goes wrong, where the two frames are tells where the line *)
(* is cut, and ecx_waitinframe_red takes or completes the right one.       *)
(***************************************************************************)
LEMMA NextCalmInv ==
  /\ RedTypeOK /\ Spotted /\ TxInv /\ FreshInv /\ DummyInv /\ CalmInv
  /\ [RedNext]_redvars
  => CalmInv'
<1> SUFFICES ASSUME RedTypeOK, Spotted, TxInv, FreshInv, DummyInv, CalmInv, [RedNext]_redvars,
                    troubles' = {}, OneCut'
             PROVE  CalmInv'
  BY DEF CalmInv
<1>0. /\ \A k \in 0 .. 1 : stacks[k] \in RingFrames \cup {Nothing}
      /\ \A k \in 0 .. 1 : /\ From(k) = "none" <=> stacks[k] = Nothing
                           /\ From(k) = "primary" <=> Data(stacks[k])
                           /\ From(k) = "secondary" <=> Dummy(stacks[k])
      /\ \A k \in 0 .. 1 : From(k) \in {"none", "primary", "secondary"}
  BY NothingIs DEF RedTypeOK, From, RingFrames, Data, Dummy
<1>1. CASE SendRed
  <2> DEFINE first == Frame("out0", "primary", {}, 2 * tries')
             second == Frame("out1", "secondary", {}, 2 * tries')
  <2>1. /\ first.at = "out0" /\ Data(first) /\ second.at = "out1" /\ Dummy(second) /\ ~Data(second)
    BY DEF Frame, Dummy, Data
  <2>2. line' = {first, second} /\ place' = "both" /\ stacks' = [k \in 0 .. 1 |-> Nothing]
    BY <1>1 DEF SendRed, Sent
  <2> HIDE DEF first, second
  <2>3. (\A f \in line : Comes(f))'
    BY <2>1, <2>2 DEF Comes
  <2>4. Somewhere(Data)' /\ Somewhere(Dummy)'
    BY <2>1, <2>2 DEF Somewhere, Data, Dummy
  <2> QED
    BY <2>2, <2>3, <2>4 DEF CalmInv
<1>c. ASSUME ~SendRed
      PROVE  /\ UNCHANGED <<cut, troubles>> /\ troubles = {} /\ OneCut
             /\ \A f \in line : Comes(f)
             /\ place \in {"both", "resent"} => \A k \in 0 .. 1 : stacks[k] # Nothing => Comes(stacks[k])
             /\ place = "both" => (0 \in cut \/ Somewhere(Data)) /\ (Last \in cut \/ Somewhere(Dummy))
             /\ place = "resent" => /\ cut # {} /\ Last \notin cut
                                    /\ \/ \E f \in line : Data(f) /\ f.at \in {"out1", "in1"}
                                       \/ Data(stacks[1])
             /\ place = "done" => Data(answer) /\ answer.by = Ring
  <2>1. UNCHANGED <<cut, troubles>>
    BY <1>c DEF RedNext, ReadStack, TakeSwapped, SendOn, TakePrimary, TakeResent, RetryRed, ReturnRed,
               Travel, LoseRing, CutOrMend, redvars, WaitEnds, Upset
  <2>2. troubles = {} /\ OneCut
    BY <2>1 DEF OneCut
  <2> QED
    BY <2>1, <2>2 DEF CalmInv
<1>f. ASSUME ~SendRed, UNCHANGED place
      PROVE  \A f : (Comes(f)') <=> Comes(f)
  BY <1>c, <1>f DEF Comes, InFront
<1>2. ASSUME ~SendRed, NEW k \in 0 .. 1, ReadStack(k) PROVE CalmInv'
  <2>1. PICK f \in line : /\ line' = line \ {f} /\ stacks' = [stacks EXCEPT ![k] = f]
                          /\ place \in {"both", "resent"} /\ (place = "resent" => k = 1)
                          /\ f.at = (IF k = 0 THEN "in0" ELSE "in1")
                          /\ stacks[k] = Nothing /\ UNCHANGED <<place, answer>>
    BY <1>2 DEF ReadStack
  <2>2. stacks'[k] = f /\ \A j \in 0 .. 1 : j # k => stacks'[j] = stacks[j]
    BY <2>1 DEF RedTypeOK
  <2>3. /\ (\A g \in line : Comes(g))'
        /\ (\A j \in 0 .. 1 : stacks[j] # Nothing => Comes(stacks[j]))'
    BY <1>2, <1>c, <1>f, <2>1, <2>2
  <2>4. place = "both" => /\ Somewhere(Data) => Somewhere(Data)'
                          /\ Somewhere(Dummy) => Somewhere(Dummy)'
    <3>1. ~Data(stacks[k]) /\ ~Dummy(stacks[k])
      BY <2>1, NothingIs DEF Data, Dummy
    <3> QED
      BY <2>1, <2>2, <3>1 DEF Somewhere
  <2>5. place = "resent" => Data(f)
    BY <1>2, <1>c, <2>1 DEF DummyInv, RedTypeOK, RingFrames, Data, Dummy
  <2> QED
    BY <1>2, <1>c, <2>1, <2>2, <2>3, <2>4, <2>5 DEF CalmInv
<1>3. ASSUME ~SendRed, TakeSwapped PROVE CalmInv'
  <2>1. /\ place = "both" /\ place' = "done" /\ answer' = stacks[1] /\ UNCHANGED line
        /\ From(1) = "primary"
    BY <1>3 DEF TakeSwapped, Answers
  <2>2. Data(stacks[1]) /\ stacks[1].at = "in1" /\ Comes(stacks[1])
    BY <1>0, <1>3, <1>c, <2>1 DEF Spotted
  <2>3. stacks[1].by = Ring
    BY <2>2 DEF Comes
  <2>4. (\A f \in line : Comes(f))'
    BY <1>3, <1>c, <2>1 DEF Comes, InFront
  <2> QED
    BY <2>1, <2>2, <2>3, <2>4 DEF CalmInv, Data
<1>4. ASSUME ~SendRed, SendOn PROVE CalmInv'
  <2>0. PICK onward : onward = Frame("out1", "primary", Combined, 2 * tries + 1)
    OBVIOUS
  <2>1. onward.at = "out1" /\ Data(onward) /\ onward.by = Combined
    BY <2>0 DEF Frame, Data
  <2>2. /\ place = "both" /\ place' = "resent" /\ Torn /\ line' = line \cup {onward}
        /\ stacks'[0] = stacks[0] /\ stacks'[1] = Nothing
        /\ (From(0) # "none" /\ From(1) # "none") \/ line = {}
    BY <1>4, <2>0, WaitIs DEF SendOn, RedTypeOK
  <2>3. cut # {} /\ Last \notin cut
    <3>1. Dummy(stacks[1]) /\ stacks[1].at = "in1" /\ Comes(stacks[1])
      BY <1>0, <1>4, <1>c, <2>2, NothingIs DEF Torn, Spotted
    <3> QED
      BY <3>1 DEF Comes, Data, Dummy
  <2>4. Combined = InFront
    <3>1. CASE From(0) = "primary"
      <4>1. Data(stacks[0]) /\ stacks[0].at = "in0" /\ Comes(stacks[0])
        BY <1>0, <1>4, <1>c, <2>2, <3>1 DEF Spotted
      <4> QED
        BY <3>1, <4>1 DEF Comes, Combined
    <3>2. CASE From(0) = "none"
      <4>1. ~Somewhere(Data)
        BY <1>0, <2>2, <3>2 DEF Somewhere, Torn
      <4>2. InFront = {}
        BY <1>4, <1>c, <2>2, <4>1, TwoParts
      <4> QED
        BY <2>2, <3>2, <4>2 DEF Combined, TxInv
    <3> QED
      BY <2>2, <3>1, <3>2 DEF Torn
  <2>5. /\ (\A f \in line : Comes(f))'
        /\ (\A k \in 0 .. 1 : stacks[k] # Nothing => Comes(stacks[k]))'
    <3>1. \A f : f.at # "out1" /\ Comes(f) => Comes(f)'
      BY <1>4, <1>c, <2>2 DEF Comes, InFront
    <3>2. \A f \in line : Comes(f)'
      BY <1>4, <1>c, <2>2 DEF Comes, InFront
    <3>3. Comes(onward)'
      BY <1>4, <1>c, <2>1, <2>2, <2>3, <2>4 DEF Comes, InFront
    <3>4. stacks[0] # Nothing => Comes(stacks[0])'
      BY <1>4, <1>c, <2>2, <3>1 DEF Spotted
    <3> QED
      BY <2>2, <3>2, <3>3, <3>4
  <2> QED
    BY <1>4, <1>c, <2>1, <2>2, <2>3, <2>5 DEF CalmInv
<1>5. ASSUME ~SendRed, TakePrimary PROVE CalmInv'
  <2>1. /\ place = "both" /\ place' = "done" /\ answer' = stacks[0] /\ UNCHANGED line
        /\ ~Torn /\ ~(From(0) = "secondary" /\ From(1) = "primary")
        /\ (From(0) # "none" /\ From(1) # "none") \/ line = {}
    BY <1>5, WaitIs DEF TakePrimary, Answers
  <2>2. /\ Data(stacks[0]) => cut # {} /\ stacks[0].by = InFront
        /\ Dummy(stacks[0]) => cut = {}
        /\ Data(stacks[1]) => cut = {}
        /\ Dummy(stacks[1]) => cut # {}
    <3>1. \A k \in 0 .. 1 : Data(stacks[k]) \/ Dummy(stacks[k])
                             => Comes(stacks[k]) /\ stacks[k].at = IF k = 0 THEN "in0" ELSE "in1"
      BY <1>5, <1>c, <2>1, NothingIs DEF Spotted, Data, Dummy
    <3>2. \A k \in 0 .. 1 : ~(Data(stacks[k]) /\ Dummy(stacks[k]))
      BY DEF Data, Dummy
    <3> QED
      BY <2>1, <3>1, <3>2 DEF Comes
  <2>3. From(1) = "none" /\ line = {}
    <3>1. From(1) # "secondary"
      BY <1>0, <2>1, <2>2 DEF Torn
    <3>2. CASE From(1) = "primary"
      <4>1. cut = {} /\ From(0) = "none"
        BY <1>0, <2>1, <2>2, <3>2
      <4>2. line = {} /\ Somewhere(Dummy)
        BY <1>5, <1>c, <2>1, <4>1
      <4> QED
        BY <1>0, <3>2, <4>1, <4>2 DEF Somewhere
    <3> QED
      BY <1>0, <2>1, <3>1, <3>2
  <2>4. Last \in cut
    <3>1. CASE Dummy(stacks[0])
      <4>1. Somewhere(Data)
        BY <1>5, <1>c, <2>1, <2>2, <3>1
      <4> QED
        BY <1>0, <2>3, <3>1, <4>1 DEF Somewhere
    <3> QED
      BY <1>0, <1>5, <1>c, <2>1, <2>3, <3>1 DEF Somewhere
  <2>5. InFront = Ring /\ Somewhere(Data)
    BY <1>5, <1>c, <2>1, <2>4, TwoParts
  <2>6. Data(stacks[0]) /\ stacks[0].by = Ring
    BY <1>0, <2>2, <2>3, <2>5 DEF Somewhere
  <2>7. (\A f \in line : Comes(f))'
    BY <2>1, <2>3
  <2> QED
    BY <2>1, <2>6, <2>7 DEF CalmInv, Data
<1>6. ASSUME ~SendRed, TakeResent PROVE CalmInv'
  <2>1. /\ place = "resent" /\ place' = "done" /\ UNCHANGED line
        /\ answer' = (IF From(1) # "none" THEN stacks[1] ELSE stacks[0])
        /\ From(1) # "none" \/ line = {}
    BY <1>6, WaitIs DEF TakeResent, Answers
  <2>2. From(1) = "primary"
    BY <1>0, <1>6, <1>c, <2>1 DEF DummyInv
  <2>3. Comes(stacks[1]) /\ stacks[1].at = "in1" /\ Data(stacks[1])
    BY <1>0, <1>6, <1>c, <2>1, <2>2 DEF Spotted
  <2>4. (\A f \in line : Comes(f))'
    BY <1>6, <1>c, <2>1 DEF Comes, InFront
  <2> QED
    BY <2>1, <2>2, <2>3, <2>4 DEF CalmInv, Comes, Data
<1>7. ASSUME ~SendRed, RetryRed PROVE CalmInv'
  BY <1>7, <1>c, NothingIs DEF RetryRed, Data
<1>8. ASSUME ~SendRed, ReturnRed PROVE CalmInv'
  BY <1>8 DEF ReturnRed, CalmInv
<1>9. ASSUME ~SendRed, Travel PROVE CalmInv'
  <2>1. PICK f \in line : /\ f \in RingFrames /\ f.at \in {"out0", "out1"}
                          /\ line' = (line \ {f}) \cup (IF LinkDown(f) THEN {} ELSE {Arrived(f)})
    BY <1>9, TravelIs
  <2>2. UNCHANGED <<stacks, place, answer>>
    BY <1>9 DEF Travel
  <2> DEFINE g == Arrived(f)
  <2>3. /\ f.at = "out0" => Data(f) /\ f.by = {}
        /\ f.at = "out1" /\ Data(f) => place # "both" /\ cut # {} /\ f.by = InFront
        /\ Data(f) <=> ~Dummy(f)
    BY <1>9, <1>c, <2>1 DEF FreshInv, Comes, RingFrames, Data, Dummy
  <2>4. /\ Data(g) <=> Data(f)
        /\ Dummy(g) <=> Dummy(f)
        /\ f.at = "out0" => g.at = (IF cut = {} THEN "in1" ELSE "in0") /\ g.by = f.by \cup InFront
        /\ f.at = "out1" => g.at = (IF cut = {} THEN "in0" ELSE "in1") /\ g.by = f.by \cup Behind
    BY <2>1, ArrivedIs DEF Data, Dummy
  <2> HIDE DEF g
  <2>5. ~LinkDown(f) => Comes(g)
    <3>1. CASE f.at = "out0"
      BY <2>3, <2>4, <3>1, Sides DEF Comes, Data, Dummy
    <3>2. CASE f.at = "out1"
      <4>1. Data(f) => g.by = Ring
        BY <1>9, <1>c, <2>3, <2>4, <3>2, TwoParts
      <4> QED
        BY <2>3, <2>4, <3>2, <4>1 DEF Comes, LinkDown, Data, Dummy
    <3> QED
      BY <2>1, <3>1, <3>2
  <2>6. (\A h \in line : Comes(h))'
    BY <1>9, <1>c, <1>f, <2>1, <2>2, <2>5 DEF g
  <2>7. /\ (\A k \in 0 .. 1 : stacks[k] # Nothing => Comes(stacks[k])) 
           => (\A k \in 0 .. 1 : stacks[k] # Nothing => Comes(stacks[k]))'
    BY <1>9, <1>f, <2>2
  <2>8. place = "both" => (0 \in cut \/ Somewhere(Data)') /\ (Last \in cut \/ Somewhere(Dummy)')
    <3>1. /\ Data(f) /\ place = "both" => f.at = "out0" /\ (LinkDown(f) => 0 \in cut)
          /\ Dummy(f) => f.at = "out1" /\ (LinkDown(f) => Last \in cut)
      BY <2>1, <2>3 DEF LinkDown
    <3>2. line' = (line \ {f}) \cup (IF LinkDown(f) THEN {} ELSE {g})
      BY <2>1 DEF g
    <3> QED
      BY <1>9, <1>c, <2>2, <2>4, <3>1, <3>2 DEF Somewhere
  <2>9. place = "resent" => \/ \E h \in line' : Data(h) /\ h.at \in {"out1", "in1"}
                            \/ Data(stacks[1])
    <3>1. ASSUME place = "resent", f.at = "out1" PROVE ~LinkDown(f) /\ g.at = "in1"
      BY <1>9, <1>c, <2>4, <3>1 DEF LinkDown
    <3>2. line' = (line \ {f}) \cup (IF LinkDown(f) THEN {} ELSE {g})
      BY <2>1 DEF g
    <3> QED
      BY <1>9, <1>c, <2>1, <2>4, <3>1, <3>2
  <2> QED
    BY <1>9, <1>c, <2>2, <2>6, <2>7, <2>8, <2>9 DEF CalmInv, Data
<1>10. ASSUME ~SendRed, LoseRing \/ CutOrMend PROVE CalmInv'
  BY <1>10 DEF LoseRing, CutOrMend, Upset
<1>11. ASSUME ~SendRed, UNCHANGED redvars PROVE CalmInv'
  BY <1>11, <1>c, <1>f DEF redvars, CalmInv, Somewhere, Data, Dummy
<1> QED
  BY <1>1, <1>2, <1>3, <1>4, <1>5, <1>6, <1>7, <1>8, <1>9, <1>10, <1>11 DEF RedNext

\* The inductive invariant says what RingAnswers says.
LEMMA RedInvAnswers == RedInv => RingAnswers
<1> SUFFICES ASSUME RedInv PROVE RingAnswers
  OBVIOUS
<1>1. CutSurvived
  BY DEF RedInv, CalmInv, CutSurvived, Data
<1>2. OnceEach
  BY DEF RedInv, OnceInv, OnceEach
<1>3. DummyUncounted
  BY DEF RedInv, DummyInv, DummyUncounted, Dummy
<1> QED
  BY <1>1, <1>2, <1>3 DEF RingAnswers

\* Every step of the redundant mode keeps the inductive invariant.
LEMMA NextRedInv == RedInv /\ [RedNext]_redvars => RedInv'
BY NextRedType, NextTxInv, NextFreshInv, NextOnceInv, NextDummyInv, NextCalmInv DEF RedInv

(***************************************************************************)
(* The port keeps the invariant of its mode: the variables of the other    *)
(* modes stay as they are set up.                                          *)
(***************************************************************************)
PortInv ==
  /\ NicInv /\ AnswerInv /\ RedInv /\ VxTypeOK /\ BlocksKept
  /\ platform = "vxworks" => VxInv

LEMMA InitPortInv == PortInit => PortInv
BY InitNicInv, InitAnswerInv, InitRedInv, InitVxInv DEF PortInit, PortInv, VxInv

\* What is left alone keeps its invariant.
LEMMA IdleMode ==
  /\ UNCHANGED redvars /\ RedInv => RedInv'
  /\ UNCHANGED vxvars /\ VxTypeOK /\ BlocksKept => VxTypeOK' /\ BlocksKept'
<1>1. UNCHANGED redvars /\ RedInv => RedInv'
  BY NextRedInv
<1>2. UNCHANGED vxvars /\ VxTypeOK => VxTypeOK'
  BY DEF vxvars, VxTypeOK
<1>3. UNCHANGED vxvars /\ BlocksKept => BlocksKept'
  BY DEF vxvars, BlocksKept, Posted, Taken, Arrived0
<1> QED
  BY <1>1, <1>2, <1>3

LEMMA NextPortInv ==
  PortInv /\ [PortNext]_portvars => PortInv' /\ [Pool!Next]_<<Holders, ~TableIntact>>
<1> SUFFICES ASSUME PortInv, [PortNext]_portvars PROVE PortInv' /\ [Pool!Next]_<<Holders, ~TableIntact>>
  OBVIOUS
<1>0. NicInv /\ AnswerInv /\ RedInv /\ VxTypeOK /\ BlocksKept /\ (platform = "vxworks" => VxInv)
  BY DEF PortInv
<1>1. CASE Single(Next)
  <2>1. Next /\ UNCHANGED <<vxvars, redvars>> /\ platform' = platform /\ platform # "vxworks"
    BY <1>1 DEF Single
  <2> QED
    BY <1>0, <2>1, NextNicAnswer, PoolStep, IdleMode DEF PortInv
<1>2. CASE Double(RedNext)
  <2>1. RedNext /\ UNCHANGED vars /\ UNCHANGED vxvars /\ platform' = platform /\ platform # "vxworks"
    BY <1>2 DEF Double
  <2>2. RedInv' /\ NicInv' /\ AnswerInv' /\ [Pool!Next]_<<Holders, ~TableIntact>> /\ VxTypeOK' /\ BlocksKept'
    BY <1>0, <2>1, NextRedInv, NextNicAnswer, PoolStep, IdleMode
  <2> QED
    BY <2>1, <2>2 DEF PortInv
<1>3. CASE VxWorks(VxNext)
  <2>1. VxNext /\ UNCHANGED redvars /\ platform' = platform /\ platform = "vxworks"
    BY <1>3 DEF VxWorks
  <2>2. NicInv' /\ AnswerInv' /\ VxInv' /\ [Pool!Next]_<<Holders, ~TableIntact>>
    BY <1>0, <2>1, NextVxInv
  <2> QED
    BY <1>0, <2>1, <2>2, IdleMode DEF PortInv, VxInv
<1>4. CASE UNCHANGED portvars
  <2>1. UNCHANGED vars /\ UNCHANGED vxvars /\ UNCHANGED redvars /\ platform' = platform
    BY <1>4 DEF portvars
  <2>2. RedInv' /\ NicInv' /\ AnswerInv' /\ [Pool!Next]_<<Holders, ~TableIntact>> /\ VxTypeOK' /\ BlocksKept'
    BY <1>0, <2>1, NextNicAnswer, PoolStep, IdleMode
  <2>3. platform = "vxworks" => VxInv'
    BY <1>0, <2>1, NextVxInv
  <2> QED
    BY <2>1, <2>2, <2>3 DEF PortInv
<1> QED
  BY <1>1, <1>2, <1>3, <1>4 DEF PortNext

LEMMA PortInductive == PortSpec => []PortInv
BY InitPortInv, NextPortInv, PTL DEF PortSpec

(***************************************************************************)
(* What ecx_waitinframe_red and ecx_srconfirm make of the two sockets is   *)
(* an answer of the whole line: with any single cable cut every slave has  *)
(* processed it, none has twice, and no dummy counts as an answer.         *)
(***************************************************************************)
THEOREM RingAlwaysAnswers == PortSpec => []RingAnswers
<1>1. PortInv => RingAnswers
  BY RedInvAnswers DEF PortInv
<1> QED
  BY PortInductive, <1>1, PTL

(***************************************************************************)
(* However the port is set up it never gives two threads the same index    *)
(* and loses none, under the conditions NicPort states.                    *)
(***************************************************************************)
THEOREM PortIndices == PortSpec => [](IndexExclusive /\ NoIndexLost)
<1>1. PortInv => IndexExclusive /\ NoIndexLost
  BY DEF PortInv, NicInv, TableInv, IndexExclusive, NoIndexLost, Owned
<1> QED
  BY PortInductive, <1>1, PTL

(***************************************************************************)
(* And the answers a thread accepts are its own, stay intact and are       *)
(* expected: on VxWorks too, where a late answer may be waiting in the     *)
(* queue of the index.                                                     *)
(***************************************************************************)
THEOREM PortAnswers == PortSpec => [](AnswerIsOwn /\ AnswerIntact /\ AnswerExpected)
<1>1. PortInv => AnswerIsOwn /\ AnswerIntact /\ AnswerExpected
  BY AnswersFollow DEF PortInv
<1> QED
  BY PortInductive, <1>1, PTL

(***************************************************************************)
(* No packet block of the VxWorks port is lost, freed twice or in two      *)
(* places, whatever overruns, is abandoned or arrives while it is closed.  *)
(***************************************************************************)
THEOREM BlocksAreKept == PortSpec => []BlocksKept
<1>1. PortInv => BlocksKept
  BY DEF PortInv
<1> QED
  BY PortInductive, <1>1, PTL

(***************************************************************************)
(* However it is set up, the port is a pool of indices to its callers.     *)
(***************************************************************************)
THEOREM PortImplementsPool == PortSpec => ImplementsPool
<1>1. PortInit => Pool!Init
  <2>1. ASSUME PortInit PROVE Holders = [i \in Slots |-> {}] /\ TableIntact
    BY <2>1 DEF PortInit, Init, Holders, Owning, TableIntact
  <2> QED
    BY <2>1 DEF Pool!Init
<1>2. PortInv /\ [PortNext]_portvars => [Pool!Next]_<<Holders, ~TableIntact>>
  BY NextPortInv
<1> QED
  BY <1>1, <1>2, PortInductive, PTL DEF PortSpec, ImplementsPool, Pool!Spec
=============================================================================
