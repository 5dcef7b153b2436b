-------------------------- MODULE Mailbox_proofs --------------------------
(***************************************************************************)
(* Proofs about the mailbox and its procedures, for every plan of calls,   *)
(* every slave and every size of a mailbox: what happens to the list of    *)
(* errors, and that the counter of three bits tells a copy of a mailbox    *)
(* from the next one as long as less than seven frames are lost.           *)
(*                                                                         *)
(* First, for any capacity of the error ring: a push and a pop keep it a   *)
(* ring, and to what is in it they do what ErrorLog says.                  *)
(***************************************************************************)
EXTENDS MailboxTransfers, SequenceTheorems, WellFoundedInduction, TLAPS

\* The indexes stay inside the array (ecx_pusherror).
LEMMA PushKeepsRing ==
  ASSUME NEW S, NEW r \in Ring(S), NEW e \in S
  PROVE  ecx_pusherror(r, e) \in Ring(S)
<1>1. r.head \in Places /\ r.tail \in Places /\ r.Error \in [Places -> S]
  BY DEF Ring
<1>2. \A i \in Places : Following(i) \in Places
  BY RingAssumption DEF Places, Following
<1>3. [r.Error EXCEPT ![r.head] = e] \in [Places -> S]
  BY <1>1
<1> QED
  BY <1>1, <1>2, <1>3 DEF Ring, ecx_pusherror

\* The indexes stay inside the array (ecx_poperror).
LEMMA PopKeepsRing ==
  ASSUME NEW S, NEW r \in Ring(S)
  PROVE  ecx_poperror(r) \in Ring(S)
<1>1. r.tail \in Places
  BY DEF Ring
<1>2. \A i \in Places : Following(i) \in Places
  BY RingAssumption DEF Places, Following
<1> QED
  BY <1>1, <1>2 DEF Ring, ecx_poperror, ecx_iserror

\* The ring starts as a ring without errors.
LEMMA EmptyRingIsEmpty ==
  ASSUME NEW S, NEW none \in S
  PROVE  EmptyRing(none) \in Ring(S) /\ Contents(EmptyRing(none)) = <<>>
<1>1. 0 \in Places
  BY RingAssumption DEF Places
<1>2. Count(EmptyRing(none)) = 0
  BY DEF EmptyRing, Count
<1>3. DOMAIN Contents(EmptyRing(none)) = {}
  BY <1>2 DEF Contents
<1> QED
  BY <1>1, <1>3 DEF EmptyRing, Ring, Contents, Count

\* At most EC_MAXELIST errors are in the ring, and each has its place.
LEMMA Extent ==
  ASSUME NEW S, NEW r \in Ring(S)
  PROVE  /\ Count(r) \in 0 .. EC_MAXELIST
         /\ \A i \in 1 .. EC_MAXELIST + 1 : Place(r, i) \in Places
         /\ ecx_iserror(r) <=> Count(r) # 0
<1>1. r.head \in Places /\ r.tail \in Places
  BY DEF Ring
<1>2. Count(r) \in 0 .. EC_MAXELIST /\ (ecx_iserror(r) <=> Count(r) # 0)
  BY <1>1, RingAssumption DEF Places, Count, ecx_iserror
<1>3. \A i \in 1 .. EC_MAXELIST + 1 : Place(r, i) \in Places
  BY <1>1, RingAssumption DEF Places, Place
<1> QED
  BY <1>2, <1>3

\* What is in the ring is a sequence of Count errors.
LEMMA ContentsSeq ==
  ASSUME NEW S, NEW r \in Ring(S)
  PROVE  /\ Contents(r) \in Seq(S)
         /\ Len(Contents(r)) = Count(r)
         /\ \A i \in 1 .. Count(r) : Contents(r)[i] = r.Error[Place(r, i)]
<1> DEFINE n == Count(r)
<1>1. n \in Nat /\ n <= EC_MAXELIST
  BY Extent, RingAssumption
<1>2. \A i \in 1 .. n : Place(r, i) \in Places
  BY <1>1, Extent, RingAssumption
<1>3. r.Error \in [Places -> S]
  BY DEF Ring
<1>4. Contents(r) \in [1 .. n -> S]
  BY <1>2, <1>3 DEF Contents
<1> HIDE DEF n
<1>5. Contents(r) \in Seq(S)
  BY <1>1, <1>4, SeqDef
<1>6. Len(Contents(r)) = n
  BY <1>1, <1>4
<1> QED
  BY <1>5, <1>6 DEF Contents, n

-----------------------------------------------------------------------------
\* A push to a full ring moves the tail, another one leaves it; the new error
\* is at the old head, the others stay where they are (ecx_pusherror).
LEMMA PushMoves ==
  ASSUME NEW S, NEW r \in Ring(S), NEW e \in S
  PROVE  LET p == ecx_pusherror(r, e)
             full == Count(r) = EC_MAXELIST
         IN  /\ p.Error = [r.Error EXCEPT ![r.head] = e]
             /\ Count(p) = IF full THEN Count(r) ELSE Count(r) + 1
             /\ \A i \in 1 .. Count(p) : Place(p, i) = Place(r, IF full THEN i + 1 ELSE i)
             /\ Place(p, Count(p)) = r.head
             /\ \A i \in 1 .. Count(p) - 1 : Place(p, i) # r.head
<1> DEFINE p == ecx_pusherror(r, e)
           full == Count(r) = EC_MAXELIST
<1>1. r.head \in 0 .. EC_MAXELIST /\ r.tail \in 0 .. EC_MAXELIST
  BY DEF Ring, Places
<1>2. p.head = Following(r.head)
  BY DEF Ring, ecx_pusherror
<1>3. p.tail = IF Following(r.head) = r.tail THEN Following(r.tail) ELSE r.tail
  BY DEF Ring, ecx_pusherror
<1>4. p.Error = [r.Error EXCEPT ![r.head] = e]
  BY DEF Ring, ecx_pusherror
<1> HIDE DEF p
<1>5. full <=> Following(r.head) = r.tail
  BY <1>1, RingAssumption DEF Following, Count
<1>6. Count(p) = IF full THEN Count(r) ELSE Count(r) + 1
  <2>1. CASE full
    BY <1>1, <1>2, <1>3, <1>5, <2>1, RingAssumption DEF Following, Count
  <2>2. CASE ~full
    BY <1>1, <1>2, <1>3, <1>5, <2>2, RingAssumption DEF Following, Count
  <2> QED
    BY <2>1, <2>2
<1>7. Count(p) \in Nat /\ Count(p) <= EC_MAXELIST
  BY <1>1, <1>6, Extent, RingAssumption
<1>8. \A i \in 1 .. Count(p) : Place(p, i) = Place(r, IF full THEN i + 1 ELSE i)
  <2>1. CASE full
    BY <1>1, <1>3, <1>5, <1>7, <2>1, RingAssumption DEF Following, Place
  <2>2. CASE ~full
    BY <1>3, <1>5, <2>2 DEF Place
  <2> QED
    BY <2>1, <2>2
<1>9. Place(p, Count(p)) = r.head
  <2>1. CASE full
    BY <1>1, <1>2, <1>3, <1>5, <2>1, RingAssumption DEF Following, Count, Place
  <2>2. CASE ~full
    BY <1>1, <1>2, <1>3, <1>5, <2>2, RingAssumption DEF Following, Count, Place
  <2> QED
    BY <2>1, <2>2
<1>10. \A i \in 1 .. Count(p) - 1 : Place(p, i) # r.head
  <2>1. p.tail \in 0 .. EC_MAXELIST
    BY <1>1, <1>3, RingAssumption DEF Following
  <2> QED
    BY <1>1, <1>7, <1>9, <2>1, RingAssumption DEF Place
<1> QED
  BY <1>4, <1>6, <1>8, <1>9, <1>10 DEF p

\* Pushing to the ring is pushing to a queue that drops its oldest error when
\* it is full (ecx_pusherror, ErrorLog).
THEOREM PushIsLogged ==
  ASSUME NEW S, NEW r \in Ring(S), NEW e \in S
  PROVE  Contents(ecx_pusherror(r, e)) =
           IF Len(Contents(r)) = EC_MAXELIST THEN Append(Tail(Contents(r)), e)
           ELSE Append(Contents(r), e)
<1> DEFINE p == ecx_pusherror(r, e)
           full == Count(r) = EC_MAXELIST
           kept == IF full THEN Tail(Contents(r)) ELSE Contents(r)
<1>1. p \in Ring(S)
  BY PushKeepsRing
<1>2. /\ Contents(r) \in Seq(S) /\ Len(Contents(r)) = Count(r)
      /\ \A i \in 1 .. Count(r) : Contents(r)[i] = r.Error[Place(r, i)]
  BY ContentsSeq
<1>3. /\ Contents(p) \in Seq(S) /\ Len(Contents(p)) = Count(p)
      /\ \A i \in 1 .. Count(p) : Contents(p)[i] = p.Error[Place(p, i)]
  BY <1>1, ContentsSeq
<1>4. /\ p.Error = [r.Error EXCEPT ![r.head] = e]
      /\ Count(p) = IF full THEN Count(r) ELSE Count(r) + 1
      /\ \A i \in 1 .. Count(p) : Place(p, i) = Place(r, IF full THEN i + 1 ELSE i)
      /\ Place(p, Count(p)) = r.head
      /\ \A i \in 1 .. Count(p) - 1 : Place(p, i) # r.head
  BY PushMoves
<1>5. r.Error \in [Places -> S] /\ r.head \in Places
  BY DEF Ring
<1>6. /\ Count(r) \in Nat /\ Count(r) <= EC_MAXELIST
      /\ \A i \in 1 .. EC_MAXELIST + 1 : Place(r, i) \in Places
  BY Extent, RingAssumption
<1> HIDE DEF p
<1>7. /\ kept \in Seq(S) /\ Len(kept) = Count(p) - 1
      /\ \A i \in 1 .. Count(p) - 1 : kept[i] = r.Error[Place(r, IF full THEN i + 1 ELSE i)]
  <2>1. CASE full
    <3>1. Contents(r) # <<>>
      BY <1>2, <2>1, RingAssumption, EmptySeq
    <3>2. Tail(Contents(r)) \in Seq(S) /\ Len(Tail(Contents(r))) = Count(r) - 1
      BY <1>2, <3>1, HeadTailProperties
    <3>3. \A i \in 1 .. Count(r) - 1 : Tail(Contents(r))[i] = Contents(r)[i + 1]
      BY <1>2, <3>1
    <3>4. \A i \in 1 .. Count(r) - 1 : Tail(Contents(r))[i] = r.Error[Place(r, i + 1)]
      BY <1>2, <1>6, <3>3
    <3> QED
      BY <1>4, <2>1, <3>2, <3>4
  <2>2. CASE ~full
    BY <1>2, <1>4, <1>6, <2>2
  <2> QED
    BY <2>1, <2>2
<1>8. \A i \in 1 .. Count(p) - 1 : p.Error[Place(p, i)] = r.Error[Place(p, i)]
  BY <1>4, <1>5
<1>9. p.Error[Place(p, Count(p))] = e
  BY <1>4, <1>5
<1>10. Count(p) \in Nat
  BY <1>4, <1>6
<1> HIDE DEF kept, full
<1>11. /\ Append(kept, e) \in Seq(S) /\ Len(Append(kept, e)) = Count(p)
       /\ \A i \in 1 .. Count(p) : Append(kept, e)[i] = IF i = Count(p) THEN e ELSE kept[i]
  BY <1>7, <1>10
<1>12. \A i \in 1 .. Count(p) : Contents(p)[i] = Append(kept, e)[i]
  <2> SUFFICES ASSUME NEW i \in 1 .. Count(p)
               PROVE  Contents(p)[i] = Append(kept, e)[i]
    OBVIOUS
  <2>1. CASE i = Count(p)
    BY <1>3, <1>9, <1>11, <2>1
  <2>2. CASE i # Count(p)
    <3>1. i \in 1 .. Count(p) - 1
      BY <1>10, <2>2
    <3>2. Append(kept, e)[i] = kept[i]
      BY <1>11, <2>2
    <3>3. kept[i] = r.Error[Place(r, IF full THEN i + 1 ELSE i)]
      BY <1>7, <3>1
    <3>4. Place(p, i) = Place(r, IF full THEN i + 1 ELSE i)
      BY <1>4
    <3>5. Contents(p)[i] = r.Error[Place(p, i)]
      BY <1>3, <1>8, <3>1
    <3> QED
      BY <3>2, <3>3, <3>4, <3>5
  <2> QED
    BY <2>1, <2>2
<1>13. Contents(p) = Append(kept, e)
  BY <1>3, <1>11, <1>12, SeqEqual
<1> QED
  BY <1>2, <1>13 DEF p, kept, full

\* Popping takes the oldest error; from an empty ring it takes nothing
\* (ecx_poperror, ErrorLog).
THEOREM PopIsLogged ==
  ASSUME NEW S, NEW r \in Ring(S)
  PROVE  Contents(ecx_poperror(r)) =
           IF Contents(r) = <<>> THEN Contents(r) ELSE Tail(Contents(r))
<1> DEFINE p == ecx_poperror(r)
<1>1. r.head \in 0 .. EC_MAXELIST /\ r.tail \in 0 .. EC_MAXELIST
  BY DEF Ring, Places
<1>2. /\ Contents(r) \in Seq(S) /\ Len(Contents(r)) = Count(r)
      /\ \A i \in 1 .. Count(r) : Contents(r)[i] = r.Error[Place(r, i)]
  BY ContentsSeq
<1>3. ecx_iserror(r) <=> Contents(r) # <<>>
  BY <1>2, Extent, EmptySeq
<1>4. CASE ~ecx_iserror(r)
  <2>1. p.head = r.head /\ p.tail = r.tail /\ p.Error = r.Error
    BY <1>4 DEF Ring, ecx_poperror
  <2>2. Contents(p) = Contents(r)
    BY <2>1 DEF Contents, Count, Place
  <2> QED
    BY <1>3, <1>4, <2>2
<1>5. CASE ecx_iserror(r)
  <2>1. p.head = r.head /\ p.tail = Following(r.tail) /\ p.Error = r.Error
    BY <1>5 DEF Ring, ecx_poperror
  <2>2. p \in Ring(S)
    BY PopKeepsRing
  <2> HIDE DEF p
  <2>3. /\ Contents(p) \in Seq(S) /\ Len(Contents(p)) = Count(p)
        /\ \A i \in 1 .. Count(p) : Contents(p)[i] = p.Error[Place(p, i)]
    BY <2>2, ContentsSeq
  <2>4. Count(p) = Count(r) - 1
    BY <1>1, <1>5, <2>1, RingAssumption DEF Following, Count, ecx_iserror
  <2>5. \A i \in 1 .. Count(p) : Place(p, i) = Place(r, i + 1)
    BY <1>1, <2>1, <2>2, Extent, RingAssumption DEF Following, Place
  <2>6. Count(p) \in Nat
    BY <2>2, Extent, RingAssumption
  <2>7. /\ Tail(Contents(r)) \in Seq(S) /\ Len(Tail(Contents(r))) = Count(p)
    BY <1>2, <1>3, <1>5, <2>4, HeadTailProperties
  <2>8. \A i \in 1 .. Count(p) : Tail(Contents(r))[i] = Contents(r)[i + 1]
    BY <1>2, <1>3, <1>5, <2>4
  <2>9. \A i \in 1 .. Count(p) : Contents(r)[i + 1] = r.Error[Place(r, i + 1)]
    BY <1>2, <2>4, <2>6
  <2>10. \A i \in 1 .. Count(p) : Contents(p)[i] = Tail(Contents(r))[i]
    BY <2>1, <2>3, <2>5, <2>8, <2>9
  <2>11. Contents(p) = Tail(Contents(r))
    BY <2>3, <2>7, <2>10, SeqEqual
  <2> QED
    BY <1>3, <1>5, <2>11 DEF p
<1> QED
  BY <1>4, <1>5

-----------------------------------------------------------------------------
\* The fields of a call the proofs need, and the job they tell.
Fields == {"proc", "obj", "sub", "size", "pc", "ret", "got", "packet", "seg", "toggle", "phase", "more",
           "zero", "frame", "whole", "gaveup", "busy", "stray"}

IsOp(o) == Fields \subseteq DOMAIN o

SameJob(o, q) ==
  DOMAIN q = DOMAIN o /\ q.proc = o.proc /\ q.obj = o.obj /\ q.sub = o.sub /\ q.size = o.size

\* A step of a procedure: it is about the same job, has a place to go on from, and
\* if it reports an error, it is one of the errors there are.
Onwards == {"send", "receiving", "emptying", "done"}

GoesOn(o, q) == SameJob(o, q) /\ q.pc \in Onwards

IsStep(o, s) == GoesOn(o, s.op) /\ s.err \in Problems \cup {NoError}

LEMMA SameJobs ==
  ASSUME NEW o, NEW q, IsOp(o), SameJob(o, q)
  PROVE  /\ IsOp(q)
         /\ \A r : SameJob(q, r) => SameJob(o, r)
         /\ \A r : GoesOn(q, r) => GoesOn(o, r)
         /\ \A s : IsStep(q, s) => IsStep(o, s)
  BY DEF IsOp, SameJob, GoesOn, IsStep

LEMMA Edits ==
  ASSUME NEW o, IsOp(o), NEW v
  PROVE  /\ SameJob(o, o)
         /\ SameJob(o, [o EXCEPT !.got = v]) /\ SameJob(o, [o EXCEPT !.packet = v])
         /\ SameJob(o, [o EXCEPT !.seg = v]) /\ SameJob(o, [o EXCEPT !.toggle = v])
         /\ SameJob(o, [o EXCEPT !.phase = v]) /\ SameJob(o, [o EXCEPT !.more = v])
         /\ SameJob(o, [o EXCEPT !.zero = v]) /\ SameJob(o, [o EXCEPT !.frame = v])
         /\ SameJob(o, [o EXCEPT !.ret = v]) /\ SameJob(o, [o EXCEPT !.busy = v])
         /\ SameJob(o, [o EXCEPT !.gaveup = v])
  BY DEF IsOp, SameJob, Fields

LEMMA SendingAndDone ==
  ASSUME NEW o, NEW q, IsOp(o), SameJob(o, q), NEW wkc
  PROVE  /\ GoesOn(o, Sending(q)) /\ GoesOn(o, Receiving(q)) /\ GoesOn(o, Finished(q, wkc))
         /\ SameJob(o, GaveUp(q)) /\ GoesOn(o, Finished(GaveUp(q), wkc))
         /\ GoesOn(o, Sending(GaveUp(q)))
<1> USE DEF IsOp, SameJob, Fields
<1>1. GoesOn(o, Sending(q)) /\ GoesOn(o, Receiving(q))
  BY DEF GoesOn, Onwards, Sending, Receiving
<1>2. GoesOn(o, Finished(q, wkc))
  BY DEF GoesOn, Onwards, Finished
<1>3. SameJob(o, GaveUp(q))
  BY DEF GaveUp
<1>4. GoesOn(o, Finished(GaveUp(q), wkc)) /\ GoesOn(o, Sending(GaveUp(q)))
  BY <1>3 DEF GoesOn, Onwards, Finished, Sending
<1> QED
  BY <1>1, <1>2, <1>3, <1>4

LEMMA StoredStays ==
  ASSUME NEW o, IsOp(o), NEW m, NEW len
  PROVE  SameJob(o, Stored(o, m, len))
  BY DEF Stored, IsOp, SameJob, Fields

LEMMA Reports ==
  ASSUME NEW o, NEW q, GoesOn(o, q)
  PROVE  /\ IsStep(o, Quiet(q)) /\ IsStep(o, ecx_packeterror(q)) /\ IsStep(o, ecx_SDOerror(q))
         /\ IsStep(o, ecx_SDOinfoerror(q)) /\ IsStep(o, ecx_SoEerror(q))
  BY DEF IsStep, Quiet, Step, ecx_packeterror, ecx_SDOerror, ecx_SDOinfoerror, ecx_SoEerror,
         Problems, NoError

\* what ends a call, with or without an error
LEMMA Endings ==
  ASSUME NEW o, IsOp(o), NEW wkc
  PROVE  /\ IsStep(o, Quiet(Finished(o, wkc))) /\ IsStep(o, Quiet(Finished(GaveUp(o), wkc)))
         /\ IsStep(o, ecx_packeterror(Finished(GaveUp(o), wkc)))
         /\ IsStep(o, ecx_packeterror(Finished(o, wkc))) /\ IsStep(o, ecx_SDOerror(Finished(o, wkc)))
         /\ IsStep(o, ecx_SDOinfoerror(Finished(o, wkc))) /\ IsStep(o, ecx_SoEerror(Finished(o, wkc)))
<1>1. SameJob(o, o)
  BY Edits
<1>2. GoesOn(o, Finished(o, wkc)) /\ GoesOn(o, Finished(GaveUp(o), wkc))
  BY <1>1, SendingAndDone
<1> QED
  BY <1>2, Reports

LEMMA UnexpectedSteps ==
  ASSUME NEW o, IsOp(o), NEW m
  PROVE  /\ IsStep(o, Unexpected(o, m)) /\ IsStep(o, TooSmall(o)) /\ IsStep(o, InfoUnexpected(o, m))
         /\ IsStep(o, SoEunexpected(o, m))
  BY Endings DEF Unexpected, TooSmall, InfoUnexpected, SoEunexpected

\* Every answer of a mailbox, or none, is a step of the procedure.
LEMMA SDOreadSteps ==
  ASSUME NEW o, IsOp(o), NEW wkc, NEW m
  PROVE  IsStep(o, SDOreadAnswer(o, wkc, m)) /\ GoesOn(o, SDOreadSent(o, wkc))
<1>1. IsStep(o, SDOreadFirst(o, m))
  <2> DEFINE whole == Stored(o, m, m.total)
             stored == Stored(o, m, m.length - 10)
             part  == [stored EXCEPT !.phase = "segments"]
  <2>1. SameJob(o, whole) /\ SameJob(o, stored)
    BY StoredStays
  <2> HIDE DEF whole, stored
  <2>2. SameJob(o, part)
    BY <2>1, SameJobs, Edits
  <2> HIDE DEF part
  <2>3. IsStep(o, Quiet(Finished(whole, 1))) /\ IsStep(o, Quiet(Sending(part)))
    BY <2>1, <2>2, SendingAndDone, Reports
  <2> QED
    BY <2>3, UnexpectedSteps DEF SDOreadFirst, whole, part, stored
<1>2. IsStep(o, SDOreadSegment(o, m))
  <2> DEFINE next == Stored(o, m, SegmentData(m))
             other == [next EXCEPT !.toggle = ~@]
  <2>1. SameJob(o, next)
    BY StoredStays
  <2> HIDE DEF next
  <2>2. SameJob(o, other)
    BY <2>1, SameJobs, Edits
  <2> HIDE DEF other
  <2>3. IsStep(o, Quiet(Finished(next, 1))) /\ IsStep(o, Quiet(Sending(other)))
    BY <2>1, <2>2, SendingAndDone, Reports
  <2> QED
    BY <2>3, UnexpectedSteps DEF SDOreadSegment, next, other
<1>3. IsStep(o, Quiet(SegmentMissed(o, wkc))) /\ GoesOn(o, SegmentMissed(o, wkc))
  <2> DEFINE other == [o EXCEPT !.toggle = ~@, !.ret = wkc]
  <2>1. SameJob(o, other)
    BY DEF IsOp, SameJob, Fields
  <2> HIDE DEF other
  <2> QED
    BY <2>1, SendingAndDone, Reports DEF SegmentMissed, other
<1>4. GoesOn(o, Receiving(o)) /\ GoesOn(o, Finished(GaveUp(o), wkc))
  BY Edits, SendingAndDone
<1> QED
  BY <1>1, <1>2, <1>3, <1>4, Endings DEF SDOreadAnswer, SDOreadSent

LEMMA SDOwriteSteps ==
  ASSUME NEW o, IsOp(o), NEW wkc, NEW m
  PROVE  IsStep(o, SDOwriteAnswer(o, wkc, m)) /\ GoesOn(o, SDOwriteSent(o, wkc))
<1>1. ASSUME NEW q, SameJob(o, q)
      PROVE  GoesOn(o, SegmentDone(q, wkc))
  <2> DEFINE other == [q EXCEPT !.toggle = ~@, !.ret = wkc]
  <2>1. SameJob(o, other)
    BY <1>1 DEF IsOp, SameJob, Fields
  <2> HIDE DEF other
  <2> QED
    BY <1>1, <2>1, SendingAndDone DEF SegmentDone, other
<1>2. SameJob(o, o) /\ SameJob(o, GaveUp(o)) /\ SameJob(o, [o EXCEPT !.phase = "segments"])
  BY Edits, SendingAndDone
<1>3. /\ GoesOn(o, SegmentDone(o, wkc)) /\ GoesOn(o, SegmentDone(GaveUp(o), wkc))
      /\ GoesOn(o, Sending([o EXCEPT !.phase = "segments"])) /\ GoesOn(o, Receiving(o))
      /\ GoesOn(o, Finished(GaveUp(o), wkc))
  BY <1>1, <1>2, SendingAndDone
<1>4. /\ IsStep(o, Quiet(SegmentDone(o, wkc))) /\ IsStep(o, Quiet(SegmentDone(GaveUp(o), wkc)))
      /\ IsStep(o, Quiet(Sending([o EXCEPT !.phase = "segments"])))
  BY <1>3, Reports
<1> QED
  BY <1>3, <1>4, Endings, UnexpectedSteps DEF SDOwriteAnswer, SDOwriteSent

LEMMA TxPDOSteps ==
  ASSUME NEW o, IsOp(o), NEW wkc, NEW m
  PROVE  IsStep(o, TxPDOAnswer(o, wkc, m))
<1>1. IsStep(o, Quiet(Finished(Stored(o, m, m.length - 2), wkc)))
  BY StoredStays, SendingAndDone, Reports
<1> QED
  BY <1>1, Endings, UnexpectedSteps DEF TxPDOAnswer

\* The list of objects, and what is told of one of them.
LEMMA InfoSteps ==
  ASSUME NEW o, IsOp(o), NEW wkc, NEW m
  PROVE  /\ IsStep(o, ODlistAnswer(o, wkc, m))
         /\ IsStep(o, ODdescriptionAnswer(o, wkc, m))
         /\ IsStep(o, OEsingleAnswer(o, wkc, m))
<1>1. ASSUME NEW taken
      PROVE  LET stored == [Stored(o, m, taken) EXCEPT !.phase = "fragments", !.packet = @ + 1]
                 next   == IF m.left > 0 /\ o.packet < MaxFragments THEN Receiving(stored) ELSE Finished(stored, wkc)
             IN  IsStep(o, ecx_SDOinfoerror(next)) /\ IsStep(o, Quiet(next))
  <2> DEFINE first  == Stored(o, m, taken)
             stored == [first EXCEPT !.phase = "fragments", !.packet = @ + 1]
             next   == IF m.left > 0 /\ o.packet < MaxFragments THEN Receiving(stored) ELSE Finished(stored, wkc)
  <2>1. SameJob(o, first)
    BY StoredStays
  <2> HIDE DEF first
  <2>2. SameJob(o, stored)
    BY <2>1 DEF IsOp, SameJob, Fields
  <2> HIDE DEF stored
  <2>3. GoesOn(o, next)
    BY <2>2, SendingAndDone
  <2> HIDE DEF next
  <2>4. IsStep(o, ecx_SDOinfoerror(next)) /\ IsStep(o, Quiet(next))
    BY <2>3, Reports
  <2> QED
    BY <2>4 DEF first, stored, next
<1>2. IsStep(o, ODlistAnswer(o, wkc, m))
  <2> DEFINE entries == (m.length - (IF o.phase = "init" THEN 8 ELSE 6)) \div 2
             taken   == Lesser(entries, EC_MAXODLIST - o.got)
             stored  == [Stored(o, m, taken) EXCEPT !.phase = "fragments", !.packet = @ + 1]
             next    == IF m.left > 0 /\ o.packet < MaxFragments THEN Receiving(stored) ELSE Finished(stored, wkc)
  <2>1. IsStep(o, ecx_SDOinfoerror(next)) /\ IsStep(o, Quiet(next))
    BY <1>1
  <2>2. ODlistAnswer(o, wkc, m) =
          IF wkc <= 0 THEN Quiet(Finished(GaveUp(o), wkc))
          ELSE IF ~(m.type = "coe" /\ m.cmd = "ODlist") THEN InfoUnexpected(o, m)
          ELSE IF o.got + entries > EC_MAXODLIST THEN ecx_SDOinfoerror(next) ELSE Quiet(next)
    BY DEF ODlistAnswer
  <2> HIDE DEF next, entries
  <2> QED
    BY <2>1, <2>2, Endings, UnexpectedSteps
<1>3. ASSUME NEW n
      PROVE  IsStep(o, Quiet(Finished([o EXCEPT !.got = n], wkc)))
  BY Edits, SendingAndDone, Reports
<1>4. IsStep(o, ODdescriptionAnswer(o, wkc, m))
  BY <1>3, Endings, UnexpectedSteps DEF ODdescriptionAnswer
<1>5. IsStep(o, OEsingleAnswer(o, wkc, m))
  BY <1>3, Endings, UnexpectedSteps DEF OEsingleAnswer
<1> QED
  BY <1>2, <1>4, <1>5

\* The procedures for files report no errors of their own.
LEMMA FoeSteps ==
  ASSUME NEW o, IsOp(o), NEW wkc, NEW m
  PROVE  /\ GoesOn(o, FOEreadAnswer(o, wkc, m)) /\ GoesOn(o, FOEwriteAnswer(o, wkc, m))
         /\ GoesOn(o, FOEreadSent(o, wkc)) /\ GoesOn(o, FOEwriteSent(o, wkc))
<1>1. /\ GoesOn(o, Receiving(o)) /\ GoesOn(o, Finished(o, wkc)) /\ GoesOn(o, Finished(GaveUp(o), wkc))
      /\ GoesOn(o, Finished(o, -1))
  BY Edits, SendingAndDone
<1>2. GoesOn(o, FOEreadAnswer(o, wkc, m))
  <2> DEFINE first  == Stored(o, m, m.len)
             stored == [first EXCEPT !.packet = @ + 1, !.phase = "acks", !.more = m.len = MaxPacket]
  <2>1. SameJob(o, first)
    BY StoredStays
  <2> HIDE DEF first
  <2>2. SameJob(o, stored)
    BY <2>1 DEF IsOp, SameJob, Fields
  <2> HIDE DEF stored
  <2>3. GoesOn(o, Sending(stored))
    BY <2>2, SendingAndDone
  <2> QED
    BY <1>1, <2>3 DEF FOEreadAnswer, stored, first
<1>3. GoesOn(o, NextPacket(o))
  <2> DEFINE len == Lesser(o.size - o.got, MaxPacket)
             next == [o EXCEPT !.phase = "data", !.seg = len, !.got = @ + len, !.packet = @ + 1,
                               !.zero = FinalZero(o.size - o.got - len, len)]
  <2>1. SameJob(o, next)
    BY DEF IsOp, SameJob, Fields
  <2> HIDE DEF next
  <2> QED
    BY <2>1, SendingAndDone DEF NextPacket, next
<1>4. GoesOn(o, Busy(o, wkc))
  <2> DEFINE back == [o EXCEPT !.busy = TRUE, !.zero = @ \/ o.got = o.size, !.got = @ - o.seg,
                               !.packet = @ - 1]
  <2>1. SameJob(o, back) /\ SameJob(o, [o EXCEPT !.busy = TRUE])
    BY DEF IsOp, SameJob, Fields
  <2> HIDE DEF back
  <2>2. GoesOn(o, Finished(back, wkc)) /\ GoesOn(o, Finished([o EXCEPT !.busy = TRUE], wkc))
    BY <2>1, SendingAndDone
  <2> QED
    BY <2>2 DEF Busy, back
<1>5. GoesOn(o, FOEwriteAnswer(o, wkc, m))
  BY <1>1, <1>3, <1>4 DEF FOEwriteAnswer
<1>6. GoesOn(o, FOEreadSent(o, wkc)) /\ GoesOn(o, FOEwriteSent(o, wkc))
  BY <1>1 DEF FOEreadSent, FOEwriteSent
<1> QED
  BY <1>2, <1>5, <1>6

LEMMA SoeSteps ==
  ASSUME NEW o, IsOp(o), NEW wkc, NEW m
  PROVE  /\ IsStep(o, SoEreadAnswer(o, wkc, m)) /\ IsStep(o, SoEwriteAnswer(o, wkc, m))
         /\ GoesOn(o, SoEreadSent(o, wkc)) /\ GoesOn(o, SoEwriteSent(o, wkc))
         /\ GoesOn(o, SoEwriteEmpty(o, wkc))
<1>1. /\ GoesOn(o, Receiving(o)) /\ GoesOn(o, Finished(GaveUp(o), wkc)) /\ GoesOn(o, Sending(GaveUp(o)))
      /\ GoesOn(o, Sending([o EXCEPT !.ret = wkc]))
  BY Edits, SendingAndDone
<1>2. IsStep(o, SoEreadAnswer(o, wkc, m))
  <2> DEFINE stored == Stored(o, m, Lesser(m.len, o.size - o.got))
  <2>1. SameJob(o, stored)
    BY StoredStays
  <2> HIDE DEF stored
  <2>2. IsStep(o, Quiet(Receiving(stored))) /\ IsStep(o, Quiet(Finished(stored, wkc)))
    BY <2>1, SendingAndDone, Reports
  <2>3. IsStep(o, NoResponse(o, wkc))
    BY Endings DEF NoResponse
  <2> QED
    BY <2>2, <2>3, UnexpectedSteps DEF SoEreadAnswer, stored
<1>3. IsStep(o, ecx_packeterror(Sending(GaveUp(o))))
  BY <1>1, Reports
<1>4. IsStep(o, SoEwriteAnswer(o, wkc, m))
  BY <1>3, Endings, UnexpectedSteps DEF SoEwriteAnswer
<1>5. GoesOn(o, SoEreadSent(o, wkc))
  BY <1>1 DEF SoEreadSent
<1>6. GoesOn(o, [o EXCEPT !.pc = "emptying"])
  BY DEF GoesOn, SameJob, IsOp, Fields, Onwards
<1>7. GoesOn(o, SoEwriteSent(o, wkc)) /\ GoesOn(o, SoEwriteEmpty(o, wkc))
  BY <1>1, <1>6 DEF SoEwriteSent, SoEwriteEmpty
<1> QED
  BY <1>2, <1>4, <1>5, <1>7

LEMMA EoeSteps ==
  ASSUME NEW o, IsOp(o), NEW wkc, NEW m
  PROVE  /\ GoesOn(o, EOErecvAnswer(o, wkc, m)) /\ GoesOn(o, EOEsetIpAnswer(o, wkc, m))
         /\ GoesOn(o, EOEgetIpAnswer(o, wkc, m)) /\ GoesOn(o, EOEsendSent(o, wkc))
<1>1. \A w : GoesOn(o, Finished(o, w))
  BY Edits, SendingAndDone
<1>2. GoesOn(o, EOErecvAnswer(o, wkc, m))
  <2> DEFINE begun  == IF o.packet = 0 THEN [o EXCEPT !.frame = m.frame] ELSE o
             copied == Stored(begun, m, m.len)
             stored == IF o.got + m.len <= o.size THEN [copied EXCEPT !.packet = @ + 1] ELSE begun
             ended  == [stored EXCEPT !.got = IF m.stamp THEN @ - 4 ELSE @]
  <2>1. SameJob(o, begun)
    BY Edits
  <2> HIDE DEF begun
  <2>2. SameJob(o, copied)
    BY <2>1, StoredStays, SameJobs
  <2> HIDE DEF copied
  <2>3. SameJob(o, [copied EXCEPT !.packet = @ + 1])
    BY <2>2 DEF SameJob, IsOp, Fields
  <2>4. SameJob(o, stored)
    BY <2>1, <2>3
  <2> HIDE DEF stored
  <2>5. SameJob(o, ended)
    BY <2>4 DEF SameJob, IsOp, Fields
  <2> HIDE DEF ended
  <2>6. GoesOn(o, Finished(ended, wkc)) /\ GoesOn(o, Receiving(stored))
    BY <2>4, <2>5, SendingAndDone
  <2> QED
    BY <1>1, <2>6 DEF EOErecvAnswer, begun, copied, stored, ended
<1>3. GoesOn(o, EOEsetIpAnswer(o, wkc, m))
  BY <1>1 DEF EOEsetIpAnswer
<1>4. GoesOn(o, EOEgetIpAnswer(o, wkc, m))
  BY <1>1, Edits, SendingAndDone DEF EOEgetIpAnswer
<1>5. GoesOn(o, EOEsendSent(o, wkc))
  <2>1. SameJob(o, [o EXCEPT !.got = @ + o.seg, !.packet = @ + 1]) /\ SameJob(o, [o EXCEPT !.got = @ + o.seg])
    BY DEF SameJob, IsOp, Fields
  <2>2. /\ GoesOn(o, Sending([o EXCEPT !.got = @ + o.seg, !.packet = @ + 1]))
        /\ GoesOn(o, Finished([o EXCEPT !.got = @ + o.seg], wkc))
    BY <2>1, SendingAndDone
  <2> QED
    BY <2>2 DEF EOEsendSent
<1> QED
  BY <1>2, <1>3, <1>4, <1>5

LEMMA AnswerSteps ==
  ASSUME NEW o, IsOp(o), NEW wkc, NEW m
  PROVE  IsStep(o, OnAnswer(o, wkc, m))
<1>1. /\ IsStep(o, SDOreadAnswer(o, wkc, m)) /\ IsStep(o, SDOwriteAnswer(o, wkc, m))
      /\ IsStep(o, TxPDOAnswer(o, wkc, m)) /\ IsStep(o, SoEreadAnswer(o, wkc, m))
      /\ IsStep(o, SoEwriteAnswer(o, wkc, m)) /\ IsStep(o, ODlistAnswer(o, wkc, m))
      /\ IsStep(o, ODdescriptionAnswer(o, wkc, m)) /\ IsStep(o, OEsingleAnswer(o, wkc, m))
  BY SDOreadSteps, SDOwriteSteps, TxPDOSteps, InfoSteps, SoeSteps
<1>2. /\ IsStep(o, Quiet(FOEreadAnswer(o, wkc, m))) /\ IsStep(o, Quiet(FOEwriteAnswer(o, wkc, m)))
      /\ IsStep(o, Quiet(EOErecvAnswer(o, wkc, m))) /\ IsStep(o, Quiet(EOEsetIpAnswer(o, wkc, m)))
      /\ IsStep(o, Quiet(EOEgetIpAnswer(o, wkc, m)))
  BY FoeSteps, EoeSteps, Reports
<1> QED
  BY <1>1, <1>2 DEF OnAnswer

\* A mailbox that is sent, or is not, leaves the procedure a place as well.
LEMMA SentSteps ==
  ASSUME NEW o, IsOp(o), NEW wkc
  PROVE  GoesOn(o, OnSent(o, wkc)) /\ GoesOn(o, SoEwriteEmpty(o, wkc)) /\ GoesOn(o, Sending(o))
<1>1. GoesOn(o, SDOreadSent(o, wkc)) /\ GoesOn(o, SDOwriteSent(o, wkc))
  BY SDOreadSteps, SDOwriteSteps
<1>2. GoesOn(o, FOEreadSent(o, wkc)) /\ GoesOn(o, FOEwriteSent(o, wkc))
  BY FoeSteps
<1>3. GoesOn(o, SoEreadSent(o, wkc)) /\ GoesOn(o, SoEwriteSent(o, wkc)) /\ GoesOn(o, SoEwriteEmpty(o, wkc))
  BY SoeSteps
<1>4. GoesOn(o, EOEsendSent(o, wkc))
  BY EoeSteps
<1>5. GoesOn(o, IF wkc > 0 THEN Receiving(o) ELSE Finished(GaveUp(o), wkc)) /\ GoesOn(o, Finished(o, wkc))
      /\ GoesOn(o, Sending(o))
  BY Edits, SendingAndDone
<1> QED
  BY <1>1, <1>2, <1>3, <1>4, <1>5 DEF OnSent

LEMMA RequestSteps ==
  ASSUME NEW o, IsOp(o)
  PROVE  SameJob(o, NextRequest(o).op)
<1>1. SameJob(o, SDOwriteRequest(o).op)
  BY DEF SDOwriteRequest, SDOwriteFirst, SDOwriteSegment, SameJob, IsOp, Fields
<1>2. SameJob(o, RxPDORequest(o).op)
  BY DEF RxPDORequest, SameJob, IsOp, Fields
<1>3. SameJob(o, SoEwriteRequest(o).op)
  BY DEF SoEwriteRequest, SameJob, IsOp, Fields
<1>4. SameJob(o, EOEsendRequest(o, 1).op)
  BY DEF EOEsendRequest, SameJob, IsOp, Fields
<1>5. ASSUME NEW mail
      PROVE  SameJob(o, Same(o, mail).op)
  BY Edits DEF Same
<1>6. CASE o.proc = "SDOwrite"
  BY <1>1, <1>6 DEF NextRequest
<1>7. CASE o.proc = "RxPDO"
  BY <1>2, <1>7 DEF NextRequest
<1>8. CASE o.proc = "SoEwrite"
  BY <1>3, <1>8 DEF NextRequest
<1>9. CASE o.proc = "EOEsend"
  BY <1>4, <1>9 DEF NextRequest
<1>10. CASE o.proc \notin {"SDOwrite", "RxPDO", "SoEwrite", "EOEsend"}
  BY <1>5, <1>10 DEF NextRequest
<1> QED
  BY <1>6, <1>7, <1>8, <1>9, <1>10

-----------------------------------------------------------------------------
(***************************************************************************)
(* The procedure and its mailbox function: the list of errors is a ring,   *)
(* the procedure is about a job of the plan, and the mailbox function      *)
(* under way is one it has called.                                         *)
(***************************************************************************)
RingInv == elist \in Ring(Problems \cup {"none"}) /\ IsOp(op)

Pcs == {"drain", "send", "sending", "emptying", "receiving", "done"}

JobInv ==
  /\ jobs \in Seq(Jobs) /\ mbx_cnt \in 0 .. 7
  /\ op.proc \in Procs /\ op.pc \in Pcs
  /\ op.proc = "none" => op.pc = "done"
  /\ op.proc # "none" => op.obj \in DOMAIN ObjSize /\ op.size \in Nat /\ op.sub \in Nat

CallFields == {"at", "mail", "expired", "wkc", "repeat"}

Receivings == {"avail", "read", "toggle", "ack", "again"}

CallInv ==
  /\ DOMAIN call = CallFields
  /\ call.at \in {"idle", "empty", "write", "done"} \cup Receivings
  /\ call.at = "idle" <=> op.pc \in {"send", "done"}
  /\ call.at \in Receivings => op.pc \in {"drain", "receiving"}

ProcInv == RingInv /\ JobInv /\ CallInv

LEMMA InitProcInv == Init => ProcInv
<1> SUFFICES ASSUME Init PROVE ProcInv
  OBVIOUS
<1>1. elist \in Ring(Problems \cup {"none"})
  BY EmptyRingIsEmpty DEF Init
<1>2. IsOp(op) /\ op.proc = "none" /\ op.pc = "done"
  BY DEF Init, Call, IsOp, Fields
<1>3. jobs \in Seq(Jobs) /\ mbx_cnt \in 0 .. 7
  BY PlanAssumption DEF Init
<1>4. JobInv
  BY <1>2, <1>3 DEF JobInv, Procs, Pcs
<1>5. CallInv
  BY <1>2 DEF Init, Idle, CallInv, CallFields, Receivings
<1> QED
  BY <1>1, <1>2, <1>4, <1>5 DEF ProcInv, RingInv

\* What a step does to the list of errors: nothing, a push or a pop.
Pushed == \E e \in Problems : elist' = ecx_pusherror(elist, e)
Popped == elist' = ecx_poperror(elist)

\* A procedure goes on where its mailbox function has left it.
LEMMA ProceedSteps ==
  ASSUME IsOp(op), Proceed
  PROVE  /\ GoesOn(op, op') /\ (elist' = elist \/ Pushed)
         /\ call' = CASE op'.pc = "receiving" -> Receive(FALSE)
                      [] op'.pc = "emptying"  -> AwaitEmpty
                      [] OTHER                -> Idle
<1> DEFINE s == CASE op.pc = "drain"    -> Quiet(Sending(op))
                  [] op.pc = "sending"  -> Quiet(OnSent(op, call.wkc))
                  [] op.pc = "emptying" -> Quiet(SoEwriteEmpty(op, call.wkc))
                  [] OTHER              -> OnAnswer(op, call.wkc, call.mail)
<1>1. /\ op' = [s.op EXCEPT !.stray = @ \/ TakenAstray] /\ elist' = IF s.err = NoError THEN elist ELSE ecx_pusherror(elist, s.err)
      /\ call' = CASE s.op.pc = "receiving" -> Receive(FALSE)
                   [] s.op.pc = "emptying"  -> AwaitEmpty
                   [] OTHER                 -> Idle
  BY DEF Proceed
<1>2. /\ IsStep(op, Quiet(Sending(op))) /\ IsStep(op, Quiet(OnSent(op, call.wkc)))
      /\ IsStep(op, Quiet(SoEwriteEmpty(op, call.wkc)))
      /\ IsStep(op, OnAnswer(op, call.wkc, call.mail))
  BY SentSteps, AnswerSteps, Reports
<1>3. IsStep(op, s)
  BY <1>2
<1> HIDE DEF s
<1>4. GoesOn(op, op') /\ op'.pc = s.op.pc
  <2>1. \E b : op' = [s.op EXCEPT !.stray = b]
    BY <1>1
  <2>2. GoesOn(op, s.op)
    BY <1>3 DEF IsStep
  <2> QED
    BY <2>1, <2>2 DEF GoesOn, SameJob, IsOp, Fields
<1> QED
  BY <1>1, <1>3, <1>4 DEF IsStep, Pushed

\* A mailbox function that is not under way does nothing, and one that is does not
\* turn into another.
LEMMA LayerCalls ==
  ASSUME CallInv, Layer
  PROVE  /\ DOMAIN call' = CallFields /\ mbx_cnt' = mbx_cnt
         /\ call'.at \in {"idle", "empty", "write", "done"} \cup Receivings
         /\ call'.at = "idle" <=> call.at = "idle"
         /\ call'.at \in Receivings => call.at \in Receivings
<1> USE DEF CallInv, CallFields, Receivings
<1>1. CASE FoundEmpty \/ NotEmpty
  BY <1>1 DEF FoundEmpty, NotEmpty, Return
<1>2. CASE \E fate \in Fates : WriteMail(fate)
  BY <1>2 DEF WriteMail, Return
<1>3. CASE FoundAvailable \/ (\E lost \in BOOLEAN : NotAvailable(lost))
  BY <1>3 DEF FoundAvailable, NotAvailable, Return
<1>4. CASE ReadMail
  BY <1>4 DEF ReadMail, Return
<1>5. CASE \E fate \in Fates : ReadMiss(fate) \/ ToggleRepeat(fate)
  BY <1>5 DEF ReadMiss, ToggleRepeat
<1>6. CASE AwaitAck \/ AwaitAgain
  BY <1>6 DEF AwaitAck, AwaitAgain
<1>7. CASE Expire
  BY <1>7 DEF Expire
<1>8. CASE PopError \/ PutMail \/ RepeatMail
  BY <1>8 DEF PopError, PutMail, RepeatMail
<1> QED
  BY <1>1, <1>2, <1>3, <1>4, <1>5, <1>6, <1>7, <1>8 DEF Layer, MailStep, ReceiveStep

LEMMA StartOp ==
  ASSUME Start, JobInv
  PROVE  /\ op' = [Call(Head(jobs)) EXCEPT !.pc = StartsAt(Head(jobs).proc), !.gaveup = op.gaveup,
                                         !.stray = op.stray]
         /\ IsOp(op') /\ Head(jobs) \in Jobs /\ op'.proc = Head(jobs).proc /\ op'.obj = Head(jobs).obj
         /\ op'.sub = Head(jobs).sub /\ op'.size = Head(jobs).size /\ op'.pc = StartsAt(op'.proc)
         /\ jobs' \in Seq(Jobs) /\ op'.pc \in {"drain", "send", "receiving"}
         /\ call' = IF op'.pc = "send" THEN Idle ELSE Receive(op'.pc = "drain")
<1>1. op' = [Call(Head(jobs)) EXCEPT !.pc = StartsAt(Head(jobs).proc), !.gaveup = op.gaveup,
                                         !.stray = op.stray]
  BY DEF Start
<1>2. jobs \in Seq(Jobs) /\ jobs # <<>> /\ jobs' = Tail(jobs)
  BY DEF Start, JobInv
<1>3. Head(jobs) \in Jobs /\ jobs' \in Seq(Jobs)
  BY <1>2
<1>4. /\ IsOp(op') /\ op'.proc = Head(jobs).proc /\ op'.obj = Head(jobs).obj
      /\ op'.sub = Head(jobs).sub /\ op'.size = Head(jobs).size /\ op'.pc = StartsAt(Head(jobs).proc)
  BY <1>1 DEF Call, IsOp, Fields
<1>5. op'.pc \in {"drain", "send", "receiving"}
  BY <1>4 DEF StartsAt
<1>6. call' = IF StartsAt(Head(jobs).proc) = "send" THEN Idle ELSE Receive(StartsAt(Head(jobs).proc) = "drain")
  BY DEF Start
<1> QED
  BY <1>1, <1>3, <1>4, <1>5, <1>6

LEMMA ListSteps ==
  ASSUME ProcInv, [Next]_vars
  PROVE  IsOp(op') /\ (elist' = elist \/ Pushed \/ Popped)
<1> USE DEF ProcInv, RingInv
<1>1. CASE Start
  BY <1>1, StartOp DEF Start
<1>2. CASE SendRequest
  <2>1. op' = [NextRequest(op).op EXCEPT !.pc = "sending"]
    BY <1>2 DEF SendRequest
  <2>2. IsOp(op')
    BY <2>1, RequestSteps DEF SameJob, IsOp
  <2> QED
    BY <1>2, <2>2 DEF SendRequest
<1>3. CASE Proceed
  BY <1>3, ProceedSteps, SameJobs DEF GoesOn
<1>4. CASE LayerStep
  <2>1. op' = op
    BY <1>4 DEF LayerStep, transfers
  <2>2. CASE MailStep
    BY <2>1, <2>2 DEF MailStep, FoundEmpty, NotEmpty, WriteMail
  <2>3. CASE ReadMail
    <3>1. \/ elist' = elist
          \/ elist' = ecx_pusherror(elist, ecx_mbxerror)
          \/ elist' = ecx_pusherror(elist, ecx_mbxemergencyerror)
      BY <2>3 DEF ReadMail
    <3> QED
      BY <2>1, <3>1 DEF Pushed, Problems, ecx_mbxerror, ecx_mbxemergencyerror
  <2>4. CASE ReceiveStep /\ ~ReadMail
    BY <2>1, <2>4 DEF ReceiveStep, FoundAvailable, NotAvailable, ReadMiss, ToggleRepeat, AwaitAck, AwaitAgain
  <2>5. CASE Expire \/ PutMail \/ RepeatMail
    BY <2>1, <2>5 DEF Expire, PutMail, RepeatMail
  <2>6. CASE PopError
    BY <2>1, <2>6 DEF PopError, Popped
  <2> QED
    BY <1>4, <2>2, <2>3, <2>4, <2>5, <2>6 DEF LayerStep, Layer
<1>5. CASE \E busy \in BOOLEAN : TakeMail(busy)
  BY <1>5 DEF TakeMail
<1>6. CASE Emergency \/ SendTraffic
  BY <1>6 DEF Emergency, SendTraffic, Unasked
<1>7. CASE UNCHANGED vars
  BY <1>7 DEF vars, layer, transfers
<1> QED
  BY <1>1, <1>2, <1>3, <1>4, <1>5, <1>6, <1>7 DEF Next

LEMMA NextRingInv == ProcInv /\ [Next]_vars => RingInv'
<1> SUFFICES ASSUME ProcInv, [Next]_vars PROVE RingInv'
  OBVIOUS
<1>1. IsOp(op') /\ (elist' = elist \/ Pushed \/ Popped)
  BY ListSteps
<1>2. elist \in Ring(Problems \cup {"none"})
  BY DEF ProcInv, RingInv
<1>3. ASSUME NEW e \in Problems
      PROVE  ecx_pusherror(elist, e) \in Ring(Problems \cup {"none"})
  BY <1>2, PushKeepsRing
<1>4. ecx_poperror(elist) \in Ring(Problems \cup {"none"})
  BY <1>2, PopKeepsRing
<1> QED
  BY <1>1, <1>2, <1>3, <1>4 DEF RingInv, Pushed, Popped

LEMMA NextProcInv == ProcInv /\ [Next]_vars => ProcInv'
<1> SUFFICES ASSUME ProcInv, [Next]_vars PROVE JobInv' /\ CallInv'
  BY NextRingInv DEF ProcInv
<1> USE DEF ProcInv
<1>1. CASE Start
  <2>1. JobInv'
    BY <1>1, StartOp DEF JobInv, Jobs, Pcs, Start
  <2>2. CallInv'
    <3>1. CASE op'.pc = "send"
      BY <1>1, <3>1, StartOp DEF CallInv, CallFields, Receivings, Idle
    <3>2. CASE op'.pc # "send"
      <4>1. call' = Receive(op'.pc = "drain") /\ op'.pc \in {"drain", "receiving"}
        BY <1>1, <3>2, StartOp
      <4> QED
        BY <4>1 DEF CallInv, CallFields, Receivings, Idle, Receive
    <3> QED
      BY <3>1, <3>2
  <2> QED
    BY <2>1, <2>2
<1>2. CASE SendRequest
  <2>1. op' = [NextRequest(op).op EXCEPT !.pc = "sending"] /\ op.pc = "send" /\ jobs' = jobs
    BY <1>2 DEF SendRequest
  <2>2. SameJob(op, NextRequest(op).op)
    BY RequestSteps DEF RingInv
  <2>3. op'.pc = "sending" /\ op'.proc = op.proc /\ op'.obj = op.obj /\ op'.size = op.size /\ op'.sub = op.sub
    BY <2>1, <2>2 DEF SameJob, IsOp, Fields, RingInv
  <2>7. mbx_cnt' \in 0 .. 7
    BY <1>2 DEF SendRequest, ec_nextmbxcnt, JobInv
  <2>4. JobInv'
    BY <2>1, <2>3, <2>7 DEF JobInv, Pcs
  <2>5. PICK m : call' = Send(m)
    BY <1>2 DEF SendRequest
  <2>6. DOMAIN call' = CallFields /\ call'.at = "empty"
    BY <2>5 DEF Send, Idle, CallFields
  <2> QED
    BY <2>3, <2>4, <2>6 DEF CallInv, Receivings
<1>3. CASE Proceed
  <2>1. GoesOn(op, op') /\ jobs' = jobs /\ call.at = "done" /\ mbx_cnt' = mbx_cnt
    BY <1>3, ProceedSteps DEF RingInv, Proceed
  <2>2. JobInv'
    BY <2>1 DEF JobInv, CallInv, GoesOn, SameJob, Onwards, Pcs
  <2>3. CASE op'.pc = "receiving"
    <3>1. call' = Receive(FALSE)
      BY <1>3, <2>3, ProceedSteps DEF RingInv
    <3> QED
      BY <2>2, <2>3, <3>1 DEF CallInv, CallFields, Receivings, Idle, Receive
  <2>4. CASE op'.pc = "emptying"
    <3>1. call' = AwaitEmpty
      BY <1>3, <2>4, ProceedSteps DEF RingInv
    <3> QED
      BY <2>2, <2>4, <3>1 DEF CallInv, CallFields, Receivings, Idle, AwaitEmpty
  <2>5. CASE op'.pc \in {"send", "done"}
    <3>1. call' = Idle
      BY <1>3, <2>5, ProceedSteps DEF RingInv
    <3> QED
      BY <2>2, <2>5, <3>1 DEF CallInv, CallFields, Receivings, Idle
  <2> QED
    BY <2>1, <2>3, <2>4, <2>5 DEF GoesOn, Onwards
<1>4. CASE LayerStep
  <2>1. op' = op /\ jobs' = jobs
    BY <1>4 DEF LayerStep, transfers
  <2> QED
    BY <1>4, <2>1, LayerCalls DEF JobInv, CallInv, LayerStep
<1>5. CASE (\E busy \in BOOLEAN : TakeMail(busy)) \/ Emergency \/ SendTraffic \/ UNCHANGED vars
  <2>1. op' = op /\ jobs' = jobs /\ call' = call /\ mbx_cnt' = mbx_cnt
    BY <1>5 DEF TakeMail, Emergency, SendTraffic, Unasked, vars, layer, transfers
  <2> QED
    BY <2>1 DEF JobInv, CallInv
<1> QED
  BY <1>1, <1>2, <1>3, <1>4, <1>5 DEF Next

LEMMA InitIsLogInit == Init => Log!Init
  BY EmptyRingIsEmpty DEF Init, Log!Init

LEMMA StepIsLogStep == ProcInv /\ [Next]_vars => [Log!Next]_(Contents(elist))
<1> SUFFICES ASSUME ProcInv, [Next]_vars PROVE [Log!Next]_(Contents(elist))
  OBVIOUS
<1>1. elist' = elist \/ Pushed \/ Popped
  BY ListSteps
<1>2. elist \in Ring(Problems \cup {"none"})
  BY DEF ProcInv, RingInv
<1>3. CASE elist' = elist
  BY <1>3
<1>4. CASE Pushed
  <2>1. PICK e \in Problems : elist' = ecx_pusherror(elist, e)
    BY <1>4 DEF Pushed
  <2>2. Contents(elist') =
          IF Len(Contents(elist)) = EC_MAXELIST THEN Append(Tail(Contents(elist)), e)
          ELSE Append(Contents(elist), e)
    BY <1>2, <2>1, PushIsLogged
  <2>3. Log!Push(e)
    BY <2>2 DEF Log!Push
  <2> QED
    BY <2>3 DEF Log!Next
<1>5. CASE Popped
  <2>1. Contents(elist') = IF Contents(elist) = <<>> THEN Contents(elist) ELSE Tail(Contents(elist))
    BY <1>2, <1>5, PopIsLogged DEF Popped
  <2>2. CASE Contents(elist) = <<>>
    BY <2>1, <2>2
  <2>3. CASE Contents(elist) # <<>>
    BY <2>1, <2>3 DEF Log!Next, Log!Pop
  <2> QED
    BY <2>2, <2>3
<1> QED
  BY <1>1, <1>3, <1>4, <1>5

\* Whatever the calls of a plan run into, the list of errors is a queue of at
\* most EC_MAXELIST errors that drops the oldest (ecx_pusherror, ecx_poperror).
THEOREM ErrorListIsLog == Spec => LogSpec
<1>1. Init => ProcInv
  BY InitProcInv
<1>2. ProcInv /\ [Next]_vars => ProcInv'
  BY NextProcInv
<1>3. Init => Log!Init
  BY InitIsLogInit
<1>4. ProcInv /\ [Next]_vars => [Log!Next]_(Contents(elist))
  BY StepIsLogStep
<1> QED
  BY <1>1, <1>2, <1>3, <1>4, PTL DEF Spec, LogSpec, Log!Spec

-----------------------------------------------------------------------------
LEMMA ProcInductive == Spec => []ProcInv
<1>1. Init => ProcInv
  BY InitProcInv
<1>2. ProcInv /\ [Next]_vars => ProcInv'
  BY NextProcInv
<1> QED
  BY <1>1, <1>2, PTL DEF Spec

\* For every plan: the counter keeps its three bits, the ring of errors is a ring,
\* and a procedure waits for the mailbox function it has called and no other.
THEOREM ProceduresTyped == Spec => []TypeOK
<1>1. ProcInv => TypeOK
  <2> SUFFICES ASSUME ProcInv PROVE TypeOK
    OBVIOUS
  <2>1. call.at \in {"avail", "read", "toggle", "ack", "again"} => op.pc \in {"drain", "receiving"}
    BY DEF ProcInv, CallInv, Receivings
  <2>2. call.at \in {"idle", "empty", "write", "avail", "read", "toggle", "ack", "again", "done"}
    BY DEF ProcInv, CallInv, Receivings
  <2> QED
    BY <2>1, <2>2 DEF ProcInv, RingInv, JobInv, CallInv, Pcs, TypeOK
<1> QED
  BY <1>1, ProcInductive, PTL

-----------------------------------------------------------------------------
(***************************************************************************)
(* The repeat request.  What is written is the bit as it was seen turned   *)
(* around, nobody but the master turns it, and a mailbox is lost only at   *)
(* the cost of a fault; so a single fault is repaired.                     *)
(***************************************************************************)
BoxFields == {"rl", "in", "out", "last", "todo", "seen", "req", "ack", "seenid", "unheard"}

RepeatInv ==
  /\ DOMAIN box = BoxFields /\ box.req \in BOOLEAN /\ box.ack \in BOOLEAN /\ box.unheard \in BOOLEAN
  /\ faults \in Nat
  /\ call.at \in {"read", "toggle"} => call.repeat = box.req
  /\ call.at = "ack" => call.repeat \in BOOLEAN
  /\ box.unheard => box.out = NoMail /\ faults >= 1
  /\ call.at = "read" => ~box.unheard
  /\ call.at = "toggle" /\ box.unheard => box.req = box.ack
  /\ LossRepaired

LEMMA InitRepeatInv == Init => RepeatInv
  BY DEF Init, RepeatInv, LossRepaired, EmptyBox, BoxFields, Idle

LEMMA FaultyFaults ==
  ASSUME faults \in Nat, NEW f \in BOOLEAN, Faulty(f)
  PROVE  faults' \in Nat /\ faults' = (IF f THEN faults + 1 ELSE faults)
  BY DEF Faulty

\* No step of the line, and none of the slave that is not about SM1.
LEMMA RepeatElsewhere ==
  ASSUME RepeatInv, faults' \in Nat, faults' >= faults, DOMAIN box' = BoxFields,
         UNCHANGED <<box.out, box.req, box.ack, box.unheard>>,
         call'.at \in {"read", "toggle", "ack"} => call'.at = call.at /\ call'.repeat = call.repeat,
         call.at = "toggle" => call'.at = "toggle"
  PROVE  RepeatInv'
<1> USE DEF RepeatInv
<1>1. LossRepaired'
  BY DEF LossRepaired
<1> QED
  BY <1>1

LEMMA NextRepeatInv == ProcInv /\ RepeatInv /\ [Next]_vars => RepeatInv'
<1> SUFFICES ASSUME ProcInv, RepeatInv, [Next]_vars PROVE RepeatInv'
  OBVIOUS
<1>1. CASE Start \/ SendRequest \/ Proceed
  <2>1. box' = box /\ faults' = faults /\ call.at \in {"idle", "done"}
    BY <1>1 DEF Start, SendRequest, Proceed, ProcInv, CallInv
  <2>2. call'.at \in {"idle", "empty", "avail"}
    <3>1. CASE Start
      BY <3>1 DEF Start, Idle, Receive
    <3>2. CASE SendRequest
      BY <3>2 DEF SendRequest, Send, Idle
    <3>3. CASE Proceed
      BY <3>3 DEF Proceed, Idle, Receive, AwaitEmpty
    <3> QED
      BY <1>1, <3>1, <3>2, <3>3
  <2> QED
    BY <2>1, <2>2 DEF RepeatInv, LossRepaired
<1>2. CASE LayerStep
  <2> USE DEF ProcInv, CallInv, CallFields, RepeatInv
  <2>1. CASE FoundEmpty \/ NotEmpty \/ (\E fate \in Fates : WriteMail(fate))
    <3>4. faults' = faults \/ \E f \in BOOLEAN : Faulty(f)
      BY <2>1 DEF FoundEmpty, NotEmpty, WriteMail
    <3>1. faults' \in Nat /\ faults' >= faults
      BY <3>4, FaultyFaults
    <3>2. call.at \in {"empty", "write"} /\ call'.at \in {"empty", "write", "done"}
      BY <2>1 DEF FoundEmpty, NotEmpty, WriteMail, Return
    <3>3. DOMAIN box' = BoxFields /\ UNCHANGED <<box.out, box.req, box.ack, box.unheard>>
      BY <2>1 DEF FoundEmpty, NotEmpty, WriteMail, BoxFields
    <3> QED
      BY <3>1, <3>2, <3>3, RepeatElsewhere
  <2>2. CASE FoundAvailable
    BY <2>2 DEF FoundAvailable, LossRepaired
  <2>3. CASE \E lost \in BOOLEAN : NotAvailable(lost)
    <3>1. faults' \in Nat /\ faults' >= faults
      BY <2>3, FaultyFaults DEF NotAvailable
    <3>2. call.at = "avail" /\ call'.at = "done" /\ box' = box
      BY <2>3 DEF NotAvailable, Return
    <3> QED
      BY <3>1, <3>2, RepeatElsewhere
  <2>4. CASE ReadMail
    <3>1. call.at = "read" /\ call'.at \in {"read", "done"} /\ call'.repeat = call.repeat
      BY <2>4 DEF ReadMail, Return
    <3>2. /\ DOMAIN box' = BoxFields /\ box'.unheard = FALSE
          /\ UNCHANGED <<box.req, box.ack>> /\ faults' = faults
      BY <2>4 DEF ReadMail, BoxFields
    <3> QED
      BY <3>1, <3>2 DEF LossRepaired
  <2>5. CASE \E fate \in Fates : ReadMiss(fate)
    <3>1. PICK fate \in Fates : ReadMiss(fate)
      BY <2>5
    <3>2. call.at = "read" /\ call'.at = "toggle" /\ call'.repeat = call.repeat
      BY <3>1 DEF ReadMiss
    <3>3. faults' \in Nat /\ faults' = (IF fate # "arrives" THEN faults + 1 ELSE faults)
      BY <3>1, FaultyFaults DEF ReadMiss
    <3>4. CASE box' = box
      BY <3>2, <3>3, <3>4 DEF LossRepaired
    <3>5. CASE fate = "unheard" /\ box' = [box EXCEPT !.out = NoMail, !.unheard = (box.req = box.ack)]
      <4>1. /\ DOMAIN box' = BoxFields /\ box'.out = NoMail /\ (box'.unheard <=> box.req = box.ack)
            /\ box'.unheard \in BOOLEAN /\ UNCHANGED <<box.req, box.ack>>
        BY <3>5 DEF BoxFields
      <4> QED
        BY <3>2, <3>3, <3>5, <4>1 DEF LossRepaired
    <3> QED
      BY <3>1, <3>4, <3>5 DEF ReadMiss
  <2>6. CASE \E fate \in Fates : ToggleRepeat(fate)
    <3>1. PICK fate \in Fates : ToggleRepeat(fate)
      BY <2>6
    <3>2. call.at = "toggle" /\ call'.at = "ack" /\ call'.repeat = ~call.repeat
      BY <3>1 DEF ToggleRepeat, RepeatBit
    <3>3. faults' \in Nat /\ faults' = (IF fate # "arrives" THEN faults + 1 ELSE faults)
      BY <3>1, FaultyFaults DEF ToggleRepeat
    <3>4. CASE fate = "lost"
      <4>1. box' = box
        BY <3>1, <3>4 DEF ToggleRepeat
      <4> QED
        BY <3>2, <3>3, <3>4, <4>1 DEF LossRepaired
    <3>5. CASE fate # "lost"
      <4>1. box' = [box EXCEPT !.req = ~box.req]
        BY <3>1, <3>2, <3>5 DEF ToggleRepeat, RepeatBit
      <4>2. /\ DOMAIN box' = BoxFields /\ box'.req = ~box.req /\ UNCHANGED <<box.ack, box.out, box.unheard>>
        BY <4>1 DEF BoxFields
      <4>3. box.unheard => box'.req # box'.ack
        BY <3>2, <4>2
      <4> QED
        BY <3>2, <3>3, <4>2, <4>3 DEF LossRepaired
    <3> QED
      BY <3>4, <3>5
  <2>7. CASE AwaitAck \/ AwaitAgain
    <3>1. box' = box /\ faults' = faults /\ call.at \in {"ack", "again"}
      BY <2>7 DEF AwaitAck, AwaitAgain
    <3>2. \/ call'.at \in {"again", "done"}
          \/ call'.at = "read" /\ call'.repeat = box.req /\ box.out # NoMail
      BY <2>7 DEF AwaitAck, AwaitAgain
    <3> QED
      BY <3>1, <3>2 DEF LossRepaired
  <2>8. CASE Expire
    <3>4. faults' = faults + 0 \/ faults' = faults + 1
      BY <2>8 DEF Expire, Faulty
    <3>1. faults' \in Nat /\ faults' >= faults
      BY <3>4
    <3>2. call'.at = call.at /\ call'.repeat = call.repeat /\ box' = box
      BY <2>8 DEF Expire
    <3> QED
      BY <3>1, <3>2, RepeatElsewhere
  <2>9. CASE PopError
    <3>1. call' = call /\ box' = box /\ faults' = faults
      BY <2>9 DEF PopError
    <3> QED
      BY <3>1, RepeatElsewhere
  <2>10. CASE PutMail \/ RepeatMail
    <3>1. call' = call /\ faults' = faults /\ DOMAIN box' = BoxFields /\ box'.unheard = FALSE
          /\ box'.req = box.req /\ box'.ack \in BOOLEAN
      BY <2>10 DEF PutMail, RepeatMail, BoxFields
    <3> QED
      BY <3>1 DEF LossRepaired
  <2> QED
    BY <1>2, <2>1, <2>2, <2>3, <2>4, <2>5, <2>6, <2>7, <2>8, <2>9, <2>10
       DEF LayerStep, Layer, MailStep, ReceiveStep
<1>3. CASE (\E busy \in BOOLEAN : TakeMail(busy)) \/ Emergency \/ SendTraffic
  <2>1. call' = call /\ faults' = faults
    BY <1>3 DEF TakeMail, Emergency, SendTraffic, Unasked
  <2>2. DOMAIN box' = BoxFields /\ UNCHANGED <<box.out, box.req, box.ack, box.unheard>>
    <3>1. CASE \E busy \in BOOLEAN : TakeMail(busy)
      <4>1. \E t : box' = [box EXCEPT !.in = NoMail, !.seen = box.in.cnt, !.seenid = box.in.id, !.todo = t]
        BY <3>1 DEF TakeMail
      <4> QED
        BY <4>1 DEF RepeatInv, BoxFields
    <3>2. CASE Emergency \/ SendTraffic
      <4>1. \E mail : box' = [box EXCEPT !.todo = Append(@, mail)]
        BY <3>2 DEF Emergency, SendTraffic, Unasked
      <4> QED
        BY <4>1 DEF RepeatInv, BoxFields
    <3> QED
      BY <1>3, <3>1, <3>2
  <2> QED
    BY <2>1, <2>2, RepeatElsewhere DEF RepeatInv
<1>4. CASE UNCHANGED vars
  BY <1>4 DEF vars, layer, RepeatInv, LossRepaired
<1> QED
  BY <1>1, <1>2, <1>3, <1>4 DEF Next

\* Whatever calls are made to whatever slave, with any number of faults: a mailbox
\* whose read was lost is asked for again (ecx_mbxreceive).
THEOREM LossesAreRepaired == Spec => []LossRepaired
<1>1. Init => RepeatInv
  BY InitRepeatInv
<1>2. ProcInv /\ RepeatInv /\ [Next]_vars => RepeatInv'
  BY NextRepeatInv
<1>3. RepeatInv => LossRepaired
  BY DEF RepeatInv
<1> QED
  BY <1>1, <1>2, <1>3, ProcInductive, PTL DEF Spec

-----------------------------------------------------------------------------
(***************************************************************************)
(* Fragments.  What the hook is given are the fragments of the plan: none  *)
(* of the servers answers with one.                                        *)
(***************************************************************************)
NoFragment(m) == ~(m.type = "eoe" /\ m.kind = "frag")

\* a sequence of mailboxes without a fragment
Plain(s) == \E U : s \in Seq(U) /\ \A m \in U : NoFragment(m)

LEMMA OverFields ==
  ASSUME NEW fields, NEW rest, NEW f \in DOMAIN fields \cup DOMAIN rest
  PROVE  Over(fields, rest)[f] = IF f \in DOMAIN fields THEN fields[f] ELSE rest[f]
  BY DEF Over

LEMMA AnswerTypes ==
  ASSUME NEW fields, "type" \notin DOMAIN fields, NEW cmd
  PROVE  /\ CoeAnswer(cmd, fields).type = "coe" /\ FoeAnswer(fields).type = "foe"
         /\ SoeAnswer(cmd, fields).type = "soe"
         /\ "kind" \in DOMAIN fields => EoeAnswer(fields).kind = fields.kind
  BY OverFields DEF CoeAnswer, FoeAnswer, SoeAnswer, EoeAnswer

LEMMA PlainOver ==
  ASSUME NEW U, NEW s \in Seq(U), \A m \in U : NoFragment(m)
  PROVE  Plain(s)
  BY Zenon DEF Plain

LEMMA EmptyPlain == Plain(<<>>)
<1> DEFINE U == {}
           s == <<>>
<1>1. s \in Seq(U) /\ \A m \in U : NoFragment(m)
  OBVIOUS
<1> HIDE DEF U, s
<1>2. Plain(s)
  BY <1>1, PlainOver
<1> QED
  BY <1>2 DEF s

LEMMA SinglePlain ==
  ASSUME NEW m, NoFragment(m)
  PROVE  Plain(<<m>>)
<1> DEFINE U == {m}
           s == <<m>>
<1>1. s \in Seq(U) /\ \A x \in U : NoFragment(x)
  OBVIOUS
<1> HIDE DEF U, s
<1>2. Plain(s)
  BY <1>1, PlainOver
<1> QED
  BY <1>2 DEF s

LEMMA ManyPlain ==
  ASSUME NEW n \in Nat, NEW s, DOMAIN s = 1 .. n, s = [i \in 1 .. n |-> s[i]],
         \A i \in 1 .. n : NoFragment(s[i])
  PROVE  Plain(s)
<1> DEFINE U == {s[i] : i \in 1 .. n}
<1>1. s \in Seq(U)
  BY IsASeq
<1>2. \A m \in U : NoFragment(m)
  OBVIOUS
<1> HIDE DEF U
<1> QED
  BY <1>1, <1>2, PlainOver

LEMMA LeastOfNats ==
  ASSUME NEW S \in SUBSET Nat, S # {}
  PROVE  \E x \in S : \A y \in S : x <= y
<1>1. PICK x \in S : \A y \in S : <<y, x>> \notin OpToRel(<, Nat)
  BY NatLessThanWellFounded, WFMin
<1>2. \A y \in S : x <= y
  <2> SUFFICES ASSUME NEW y \in S, y < x PROVE FALSE
    OBVIOUS
  <2>1. <<y, x>> \in OpToRel(<, Nat)
    BY DEF OpToRel
  <2> QED
    BY <1>1, <2>1
<1> QED
  BY <1>2

\* A positive number of entries needs some number of fragments.
LEMMA Pieces ==
  ASSUME NEW total \in Nat \ {0}, NEW first \in Nat, NEW later \in Nat, first > 0, later > 0
  PROVE  \E n \in 1 .. total : /\ (IF n = 1 THEN 0 ELSE first + (n - 2) * later) < total
                               /\ total <= (IF n + 1 = 1 THEN 0 ELSE first + (n + 1 - 2) * later)
<1> DEFINE S == {n \in 1 .. total : total <= first + (n - 1) * later}
<1>1. total \in S
  <2>1. (total - 1) * later >= total - 1
    <3>1. PICK t \in Nat : t = total - 1
      OBVIOUS
    <3>2. t * later >= t
      OBVIOUS
    <3> QED
      BY <3>1, <3>2
  <2> QED
    BY <2>1
<1>2. PICK n \in S : \A k \in S : n <= k
  <2>1. S \subseteq 1 .. total /\ S # {}
    <3>1. S \subseteq 1 .. total
      OBVIOUS
    <3> HIDE DEF S
    <3> QED
      BY <1>1, <3>1
  <2>2. S \in SUBSET Nat
    <3> HIDE DEF S
    <3> QED
      BY <2>1
  <2> HIDE DEF S
  <2> QED
    BY <2>1, <2>2, LeastOfNats
<1>3. CASE n = 1
  BY <1>2, <1>3
<1>4. CASE n # 1
  <2>1. n - 1 \in 1 .. total /\ n - 1 \notin S
    BY <1>2, <1>4
  <2>2. first + (n - 2) * later < total
    BY <2>1
  <2> QED
    BY <1>2, <1>4, <2>2
<1> QED
  BY <1>3, <1>4

\* a mailbox is about an object the slave could have
Known(m) == m.type \in {"coe", "soe"} => m.obj \in DOMAIN ObjSize

\* the lengths a mailbox to be read may have
ReadLengths == 42 .. 1486

LEMMA InfoPlain ==
  ASSUME NEW rl \in ReadLengths, NEW m, m.obj \in DOMAIN ObjSize
  PROVE  Plain(ServeInfo(m, rl))
<1> DEFINE Fragment(i) == (rl - IF i = 1 THEN 14 ELSE 12) \div 2
           Before(i)   == IF i = 1 THEN 0 ELSE Fragment(1) + (i - 2) * Fragment(2)
           Enough(n)   == Before(n) < ObjSize[m.obj] /\ ObjSize[m.obj] <= Before(n + 1)
           count       == CHOOSE n \in 1 .. ObjSize[m.obj] : Enough(n)
           answers     == [i \in 1 .. count |->
              CoeAnswer("ODlist", [service |-> "sdoinfo", of |-> <<m.obj, m.sub>>, off |-> Before(i),
                 total |-> 0, left |-> count - i,
                 length |-> (IF i = 1 THEN 8 ELSE 6)
                            + 2 * (Lesser(ObjSize[m.obj], Before(i + 1)) - Before(i))])]
<1>1. ASSUME NEW cmd, NEW fields, "type" \notin DOMAIN fields
      PROVE  NoFragment(CoeAnswer(cmd, fields))
  BY <1>1, AnswerTypes DEF NoFragment
<1>2. CASE Missing(m)
  BY <1>1, <1>2, SinglePlain DEF ServeInfo
<1>3. CASE ~Missing(m) /\ m.cmd # "ODlist"
  BY <1>1, <1>3, SinglePlain DEF ServeInfo
<1>4. CASE ~Missing(m) /\ m.cmd = "ODlist"
  <2>1. ObjSize[m.obj] \in Nat \ {0}
    BY <1>4, ObjectAssumption DEF Missing
  <2>2. Fragment(1) \in Nat /\ Fragment(1) > 0 /\ Fragment(2) \in Nat /\ Fragment(2) > 0
    BY DEF ReadLengths
  <2>3. \E n \in 1 .. ObjSize[m.obj] : Enough(n)
    <3>1. PICK first \in Nat, later \in Nat : first = Fragment(1) /\ later = Fragment(2)
      BY <2>2
    <3>3. PICK n \in 1 .. ObjSize[m.obj] :
            /\ (IF n = 1 THEN 0 ELSE first + (n - 2) * later) < ObjSize[m.obj]
            /\ ObjSize[m.obj] <= (IF n + 1 = 1 THEN 0 ELSE first + (n + 1 - 2) * later)
      BY <2>1, <2>2, <3>1, Pieces
    <3>2. /\ Before(n) = (IF n = 1 THEN 0 ELSE first + (n - 2) * later)
          /\ Before(n + 1) = (IF n + 1 = 1 THEN 0 ELSE first + (n + 1 - 2) * later)
      BY <3>1
    <3> HIDE DEF Before
    <3>4. Before(n) < ObjSize[m.obj] /\ ObjSize[m.obj] <= Before(n + 1)
      BY <3>2, <3>3
    <3> QED
      BY <3>4
  <2> HIDE DEF Enough
  <2>4. count \in 1 .. ObjSize[m.obj]
    BY <2>3
  <2> HIDE DEF count
  <2>5. count \in Nat
    BY <2>1, <2>4
  <2>6. \A i \in 1 .. count : NoFragment(answers[i])
    BY <1>1
  <2>7. Plain(answers)
    <3> HIDE DEF Before
    <3> QED
    BY <2>5, <2>6, ManyPlain
  <2>8. ServeInfo(m, rl) = answers
    BY <1>4 DEF ServeInfo, count, Enough
  <2> QED
    BY <2>7, <2>8
<1> QED
  BY <1>2, <1>3, <1>4

LEMMA CoePlain ==
  ASSUME NEW rl \in ReadLengths, NEW srv0, NEW m, m.obj \in DOMAIN ObjSize
  PROVE  Plain(ServeCoe(srv0, m, rl).answers)
<1>1. ASSUME NEW cmd, NEW fields, "type" \notin DOMAIN fields
      PROVE  Plain(<<CoeAnswer(cmd, fields)>>)
  BY <1>1, AnswerTypes, SinglePlain DEF NoFragment
<1>2. Plain(<<Abort>>) /\ Plain(<<>>)
  BY <1>1, EmptyPlain DEF Abort
<1>3. Plain(ServeUpload(m, rl).answers)
  BY <1>1, <1>2 DEF ServeUpload, Served
<1>4. Plain(ServeUploadSegment(srv0, m, rl).answers)
  BY <1>1, <1>2 DEF ServeUploadSegment, Served
<1>5. Plain(ServeDownload(m).answers)
  BY <1>1, <1>2 DEF ServeDownload, Served
<1>6. Plain(ServeDownloadSegment(srv0, m).answers)
  BY <1>1, <1>2 DEF ServeDownloadSegment, Served
<1>7. Plain(ServeInfo(m, rl))
  BY InfoPlain
<1> QED
  BY <1>1, <1>2, <1>3, <1>4, <1>5, <1>6, <1>7 DEF ServeCoe, Served

LEMMA FoePlain ==
  ASSUME NEW rl, NEW srv0, NEW m, NEW busy
  PROVE  Plain(ServeFoe(srv0, m, busy, rl).answers)
<1>1. ASSUME NEW fields, "type" \notin DOMAIN fields
      PROVE  Plain(<<FoeAnswer(fields)>>)
  BY <1>1, AnswerTypes, SinglePlain DEF NoFragment
<1>2. \A s, total : Plain(FoeData(s, total, rl).answers)
  BY <1>1 DEF FoeData, Served
<1>3. \A s : Plain(FoeAck(s).answers)
  BY <1>1 DEF FoeAck, Served
<1>4. Plain(<<>>)
  BY EmptyPlain
<1> QED
  BY <1>1, <1>2, <1>3, <1>4 DEF ServeFoe, Served

LEMMA SoePlain ==
  ASSUME NEW rl \in ReadLengths, NEW srv0, NEW m, m.obj \in DOMAIN ObjSize
  PROVE  Plain(ServeSoe(srv0, m, rl).answers)
<1> DEFINE total   == ObjSize[m.obj]
           room    == rl - 10
           count   == (total + room - 1) \div room
           answers == [i \in 1 .. count |->
             SoeAnswer("readres", [sub |-> m.sub, of |-> <<m.obj, m.sub>>, off |-> (i - 1) * room,
                                   len |-> Lesser(total - (i - 1) * room, room),
                                   incomplete |-> i < count])]
<1>1. ASSUME NEW op0, NEW fields, "type" \notin DOMAIN fields
      PROVE  NoFragment(SoeAnswer(op0, fields))
  BY <1>1, AnswerTypes DEF NoFragment
<1>2. ASSUME NEW op0, NEW fields, "type" \notin DOMAIN fields
      PROVE  Plain(<<SoeAnswer(op0, fields)>>)
  BY <1>1, <1>2, SinglePlain
<1>3. Plain(<<>>)
  BY EmptyPlain
<1>4. Plain(answers)
  <2>1. total \in Nat /\ room \in Nat /\ room > 0
    BY ObjectAssumption DEF ReadLengths
  <2>2. count \in Nat
    <3>1. \A a \in Nat, b \in Nat : b > 0 => a \div b \in Nat
      OBVIOUS
    <3>2. total + room - 1 \in Nat
      BY <2>1
    <3> QED
      BY <2>1, <3>1, <3>2
  <2> HIDE DEF total, count
  <2>3. \A i \in 1 .. count : NoFragment(answers[i])
    BY <1>1
  <2> QED
    BY <2>2, <2>3, ManyPlain
<1>5. CASE Missing(m)
  BY <1>2, <1>5 DEF ServeSoe, Served
<1>6. CASE ~Missing(m) /\ m.op = "readreq"
  <2>1. ServeSoe(srv0, m, rl).answers = answers
    BY <1>6 DEF ServeSoe, Served
  <2> QED
    BY <1>4, <2>1
<1>7. CASE ~Missing(m) /\ m.op # "readreq"
  BY <1>2, <1>3, <1>7 DEF ServeSoe, Served
<1> QED
  BY <1>5, <1>6, <1>7

LEMMA EoePlain ==
  ASSUME NEW srv0, NEW m
  PROVE  Plain(ServeEoe(srv0, m).answers)
<1>1. ASSUME NEW fields, "kind" \in DOMAIN fields, "type" \notin DOMAIN fields, fields.kind # "frag"
      PROVE  Plain(<<EoeAnswer(fields)>>)
  BY <1>1, AnswerTypes, SinglePlain DEF NoFragment
<1>2. Plain(<<>>)
  BY EmptyPlain
<1> QED
  BY <1>1, <1>2 DEF ServeEoe, Served

LEMMA ServePlain ==
  ASSUME NEW rl \in ReadLengths, NEW srv0, NEW m, Known(m), NEW busy
  PROVE  Plain(Serve(srv0, m, busy, rl).answers)
  BY CoePlain, FoePlain, SoePlain, EoePlain DEF Serve, Known

-----------------------------------------------------------------------------
(***************************************************************************)
(* What the hook keeps: a frame that has begun ends where a fragment of    *)
(* the traffic ends, and is made of pieces of the frame of that one.       *)
(***************************************************************************)
HookFields == {"frag", "size", "offset", "frame", "of", "ends", "complete"}

EndsWith(r, f) ==
  /\ r.frag = f.frag + 1 /\ r.frame = f.frame /\ r.offset = f.off + f.len
  /\ r.of = {<<f.of, TRUE>>}

HookKept(T, r) ==
  /\ DOMAIN r = HookFields
  /\ r.frag # 0 => \E f \in T : EndsWith(r, f)
  /\ r.complete = {} \/ \E x : r.complete = {<<x, TRUE>>}

\* the fragments of a plan
Sent(T) == T \subseteq Fragments /\ \A f, g \in T : Follows(f, g) => f.of = g.of

\* The hook leaves what it does not keep, and goes on with a fragment where the
\* frame it has ends.
LEMMA HookStep ==
  ASSUME NEW T, Sent(T), NEW r, HookKept(T, r), NEW m \in T, NEW room
  PROVE  HookKept(T, ecx_EOEreadfragment(r, m, room))
<1> DEFINE known  == IF r.frag # m.frag THEN Restarted(r) ELSE r
           begun  == IF known.frag = 0
                     THEN [known EXCEPT !.size = m.offset * 32, !.offset = 0, !.frame = m.frame, !.of = {}]
                     ELSE known
           copied == CopyFragment(begun, m, room)
           ended  == [Restarted(copied) EXCEPT !.ends = copied.offset - (IF m.stamp THEN 4 ELSE 0),
                                               !.complete = copied.of]
<1>1. /\ m.frag \in Nat /\ m.frame \in 0 .. 15 /\ m.off \in Nat /\ m.len \in Nat /\ m.offset \in Nat
      /\ m.off = (IF m.frag = 0 THEN 0 ELSE 32 * m.offset)
  BY DEF Sent, Fragments
<1>2. ASSUME NEW q, HookKept(T, q)
      PROVE  HookKept(T, Restarted(q)) /\ Restarted(q).frag = 0 /\ Restarted(q).complete = q.complete
             /\ DOMAIN Restarted(q) = HookFields
  BY <1>2 DEF HookKept, HookFields, Restarted
<1>3. HookKept(T, known) /\ (known.frag = 0 \/ (known = r /\ r.frag = m.frag))
  <2>1. CASE r.frag # m.frag
    <3>1. known = Restarted(r)
      BY <2>1
    <3> QED
      BY <1>2, <3>1
  <2>2. CASE r.frag = m.frag
    <3>1. known = r
      BY <2>2
    <3> QED
      BY <2>2, <3>1
  <2> QED
    BY <2>1, <2>2
<1>4. HookKept(T, Restarted(known))
  BY <1>2, <1>3
<1>5. CASE r.frag # m.frag /\ m.frag > 0
  BY <1>3, <1>5 DEF ecx_EOEreadfragment
<1>6. CASE known.frag # 0 /\ Misplaced(known, m)
  BY <1>3, <1>4, <1>6 DEF ecx_EOEreadfragment
<1>7. CASE ~(r.frag # m.frag /\ m.frag > 0) /\ ~(known.frag # 0 /\ Misplaced(known, m))
  <2>1. known.frag = m.frag
    <3>1. CASE r.frag = m.frag
      BY <3>1
    <3>2. CASE r.frag # m.frag
      BY <1>1, <1>2, <1>7, <3>2
    <3> QED
      BY <3>1, <3>2
  <2> HIDE DEF known
  <2>2. /\ DOMAIN begun = HookFields /\ begun.frag = m.frag /\ begun.frame = m.frame
        /\ begun.offset = m.off /\ begun.complete = known.complete
        /\ begun.of = {} \/ begun.of = {<<m.of, TRUE>>}
        /\ m.frag # 0 => \E f \in T : EndsWith(begun, f)
    <3>1. CASE known.frag = 0
      BY <1>1, <1>3, <2>1, <3>1 DEF HookKept, HookFields
    <3>2. CASE known.frag # 0
      <4>1. known.frame = m.frame /\ known.offset = m.offset * 32 /\ begun = known
        BY <1>7, <3>2 DEF Misplaced
      <4>2. PICK f \in T : EndsWith(known, f)
        BY <1>3, <3>2 DEF HookKept
      <4>3. f.frag \in Nat /\ f.off \in Nat /\ f.len \in Nat
        BY DEF Sent, Fragments
      <4>4. Follows(f, m)
        BY <1>1, <2>1, <3>2, <4>1, <4>2, <4>3 DEF Follows, EndsWith
      <4>5. f.of = m.of
        BY <4>4 DEF Sent
      <4>6. known.frag = f.frag + 1 /\ known.of = {<<m.of, TRUE>>}
        BY <4>2, <4>5 DEF EndsWith
      <4>7. m.off = known.offset
        BY <1>1, <2>1, <3>2, <4>1
      <4>8. DOMAIN known = HookFields
        BY <1>3 DEF HookKept
      <4> HIDE DEF begun
      <4> QED
        BY <2>1, <4>1, <4>2, <4>6, <4>7, <4>8
    <3> QED
      BY <3>1, <3>2
  <2>3. known.complete = {} \/ \E x : known.complete = {<<x, TRUE>>}
    BY <1>3 DEF HookKept
  <2> HIDE DEF begun
  <2>4. HookKept(T, copied) /\ (copied.of = {} \/ copied.of = {<<m.of, TRUE>>})
    <3>1. CASE begun.offset + m.len <= begun.size /\ begun.offset + m.len <= room
      <4>1. copied = [begun EXCEPT !.offset = @ + m.len, !.frag = @ + 1,
                                   !.of = @ \cup {<<m.of, m.off = begun.offset>>}]
        BY <3>1 DEF CopyFragment
      <4>2. (m.off = begun.offset) = TRUE
        BY <2>2
      <4>3. /\ DOMAIN copied = HookFields /\ copied.frag = m.frag + 1 /\ copied.frame = m.frame
            /\ copied.offset = m.off + m.len /\ copied.complete = begun.complete
            /\ copied.of = begun.of \cup {<<m.of, TRUE>>}
        BY ZenonT(40), <2>2, <4>1, <4>2 DEF HookFields
      <4>4. copied.of = {<<m.of, TRUE>>}
        BY <2>2, <4>3
      <4>5. EndsWith(copied, m)
        BY <4>3, <4>4 DEF EndsWith
      <4> HIDE DEF copied
      <4> QED
        BY <2>2, <2>3, <4>3, <4>4, <4>5 DEF HookKept
    <3>2. CASE ~(begun.offset + m.len <= begun.size /\ begun.offset + m.len <= room)
      <4>1. copied = begun
        BY <3>2 DEF CopyFragment
      <4> HIDE DEF copied
      <4> QED
        BY <2>2, <2>3, <4>1 DEF HookKept
    <3> QED
      BY <3>1, <3>2
  <2> HIDE DEF copied
  <2>5. HookKept(T, ended)
    <3>1. DOMAIN ended = HookFields /\ ended.frag = 0 /\ ended.complete = copied.of
      BY <1>2, <2>4 DEF HookFields
    <3> HIDE DEF ended
    <3> QED
      BY <2>4, <3>1 DEF HookKept
  <2>6. \/ ecx_EOEreadfragment(r, m, room) = copied
        \/ ecx_EOEreadfragment(r, m, room) = ended
        \/ ecx_EOEreadfragment(r, m, room) = r
    BY <1>7, <2>1 DEF ecx_EOEreadfragment, known, begun, copied, ended
  <2> QED
    BY <2>4, <2>5, <2>6
<1> QED
  BY <1>5, <1>6, <1>7

\* every fragment on its way is one of the traffic
OfTraffic(T, m) == m.type = "eoe" /\ m.kind = "frag" => m \in T

Stocked(T, s) == \E U : s \in Seq(U) /\ \A m \in U : OfTraffic(T, m)

EoeInv(T) ==
  /\ traffic \in Seq(T)
  /\ Stocked(T, box.todo) /\ OfTraffic(T, box.out) /\ OfTraffic(T, box.last)
  /\ HookKept(T, rx)

RoomInv == box.rl \in ReadLengths

KnownInv == Known(box.in) /\ (call.at \in {"empty", "write"} => Known(call.mail))

TrafficOf(p) == {p.traffic[i] : i \in DOMAIN p.traffic}

FragmentInv == RoomInv /\ KnownInv /\ \E p \in Plans : EoeInv(TrafficOf(p))

LEMMA TrafficSent ==
  ASSUME NEW p \in Plans
  PROVE  Sent(TrafficOf(p)) /\ p.traffic \in Seq(TrafficOf(p))
<1>1. p.traffic \in Seq(Fragments)
  BY TrafficAssumption
<1>2. \A i \in DOMAIN p.traffic : p.traffic[i] \in Fragments
  BY <1>1
<1>3. p.traffic \in Seq(TrafficOf(p))
  <2>1. p.traffic = [i \in 1 .. Len(p.traffic) |-> p.traffic[i]] /\ Len(p.traffic) \in Nat
        /\ DOMAIN p.traffic = 1 .. Len(p.traffic)
    BY <1>1
  <2> QED
    BY <2>1, IsASeq DEF TrafficOf
<1> QED
  BY <1>2, <1>3, TrafficAssumption DEF Sent, TrafficOf

LEMMA InitFragmentInv == Init => FragmentInv
<1> SUFFICES ASSUME Init PROVE FragmentInv
  OBVIOUS
<1>1. PICK p \in Plans : traffic = p.traffic /\ box = EmptyBox(p.cnt, p.rl)
  BY DEF Init
<1>2. traffic \in Seq(TrafficOf(p))
  BY <1>1, TrafficSent
<1>3. box.in = NoMail /\ box.out = NoMail /\ box.last = NoMail /\ box.todo = <<>> /\ call.at = "idle"
  BY <1>1 DEF Init, EmptyBox, Idle
<1>6. RoomInv
  BY <1>1, PlanAssumption DEF EmptyBox, RoomInv, ReadLengths
<1>4. HookKept(TrafficOf(p), rx)
  BY DEF Init, NoFragments, HookKept, HookFields
<1>5. Stocked(TrafficOf(p), box.todo)
  <2> DEFINE U == {}
  <2>1. box.todo \in Seq(U) /\ \A m \in U : OfTraffic(TrafficOf(p), m)
    BY <1>3
  <2> HIDE DEF U
  <2> QED
    BY <2>1 DEF Stocked
<1> QED
  BY <1>2, <1>3, <1>4, <1>5, <1>6 DEF FragmentInv, EoeInv, KnownInv, Known, OfTraffic, NoMail

\* What a sequence loses or gains at its ends.
LEMMA StockedSteps ==
  ASSUME NEW T, NEW s, Stocked(T, s)
  PROVE  /\ \A m : OfTraffic(T, m) => Stocked(T, Append(s, m))
         /\ \A t : Plain(t) => Stocked(T, s \o t)
         /\ s # <<>> => Stocked(T, Tail(s)) /\ OfTraffic(T, Head(s))
<1>1. PICK U : s \in Seq(U) /\ \A m \in U : OfTraffic(T, m)
  BY DEF Stocked
<1>2. ASSUME NEW m, OfTraffic(T, m)
      PROVE  Stocked(T, Append(s, m))
  <2> DEFINE V == U \cup {m}
  <2>1. Append(s, m) \in Seq(V)
    <3>1. s \in Seq(V)
      BY <1>1
    <3> QED
      BY <3>1
  <2>2. \A x \in V : OfTraffic(T, x)
    BY <1>1, <1>2
  <2> HIDE DEF V
  <2> QED
    BY <2>1, <2>2 DEF Stocked
<1>3. ASSUME NEW t, Plain(t)
      PROVE  Stocked(T, s \o t)
  <2>1. PICK W : t \in Seq(W) /\ \A m \in W : NoFragment(m)
    BY <1>3 DEF Plain
  <2> DEFINE V == U \cup W
  <2>2. s \in Seq(V) /\ t \in Seq(V)
    BY <1>1, <2>1
  <2>3. s \o t \in Seq(V)
    <3> HIDE DEF V
    <3> QED
      BY <2>2
  <2>4. \A x \in V : OfTraffic(T, x)
    BY <1>1, <2>1 DEF NoFragment, OfTraffic
  <2> HIDE DEF V
  <2> QED
    BY <2>3, <2>4 DEF Stocked
<1>4. ASSUME s # <<>>
      PROVE  Stocked(T, Tail(s)) /\ OfTraffic(T, Head(s))
  <2>1. Tail(s) \in Seq(U) /\ Head(s) \in U
    BY <1>1, <1>4
  <2> QED
    BY <1>1, <2>1 DEF Stocked
<1> QED
  BY <1>2, <1>3, <1>4

\* What a procedure asks for is the object of its job.
LEMMA RequestKnown ==
  ASSUME NEW o, o.obj \in DOMAIN ObjSize, NEW c, NEW n
  PROVE  Known(Numbered(NextRequest(o).mail, c, n))
<1> DEFINE Of(m) == "type" \in DOMAIN m /\ (m.type \in {"coe", "soe"} => "obj" \in DOMAIN m /\ m.obj = o.obj)
<1>1. ASSUME NEW m, Of(m)
      PROVE  Known(Numbered(m, c, n))
  BY <1>1 DEF Known, Numbered
<1>2. ASSUME NEW kind, NEW fields, "type" \notin DOMAIN fields, "obj" \notin DOMAIN fields
      PROVE  Of(SdoRequest(o, kind, fields))
  BY <1>2 DEF SdoRequest, Over
<1>3. Of(SDOreadRequest(o)) /\ Of(SDOwriteRequest(o).mail)
  BY <1>2 DEF SDOreadRequest, SDOwriteRequest, SDOwriteFirst, SDOwriteSegment
<1>4. Of(RxPDORequest(o).mail) /\ Of(TxPDORequest(o))
  BY DEF RxPDORequest, TxPDORequest
<1>5. Of(ODlistRequest(o)) /\ Of(ODdescriptionRequest(o)) /\ Of(OEsingleRequest(o))
  BY DEF ODlistRequest, ODdescriptionRequest, OEsingleRequest
<1>6. Of(FOEreadRequest(o)) /\ Of(FOEwriteRequest(o))
  BY DEF FOEreadRequest, FOEwriteRequest, FoeMail
<1>7. Of(SoEreadRequest(o)) /\ Of(SoEwriteRequest(o).mail)
  BY DEF SoEreadRequest, SoEwriteRequest, SoeMail
<1>8. Of(EOEsendRequest(o, 1).mail) /\ Of(EOEsetIpRequest(o)) /\ Of(EOEgetIpRequest(o))
  BY DEF EOEsendRequest, EOEsetIpRequest, EOEgetIpRequest
<1>9. Of(NextRequest(o).mail)
  <2> HIDE DEF Of
  <2> QED
    BY <1>3, <1>4, <1>5, <1>6, <1>7, <1>8 DEF NextRequest, Same
<1> QED
  BY <1>1, <1>9

LEMMA NextKnownInv == ProcInv /\ RepeatInv /\ KnownInv /\ [Next]_vars => KnownInv'
<1> SUFFICES ASSUME ProcInv, RepeatInv, KnownInv, [Next]_vars PROVE KnownInv'
  OBVIOUS
<1> USE DEF KnownInv
<1>1. CASE Start \/ Proceed
  <2>1. box' = box
    BY <1>1 DEF Start, Proceed
  <2>2. call'.at # "write" /\ (call'.at = "empty" => call'.mail = NoMail)
    <3>1. CASE Start
      BY <3>1 DEF Start, Idle, Receive
    <3>2. CASE Proceed
      BY <3>2 DEF Proceed, Idle, Receive, AwaitEmpty
    <3> QED
      BY <1>1, <3>1, <3>2
  <2> QED
    BY <2>1, <2>2 DEF Known, NoMail
<1>2. CASE SendRequest
  <2>1. op.obj \in DOMAIN ObjSize
    BY <1>2 DEF SendRequest, ProcInv, JobInv
  <2>2. box' = box /\ call' = Send(Numbered(NextRequest(op).mail, ec_nextmbxcnt(mbx_cnt), sent + 1))
    BY <1>2 DEF SendRequest
  <2>3. call'.mail = Numbered(NextRequest(op).mail, ec_nextmbxcnt(mbx_cnt), sent + 1)
    BY <2>2 DEF Send, Idle
  <2> QED
    BY <2>1, <2>2, <2>3, RequestKnown
<1>3. CASE LayerStep
  <2> USE DEF ProcInv, CallInv, CallFields, RepeatInv, BoxFields
  <2>1. CASE FoundEmpty \/ NotEmpty
    BY <2>1 DEF FoundEmpty, NotEmpty, Return
  <2>2. CASE \E fate \in Fates : WriteMail(fate)
    BY <2>2 DEF WriteMail, Return
  <2>3. CASE ReceiveStep
    <3>1. call.at \in Receivings /\ call'.at \notin {"empty", "write"}
      BY <2>3 DEF ReceiveStep, FoundAvailable, NotAvailable, ReadMail, ReadMiss, ToggleRepeat,
                  AwaitAck, AwaitAgain, Return, Receivings
    <3>2. box'.in = box.in
      BY <2>3 DEF ReceiveStep, FoundAvailable, NotAvailable, ReadMail, ReadMiss, ToggleRepeat,
                  AwaitAck, AwaitAgain
    <3> QED
      BY <3>1, <3>2
  <2>4. CASE Expire
    BY <2>4 DEF Expire
  <2>5. CASE PopError \/ PutMail \/ RepeatMail
    BY <2>5 DEF PopError, PutMail, RepeatMail
  <2> QED
    BY <1>3, <2>1, <2>2, <2>3, <2>4, <2>5 DEF LayerStep, Layer, MailStep
<1>4. CASE \E busy \in BOOLEAN : TakeMail(busy)
  <2>1. call' = call /\ \E t : box' = [box EXCEPT !.in = NoMail, !.seen = box.in.cnt, !.seenid = box.in.id, !.todo = t]
    BY <1>4 DEF TakeMail
  <2>2. box'.in = NoMail
    BY <2>1 DEF RepeatInv, BoxFields
  <2> QED
    BY <2>1, <2>2 DEF Known, NoMail
<1>5. CASE Emergency \/ SendTraffic
  <2>1. call' = call /\ \E m : box' = [box EXCEPT !.todo = Append(@, m)]
    BY <1>5 DEF Emergency, SendTraffic, Unasked
  <2> QED
    BY <2>1 DEF RepeatInv, BoxFields
<1>6. CASE UNCHANGED vars
  BY <1>6 DEF vars, layer
<1> QED
  BY <1>1, <1>2, <1>3, <1>4, <1>5, <1>6 DEF Next

\* the mailboxes of a slave keep their lengths
LEMMA NextRoomInv == RepeatInv /\ RoomInv /\ [Next]_vars => RoomInv'
<1> SUFFICES ASSUME RepeatInv, RoomInv, [Next]_vars PROVE box'.rl = box.rl
  BY DEF RoomInv
<1>1. "rl" \in DOMAIN box
  BY DEF RepeatInv, BoxFields
<1>2. CASE Start \/ SendRequest \/ Proceed \/ UNCHANGED vars
  BY <1>2 DEF Start, SendRequest, Proceed, vars, layer
<1>3. CASE LayerStep
  <2>1. CASE MailStep
    BY <1>1, <2>1 DEF MailStep, FoundEmpty, NotEmpty, WriteMail
  <2>2. CASE ReceiveStep
    BY <1>1, <2>2 DEF ReceiveStep, FoundAvailable, NotAvailable, ReadMail, ReadMiss, ToggleRepeat,
                      AwaitAck, AwaitAgain
  <2>3. CASE Expire \/ PopError \/ PutMail \/ RepeatMail
    BY <1>1, <2>3 DEF Expire, PopError, PutMail, RepeatMail
  <2> QED
    BY <1>3, <2>1, <2>2, <2>3 DEF LayerStep, Layer
<1>4. CASE \E busy \in BOOLEAN : TakeMail(busy)
  <2>1. \E t : box' = [box EXCEPT !.in = NoMail, !.seen = box.in.cnt, !.seenid = box.in.id, !.todo = t]
    BY <1>4 DEF TakeMail
  <2> QED
    BY <1>1, <2>1
<1>5. CASE Emergency \/ SendTraffic
  <2>1. \E m : box' = [box EXCEPT !.todo = Append(@, m)]
    BY <1>5 DEF Emergency, SendTraffic, Unasked
  <2> QED
    BY <1>1, <2>1
<1> QED
  BY <1>2, <1>3, <1>4, <1>5 DEF Next

LEMMA EoeKept ==
  ASSUME NEW T, EoeInv(T), UNCHANGED <<traffic, rx, box.todo, box.last>>, OfTraffic(T, box'.out)
  PROVE  EoeInv(T)'
  BY DEF EoeInv

LEMMA NextEoeInv ==
  ASSUME NEW T, Sent(T), RepeatInv, RoomInv, KnownInv, EoeInv(T), [Next]_vars
  PROVE  EoeInv(T)'
<1>1. /\ DOMAIN box = BoxFields /\ Stocked(T, box.todo) /\ OfTraffic(T, box.out) /\ OfTraffic(T, box.last)
      /\ HookKept(T, rx) /\ traffic \in Seq(T)
  BY DEF EoeInv, RepeatInv
<1>2. OfTraffic(T, NoMail)
  BY DEF OfTraffic, NoMail
<1>3. CASE Start \/ SendRequest \/ Proceed
  <2>1. UNCHANGED <<traffic, rx, box>>
    BY <1>3 DEF Start, SendRequest, Proceed
  <2> QED
    BY <1>1, <2>1, EoeKept
<1>4. CASE LayerStep
  <2>1. traffic' = traffic
    BY <1>4 DEF LayerStep, transfers
  <2>2. CASE ReadMail
    <3>1. box' = [box EXCEPT !.out = NoMail, !.unheard = FALSE]
          /\ rx' = IF IsFragment(box.out) THEN ecx_EOEreadfragment(rx, box.out, Room) ELSE rx
      BY <2>2 DEF ReadMail
    <3>2. box'.out = NoMail /\ UNCHANGED <<box.todo, box.last>>
      BY <1>1, <3>1 DEF BoxFields
    <3>3. HookKept(T, rx')
      BY <1>1, <3>1, HookStep DEF IsFragment, OfTraffic
    <3> QED
      BY <1>1, <1>2, <2>1, <3>2, <3>3 DEF EoeInv
  <2>3. CASE Layer /\ ~ReadMail
    <3>1. rx' = rx
      BY <2>3 DEF Layer, MailStep, ReceiveStep, FoundEmpty, NotEmpty, WriteMail, FoundAvailable, NotAvailable,
                  ReadMiss, ToggleRepeat, AwaitAck, AwaitAgain, Expire, PopError, PutMail, RepeatMail
    <3>2. CASE PutMail
      <4>1. box.todo # <<>>
            /\ box' = [box EXCEPT !.out = Head(box.todo), !.last = Head(box.todo), !.todo = Tail(@), !.unheard = FALSE]
        BY <3>2 DEF PutMail
      <4>2. box'.out = Head(box.todo) /\ box'.last = Head(box.todo) /\ box'.todo = Tail(box.todo)
        BY <1>1, <4>1 DEF BoxFields
      <4> QED
        BY <1>1, <2>1, <3>1, <4>1, <4>2, StockedSteps DEF EoeInv
    <3>3. CASE RepeatMail
      <4>1. box' = [box EXCEPT !.ack = box.req, !.unheard = FALSE, !.out = IF @ = NoMail THEN box.last ELSE @]
        BY <3>3 DEF RepeatMail
      <4>2. UNCHANGED <<box.todo, box.last>> /\ box'.out \in {box.out, box.last}
        BY <1>1, <4>1 DEF BoxFields
      <4> QED
        BY <1>1, <2>1, <3>1, <4>2, EoeKept
    <3>4. CASE Layer /\ ~ReadMail /\ ~PutMail /\ ~RepeatMail
      <4>1. UNCHANGED <<box.todo, box.last>> /\ box'.out \in {box.out, NoMail}
        <5>1. CASE box' = box
          BY <5>1
        <5>2. CASE \E fate \in Fates : WriteMail(fate)
          BY <1>1, <5>2 DEF WriteMail, BoxFields
        <5>3. CASE \E fate \in Fates : ReadMiss(fate)
          BY <1>1, <5>3 DEF ReadMiss, BoxFields
        <5>4. CASE \E fate \in Fates : ToggleRepeat(fate)
          BY <1>1, <5>4 DEF ToggleRepeat, BoxFields
        <5> QED
          BY <3>4, <5>1, <5>2, <5>3, <5>4
             DEF Layer, MailStep, ReceiveStep, FoundEmpty, NotEmpty, FoundAvailable, NotAvailable,
                 AwaitAck, AwaitAgain, Expire, PopError
      <4> QED
        BY <1>1, <1>2, <2>1, <3>1, <4>1, EoeKept
    <3> QED
      BY <2>3, <3>2, <3>3, <3>4
  <2> QED
    BY <1>4, <2>2, <2>3 DEF LayerStep
<1>5. CASE \E busy \in BOOLEAN : TakeMail(busy)
  <2>1. PICK busy \in BOOLEAN : TakeMail(busy)
    BY <1>5
  <2> DEFINE answers == Serve(srv, box.in, busy, box.rl).answers
  <2>2. UNCHANGED <<traffic, rx>>
        /\ box' = [box EXCEPT !.in = NoMail, !.seen = box.in.cnt, !.seenid = box.in.id,
                              !.todo = IF SameMail(box.in) THEN @ ELSE @ \o answers]
    BY <2>1 DEF TakeMail
  <2>3. Plain(answers)
    BY ServePlain DEF KnownInv, RoomInv
  <2> HIDE DEF answers
  <2>4. UNCHANGED <<box.out, box.last>> /\ (box'.todo = box.todo \/ box'.todo = box.todo \o answers)
    BY <1>1, <2>2 DEF BoxFields
  <2> QED
    BY ZenonT(40), <1>1, <2>2, <2>3, <2>4, StockedSteps DEF EoeInv
<1>6. CASE Emergency
  <2>1. UNCHANGED <<traffic, rx>>
        /\ box' = [box EXCEPT !.todo = Append(@, [type |-> "emergency", cmd |-> "none"])]
    BY <1>6 DEF Emergency, Unasked
  <2>2. UNCHANGED <<box.out, box.last>> /\ box'.todo = Append(box.todo, [type |-> "emergency", cmd |-> "none"])
    BY <1>1, <2>1 DEF BoxFields
  <2>3. OfTraffic(T, [type |-> "emergency", cmd |-> "none"])
    BY DEF OfTraffic
  <2> QED
    BY <1>1, <2>1, <2>2, <2>3, StockedSteps DEF EoeInv
<1>7. CASE SendTraffic
  <2>1. traffic # <<>> /\ traffic' = Tail(traffic) /\ rx' = rx
        /\ box' = [box EXCEPT !.todo = Append(@, Head(traffic))]
    BY <1>7 DEF SendTraffic, Unasked
  <2>2. UNCHANGED <<box.out, box.last>> /\ box'.todo = Append(box.todo, Head(traffic))
    BY <1>1, <2>1 DEF BoxFields
  <2>3. Head(traffic) \in T /\ traffic' \in Seq(T)
    BY <1>1, <2>1
  <2>4. OfTraffic(T, Head(traffic))
    BY <2>3 DEF OfTraffic
  <2> QED
    BY <1>1, <2>1, <2>2, <2>3, <2>4, StockedSteps DEF EoeInv
<1>8. CASE UNCHANGED vars
  BY <1>8 DEF vars, layer, transfers, EoeInv
<1> QED
  BY <1>3, <1>4, <1>5, <1>6, <1>7, <1>8 DEF Next

\* For any traffic whose frames that bear the same number are cut apart: what the
\* hook reports as a frame is one frame (ecx_EOEreadfragment).
THEOREM FramesAreIntact == Spec => []FrameIntact
<1>1. Init => RepeatInv /\ FragmentInv
  BY InitRepeatInv, InitFragmentInv
<1>2. ProcInv /\ RepeatInv /\ FragmentInv /\ [Next]_vars => RepeatInv' /\ FragmentInv'
  <2> SUFFICES ASSUME ProcInv, RepeatInv, FragmentInv, [Next]_vars PROVE FragmentInv'
    BY NextRepeatInv
  <2>1. PICK p \in Plans : EoeInv(TrafficOf(p))
    BY DEF FragmentInv
  <2>2. EoeInv(TrafficOf(p))'
    BY <2>1, TrafficSent, NextEoeInv DEF FragmentInv
  <2> QED
    BY <2>2, NextKnownInv, NextRoomInv DEF FragmentInv
<1>3. FragmentInv => FrameIntact
  <2> SUFFICES ASSUME FragmentInv, NEW a \in rx.complete, NEW b \in rx.complete PROVE a[1] = b[1] /\ a[2]
    BY DEF FrameIntact
  <2>1. PICK p \in Plans : EoeInv(TrafficOf(p))
    BY DEF FragmentInv
  <2>2. rx.complete = {} \/ \E x : rx.complete = {<<x, TRUE>>}
    BY <2>1 DEF EoeInv, HookKept
  <2>3. PICK x : rx.complete = {<<x, TRUE>>}
    BY <2>2
  <2>4. a = <<x, TRUE>> /\ b = <<x, TRUE>>
    BY <2>3
  <2> QED
    BY <2>4
<1> QED
  BY <1>1, <1>2, <1>3, ProcInductive, PTL DEF Spec

-----------------------------------------------------------------------------
(***************************************************************************)
(* The counter.  A request is lost only at the cost of a lost frame or a   *)
(* premature timeout, so the mailbox sent last is at most faults + 1 ahead *)
(* of the one the slave has seen, and its counter is ahead by as much, or  *)
(* by seven less.                                                          *)
(***************************************************************************)
Ahead(n, c, c0) == c - c0 = n \/ c - c0 = n - 7

\* a request that may still reach the slave
Pending == call.at = "write" \/ (call.at = "empty" /\ call.mail # NoMail)
Unsettled == IF Pending THEN faults + 1 ELSE faults

WholeCall(c) == "at" \in DOMAIN c /\ "mail" \in DOMAIN c /\ "expired" \in DOMAIN c

WholeBox(b) == "in" \in DOMAIN b /\ "seen" \in DOMAIN b /\ "seenid" \in DOMAIN b

Shapes == WholeCall(call) /\ WholeBox(box) /\ IsOp(op)

Counts ==
  /\ mbx_cnt \in 0 .. 7 /\ sent \in Nat /\ box.seen \in 0 .. 7 /\ box.seenid \in Nat
  /\ faults \in Nat /\ emergencies \in Nat /\ busies \in Nat /\ Trouble <= MaxTrouble

Requested ==
  Pending => /\ op.pc \notin {"send", "done"} /\ mbx_cnt # 0
             /\ call.mail # NoMail /\ call.mail.cnt = mbx_cnt /\ call.mail.id = sent

Emptied ==
  box.in = NoMail => /\ sent - box.seenid \in 0 .. Unsettled
                     /\ Ahead(sent - box.seenid, mbx_cnt, box.seen)

Filled ==
  box.in # NoMail => /\ box.in.cnt \in 1 .. 7 /\ box.in.id \in Nat
                     /\ sent - box.in.id \in 0 .. Unsettled
                     /\ Ahead(sent - box.in.id, mbx_cnt, box.in.cnt)
                     /\ box.in.id - box.seenid \in 0 .. faults + 1
                     /\ Ahead(box.in.id - box.seenid, box.in.cnt, box.seen)

\* where SM0 is full already the request is in it, or cannot be put there in time
Settled ==
  /\ call.at = "write" /\ box.in # NoMail => box.in.id = sent
  /\ Pending /\ call.at = "empty" /\ call.expired /\ box.in # NoMail
       => sent - box.in.id <= faults

CounterInv == Shapes /\ Counts /\ Requested /\ Emptied /\ Filled /\ Settled

LEMMA InitCounterInv == Init => CounterInv
<1> SUFFICES ASSUME Init PROVE CounterInv
  OBVIOUS
<1>1. mbx_cnt \in 0 .. 7
  BY PlanAssumption DEF Init
<1>2. /\ (\E rl : box = EmptyBox(mbx_cnt, rl)) /\ call = Idle /\ faults = 0 /\ sent = 0 /\ emergencies = 0
      /\ busies = 0 /\ IsOp(op)
  BY DEF Init, Call, IsOp, Fields
<1>3. box.in = NoMail /\ box.seen = mbx_cnt /\ box.seenid = 0
  BY <1>2 DEF EmptyBox
<1>4. ~Pending
  BY <1>2 DEF Idle, Pending
<1>5. Shapes
  BY <1>2 DEF Shapes, WholeCall, WholeBox, EmptyBox, Idle
<1>6. Counts
  BY <1>1, <1>2, <1>3, TroubleAssumption DEF Counts, Trouble
<1>7. Emptied
  BY <1>1, <1>2, <1>3, <1>4 DEF Emptied, Unsettled, Ahead
<1> QED
  BY <1>3, <1>4, <1>5, <1>6, <1>7 DEF CounterInv, Requested, Filled, Settled

\* The counter that follows is ahead by one more (ec_nextmbxcnt).
LEMMA NextCounter ==
  ASSUME NEW c \in 0 .. 7
  PROVE  /\ ec_nextmbxcnt(c) \in 1 .. 7 /\ ec_nextmbxcnt(c) # c
         /\ \A n \in 0 .. 6, c0 \in 0 .. 7 : Ahead(n, c, c0) => Ahead(n + 1, ec_nextmbxcnt(c), c0)
<1>1. CASE c = 7
  <2>1. ec_nextmbxcnt(c) = 1
    BY <1>1 DEF ec_nextmbxcnt
  <2> QED
    BY <1>1, <2>1 DEF Ahead
<1>2. CASE c # 7
  <2>1. ec_nextmbxcnt(c) = c + 1
    BY <1>2 DEF ec_nextmbxcnt
  <2> QED
    BY <1>2, <2>1 DEF Ahead
<1> QED
  BY <1>1, <1>2

\* Steps that leave SM0 as it is: no request becomes one that is under way, and
\* one that is given up had its lost frame, or is in SM0.
LineKept ==
  /\ faults' >= faults /\ mbx_cnt' = mbx_cnt /\ sent' = sent
  /\ box'.in = box.in /\ box'.seen = box.seen /\ box'.seenid = box.seenid
  /\ Pending' => /\ Pending /\ call'.mail = call.mail /\ op'.pc \notin {"send", "done"}
                 /\ call'.at = "write" => call.at = "write" \/ box.in = NoMail
                 /\ call'.at = "empty" => call.at = "empty"
                 /\ call'.expired => call.expired \/ box.in = NoMail \/ faults' > faults
  /\ Pending => \/ Pending' \/ faults' > faults
                \/ box.in # NoMail /\ sent - box.in.id <= faults

LEMMA LineUntouched ==
  ASSUME CounterInv, Shapes', Counts', LineKept
  PROVE  CounterInv'
<1> USE DEF CounterInv
<1>1. faults \in Nat /\ faults' \in Nat /\ sent \in Nat
  BY DEF Counts
<1>2. box.in # NoMail => sent - box.in.id \in 0 .. Unsettled'
  <2>1. CASE Pending'
    BY <1>1, <2>1 DEF LineKept, Filled, Unsettled
  <2>2. CASE ~Pending' /\ Pending
    BY <1>1, <2>2 DEF LineKept, Filled, Unsettled
  <2>3. CASE ~Pending' /\ ~Pending
    BY <1>1, <2>3 DEF LineKept, Filled, Unsettled
  <2> QED
    BY <2>1, <2>2, <2>3
<1>3. box.in = NoMail => sent - box.seenid \in 0 .. Unsettled'
  <2>1. CASE Pending'
    BY <1>1, <2>1 DEF LineKept, Emptied, Unsettled
  <2>2. CASE ~Pending' /\ Pending
    BY <1>1, <2>2 DEF LineKept, Emptied, Unsettled
  <2>3. CASE ~Pending' /\ ~Pending
    BY <1>1, <2>3 DEF LineKept, Emptied, Unsettled
  <2> QED
    BY <2>1, <2>2, <2>3
<1>4. Requested'
  BY DEF LineKept, Requested
<1>5. Emptied'
  BY <1>3 DEF LineKept, Emptied
<1>6. Filled'
  <2>1. box.in # NoMail => box.in.id - box.seenid \in 0 .. faults' + 1
    BY <1>1 DEF LineKept, Filled
  <2> QED
    BY <1>2, <2>1 DEF LineKept, Filled
<1>7. call'.at = "write" /\ box'.in # NoMail => box'.in.id = sent'
  BY DEF LineKept, Settled, Pending
<1>8. ASSUME Pending', call'.at = "empty", call'.expired, box'.in # NoMail
      PROVE  sent' - box'.in.id <= faults'
  <2>1. Pending /\ call.at = "empty" /\ box.in # NoMail
    BY <1>8 DEF LineKept
  <2>2. CASE call.expired
    BY <1>1, <2>1, <2>2 DEF LineKept, Settled, Filled
  <2>3. CASE faults' > faults
    BY <1>1, <2>1, <2>3 DEF LineKept, Filled, Unsettled
  <2> QED
    BY <1>8, <2>1, <2>2, <2>3 DEF LineKept
<1>9. Settled'
  BY <1>7, <1>8 DEF Settled
<1> QED
  BY <1>4, <1>5, <1>6, <1>9

-----------------------------------------------------------------------------
\* A fault is one of those there may be.
LEMMA FaultCounts ==
  ASSUME Counts, NEW f \in BOOLEAN, Faulty(f), UNCHANGED <<emergencies, busies>>
  PROVE  /\ faults' \in Nat /\ Trouble' <= MaxTrouble
         /\ faults' >= faults /\ (f => faults' > faults)
<1>1. CASE f
  BY <1>1, TroubleAssumption DEF Counts, Faulty, Trouble
<1>2. CASE ~f
  BY <1>2 DEF Counts, Faulty, Trouble
<1> QED
  BY <1>1, <1>2

\* The shape of a call survives what the mailbox functions do to it.
LEMMA CallShape ==
  ASSUME Shapes, NEW at, NEW w, NEW b, NEW mail
  PROVE  /\ WholeCall([call EXCEPT !.at = at]) /\ [call EXCEPT !.at = at].at = at
         /\ [call EXCEPT !.at = at].mail = call.mail
         /\ [call EXCEPT !.at = at].expired = call.expired
         /\ WholeCall([call EXCEPT !.at = at, !.wkc = w]) /\ [call EXCEPT !.at = at, !.wkc = w].at = at
         /\ WholeCall([call EXCEPT !.at = at, !.repeat = b])
         /\ [call EXCEPT !.at = at, !.repeat = b].at = at
         /\ WholeCall([call EXCEPT !.at = at, !.wkc = w, !.mail = mail])
         /\ [call EXCEPT !.at = at, !.wkc = w, !.mail = mail].at = at
         /\ WholeCall([call EXCEPT !.wkc = w]) /\ [call EXCEPT !.wkc = w].at = call.at
         /\ WholeCall([call EXCEPT !.expired = b]) /\ [call EXCEPT !.expired = b].at = call.at
         /\ [call EXCEPT !.expired = b].mail = call.mail
<1>1. WholeCall(call)
  BY DEF Shapes
<1>2. WholeCall([call EXCEPT !.at = at]) /\ [call EXCEPT !.at = at].at = at
  BY <1>1 DEF WholeCall
<1>3. [call EXCEPT !.at = at].mail = call.mail /\ [call EXCEPT !.at = at].expired = call.expired
  BY <1>1 DEF WholeCall
<1>4. WholeCall([call EXCEPT !.at = at, !.wkc = w]) /\ [call EXCEPT !.at = at, !.wkc = w].at = at
  BY <1>1 DEF WholeCall
<1>5. WholeCall([call EXCEPT !.at = at, !.repeat = b]) /\ [call EXCEPT !.at = at, !.repeat = b].at = at
  BY <1>1 DEF WholeCall
<1>6. /\ WholeCall([call EXCEPT !.at = at, !.wkc = w, !.mail = mail])
      /\ [call EXCEPT !.at = at, !.wkc = w, !.mail = mail].at = at
  BY <1>1 DEF WholeCall
<1>7. WholeCall([call EXCEPT !.wkc = w]) /\ [call EXCEPT !.wkc = w].at = call.at
  BY <1>1 DEF WholeCall
<1>8. /\ WholeCall([call EXCEPT !.expired = b]) /\ [call EXCEPT !.expired = b].at = call.at
      /\ [call EXCEPT !.expired = b].mail = call.mail
  BY <1>1 DEF WholeCall
<1> QED
  BY <1>2, <1>3, <1>4, <1>5, <1>6, <1>7, <1>8

LEMMA FoundEmptyCounter ==
  ASSUME CounterInv, FoundEmpty, UNCHANGED transfers
  PROVE  CounterInv'
<1> USE DEF CounterInv
<1>1. Counts'
  BY DEF FoundEmpty, Counts, Trouble, transfers
<1>2. CASE call.mail = NoMail
  <2>1. call' = [call EXCEPT !.at = "done", !.wkc = 1]
    BY <1>2 DEF FoundEmpty, Return
  <2>3. WholeCall(call') /\ call'.at = "done"
    BY <2>1 DEF Shapes, WholeCall
  <2>2. Shapes' /\ ~Pending' /\ ~Pending
    BY <1>2, <2>3 DEF FoundEmpty, Shapes, Pending, transfers
  <2> QED
    BY <1>1, <2>2, LineUntouched DEF FoundEmpty, LineKept, Counts, transfers
<1>3. CASE call.mail # NoMail
  <2>1. call' = [call EXCEPT !.at = "write"]
    BY <1>3 DEF FoundEmpty
  <2>2. call'.at = "write" /\ call'.mail = call.mail /\ call'.expired = call.expired
    BY <2>1, CallShape
  <2>3. Shapes'
    BY <2>1, CallShape DEF FoundEmpty, Shapes, transfers
  <2>4. Pending /\ Pending' /\ box.in = NoMail
    BY <1>3, <2>2 DEF FoundEmpty, Pending
  <2>5. op' = op /\ op.pc \notin {"send", "done"}
    BY <2>4 DEF transfers, Requested
  <2> QED
    BY <1>1, <2>2, <2>3, <2>4, <2>5, LineUntouched DEF FoundEmpty, LineKept, Counts, transfers
<1> QED
  BY <1>2, <1>3

LEMMA NotEmptyCounter ==
  ASSUME CounterInv, NotEmpty, UNCHANGED transfers
  PROVE  CounterInv'
<1> USE DEF CounterInv
<1>1. call' = [call EXCEPT !.at = "done", !.wkc = 0]
  BY DEF NotEmpty, Return
<1>2. WholeCall(call') /\ call'.at = "done"
  BY <1>1 DEF Shapes, WholeCall
<1>3. Shapes' /\ ~Pending'
  BY <1>2 DEF NotEmpty, Shapes, Pending, transfers
<1>4. /\ faults' \in Nat /\ Trouble' <= MaxTrouble /\ faults' >= faults
      /\ box.in = NoMail => faults' > faults
  BY FaultCounts DEF NotEmpty, transfers
<1>5. Counts'
  BY <1>4 DEF NotEmpty, Counts, transfers
<1>6. Pending => (box.in # NoMail /\ sent - box.in.id <= faults) \/ faults' > faults
  BY <1>4 DEF NotEmpty, Settled, Pending
<1> QED
  BY <1>3, <1>4, <1>5, <1>6, LineUntouched DEF NotEmpty, LineKept, transfers

\* The write that puts a request into SM0, or does not.
LEMMA WriteMailCounter ==
  ASSUME CounterInv, NEW fate \in Fates, WriteMail(fate), UNCHANGED transfers
  PROVE  CounterInv'
<1> USE DEF CounterInv
<1> DEFINE taken == fate # "lost" /\ box.in = NoMail
<1>1. /\ call.at = "write" /\ Faulty(fate # "arrives")
      /\ box' = IF taken THEN [box EXCEPT !.in = call.mail] ELSE box
      /\ UNCHANGED <<mbx_cnt, op, sent, emergencies, busies>>
  BY DEF WriteMail, transfers
<1>2. Pending /\ call.mail # NoMail /\ call.mail.cnt = mbx_cnt /\ call.mail.id = sent /\ mbx_cnt # 0
      /\ op.pc \notin {"send", "done"}
  BY <1>1 DEF Pending, Requested
<1>3. /\ faults' \in Nat /\ Trouble' <= MaxTrouble /\ faults' >= faults
      /\ fate # "arrives" => faults' > faults
  BY <1>1, FaultCounts
<1>4. \/ call' = call /\ fate # "arrives"
      \/ \E w : call' = [call EXCEPT !.at = "done", !.wkc = w]
  BY DEF WriteMail, Return
<1>5. WholeCall(call') /\ (Pending' => fate # "arrives" /\ call' = call)
  <2>1. CASE call' = call /\ fate # "arrives"
    BY <2>1 DEF Shapes
  <2>2. ASSUME NEW w, call' = [call EXCEPT !.at = "done", !.wkc = w]
        PROVE  WholeCall(call') /\ ~Pending'
    <3>1. WholeCall(call') /\ call'.at = "done"
      BY <2>2 DEF Shapes, WholeCall
    <3> QED
      BY <3>1 DEF Pending
  <2> QED
    BY <1>4, <2>1, <2>2
<1>6. CASE taken
  <2>1. /\ box'.in = call.mail /\ box'.seen = box.seen /\ box'.seenid = box.seenid
        /\ WholeBox(box')
    BY <1>1, <1>6 DEF Shapes, WholeBox
  <2>2. Counts'
    BY <1>1, <1>3, <2>1 DEF Counts
  <2>3. Requested'
    BY <1>1, <1>2, <1>5 DEF Requested
  <2>4. box'.in # NoMail /\ box'.in.cnt = mbx_cnt /\ box'.in.id = sent /\ mbx_cnt \in 1 .. 7
    BY <1>2, <2>1 DEF Counts
  <2>5. sent - box.seenid \in 0 .. faults + 1 /\ Ahead(sent - box.seenid, mbx_cnt, box.seen)
    BY <1>2, <1>6 DEF Emptied, Unsettled
  <2>6. sent' - box'.in.id = 0 /\ Ahead(0, mbx_cnt, mbx_cnt)
    BY <1>1, <2>4 DEF Ahead, Counts
  <2>7. Unsettled' \in Nat
    <3>3. PICK n \in Nat : faults' = n
      BY <1>3
    <3>1. CASE Pending'
      BY <3>1, <3>3 DEF Unsettled
    <3>2. CASE ~Pending'
      BY <3>2, <3>3 DEF Unsettled
    <3> QED
      BY <3>1, <3>2
  <2>8. sent - box.seenid \in 0 .. faults' + 1
    BY <1>3, <2>5 DEF Counts
  <2>9. Filled'
    BY <1>1, <2>1, <2>4, <2>5, <2>6, <2>7, <2>8 DEF Filled, Counts
  <2>10. Emptied'
    BY <2>4 DEF Emptied
  <2>11. Settled'
    BY <1>1, <1>3, <2>4, <2>6 DEF Settled
  <2>12. Shapes'
    BY <1>1, <1>5, <2>1 DEF Shapes
  <2> QED
    BY <2>2, <2>3, <2>9, <2>10, <2>11, <2>12
<1>7. CASE ~taken
  <2>1. box' = box
    BY <1>1, <1>7
  <2>2. Shapes'
    BY <1>1, <1>5, <2>1 DEF Shapes
  <2>3. Counts'
    BY <1>1, <1>3, <2>1 DEF Counts
  <2>4. box.in # NoMail => box.in.id = sent
    BY <1>1 DEF Settled
  <2>5. Pending' \/ faults' > faults \/ (box.in # NoMail /\ sent - box.in.id <= faults)
    <3>1. CASE fate # "arrives"
      BY <1>3, <3>1
    <3>2. CASE fate = "arrives"
      BY <1>7, <2>4, <3>2 DEF Counts
    <3> QED
      BY <3>1, <3>2
  <2>6. LineKept
    BY <1>1, <1>2, <1>3, <1>5, <2>1, <2>5 DEF LineKept
  <2> QED
    BY <2>2, <2>3, <2>6, LineUntouched
<1> QED
  BY <1>6, <1>7

-----------------------------------------------------------------------------
\* The receiving half: no request is under way, and SM0 is left alone.
Elsewhere == {"idle", "avail", "read", "toggle", "ack", "again", "done"}

LEMMA ReceivingUntouched ==
  ASSUME CounterInv, call.at \in Elsewhere, call'.at \in Elsewhere, WholeCall(call'), WholeBox(box'),
         IsOp(op'), box'.in = box.in, box'.seen = box.seen, box'.seenid = box.seenid,
         faults' \in Nat, faults' >= faults, emergencies' \in Nat, busies' \in Nat,
         Trouble' <= MaxTrouble, mbx_cnt' = mbx_cnt, sent' = sent
  PROVE  CounterInv'
<1>1. ~Pending /\ ~Pending'
  BY DEF Pending, Elsewhere
<1>2. Shapes'
  BY DEF Shapes
<1>3. Counts'
  BY DEF Counts, CounterInv
<1>4. LineKept
  BY <1>1 DEF LineKept
<1> QED
  BY <1>2, <1>3, <1>4, LineUntouched

LEMMA ReceiveStepCounter ==
  ASSUME CounterInv, ReceiveStep, UNCHANGED transfers
  PROVE  CounterInv'
<1> USE DEF CounterInv
<1>1. WholeCall(call) /\ WholeBox(box) /\ IsOp(op') /\ Counts
  BY DEF Shapes, transfers
<1>2. UNCHANGED <<mbx_cnt, sent, emergencies, busies>>
  BY DEF transfers, ReceiveStep, FoundAvailable, NotAvailable, ReadMail, ReadMiss, ToggleRepeat,
         AwaitAck, AwaitAgain
<1>3. call.at \in Elsewhere
  BY DEF Elsewhere, ReceiveStep, FoundAvailable, NotAvailable, ReadMail, ReadMiss, ToggleRepeat,
         AwaitAck, AwaitAgain
<1>4. ASSUME faults' = faults
      PROVE  faults' \in Nat /\ faults' >= faults /\ Trouble' <= MaxTrouble
  BY <1>1, <1>2, <1>4 DEF Counts, Trouble
<1>5. faults' \in Nat /\ faults' >= faults /\ Trouble' <= MaxTrouble
  <2>1. ASSUME NEW f \in BOOLEAN, Faulty(f)
        PROVE  faults' \in Nat /\ faults' >= faults /\ Trouble' <= MaxTrouble
    BY <1>1, <1>2, <2>1, FaultCounts
  <2>2. (\E lost \in BOOLEAN : NotAvailable(lost)) => \E f \in BOOLEAN : Faulty(f)
    BY DEF NotAvailable
  <2>3. (\E fate \in Fates : ReadMiss(fate) \/ ToggleRepeat(fate)) => \E f \in BOOLEAN : Faulty(f)
    BY DEF ReadMiss, ToggleRepeat
  <2>4. FoundAvailable \/ ReadMail \/ AwaitAck \/ AwaitAgain => faults' = faults
    BY DEF FoundAvailable, ReadMail, AwaitAck, AwaitAgain
  <2> QED
    BY <1>4, <2>1, <2>2, <2>3, <2>4 DEF ReceiveStep
<1>6. /\ WholeBox(box') /\ box'.in = box.in /\ box'.seen = box.seen /\ box'.seenid = box.seenid
  <2>1. CASE box' = box
    BY <1>1, <2>1
  <2>2. CASE box' = [box EXCEPT !.out = NoMail, !.unheard = FALSE]
    BY <1>1, <2>2 DEF WholeBox
  <2>3. CASE box' = [box EXCEPT !.out = NoMail, !.unheard = TRUE]
    BY <1>1, <2>3 DEF WholeBox
  <2>4. CASE box' = [box EXCEPT !.req = RepeatBit(call.repeat)]
    BY <1>1, <2>4 DEF WholeBox
  <2>5. FoundAvailable \/ AwaitAck \/ AwaitAgain \/ (\E lost \in BOOLEAN : NotAvailable(lost)) => box' = box
    BY DEF FoundAvailable, AwaitAck, AwaitAgain, NotAvailable
  <2> QED
    BY <2>1, <2>2, <2>3, <2>4, <2>5 DEF ReceiveStep, ReadMail, ReadMiss, ToggleRepeat
<1>7. WholeCall(call') /\ call'.at \in Elsewhere
  <2>1. ASSUME NEW at \in Elsewhere, NEW w, call' = [call EXCEPT !.at = at, !.wkc = w]
        PROVE  WholeCall(call') /\ call'.at \in Elsewhere
    BY <1>1, <2>1 DEF WholeCall
  <2>2. ASSUME NEW at \in Elsewhere, NEW b, call' = [call EXCEPT !.at = at, !.repeat = b]
        PROVE  WholeCall(call') /\ call'.at \in Elsewhere
    BY <1>1, <2>2 DEF WholeCall
  <2>3. ASSUME NEW at \in Elsewhere, call' = [call EXCEPT !.at = at]
        PROVE  WholeCall(call') /\ call'.at \in Elsewhere
    BY <1>1, <2>3 DEF WholeCall
  <2>4. CASE FoundAvailable
    BY <2>2, <2>4 DEF FoundAvailable, Elsewhere
  <2>5. CASE \E lost \in BOOLEAN : NotAvailable(lost)
    BY <2>1, <2>5 DEF NotAvailable, Return, Elsewhere
  <2>6. CASE ReadMail
    <3>1. CASE call' = [call EXCEPT !.wkc = 0]
      BY <1>1, <1>3, <3>1 DEF WholeCall
    <3>2. CASE call' = [call EXCEPT !.at = "done", !.wkc = 1, !.mail = box.out]
      BY <1>1, <3>2 DEF WholeCall, Elsewhere
    <3>3. CASE Return(0)
      BY <2>1, <3>3 DEF Return, Elsewhere
    <3> QED
      BY <2>6, <3>1, <3>2, <3>3 DEF ReadMail
  <2>7. CASE \E fate \in Fates : ReadMiss(fate)
    BY <2>1, <2>7 DEF ReadMiss, Elsewhere
  <2>8. CASE \E fate \in Fates : ToggleRepeat(fate)
    BY <2>2, <2>8 DEF ToggleRepeat, Elsewhere
  <2>9. CASE AwaitAck
    BY <2>3, <2>9 DEF AwaitAck, Elsewhere
  <2>10. CASE AwaitAgain
    BY <2>2, <2>3, <2>10 DEF AwaitAgain, Elsewhere
  <2> QED
    BY <2>4, <2>5, <2>6, <2>7, <2>8, <2>9, <2>10 DEF ReceiveStep
<1> QED
  BY <1>1, <1>2, <1>3, <1>5, <1>6, <1>7, ReceivingUntouched DEF Counts

\* The time of a call is up: where SM0 is full this was a fault.
LEMMA ExpireCounter ==
  ASSUME CounterInv, Expire, UNCHANGED transfers
  PROVE  CounterInv'
<1> USE DEF CounterInv
<1>1. call' = [call EXCEPT !.expired = TRUE] /\ WholeCall(call) /\ Faulty(~Due)
      /\ UNCHANGED <<mbx_cnt, box, op, sent, emergencies, busies>>
  BY DEF Expire, Shapes, transfers
<1>2. WholeCall(call') /\ call'.at = call.at /\ call'.mail = call.mail
  BY <1>1 DEF WholeCall
<1>3. faults' \in Nat /\ Trouble' <= MaxTrouble /\ faults' >= faults /\ (~Due => faults' > faults)
  BY <1>1, FaultCounts
<1>4. call.at = "empty" /\ box.in # NoMail => ~Due
  BY DEF Due
<1>5. call.at # "write"
  BY DEF Expire
<1>6. Shapes'
  BY <1>1, <1>2 DEF Shapes
<1>7. Counts'
  BY <1>1, <1>3 DEF Counts
<1>8. Pending' <=> Pending
  BY <1>2 DEF Pending
<1>9. Pending => op.pc \notin {"send", "done"} /\ call.at = "empty"
  BY <1>5 DEF Requested, Pending
<1>10. LineKept
  BY <1>1, <1>2, <1>3, <1>4, <1>8, <1>9 DEF LineKept
<1> QED
  BY <1>6, <1>7, <1>10, LineUntouched

\* The slave fills SM1, or the application takes an error: the call is as it was.
LEMMA CallUntouched ==
  ASSUME CounterInv, call' = call, WholeBox(box'), IsOp(op'),
         Pending => op'.pc \notin {"send", "done"},
         box'.in = box.in, box'.seen = box.seen, box'.seenid = box.seenid,
         faults' = faults, emergencies' \in Nat, busies' \in Nat,
         Trouble' <= MaxTrouble, mbx_cnt' = mbx_cnt, sent' = sent
  PROVE  CounterInv'
<1> USE DEF CounterInv
<1>1. Shapes' /\ Counts'
  BY DEF Shapes, Counts
<1>2. Pending' <=> Pending
  BY DEF Pending
<1>3. faults' >= faults
  BY DEF Counts
<1>4. LineKept
  BY <1>2, <1>3 DEF LineKept
<1> QED
  BY <1>1, <1>4, LineUntouched

LEMMA SlaveFillsCounter ==
  ASSUME CounterInv, PutMail \/ RepeatMail \/ PopError, UNCHANGED transfers
  PROVE  CounterInv'
<1> USE DEF CounterInv
<1>1. UNCHANGED <<call, op, faults, emergencies, busies, mbx_cnt, sent>>
  BY DEF PutMail, RepeatMail, PopError, transfers
<1>2. WholeBox(box) /\ IsOp(op')
  BY <1>1 DEF Shapes
<1>3. /\ WholeBox(box') /\ box'.in = box.in /\ box'.seen = box.seen /\ box'.seenid = box.seenid
  <2>1. CASE PutMail
    <3>1. box' = [box EXCEPT !.out = Head(box.todo), !.last = Head(box.todo), !.todo = Tail(@),
                             !.unheard = FALSE]
      BY <2>1 DEF PutMail
    <3> QED
      BY <1>2, <3>1 DEF WholeBox
  <2>2. CASE RepeatMail
    <3>1. box' = [box EXCEPT !.ack = box.req, !.unheard = FALSE,
                             !.out = IF @ = NoMail THEN box.last ELSE @]
      BY <2>2 DEF RepeatMail
    <3> QED
      BY <1>2, <3>1 DEF WholeBox
  <2>3. CASE PopError
    BY <1>2, <2>3 DEF PopError
  <2> QED
    BY <2>1, <2>2, <2>3
<1>4. Pending => op'.pc \notin {"send", "done"}
  BY <1>1 DEF Requested
<1>5. faults' = faults /\ emergencies' \in Nat /\ busies' \in Nat /\ Trouble' <= MaxTrouble
  BY <1>1 DEF Counts, Trouble
<1> QED
  BY <1>1, <1>2, <1>3, <1>4, <1>5, CallUntouched

LEMMA UnaskedCounter ==
  ASSUME CounterInv, Emergency \/ SendTraffic
  PROVE  CounterInv'
<1> USE DEF CounterInv
<1>1. UNCHANGED <<call, op, faults, busies, mbx_cnt, sent>>
  BY DEF Emergency, SendTraffic, Unasked
<1>2. WholeBox(box) /\ IsOp(op')
  BY <1>1 DEF Shapes
<1>3. /\ WholeBox(box') /\ box'.in = box.in /\ box'.seen = box.seen /\ box'.seenid = box.seenid
  <2>1. \E mail : box' = [box EXCEPT !.todo = Append(@, mail)]
    BY DEF Emergency, SendTraffic, Unasked
  <2> QED
    BY <1>2, <2>1 DEF WholeBox
<1>4. Pending => op'.pc \notin {"send", "done"}
  BY <1>1 DEF Requested
<1>5. emergencies' \in Nat /\ Trouble' <= MaxTrouble
  <2>1. CASE Emergency
    BY <1>1, <2>1, TroubleAssumption DEF Emergency, Counts, Trouble
  <2>2. CASE SendTraffic
    BY <1>1, <2>2 DEF SendTraffic, Counts, Trouble
  <2> QED
    BY <2>1, <2>2
<1>6. faults' = faults /\ busies' \in Nat
  BY <1>1 DEF Counts
<1> QED
  BY <1>1, <1>2, <1>3, <1>4, <1>5, <1>6, CallUntouched

\* The slave empties SM0: what was in it is what it has seen.
LEMMA TakeMailCounter ==
  ASSUME CounterInv, NEW busy \in BOOLEAN, TakeMail(busy)
  PROVE  CounterInv'
<1> USE DEF CounterInv
<1>1. /\ box.in # NoMail /\ UNCHANGED <<mbx_cnt, call, faults, op, sent, emergencies>>
      /\ \E t : box' = [box EXCEPT !.in = NoMail, !.seen = box.in.cnt, !.seenid = box.in.id,
                                   !.todo = t]
  BY DEF TakeMail
<1>2. /\ WholeBox(box') /\ box'.in = NoMail /\ box'.seen = box.in.cnt /\ box'.seenid = box.in.id
  BY <1>1 DEF Shapes, WholeBox
<1>3. Shapes'
  BY <1>1, <1>2 DEF Shapes
<1>4. busies' \in Nat /\ Trouble' <= MaxTrouble
  <2>1. CASE busy
    BY <1>1, <2>1, TroubleAssumption DEF TakeMail, Counts, Trouble
  <2>2. CASE ~busy
    BY <1>1, <2>2 DEF TakeMail, Counts, Trouble
  <2> QED
    BY <2>1, <2>2
<1>5. Counts'
  BY <1>1, <1>2, <1>4 DEF Counts, Filled
<1>6. (Pending' <=> Pending) /\ Unsettled' = Unsettled
  BY <1>1 DEF Pending, Unsettled
<1>7. Requested'
  BY <1>1, <1>6 DEF Requested
<1>8. Emptied'
  BY <1>1, <1>2, <1>6 DEF Emptied, Filled
<1>9. Filled' /\ Settled'
  BY <1>2 DEF Filled, Settled
<1> QED
  BY <1>3, <1>5, <1>7, <1>8, <1>9

-----------------------------------------------------------------------------
LEMMA StartCounter ==
  ASSUME CounterInv, Start
  PROVE  CounterInv'
<1> USE DEF CounterInv
<1>1. ~Pending
  BY DEF Start, Requested
<1>2. /\ UNCHANGED <<mbx_cnt, box, faults, sent, emergencies, busies>>
      /\ IsOp(op')
  BY DEF Start, Call, IsOp, Fields
<1>3. WholeCall(call') /\ ~Pending'
  BY DEF Start, Idle, Receive, WholeCall, Pending
<1>4. Shapes' /\ Counts'
  BY <1>2, <1>3 DEF Shapes, Counts, Trouble
<1>5. LineKept
  BY <1>1, <1>2, <1>3 DEF LineKept, Counts
<1> QED
  BY <1>4, <1>5, LineUntouched

LEMMA ProceedCounter ==
  ASSUME CounterInv, Proceed, IsOp(op')
  PROVE  CounterInv'
<1> USE DEF CounterInv
<1>1. ~Pending
  BY DEF Proceed, Pending
<1>2. UNCHANGED <<mbx_cnt, box, faults, sent, emergencies, busies>>
  BY DEF Proceed
<1>3. \/ call' = Receive(FALSE) \/ call' = AwaitEmpty \/ call' = Idle
  BY DEF Proceed
<1>4. WholeCall(call') /\ ~Pending'
  <2>1. CASE call' = Receive(FALSE)
    BY <2>1 DEF Idle, Receive, WholeCall, Pending
  <2>2. CASE call' = AwaitEmpty
    BY <2>2 DEF Idle, AwaitEmpty, WholeCall, Pending
  <2>3. CASE call' = Idle
    BY <2>3 DEF Idle, WholeCall, Pending
  <2> QED
    BY <1>3, <2>1, <2>2, <2>3
<1>5. Shapes' /\ Counts'
  BY <1>2, <1>4 DEF Shapes, Counts, Trouble
<1>6. LineKept
  BY <1>1, <1>2, <1>4 DEF LineKept, Counts
<1> QED
  BY <1>5, <1>6, LineUntouched

\* A request goes out: it has the next counter, and no other one is under way.
LEMMA SendRequestCounter ==
  ASSUME CounterInv, SendRequest, MaxTrouble < 6
  PROVE  CounterInv'
<1> USE DEF CounterInv
<1> DEFINE c == ec_nextmbxcnt(mbx_cnt)
<1>1. /\ op.pc = "send" /\ mbx_cnt' = c /\ sent' = sent + 1
      /\ op' = [NextRequest(op).op EXCEPT !.pc = "sending"]
      /\ call' = Send(Numbered(NextRequest(op).mail, c, sent + 1))
      /\ UNCHANGED <<box, faults, emergencies, busies>>
  BY DEF SendRequest
<1>2. ~Pending
  BY <1>1 DEF Requested
<1>3. c \in 1 .. 7
  BY NextCounter DEF Counts
<1>4. IsOp(op') /\ op'.pc = "sending"
  BY <1>1, RequestSteps DEF Shapes, SameJob, IsOp, Fields
<1>5. ASSUME NEW r
      PROVE  LET m == Numbered(r, c, sent + 1)
             IN  m.cnt = c /\ m.id = sent + 1 /\ m # NoMail
  <2> DEFINE m == Numbered(r, c, sent + 1)
  <2>1. m.cnt = c /\ m.id = sent + 1
    BY DEF Numbered
  <2>2. "cnt" \in DOMAIN m /\ "cnt" \notin DOMAIN NoMail
    BY DEF Numbered, NoMail
  <2> QED
    BY <2>1, <2>2
<1>6. /\ WholeCall(call') /\ call'.at = "empty" /\ call'.mail # NoMail /\ ~call'.expired
      /\ call'.mail.cnt = c /\ call'.mail.id = sent + 1
  BY <1>1, <1>5 DEF Send, Idle, WholeCall
<1>7. Pending' /\ Unsettled' = faults + 1 /\ Unsettled = faults
  BY <1>1, <1>2, <1>6 DEF Pending, Unsettled
<1>8. Shapes'
  BY <1>1, <1>4, <1>6 DEF Shapes
<1>9. Counts'
  BY <1>1, <1>3 DEF Counts, Trouble
<1>10. Requested'
  BY <1>1, <1>3, <1>4, <1>6 DEF Requested
<1>11. faults \in 0 .. 5
  BY TroubleAssumption DEF Counts, Trouble
<1>12. ASSUME NEW n \in 0 .. faults, NEW c0 \in 0 .. 7, Ahead(n, mbx_cnt, c0)
       PROVE  n + 1 \in 0 .. faults + 1 /\ Ahead(n + 1, c, c0)
  BY <1>11, <1>12, NextCounter DEF Counts
<1>13. box.in = NoMail => /\ sent + 1 - box.seenid \in 0 .. faults + 1
                          /\ Ahead(sent + 1 - box.seenid, c, box.seen)
  <2> SUFFICES ASSUME box.in = NoMail
               PROVE  /\ sent + 1 - box.seenid \in 0 .. faults + 1
                      /\ Ahead(sent + 1 - box.seenid, c, box.seen)
    OBVIOUS
  <2>1. sent - box.seenid \in 0 .. faults /\ Ahead(sent - box.seenid, mbx_cnt, box.seen)
    BY <1>7 DEF Emptied
  <2>2. sent + 1 - box.seenid = (sent - box.seenid) + 1
    BY DEF Counts
  <2> QED
    BY <1>12, <2>1, <2>2 DEF Counts
<1>14. box.in # NoMail => /\ sent + 1 - box.in.id \in 0 .. faults + 1
                          /\ Ahead(sent + 1 - box.in.id, c, box.in.cnt)
  <2> SUFFICES ASSUME box.in # NoMail
               PROVE  /\ sent + 1 - box.in.id \in 0 .. faults + 1
                      /\ Ahead(sent + 1 - box.in.id, c, box.in.cnt)
    OBVIOUS
  <2>1. sent - box.in.id \in 0 .. faults /\ Ahead(sent - box.in.id, mbx_cnt, box.in.cnt)
    BY <1>7 DEF Filled
  <2>2. sent + 1 - box.in.id = (sent - box.in.id) + 1 /\ box.in.cnt \in 0 .. 7
    BY DEF Counts, Filled
  <2> QED
    BY <1>12, <2>1, <2>2
<1>15. box' = box /\ sent' = sent + 1 /\ mbx_cnt' = c /\ Unsettled' = faults + 1 /\ faults' = faults
  BY <1>1, <1>7
<1> HIDE DEF c
<1>16. PICK n \in Nat : n = sent + 1 /\ sent' = n
  BY <1>15 DEF Counts
<1>17. PICK u \in Nat : u = faults + 1 /\ Unsettled' = u
  BY <1>11, <1>15
<1>18. Emptied'
  <2>1. box.in = NoMail => n - box.seenid \in 0 .. u /\ Ahead(n - box.seenid, c, box.seen)
    BY <1>11, <1>13, <1>16, <1>17 DEF Counts
  <2> QED
    BY <1>15, <1>16, <1>17, <2>1 DEF Emptied
<1>19. Filled'
  <2>1. box.in # NoMail => n - box.in.id \in 0 .. u /\ Ahead(n - box.in.id, c, box.in.cnt)
    BY <1>11, <1>14, <1>16, <1>17 DEF Counts, Filled
  <2> QED
    BY <1>15, <1>16, <1>17, <2>1 DEF Filled
<1>20. Settled'
  BY <1>6 DEF Settled
<1> QED
  BY <1>8, <1>9, <1>10, <1>20, <1>18, <1>19

-----------------------------------------------------------------------------
LEMMA NextCounterInv ==
  ASSUME MaxTrouble < 6, CounterInv, [Next]_vars
  PROVE  CounterInv'
<1>1. CASE Start
  BY <1>1, StartCounter
<1>2. CASE SendRequest
  BY <1>2, SendRequestCounter
<1>3. CASE Proceed
  <2>1. IsOp(op')
    BY <1>3, ProceedSteps, SameJobs DEF CounterInv, Shapes, GoesOn
  <2> QED
    BY <1>3, <2>1, ProceedCounter
<1>4. CASE LayerStep
  <2>1. UNCHANGED transfers
    BY <1>4 DEF LayerStep
  <2>2. CASE FoundEmpty
    BY <2>1, <2>2, FoundEmptyCounter
  <2>3. CASE NotEmpty
    BY <2>1, <2>3, NotEmptyCounter
  <2>4. CASE \E fate \in Fates : WriteMail(fate)
    BY <2>1, <2>4, WriteMailCounter
  <2>5. CASE ReceiveStep
    BY <2>1, <2>5, ReceiveStepCounter
  <2>6. CASE Expire
    BY <2>1, <2>6, ExpireCounter
  <2>7. CASE PutMail \/ RepeatMail \/ PopError
    BY <2>1, <2>7, SlaveFillsCounter
  <2> QED
    BY <1>4, <2>2, <2>3, <2>4, <2>5, <2>6, <2>7 DEF LayerStep, Layer, MailStep
<1>5. CASE \E busy \in BOOLEAN : TakeMail(busy)
  BY <1>5, TakeMailCounter
<1>6. CASE Emergency \/ SendTraffic
  BY <1>6, UnaskedCounter
<1>7. CASE UNCHANGED vars
  <2>1. UNCHANGED <<mbx_cnt, call, box, faults, op, sent, emergencies, busies>>
    BY <1>7 DEF vars, layer, transfers
  <2>2. CounterInv' = CounterInv
    BY <2>1 DEF CounterInv, Shapes, Counts, Requested, Emptied, Filled, Settled, Pending, Unsettled, Trouble
  <2> QED
    BY <2>2
<1> QED
  BY <1>1, <1>2, <1>3, <1>4, <1>5, <1>6, <1>7 DEF Next

LEMMA CounterInvTells ==
  ASSUME MaxTrouble < 6, CounterInv
  PROVE  CounterTells
<1> SUFFICES ASSUME box.in # NoMail
             PROVE  SameMail(box.in) <=> box.in.id = box.seenid
  BY DEF CounterTells
<1>1. faults \in 0 .. 5
  BY TroubleAssumption DEF CounterInv, Counts, Trouble
<1>2. /\ box.in.cnt \in 1 .. 7 /\ box.in.id \in Nat /\ box.seen \in 0 .. 7 /\ box.seenid \in Nat
      /\ box.in.id - box.seenid \in 0 .. faults + 1
      /\ Ahead(box.in.id - box.seenid, box.in.cnt, box.seen)
  BY DEF CounterInv, Counts, Filled
<1>3. box.in.id - box.seenid \in 0 .. 6
  BY <1>1, <1>2
<1>4. box.in.cnt = box.seen <=> box.in.id = box.seenid
  BY <1>2, <1>3 DEF Ahead
<1> QED
  BY <1>2, <1>4 DEF SameMail

\* Whatever calls are made to whatever slave: while there is less than six times
\* trouble, the three bits of the counter tell a copy of a mailbox from the next
\* mailbox (ec_nextmbxcnt).  With one more loss they do not: seven requests after
\* the one the slave has seen the counter is the same.
THEOREM CounterAlwaysTells ==
  ASSUME MaxTrouble < 6
  PROVE  Spec => []CounterTells
<1>1. Init => CounterInv
  BY InitCounterInv
<1>2. CounterInv /\ [Next]_vars => CounterInv'
  BY NextCounterInv
<1>3. CounterInv => CounterTells
  BY CounterInvTells
<1> QED
  BY <1>1, <1>2, <1>3, PTL DEF Spec
=============================================================================
